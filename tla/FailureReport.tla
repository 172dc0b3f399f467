---------------------------- MODULE FailureReport ----------------------------
(***************************************************************************)
(* The report of failed feeds (internal/rss/feed: failure_report.go,       *)
(* fetch_error.go, errors.go).  Pure operators: what an error is taken     *)
(* for, what the state file of the last run makes of it, and how the       *)
(* failures are grouped.  Newsletter holds the state file.                 *)
(*                                                                         *)
(* An error is the set of what the classification can find out about it,   *)
(* in its chain ("deadline", "s503", ...) or in its text ("txt...").       *)
(***************************************************************************)
EXTENDS Naturals, Sequences, FiniteSets

CONSTANTS
  Urls,           \* the feeds' URLs
  UrlOrder,       \* the same as a sequence, in the order of strings.Compare
  HostOf,         \* HostOf[u]: the host of URL u
  EscalateAfter,  \* transientEscalateAfterRuns
  Suppress,       \* suppressTransientUntilEscalated
  ExampleLimit    \* exampleLimit

FailureReportAssumption ==
  /\ UrlOrder \in Seq(Urls) /\ \A u \in Urls : \E i \in DOMAIN UrlOrder : UrlOrder[i] = u
  /\ EscalateAfter \in Nat \ {0} /\ ExampleLimit \in Nat \ {0}
  /\ Suppress \in BOOLEAN

-----------------------------------------------------------------------------
(* inspectFetchError: the first of these that holds of the error decides.  *)

Class(fact, kind, transient) == [fact |-> fact, kind |-> kind, transient |-> transient]

RiskControl == << Class("risk", "http_status", TRUE) >>

Typed == <<
  Class("canceled", "context_canceled", TRUE), Class("deadline", "timeout", TRUE),
  Class("s429", "http_status", TRUE), Class("s5xx", "http_status", TRUE),
  Class("s4xx", "http_status", FALSE), Class("dns", "dns", TRUE),
  Class("opTimeout", "timeout", TRUE), Class("opTls", "tls", TRUE),
  Class("opConn", "network", TRUE), Class("netTimeout", "timeout", TRUE),
  Class("urlTimeout", "timeout", TRUE), Class("reset", "network", TRUE),
  Class("notFeed", "parse", FALSE) >>

ByMessage == <<
  Class("txtCanceled", "context_canceled", TRUE), Class("txtTimeout", "timeout", TRUE),
  Class("txtDns", "dns", TRUE), Class("txtTls", "tls", TRUE),
  Class("txt5xx", "http_status", TRUE), Class("txt4xx", "http_status", FALSE),
  Class("txtParse", "parse", FALSE), Class("txtConn", "network", TRUE) >>

Classes == RiskControl \o Typed \o ByMessage

Kinds == {"timeout", "dns", "tls", "http_status", "parse", "context_canceled", "network",
          "unknown"}

Unknown == [kind |-> "unknown", transient |-> FALSE]

\* What the report knows of an error: its kind and whether it may pass.
Classify(err) ==
  LET hits == {i \in DOMAIN Classes : Classes[i].fact \in err}
  IN IF hits = {} THEN Unknown
     ELSE LET first == Classes[CHOOSE i \in hits : \A j \in hits : i <= j]
          IN [kind |-> first.kind, transient |-> first.transient]

-----------------------------------------------------------------------------
(* The state file: per URL that failed in the last run its kind and how    *)
(* often it has failed in a row.                                           *)

NoItem == [kind |-> "", runs |-> 0]

NewItem(u, previous, class) ==
  [kind |-> class.kind,
   runs |-> IF previous[u].kind = class.kind THEN previous[u].runs + 1 ELSE 1]

(* Mutant of NextState: what has recovered keeps its count. *)
NextStateKeeps(failed, previous) ==
  [u \in Urls |-> IF u \in DOMAIN failed THEN NewItem(u, previous, failed[u]) ELSE previous[u]]

\* failed[u] is the class of u's failure; URLs that did not fail leave the file.
NextState(failed, previous) ==
  [u \in Urls |-> IF u \in DOMAIN failed THEN NewItem(u, previous, failed[u]) ELSE NoItem]

-----------------------------------------------------------------------------
(* buildGroupedFailureReport: one group per host and kind.                 *)

Precedes(u, v) == \E i, j \in DOMAIN UrlOrder : UrlOrder[i] = u /\ UrlOrder[j] = v /\ i < j

FirstOf(members) == CHOOSE u \in members : \A v \in members \ {u} : Precedes(u, v)

Members(failed, host, kind) ==
  {u \in DOMAIN failed : HostOf[u] = host /\ failed[u].kind = kind}

(* Mutant of Group: one run late. *)
GroupLate(failed, state, host, kind) ==
  LET members   == Members(failed, host, kind)
      transient == failed[FirstOf(members)].transient
      escalated == ~transient \/ \E u \in members : state[u].runs > EscalateAfter
  IN [host |-> host, kind |-> kind, members |-> members, transient |-> transient,
      escalated |-> escalated, suppressed |-> transient /\ ~escalated /\ Suppress,
      examples |-> {u \in members : Cardinality({v \in members : Precedes(v, u)}) < ExampleLimit}]

\* A group takes Transient from the first of its URLs that it meets.
Group(failed, state, host, kind) ==
  LET members   == Members(failed, host, kind)
      transient == failed[FirstOf(members)].transient
      escalated == ~transient \/ \E u \in members : state[u].runs >= EscalateAfter
  IN [host |-> host, kind |-> kind, members |-> members, transient |-> transient,
      escalated |-> escalated, suppressed |-> transient /\ ~escalated /\ Suppress,
      examples |-> {u \in members : Cardinality({v \in members : Precedes(v, u)}) < ExampleLimit}]

Groups(failed, state) ==
  {Group(failed, state, HostOf[u], failed[u].kind) : u \in DOMAIN failed}
=============================================================================
