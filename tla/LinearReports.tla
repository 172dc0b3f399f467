---------------------------- MODULE LinearReports ----------------------------
(***************************************************************************)
(* `linear2nl morning` and `linear2nl evening` (cmd/linear2nl, internal/   *)
(* linear): issues of Linear are queried, reviewed by an AI and mailed.    *)
(* The evening report sends four queries at the same time through one      *)
(* client, while the user goes on working.  It runs after midnight, and    *)
(* reports on the day before.                                              *)
(*                                                                         *)
(* Time is a number of hours, local, from some midnight, a day before      *)
(* anything happens.                                                       *)
(***************************************************************************)
EXTENDS Integers, Sequences, FiniteSets

CONSTANTS
  Issues,     \* <<...>>: the issues of the teams assigned to the viewer, as Linear orders them
  Sub,        \* those that have a parent
  Page,       \* how many issues a query returns at most: one number here, 50 for issues
              \* (client.go:84) and 20 for state changes (client.go:113) in the code
  History,    \* how many entries of an issue's history, newest first (5)
  Shown,      \* how many issues the morning report shows (15)
  Offset,     \* local time minus UTC
  HasAI,      \* an API key for the AI is set
  Faults,     \* which of "query", "ai", "mail" may fail
  Hours,      \* bound: when something may happen
  MaxMoves, MaxRuns  \* bounds

All == {Issues[i] : i \in DOMAIN Issues}

ASSUME LinearAssumption ==
  /\ Issues \in Seq(All)
  /\ Page \in Nat \ {0} /\ History \in Nat \ {0} /\ Shown \in Nat \ {0}
  /\ Hours \subseteq Nat \ (0 .. 23) /\ Offset \in 0 .. 23
  /\ HasAI \in BOOLEAN

Types == {"backlog", "unstarted", "started", "completed", "canceled"}
Queries == {"completed", "changes", "progress", "details"}

VARIABLES
  now,
  type,       \* per issue the type of its state
  done,       \* completedAt, -1 for never
  updated,    \* updatedAt
  history,    \* per issue its state changes, oldest first: records [from, to, at]
  kind,       \* morning or evening
  pc,         \* where the run is
  begun,      \* when it began
  since,      \* todayStart, the beginning of yesterday
  step,       \* per query: where its goroutine is
  transport,  \* Transport of the shared client: nil, torn (half written) or auth
  bare,       \* a request was sent without the token
  answer,     \* per query the result: issues, or state changes; {} if it failed
  failed,     \* GetCompletedTodayIssues failed
  reviewed,   \* the issues of which the AI's answer has a review or plan
  reports,    \* what was delivered: records [kind, begun, since, completed, changes, progress, reviewed]
  moves, runs

server == <<type, done, updated, history, moves>>
process == <<kind, pc, begun, since, step, transport, bare, answer, failed, reviewed>>
vars == <<now, server, process, reports, runs>>

Quiet == [q \in Queries |-> "off"]
NoAnswer == [q \in Queries |-> {}]

Init ==
  /\ now \in Hours
  /\ type = [i \in All |-> "unstarted"]
  /\ done = [i \in All |-> -1] /\ updated = [i \in All |-> 0]
  /\ history = [i \in All |-> <<>>]
  /\ kind = "morning" /\ pc = "idle" /\ begun = 0 /\ since = 0
  /\ step = Quiet /\ transport = "nil" /\ bare = FALSE
  /\ answer = NoAnswer /\ failed = FALSE /\ reviewed = {}
  /\ reports = {} /\ moves = 0 /\ runs = 0

-----------------------------------------------------------------------------
(* Linear, and the user.                                                   *)

Tick ==
  /\ \E t \in Hours : t > now /\ now' = t
  /\ UNCHANGED <<server, process, reports, runs>>

Move ==
  /\ moves < MaxMoves
  /\ moves' = moves + 1
  /\ \E i \in All, t \in Types :
       /\ t # type[i]
       /\ type' = [type EXCEPT ![i] = t]
       /\ done' = [done EXCEPT ![i] = IF t = "completed" THEN now ELSE -1]
       /\ updated' = [updated EXCEPT ![i] = now]
       /\ history' = [history EXCEPT ![i] = Append(@, [from |-> type[i], to |-> t, at |-> now])]
  /\ UNCHANGED <<now, process, reports, runs>>

-----------------------------------------------------------------------------
(* The queries: the filter of each, and what is kept of the first page.    *)

FirstPage(matching) ==
  LET found == {n \in DOMAIN Issues : Issues[n] \in matching}
  IN {Issues[n] : n \in {m \in found : Cardinality({k \in found : k <= m}) <= Page}}

\* baseFilter
Active(i) == type[i] \notin {"completed", "canceled", "backlog"}

\* mapAssignedIssues: sub-issues are skipped, after the page was cut.
Top(issues) == issues \ Sub

CompletedSince == {i \in All : done[i] >= since}
UpdatedSince   == {i \in All : updated[i] >= since}
ActiveUpdated  == {i \in UpdatedSince : Active(i)}

(* Mutant of Started: completed issues are in progress as well. *)
StartedWide == {i \in All : Active(i) \/ type[i] = "completed"}
Started     == {i \in All : type[i] = "started"}

Newest(i) == {n \in DOMAIN history[i] : n > Len(history[i]) - History}

\* Two texts are compared, createdAt in UTC and since in local time.
TooOld(change) == change.at - Offset < since

ChangesOf(i) == {<<i, history[i][n]>> : n \in {m \in Newest(i) : ~TooOld(history[i][m])}}

Result(q) ==
  CASE q = "completed" -> Top(FirstPage(CompletedSince))
    [] q = "changes"   -> UNION {ChangesOf(i) : i \in FirstPage(ActiveUpdated)}
    [] q = "progress"  -> Top(FirstPage(Started))
    [] q = "details"   -> FirstPage(UpdatedSince)

-----------------------------------------------------------------------------
(* The runs.                                                               *)

(* Mutant of StartOfYesterday: the day is the current one. *)
StartOfToday == 24 * (now \div 24)

\* carbon.Yesterday().StartOfDay()
StartOfYesterday == 24 * (now \div 24) - 24

Begin(where) ==
  /\ pc = "idle" /\ runs < MaxRuns
  /\ runs' = runs + 1
  /\ pc' = where /\ begun' = now /\ transport' = "nil"
  /\ UNCHANGED <<now, server, bare, answer, failed, reviewed, reports>>

Morning == Begin("active") /\ kind' = "morning" /\ UNCHANGED <<since, step>>

Evening ==
  Begin("query") /\ kind' = "evening" /\ since' = StartOfYesterday /\ step' = [q \in Queries |-> "client"]

\* runMorning: one query, cut to what is shown.
ActiveIssues ==
  /\ pc = "active"
  /\ \/ /\ LET found == SelectSeq(Issues, Active)
           IN answer' = [answer EXCEPT !["details"] = {found[n] : n \in {m \in DOMAIN found : m <= Page /\ m <= Shown}}]
        /\ pc' = IF answer'["details"] = {} THEN "empty" ELSE "plan"
     \/ "query" \in Faults /\ pc' = "over" /\ UNCHANGED answer
  /\ UNCHANGED <<now, server, kind, begun, since, step, transport, bare, failed, reviewed, reports, runs>>

(* Mutant of Wrap: only a query that comes second wraps the transport. *)
WrapLate(q) ==
  /\ pc = "query" /\ step[q] = "client"
  /\ step' = [step EXCEPT ![q] = "send"]
  /\ transport' = IF transport = "nil" /\ (\E r \in Queries \ {q} : step[r] = "send") THEN "auth" ELSE transport
  /\ UNCHANGED <<now, server, kind, pc, begun, since, bare, answer, failed, reviewed, reports, runs>>

\* graphQLClient: the transport of the shared client is wrapped, without a
\* lock: one half of the interface is written, then the other.
Wrap(q) ==
  /\ pc = "query"
  /\ \/ /\ step[q] = "client" /\ step' = [step EXCEPT ![q] = "wrap"]
        /\ transport' = IF transport = "nil" THEN "torn" ELSE transport
     \/ step[q] = "wrap" /\ step' = [step EXCEPT ![q] = "send"] /\ transport' = "auth"
  /\ UNCHANGED <<now, server, kind, pc, begun, since, bare, answer, failed, reviewed, reports, runs>>

\* Reading it between the halves is a use of a nil pointer.
Panic ==
  /\ pc = "query" /\ transport = "torn"
  /\ \E q \in Queries : step[q] = "client"
  /\ pc' = "over" /\ step' = Quiet
  /\ UNCHANGED <<now, server, kind, begun, since, transport, bare, answer, failed, reviewed, reports, runs>>

\* The request and its answer; http.Client without a transport uses the default one.
Query(q) ==
  /\ pc = "query" /\ step[q] = "send"
  /\ bare' = (bare \/ transport = "nil")
  /\ step' = [step EXCEPT ![q] = "off"]
  /\ \/ answer' = [answer EXCEPT ![q] = Result(q)] /\ UNCHANGED failed
     \/ /\ "query" \in Faults \/ failed
        /\ failed' = (failed \/ q = "completed")
        /\ UNCHANGED answer
  /\ UNCHANGED <<now, server, kind, pc, begun, since, transport, reviewed, reports, runs>>

\* After Wait: only the completed issues are worth an error.
Joined ==
  /\ pc = "query" /\ step = Quiet
  /\ pc' = CASE failed -> "over"
             [] ~failed /\ answer["completed"] = {} /\ answer["changes"] = {} -> "empty"
             [] OTHER -> "plan"
  /\ UNCHANGED <<now, server, kind, begun, since, step, transport, bare, answer, failed, reviewed, reports, runs>>

Changed == {c[1] : c \in answer["changes"]}

\* filterActiveDetails
Relevant == answer["details"] \cap (answer["completed"] \cup Changed)

\* buildMorningPlan, buildPerIssueReviews: after three calls, or an answer
\* that cannot be parsed, there is no review.  The AI names the issues.
Plan ==
  /\ pc = "plan"
  /\ LET asked == IF kind = "evening" THEN Relevant ELSE answer["details"]
     IN IF HasAI /\ asked # {}
        THEN \/ reviewed' = asked
             \/ "ai" \in Faults /\ reviewed' \in {{}, All}
        ELSE reviewed' = {}
  /\ pc' = "send"
  /\ UNCHANGED <<now, server, kind, begun, since, step, transport, bare, answer, failed, reports, runs>>

Report ==
  [kind |-> kind, begun |-> begun, since |-> since, completed |-> answer["completed"],
   changes |-> answer["changes"], progress |-> answer["progress"], reviewed |-> reviewed]

(* Mutant of Send: a failed mail is sent again. *)
SendAgain ==
  /\ pc \in {"send", "empty"}
  /\ \/ reports' = reports \cup {Report} /\ pc' = "over"
     \/ "mail" \in Faults /\ pc' = "plan" /\ UNCHANGED reports
  /\ UNCHANGED <<now, server, kind, begun, since, step, transport, bare, answer, failed, reviewed, runs>>

\* sendOrWrite: one attempt.
Send ==
  /\ pc \in {"send", "empty"}
  /\ \/ reports' = reports \cup {Report}
     \/ "mail" \in Faults /\ UNCHANGED reports
  /\ pc' = "over"
  /\ UNCHANGED <<now, server, kind, begun, since, step, transport, bare, answer, failed, reviewed, runs>>

Exit ==
  /\ pc = "over"
  /\ pc' = "idle" /\ begun' = 0 /\ since' = 0 /\ step' = Quiet /\ transport' = "nil"
  /\ answer' = NoAnswer /\ failed' = FALSE /\ reviewed' = {}
  /\ UNCHANGED <<now, server, kind, bare, reports, runs>>

Step ==
  \/ ActiveIssues \/ (\E q \in Queries : Wrap(q) \/ Query(q)) \/ Panic
  \/ Joined \/ Plan \/ Send \/ Exit

Next == Tick \/ Move \/ Morning \/ Evening \/ Step

Spec == Init /\ [][Next]_vars
FairSpec == Spec /\ WF_vars(Step)

-----------------------------------------------------------------------------
DayBefore == 24 * (begun \div 24) - 24

Ready == kind = "evening" /\ pc \in {"plan", "send", "empty"}

(* An evening report lists every issue that has been completed since the   *)
(* beginning of the day before, unless it is completed, or moved, while    *)
(* the report is made.                                                     *)
NoCompletionMissed ==
  Ready => \A i \in All \ Sub :
    type[i] = "completed" /\ DayBefore <= done[i] /\ done[i] < begun => i \in answer["completed"]

(* An issue is counted as completed and as in progress only if it moved    *)
(* between the queries of the report: the two numbers are of one picture   *)
(* unless the user is at work.                                             *)
TwiceMeansMoved ==
  Ready => \A i \in answer["completed"] \cap answer["progress"] : updated[i] >= begun

(* No request goes out without the API key, although four goroutines       *)
(* write the transport of the shared client at the same time: each sends   *)
(* after its own write.                                                    *)
TokenSent == ~bare

(* Every run ends, the data race notwithstanding.                          *)
EveryRunEnds == (pc # "idle") ~> (pc = "idle")

(* GetStateChanges promises the state transitions since the given time.    *)
(* It does not hold for the first hours of the day: createdAt is in UTC,   *)
(* the time it is compared with as a text is not.                          *)
TransitionsSince ==
  Ready => \A i \in All : Active(i) => \A n \in Newest(i) :
    DayBefore <= history[i][n].at /\ history[i][n].at < begun => <<i, history[i][n]>> \in answer["changes"]
=============================================================================
