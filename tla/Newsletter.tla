----------------------------- MODULE Newsletter -----------------------------
(***************************************************************************)
(* `rss2nl send`, run after run (cmd/rss2nl/cmd/send.go): up to Limit      *)
(* categories are fetched at the same time and note the dates of their     *)
(* feeds in maps they share without a lock; the failures of the run update *)
(* the state file of the last run; then the newsletter is mailed.          *)
(*                                                                         *)
(* How a category is fetched is FeedFetch; here a category's fetch takes   *)
(* one step and its feeds' outcomes are arbitrary.  One run follows the    *)
(* other.  A run may be killed at any moment, the state file may be        *)
(* unreadable or impossible to write, and the mail may fail.               *)
(***************************************************************************)
EXTENDS FailureReport

CONSTANTS
  Categories,  \* <<...>>: the URLs of each category, in the order of the configuration
  Errors,      \* the errors that fetching may end with
  Facts,       \* Facts[e]: what the classification can find out about error e
  Stale,       \* the URLs whose latest item is older than staleMonths
  Limit,       \* how many categories are processed at a time (10)
  Faults,      \* which of "kill", "read", "save", "mail" may happen
  MaxRuns      \* bound: how many runs

Cats == DOMAIN Categories

NewsletterAssumption ==
  /\ Categories \in Seq(SUBSET Urls)
  /\ Limit \in Nat \ {0}
  /\ MaxRuns \in Nat
  /\ DOMAIN Facts = Errors
  /\ "ok" \notin Errors /\ "empty" \notin Errors

\* What a fetch brings: a feed with dated items, one without, or an error.
Outcomes == {"ok", "empty"} \cup Errors

VARIABLES
  phase,    \* where the run is
  stage,    \* where the goroutine of each category is
  outcome,  \* per category, what became of its URLs
  dates,    \* the keys of feedLastUpdated
  file,     \* the state file
  report,   \* the groups of this run's report
  runs,     \* how many runs have started
  streak,   \* history: per URL, in how many reported runs in a row it failed, and how
  unread,   \* history: the state file could not be read once
  unsaved,  \* history: the state file could not be written once
  raced     \* history: two categories of this run wrote the maps at once

vars == <<phase, stage, outcome, dates, file, report, runs, streak, unread, unsaved, raced>>

NoFile == [u \in Urls |-> NoItem]

Init ==
  /\ phase = "idle"
  /\ stage = [c \in Cats |-> "queued"]
  /\ outcome = [c \in Cats |-> <<>>]
  /\ dates = {}
  /\ file = NoFile
  /\ report = {}
  /\ runs = 0
  /\ streak = NoFile
  /\ unread = FALSE
  /\ unsaved = FALSE
  /\ raced = FALSE

history == <<streak, unread, unsaved>>

\* NewNewsletterService: everything but the state file is new.
StartRun ==
  /\ phase = "idle"
  /\ runs < MaxRuns
  /\ phase' = "fetching"
  /\ runs' = runs + 1
  /\ stage' = [c \in Cats |-> "queued"]
  /\ outcome' = [c \in Cats |-> <<>>]
  /\ dates' = {}
  /\ report' = {}
  /\ raced' = FALSE
  /\ UNCHANGED <<file, history>>

-----------------------------------------------------------------------------
(* processSingleFeed, one goroutine per category.                          *)

Running(c) == stage[c] \in {"fetching", "recording"}

\* g.Go, in the order of the configuration, when the group has a free slot.
Launch(c) ==
  /\ phase = "fetching"
  /\ stage[c] = "queued"
  /\ \A b \in Cats : b < c => stage[b] # "queued"
  /\ Cardinality({b \in Cats : Running(b)}) < Limit
  /\ stage' = [stage EXCEPT ![c] = "fetching"]
  /\ UNCHANGED <<phase, outcome, dates, file, report, runs, history, raced>>

Dated(c) == {u \in DOMAIN outcome[c] : outcome[c][u] = "ok"}

\* FetchURLsWithMeta returns; a category with a dated feed goes on to the maps.
\* A feed with items and no date is left out: it has a frequency only (send.go:301),
\* and the dashboard's dates are what the properties are about.
Fetched(c) ==
  /\ phase = "fetching"
  /\ stage[c] = "fetching"
  /\ \E o \in [Categories[c] -> Outcomes] :
       /\ outcome' = [outcome EXCEPT ![c] = o]
       /\ LET writes == \E u \in Categories[c] : o[u] = "ok"
          IN /\ stage' = [stage EXCEPT ![c] = IF writes THEN "recording" ELSE "done"]
             /\ raced' = (raced \/ (writes /\ \E b \in Cats : stage[b] = "recording"))
  /\ UNCHANGED <<phase, dates, file, report, runs, history>>

\* The writes of feedLastUpdated and feedPublishFreq.  Once two goroutines have
\* been at it together, entries may be missing.
Record(c) ==
  /\ phase = "fetching"
  /\ stage[c] = "recording"
  /\ stage' = [stage EXCEPT ![c] = "done"]
  /\ LET all == dates \cup Dated(c)
     IN \E kept \in IF raced THEN SUBSET all ELSE {all} : dates' = kept
  /\ UNCHANGED <<phase, outcome, file, report, runs, history, raced>>

\* "fatal error: concurrent map writes", if the runtime notices.
MapWritesCollide ==
  /\ phase = "fetching"
  /\ \E b, c \in Cats : b # c /\ stage[b] = "recording" /\ stage[c] = "recording"
  /\ phase' = "idle"
  /\ UNCHANGED <<stage, outcome, dates, file, report, runs, history, raced>>

-----------------------------------------------------------------------------
(* RenderNewsletter and handleOutput.                                      *)

FailedIn(c) == {u \in DOMAIN outcome[c] : outcome[c][u] \in Errors}

\* The failures of all categories; of a URL's several failures the last one stays.
Failed ==
  [u \in UNION {FailedIn(c) : c \in Cats} |->
     LET last == CHOOSE c \in Cats : u \in FailedIn(c) /\ \A b \in Cats : u \in FailedIn(b) => b <= c
     IN Classify(Facts[outcome[last][u]])]

\* History: the runs in a row in which a URL has failed in the same way.
Streaks(failed) ==
  [u \in Urls |->
     IF u \notin DOMAIN failed THEN NoItem
     ELSE [kind |-> failed[u].kind,
           runs |-> 1 + IF streak[u].kind = failed[u].kind THEN streak[u].runs ELSE 0]]

\* BuildFeedFailureReport.  A file that cannot be read counts as empty, one
\* that cannot be written stays as it was; both are only logged.
BuildReport ==
  /\ phase = "fetching"
  /\ \A c \in Cats : stage[c] = "done"
  /\ phase' = "rendered"
  /\ \E readable \in IF "read" \in Faults THEN BOOLEAN ELSE {TRUE},
        writable \in IF "save" \in Faults THEN BOOLEAN ELSE {TRUE} :
       LET next == NextState(Failed, IF readable THEN file ELSE NoFile)
       IN /\ file' = IF writable THEN next ELSE file
          /\ report' = Groups(Failed, next)
          /\ unread' = (unread \/ ~readable)
          /\ unsaved' = (unsaved \/ ~writable)
  /\ streak' = Streaks(Failed)
  /\ UNCHANGED <<stage, outcome, dates, runs, raced>>

\* The dashboard's line of a feed: its date is missing, is old, or the line is left out.
Detail(u) == IF u \notin dates THEN "unknown" ELSE IF u \in Stale THEN "stale" ELSE "omitted"

\* SendNewsletter.  A mail that fails ends the run with an error, the state stays saved.
Mail ==
  /\ phase = "rendered"
  /\ \/ phase' = "mailed"
     \/ "mail" \in Faults /\ phase' = "idle"
  /\ UNCHANGED <<stage, outcome, dates, file, report, runs, history, raced>>

EndRun ==
  /\ phase = "mailed"
  /\ phase' = "idle"
  /\ UNCHANGED <<stage, outcome, dates, file, report, runs, history, raced>>

Kill ==
  /\ "kill" \in Faults
  /\ phase \in {"fetching", "rendered"}
  /\ phase' = "idle"
  /\ UNCHANGED <<stage, outcome, dates, file, report, runs, history, raced>>

Next ==
  \/ StartRun
  \/ \E c \in Cats : Launch(c) \/ Fetched(c) \/ Record(c)
  \/ MapWritesCollide
  \/ BuildReport
  \/ Mail
  \/ EndRun
  \/ Kill

Spec == Init /\ [][Next]_vars

-----------------------------------------------------------------------------
Items == [kind : Kinds, runs : 1 .. MaxRuns] \cup {NoItem}

TypeOK ==
  /\ phase \in {"idle", "fetching", "rendered", "mailed"}
  /\ stage \in [Cats -> {"queued", "fetching", "recording", "done"}]
  /\ \A c \in Cats : outcome[c] = <<>> \/ outcome[c] \in [Categories[c] -> Outcomes]
  /\ dates \subseteq Urls
  /\ file \in [Urls -> Items]
  /\ streak \in [Urls -> Items]
  /\ runs \in 0 .. MaxRuns
  /\ unread \in BOOLEAN /\ unsaved \in BOOLEAN /\ raced \in BOOLEAN

(* The file never claims more failures in a row than there were: a run     *)
(* that is killed, or a file that is lost, can only shorten a count.  Only *)
(* a failed save, which leaves the counts of feeds that have recovered,    *)
(* could do otherwise.                                                     *)
CountsNeverInvented ==
  ~unsaved => \A u \in Urls :
    /\ file[u].runs <= streak[u].runs
    /\ file[u].runs > 0 => file[u].kind = streak[u].kind

(* A newsletter escalates a host's failures when they are due: at once     *)
(* when they are there to stay, and when they may pass as soon as one of   *)
(* its feeds has failed often enough, as long as the file was always read  *)
(* and written.  Groups that mix both sorts are left out: they are         *)
(* escalated at once, as the code has it.                                  *)
EscalatedWhenDue ==
  phase = "mailed" /\ ~unread /\ ~unsaved =>
    \A g \in report :
      LET passing == {u \in g.members : Failed[u].transient}
      IN passing \in {{}, g.members} =>
           (g.escalated <=> passing = {} \/ \E u \in g.members : streak[u].runs >= EscalateAfter)

(* Every feed that answered with dated items is in the dashboard with its  *)
(* date unless two categories wrote the maps at the same time, and a feed  *)
(* that did not is never shown as dated.                                   *)
DetailsTrue ==
  phase = "mailed" =>
    LET answered == UNION {Dated(c) : c \in Cats}
    IN \A u \in Urls :
         /\ u \notin answered => Detail(u) = "unknown"
         /\ u \in answered /\ ~raced => Detail(u) # "unknown"
=============================================================================
