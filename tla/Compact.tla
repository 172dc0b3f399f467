------------------------------- MODULE Compact -------------------------------
(***************************************************************************)
(* `docs-cli wiki compact` (internal/docs/wiki/compact, cmd/docs-cli/cmd/  *)
(* wiki.go): on the Saturday of an eligible week the commits of the last   *)
(* window are turned into hot topics, an AI judges each of them, and the   *)
(* report is mailed and filed as an issue.  The user commits and blogs     *)
(* meanwhile; a run may be started at any time, and as often as one likes. *)
(*                                                                         *)
(* Time is a number of ticks since Monday 2026-01-05, 00:00, in a zone     *)
(* without summer time (carbon is set to Asia/Shanghai).                   *)
(***************************************************************************)
EXTENDS Naturals, Sequences, FiniteSets, FiniteSetsExt

CONSTANTS
  Topics,       \* the wiki's topics
  Sizes,        \* how many characters an edit of a log changes
  Day,          \* ticks per day
  Schedule,     \* compact.schedule, in weeks
  Bulk,         \* --bulk-log-threshold
  MinDelta,     \* --min-delta-chars; the number of lines is left out
  TopHot, TopNotice,
  Attempts,     \* compactAIAttempts
  Env,          \* which of the keys "resend", "linear", "ai" are set
  Flags,        \* the command lines: records [sendMail, createIssue, dryRun, skipAI]
  Faults,       \* which of "git", "render", "mail", "issue", "ai" may fail
  Instants,     \* bound: when something may happen
  MaxCommits, MaxRuns  \* bounds

ASSUME CompactAssumption ==
  /\ IsFiniteSet(Topics)
  /\ Day \in Nat \ {0} /\ Schedule \in Nat \ {0}
  /\ TopHot \in Nat \ {0} /\ TopNotice \in Nat \ {0}
  /\ Attempts \in Nat \ {0}
  /\ Instants \subseteq Nat
  /\ Sizes \subseteq Nat

VARIABLES
  now,
  commits,  \* the repository's history: records [at, edits], edits a function from topics to sizes
  blogged,  \* per topic the day of its last type:blog, 0 for none
  pc,       \* where the run is
  flags,    \* its command line
  win,      \* its window
  seen,     \* the commits, by index, that it counts
  hot,      \* the hot topics, best first
  verdict,  \* per topic: none, cooling, open (to be judged), yes, no, error
  tries,    \* per topic, the calls of the AI so far
  skipped,  \* AISkipped
  errors,   \* what failed
  runs,     \* how many runs were started
  reports   \* what was delivered: records [run, channel, win, seen, notices]

run == <<pc, flags, win, seen, hot, verdict, tries, skipped, errors>>
vars == <<now, commits, blogged, run, runs, reports>>

NoWindow == [start |-> 0, end |-> 0]
NoVerdicts == [t \in Topics |-> "none"]
NoTries == [t \in Topics |-> 0]

Init ==
  /\ now \in Instants
  /\ commits = <<>>
  /\ blogged = [t \in Topics |-> 0]
  /\ pc = "idle" /\ flags \in Flags /\ win = NoWindow
  /\ seen = {} /\ hot = <<>> /\ verdict = NoVerdicts /\ tries = NoTries
  /\ skipped = FALSE /\ errors = {}
  /\ runs = 0 /\ reports = {}

-----------------------------------------------------------------------------
(* ScheduleWindow.                                                         *)

DayOf(t) == t \div Day
WeekIndex(t) == DayOf(t) \div 7
Saturday(t) == DayOf(t) % 7 = 5

Fires(t) == Saturday(t) /\ WeekIndex(t) % Schedule = 0

(* Mutant of Window: it is a day longer than the schedule. *)
WindowOverlapping(t) ==
  [start |-> LET w == (Schedule * 7 + 1) * Day IN IF DayOf(t) * Day < w THEN 0 ELSE DayOf(t) * Day - w,
   end |-> DayOf(t) * Day]

\* Before the first whole window the start is that of time.
Window(t) ==
  [start |-> IF DayOf(t) < Schedule * 7 THEN 0 ELSE (DayOf(t) - Schedule * 7) * Day,
   end |-> DayOf(t) * Day]

-----------------------------------------------------------------------------
(* The user.                                                               *)

Tick ==
  /\ \E t \in Instants : t > now /\ now' = t
  /\ UNCHANGED <<commits, blogged, run, runs, reports>>

Commit ==
  /\ Len(commits) < MaxCommits
  /\ \E edits \in [Topics -> Sizes] :
       (\E t \in Topics : edits[t] > 0) /\ commits' = Append(commits, [at |-> now, edits |-> edits])
  /\ UNCHANGED <<now, blogged, run, runs, reports>>

Blog ==
  /\ \E t \in Topics : blogged[t] # DayOf(now) /\ blogged' = [blogged EXCEPT ![t] = DayOf(now)]
  /\ UNCHANGED <<now, commits, run, runs, reports>>

-----------------------------------------------------------------------------
(* The start: what is missing for a delivery is an error, a day that is    *)
(* not the day of the schedule ends the run without effect.                *)

Missing(f) == ~f.dryRun /\ ((f.sendMail /\ "resend" \notin Env) \/ (f.createIssue /\ "linear" \notin Env))

Start ==
  /\ pc = "idle" /\ runs < MaxRuns
  /\ runs' = runs + 1
  /\ flags' \in Flags
  /\ IF Missing(flags')
     THEN errors' = {"flags"} /\ pc' = "done" /\ UNCHANGED win
     ELSE IF Fires(now)
     THEN win' = Window(now) /\ pc' = "collect" /\ UNCHANGED errors
     ELSE pc' = "done" /\ UNCHANGED <<win, errors>>
  /\ UNCHANGED <<now, commits, blogged, seen, hot, verdict, tries, skipped, reports>>

-----------------------------------------------------------------------------
(* The hot topics.                                                         *)

\* CollectLogEdits: both ends of the window are excluded.
InWindow(at) == at > win.start /\ at < win.end

\* collectCommitLogEdits drops a commit of many logs altogether, and an edit
\* that is not substantive.
Touched(c) == {t \in Topics : c.edits[t] > 0}
Counts(c) == InWindow(c.at) /\ Cardinality(Touched(c)) < Bulk
Edited(c) == {t \in Topics : c.edits[t] >= MinDelta}

\* The commits that make up a topic.
Of(t) == {i \in DOMAIN commits : Counts(commits[i]) /\ t \in Edited(commits[i])}

DeltaCharBucket(n) ==
  CASE n >= 2000 -> 5 [] n >= 500 -> 4 [] n >= 150 -> 3 [] n >= 40 -> 2 [] n > 0 -> 1 [] OTHER -> 0

AtMost(n, max) == IF n > max THEN max ELSE n

HotScore(t) ==
  4 * Cardinality({DayOf(commits[i].at) : i \in Of(t)}) + 2 * AtMost(Cardinality(Of(t)), 5)
  + DeltaCharBucket(MapThenSumSet(LAMBDA i : commits[i].edits[t], Of(t)))

LastEdit(t) == Max({commits[i].at : i \in Of(t)})

\* Topics of the same score and date come in the order of a map.
Before(t, u) == HotScore(t) > HotScore(u) \/ (HotScore(t) = HotScore(u) /\ LastEdit(t) >= LastEdit(u))

Rankings(S) ==
  {s \in [1 .. Cardinality(S) -> S] : \A i, j \in 1 .. Cardinality(S) : i < j => s[i] # s[j] /\ Before(s[i], s[j])}

Collect ==
  /\ pc = "collect"
  /\ \/ /\ LET topics == {t \in Topics : Of(t) # {}}
           IN /\ seen' = UNION {Of(t) : t \in topics}
              /\ \E s \in Rankings(topics) : hot' = SubSeq(s, 1, AtMost(Len(s), TopHot))
        /\ pc' = "judge" /\ UNCHANGED errors
     \/ "git" \in Faults /\ errors' = {"git"} /\ pc' = "done" /\ UNCHANGED <<seen, hot>>
  /\ UNCHANGED <<now, commits, blogged, flags, win, verdict, tries, skipped, runs, reports>>

-----------------------------------------------------------------------------
(* judgeTopics.                                                            *)

Hot == {hot[i] : i \in DOMAIN hot}

\* blogInWindow, by the date: that of the blog is not before the window's first day.
Cooling(t) == blogged[t] > 0 /\ blogged[t] >= DayOf(win.start)

Dispatch ==
  /\ pc = "judge"
  /\ LET toJudge == IF flags.skipAI THEN {} ELSE {t \in Hot : ~Cooling(t)}
         absent  == toJudge # {} /\ "ai" \notin Env
     IN /\ verdict' = [t \in Topics |-> CASE t \in toJudge /\ ~absent -> "open"
                                          [] t \in Hot \ toJudge -> "no"
                                          [] OTHER -> "none"]
        /\ skipped' = (flags.skipAI \/ absent)
  /\ pc' = "wait"
  /\ UNCHANGED <<now, commits, blogged, flags, win, seen, hot, tries, errors, runs, reports>>

(* Mutant of Judge: the tries start over and over. *)
JudgeForever(t) ==
  /\ pc = "wait" /\ verdict[t] = "open"
  /\ \/ \E answer \in {"yes", "no"} : verdict' = [verdict EXCEPT ![t] = answer]
     \/ "ai" \in Faults /\ UNCHANGED verdict
  /\ tries' = [tries EXCEPT ![t] = (@ + 1) % Attempts]
  /\ UNCHANGED <<now, commits, blogged, pc, flags, win, seen, hot, skipped, errors, runs, reports>>

\* judgeOne, in a goroutine per topic: a call, whose answer may be unusable.
Judge(t) ==
  /\ pc = "wait" /\ verdict[t] = "open"
  /\ tries' = [tries EXCEPT ![t] = @ + 1]
  /\ \/ \E answer \in {"yes", "no"} : verdict' = [verdict EXCEPT ![t] = answer]
     \/ "ai" \in Faults /\ verdict' = [verdict EXCEPT ![t] = IF tries[t] + 1 < Attempts THEN @ ELSE "error"]
  /\ UNCHANGED <<now, commits, blogged, pc, flags, win, seen, hot, skipped, errors, runs, reports>>

\* When all are judged.  Without a single success the AI counts as absent.
Judged ==
  /\ pc = "wait"
  /\ \A t \in Topics : verdict[t] # "open"
  /\ LET asked == {t \in Topics : tries[t] > 0}
     IN skipped' = (skipped \/ (asked # {} /\ \A t \in asked : verdict[t] = "error"))
  /\ \/ pc' = "mail" /\ UNCHANGED errors
     \/ "render" \in Faults /\ pc' = "done" /\ errors' = {"render"}
  /\ UNCHANGED <<now, commits, blogged, flags, win, seen, hot, verdict, tries, runs, reports>>

\* The places in the ranking that the AI recommended.
Recommended == {i \in DOMAIN hot : verdict[hot[i]] = "yes"}

(* Mutant of Notices: the best topics are announced, if they were recommended. *)
NoticesFirst == IF skipped THEN {} ELSE {i \in Recommended : i <= TopNotice}

\* SelectNotices: the first of them, as places in the ranking.
Notices == IF skipped THEN {} ELSE
  {i \in Recommended : Cardinality({j \in Recommended : j < i}) < TopNotice}

-----------------------------------------------------------------------------
(* deliverCompact.                                                         *)

Report(channel) ==
  [run |-> runs, channel |-> channel, win |-> win, seen |-> seen, notices |-> Notices]

Mail ==
  /\ pc = "mail"
  /\ \/ /\ ~flags.sendMail \/ flags.dryRun
        /\ UNCHANGED <<errors, reports>>
     \/ /\ flags.sendMail /\ ~flags.dryRun
        /\ \/ reports' = reports \cup {Report("mail")} /\ UNCHANGED errors
           \/ "mail" \in Faults /\ errors' = errors \cup {"mail"} /\ UNCHANGED reports
  /\ pc' = "issue"
  /\ UNCHANGED <<now, commits, blogged, flags, win, seen, hot, verdict, tries, skipped, runs>>

(* Mutant of Resolve: an error of the mail ends the run. *)
ResolveAfterMail ==
  /\ pc = "issue"
  /\ \/ (~flags.createIssue \/ flags.dryRun \/ errors # {}) /\ pc' = "done" /\ UNCHANGED errors
     \/ flags.createIssue /\ ~flags.dryRun /\ errors = {} /\ pc' = "create" /\ UNCHANGED errors
  /\ UNCHANGED <<now, commits, blogged, flags, win, seen, hot, verdict, tries, skipped, runs, reports>>

\* CreateCompactIssue asks for the team, the state and the viewer.
Resolve ==
  /\ pc = "issue"
  /\ \/ (~flags.createIssue \/ flags.dryRun) /\ pc' = "done" /\ UNCHANGED errors
     \/ flags.createIssue /\ ~flags.dryRun /\ pc' = "create" /\ UNCHANGED errors
     \/ /\ flags.createIssue /\ ~flags.dryRun /\ "issue" \in Faults
        /\ pc' = "done" /\ errors' = errors \cup {"issue"}
  /\ UNCHANGED <<now, commits, blogged, flags, win, seen, hot, verdict, tries, skipped, runs, reports>>

\* CreateIssue: the answer may get lost after the issue was created.
Create ==
  /\ pc = "create"
  /\ \/ reports' = reports \cup {Report("issue")} /\ UNCHANGED errors
     \/ "issue" \in Faults /\ reports' \in {reports, reports \cup {Report("issue")}} /\ errors' = errors \cup {"issue"}
  /\ pc' = "done"
  /\ UNCHANGED <<now, commits, blogged, flags, win, seen, hot, verdict, tries, skipped, runs>>

\* The exit status: an absent AI is an error unless it was asked for.
Failed == errors # {} \/ (skipped /\ ~flags.skipAI)

Exit ==
  /\ pc = "done"
  /\ pc' = "idle" /\ win' = NoWindow /\ seen' = {} /\ hot' = <<>>
  /\ verdict' = NoVerdicts /\ tries' = NoTries /\ skipped' = FALSE /\ errors' = {}
  /\ UNCHANGED <<now, commits, blogged, flags, runs, reports>>

Step == Collect \/ Dispatch \/ (\E t \in Topics : Judge(t)) \/ Judged \/ Mail \/ Resolve \/ Create \/ Exit

Next == Tick \/ Commit \/ Blog \/ Start \/ Step

Spec == Init /\ [][Next]_vars
FairSpec == Spec /\ WF_vars(Step)

-----------------------------------------------------------------------------
Places == {"idle", "collect", "judge", "wait", "mail", "issue", "create", "done"}

TypeOK ==
  /\ now \in Nat
  /\ commits \in Seq([at : Nat, edits : [Topics -> Sizes]])
  /\ blogged \in [Topics -> Nat]
  /\ pc \in Places /\ flags \in Flags
  /\ win \in [start : Nat, end : Nat]
  /\ seen \subseteq DOMAIN commits
  /\ Hot \subseteq Topics /\ Len(hot) <= TopHot
  /\ verdict \in [Topics -> {"none", "open", "yes", "no", "error"}]
  /\ tries \in [Topics -> 0 .. Attempts]
  /\ skipped \in BOOLEAN
  /\ runs \in 0 .. MaxRuns

(* No commit is counted in the reports of two different windows, however   *)
(* often and whenever the command is run (ScheduleWindow promises windows  *)
(* that do not overlap).                                                   *)
NothingTwice ==
  \A r, s \in reports : r.win # s.win => r.seen \cap s.seen = {}

(* A topic is announced, by mail and in the issue, because the AI          *)
(* recommended it, for edits that the report counts and that are still all *)
(* there are, whatever the user has committed since.  What the AI          *)
(* recommended and the report does not announce is ranked behind all that  *)
(* it does announce, and then the announcements are at their maximum.      *)
NoticesAreTheBest ==
  \A r \in reports : r.run = runs /\ pc # "idle" =>
    /\ r.notices \subseteq Recommended
    /\ \A i \in r.notices : Of(hot[i]) # {} /\ Of(hot[i]) \subseteq r.seen
    /\ IF skipped THEN r.notices = {}
       ELSE \A i \in Recommended \ r.notices :
              Cardinality(r.notices) = TopNotice /\ \A n \in r.notices : n < i

Delivered(channel) == \E r \in reports : r.run = runs /\ r.channel = channel

(* A run that got as far as delivering has delivered through each channel  *)
(* it was asked to use, or reports this very channel as failed: the        *)
(* channels are independent.  A run that exits well has delivered through  *)
(* all of them, and a dry run through none.                                *)
ChannelsIndependent ==
  pc = "done" /\ win # NoWindow /\ errors \cap {"git", "render"} = {} =>
    /\ flags.sendMail /\ ~flags.dryRun => Delivered("mail") \/ "mail" \in errors
    /\ flags.createIssue /\ ~flags.dryRun => Delivered("issue") \/ "issue" \in errors
    /\ ~Failed /\ ~flags.dryRun => /\ flags.sendMail => Delivered("mail")
                                   /\ flags.createIssue => Delivered("issue")
    /\ flags.dryRun => ~Delivered("mail") /\ ~Delivered("issue")

(* Every run ends, though each topic's calls may fail in any order.        *)
RunsEnd == (pc # "idle") ~> (pc = "idle")
=============================================================================
