---------------------------- MODULE CompactProofs ----------------------------
(***************************************************************************)
(* Proofs about Compact, for any schedule, any length of a day and any     *)
(* number of runs and commits: the windows of two different reports have   *)
(* no commit in common, each channel delivers or fails by itself, and what *)
(* is announced are the best of what the AI recommended.                   *)
(***************************************************************************)
EXTENDS Compact, FiniteSetTheorems, TLAPS

\* The windows there are: those of the instants at which the schedule fires.
Fired(w) == \E t \in Nat : Fires(t) /\ w = Window(t)

Counted(w, S) ==
  \A i \in S : i \in DOMAIN commits /\ w.start < commits[i].at /\ commits[i].at < w.end

Working   == {"collect", "judge", "wait", "mail", "issue", "create"}
Reporting == {"judge", "wait", "mail", "issue", "create"}

HistoryInv == /\ now \in Nat
              /\ commits \in Seq([at : Nat, edits : [Topics -> Sizes]])
RunInv     == /\ pc \in Working => Fired(win)
              /\ pc \in Reporting => Counted(win, seen)
ReportInv  == \A r \in reports : Fired(r.win) /\ Counted(r.win, r.seen)

IInv == HistoryInv /\ RunInv /\ ReportInv

-----------------------------------------------------------------------------
(* Arithmetic.                                                             *)

LEMMA Multiple ==
  ASSUME NEW n \in Nat, NEW k \in Nat \ {0}, n % k = 0
  PROVE  \E x \in Nat : n = k * x
  OBVIOUS

LEMMA Weeks ==
  ASSUME NEW n \in Nat, n % 7 = 5
  PROVE  n \div 7 \in Nat /\ n = 7 * (n \div 7) + 5
  OBVIOUS

LEMMA Apart ==
  ASSUME NEW x \in Nat, NEW y \in Nat, NEW k \in Nat, x < y
  PROVE  k * y >= k * x + k
  OBVIOUS

LEMMA Scaled ==
  ASSUME NEW x \in Nat, NEW y \in Nat, NEW k \in Nat, x >= y
  PROVE  x * k >= y * k
  OBVIOUS

LEMMA ElementOf ==
  ASSUME NEW R, NEW s \in Seq(R), NEW i \in DOMAIN s
  PROVE  s[i] \in R
  OBVIOUS

LEMMA DayNat ==
  ASSUME NEW t \in Nat
  PROVE  DayOf(t) \in Nat
  BY CompactAssumption DEF CompactAssumption, DayOf

(* The schedule fires on the Saturdays of every Schedule-th week.          *)
LEMMA FiringDay ==
  ASSUME NEW t \in Nat, Fires(t)
  PROVE  \E x \in Nat : DayOf(t) = 7 * (Schedule * x) + 5
<1>0. DayOf(t) \in Nat /\ Schedule \in Nat \ {0}
  BY DayNat, CompactAssumption DEF CompactAssumption
<1>1. WeekIndex(t) \in Nat /\ DayOf(t) = 7 * WeekIndex(t) + 5
  BY <1>0, Weeks DEF Fires, Saturday, WeekIndex
<1>2. PICK x \in Nat : WeekIndex(t) = Schedule * x
  BY <1>0, <1>1, Multiple DEF Fires
<1> QED
  BY <1>1, <1>2

(* Of two windows the later one starts when the earlier one has ended.     *)
LEMMA LaterWindow ==
  ASSUME NEW t \in Nat, NEW u \in Nat, Fires(t), Fires(u), DayOf(t) < DayOf(u)
  PROVE  Window(t).end \in Nat /\ Window(u).start \in Nat /\ Window(t).end <= Window(u).start
<1>0. DayOf(t) \in Nat /\ DayOf(u) \in Nat /\ Schedule \in Nat \ {0} /\ Day \in Nat \ {0}
  BY DayNat, CompactAssumption DEF CompactAssumption
<1>1. PICK x \in Nat : DayOf(t) = 7 * (Schedule * x) + 5
  BY FiringDay
<1>2. PICK y \in Nat : DayOf(u) = 7 * (Schedule * y) + 5
  BY FiringDay
<1>3. Schedule * x \in Nat /\ Schedule * y \in Nat
  BY <1>0
<1>4. x < y
  <2>1. CASE x >= y
    <3>1. x * Schedule >= y * Schedule
      BY <1>0, <2>1, Scaled
    <3> QED
      BY <1>0, <1>1, <1>2, <3>1
  <2> QED
    BY <2>1
<1>5. Schedule * y >= Schedule * x + Schedule
  BY <1>0, <1>4, Apart
<1>6. DayOf(u) >= DayOf(t) + Schedule * 7
  BY <1>0, <1>1, <1>2, <1>3, <1>5
<1> DEFINE first == DayOf(u) - Schedule * 7
<1>7. first \in Nat /\ first >= DayOf(t) /\ ~(DayOf(u) < Schedule * 7)
  BY <1>0, <1>6
<1>8. Window(u).start = first * Day /\ Window(t).end = DayOf(t) * Day
  BY <1>7 DEF Window
<1> HIDE DEF first
<1>9. first * Day >= DayOf(t) * Day
  BY <1>0, <1>7, Scaled
<1>10. first * Day \in Nat /\ DayOf(t) * Day \in Nat
  BY <1>0, <1>7
<1> QED
  BY <1>8, <1>9, <1>10

LEMMA SameDay ==
  ASSUME NEW t, NEW u, DayOf(t) = DayOf(u)
  PROVE  Window(t) = Window(u)
  BY DEF Window

LEMMA Disjoint ==
  ASSUME HistoryInv, NEW v, NEW w, NEW S, NEW T,
         Fired(v), Fired(w), v # w, Counted(v, S), Counted(w, T)
  PROVE  S \cap T = {}
<1> SUFFICES ASSUME NEW i \in S, i \in T PROVE FALSE
  OBVIOUS
<1>0. commits[i].at \in Nat
  <2>1. i \in DOMAIN commits
    BY DEF Counted
  <2>2. commits[i] \in [at : Nat, edits : [Topics -> Sizes]]
    BY <2>1, ElementOf DEF HistoryInv
  <2> QED
    BY <2>2
<1>1. /\ v.start < commits[i].at /\ commits[i].at < v.end
      /\ w.start < commits[i].at /\ commits[i].at < w.end
  BY DEF Counted
<1>2. PICK t \in Nat : Fires(t) /\ v = Window(t)
  BY DEF Fired
<1>3. PICK u \in Nat : Fires(u) /\ w = Window(u)
  BY DEF Fired
<1>4. DayOf(t) \in Nat /\ DayOf(u) \in Nat /\ DayOf(t) # DayOf(u)
  BY <1>2, <1>3, SameDay, DayNat
<1>5. CASE DayOf(t) < DayOf(u)
  <2>1. v.end \in Nat /\ w.start \in Nat /\ v.end <= w.start
    BY <1>2, <1>3, <1>5, LaterWindow
  <2> QED
    BY <1>0, <1>1, <2>1
<1>6. CASE DayOf(u) < DayOf(t)
  <2>1. w.end \in Nat /\ v.start \in Nat /\ w.end <= v.start
    BY <1>2, <1>3, <1>6, LaterWindow
  <2> QED
    BY <1>0, <1>1, <2>1
<1> QED
  BY <1>4, <1>5, <1>6

-----------------------------------------------------------------------------
LEMMA InitInv == Init => IInv
<1> SUFFICES ASSUME Init PROVE IInv
  OBVIOUS
<1>1. HistoryInv
  BY CompactAssumption DEF Init, HistoryInv, CompactAssumption
<1>2. RunInv /\ ReportInv
  BY DEF Init, RunInv, ReportInv, Working, Reporting
<1> QED
  BY <1>1, <1>2 DEF IInv

(* A commit is appended: what was counted keeps its place and its instant. *)
LEMMA UserStep ==
  ASSUME IInv, Tick \/ Commit \/ Blog
  PROVE  IInv'
<1> USE DEF IInv
<1>0. UNCHANGED <<pc, win, seen, reports>>
  BY DEF Tick, Commit, Blog, run
<1>1. HistoryInv' /\ \A i \in DOMAIN commits : i \in DOMAIN commits' /\ commits'[i] = commits[i]
  <2>1. CASE Tick
    BY <2>1, CompactAssumption DEF Tick, HistoryInv, CompactAssumption
  <2>2. CASE Commit
    <3>1. PICK e \in [Topics -> Sizes] : commits' = Append(commits, [at |-> now, edits |-> e])
      BY <2>2 DEF Commit
    <3> DEFINE c == [at |-> now, edits |-> e]
    <3>2. c \in [at : Nat, edits : [Topics -> Sizes]]
      BY DEF HistoryInv
    <3>3. commits' = Append(commits, c)
      BY <3>1
    <3> HIDE DEF c
    <3> QED
      BY <2>2, <3>2, <3>3 DEF Commit, HistoryInv
  <2>3. CASE Blog
    BY <2>3 DEF Blog, HistoryInv
  <2> QED
    BY <2>1, <2>2, <2>3
<1>2. \A w, S : Counted(w, S) => Counted(w, S)'
  BY <1>1 DEF Counted
<1>3. RunInv'
  BY <1>0, <1>2 DEF RunInv
<1>4. ReportInv'
  BY <1>0, <1>2 DEF ReportInv
<1> QED
  BY <1>1, <1>3, <1>4

LEMMA StartStep ==
  ASSUME IInv, Start
  PROVE  IInv'
<1> USE DEF IInv
<1>0. UNCHANGED <<now, commits, reports>>
  BY DEF Start
<1>1. HistoryInv' /\ ReportInv'
  BY <1>0 DEF HistoryInv, ReportInv, Counted
<1>2. pc' = "done" \/ (pc' = "collect" /\ win' = Window(now) /\ Fires(now))
  BY DEF Start
<1>3. RunInv'
  <2>1. CASE pc' = "done"
    BY <2>1 DEF RunInv, Working, Reporting
  <2>2. CASE pc' = "collect" /\ win' = Window(now) /\ Fires(now)
    <3>1. Fired(win')
      BY <2>2 DEF Fired, HistoryInv
    <3> QED
      BY <2>2, <3>1 DEF RunInv, Reporting
  <2> QED
    BY <1>2, <2>1, <2>2
<1> QED
  BY <1>1, <1>3

(* The commits of a report lie within its window.                          *)
LEMMA CollectStep ==
  ASSUME IInv, Collect
  PROVE  IInv'
<1> USE DEF IInv
<1>0. pc = "collect" /\ UNCHANGED <<now, commits, win, reports>>
  BY DEF Collect
<1>1. HistoryInv' /\ ReportInv'
  BY <1>0 DEF HistoryInv, ReportInv, Counted
<1>2. pc' = "done" \/ (pc' = "judge" /\ seen' = UNION {Of(t) : t \in {u \in Topics : Of(u) # {}}})
  BY DEF Collect
<1>3. \A t \in Topics : Counted(win, Of(t))
  BY DEF Counted, Of, Counts, InWindow
<1>4. RunInv'
  <2>1. CASE pc' = "done"
    BY <2>1 DEF RunInv, Working, Reporting
  <2>2. CASE pc' = "judge" /\ seen' = UNION {Of(t) : t \in {u \in Topics : Of(u) # {}}}
    <3>1. Counted(win, seen')
      BY <1>3, <2>2 DEF Counted
    <3>2. Counted(win, seen)'
      BY <1>0, <3>1 DEF Counted
    <3> QED
      BY <1>0, <3>2 DEF RunInv, Working
  <2> QED
    BY <1>2, <2>1, <2>2
<1> QED
  BY <1>1, <1>4

(* The steps that deliver nothing.                                         *)
LEMMA QuietStep ==
  ASSUME IInv, Dispatch \/ (\E t \in Topics : Judge(t)) \/ Judged \/ Resolve \/ Exit
  PROVE  IInv'
<1> USE DEF IInv
<1>0. UNCHANGED <<now, commits, reports>>
  BY DEF Dispatch, Judge, Judged, Resolve, Exit
<1>1. HistoryInv' /\ ReportInv'
  BY <1>0 DEF HistoryInv, ReportInv, Counted
<1>2. CASE Exit
  <2>1. RunInv'
    BY <1>2 DEF Exit, RunInv, Working, Reporting
  <2> QED
    BY <1>1, <2>1
<1>3. CASE Dispatch \/ (\E t \in Topics : Judge(t)) \/ Judged \/ Resolve
  <2>1. pc \in Reporting /\ UNCHANGED <<win, seen>>
    BY <1>3 DEF Dispatch, Judge, Judged, Resolve, Reporting
  <2>2. Fired(win) /\ Counted(win, seen)
    BY <2>1 DEF RunInv, Working, Reporting
  <2>3. RunInv'
    BY <1>0, <2>1, <2>2 DEF RunInv, Counted
  <2> QED
    BY <1>1, <2>3
<1> QED
  BY <1>2, <1>3

(* A delivery files the window of the run with the commits it counted.     *)
LEMMA DeliverStep ==
  ASSUME IInv, Mail \/ Create
  PROVE  IInv'
<1> USE DEF IInv
<1>0. pc \in Reporting /\ UNCHANGED <<now, commits, win, seen>>
  BY DEF Mail, Create, Reporting
<1>1. Fired(win) /\ Counted(win, seen)
  BY <1>0 DEF RunInv, Working, Reporting
<1>2. \A r \in reports' : r \in reports \/ (r.win = win /\ r.seen = seen)
  BY DEF Mail, Create, Report
<1>3. HistoryInv'
  BY <1>0 DEF HistoryInv
<1>4. RunInv'
  BY <1>0, <1>1 DEF RunInv, Counted
<1>5. ReportInv'
  BY <1>0, <1>1, <1>2 DEF ReportInv, Counted
<1> QED
  BY <1>3, <1>4, <1>5

LEMMA NextInv == IInv /\ [Next]_vars => IInv'
<1> SUFFICES ASSUME IInv, [Next]_vars PROVE IInv'
  OBVIOUS
<1>1. CASE UNCHANGED vars
  BY <1>1 DEF vars, run, IInv, HistoryInv, RunInv, ReportInv, Counted
<1>2. CASE Next
  BY <1>2, UserStep, StartStep, CollectStep, QuietStep, DeliverStep DEF Next, Step
<1> QED
  BY <1>1, <1>2

LEMMA Invariant == Spec => []IInv
  BY InitInv, NextInv, PTL DEF Spec

-----------------------------------------------------------------------------
(* ScheduleWindow (compact.go) promises windows that do not overlap: no    *)
(* commit is counted in the reports of two of them, whatever the schedule  *)
(* and however often the command is run.                                   *)
THEOREM NothingCountedTwice == Spec => []NothingTwice
<1>1. IInv => NothingTwice
  BY Disjoint DEF IInv, ReportInv, NothingTwice
<1> QED
  BY <1>1, Invariant, PTL

-----------------------------------------------------------------------------
(* The channels.  A run has no report before it delivers, and afterwards   *)
(* one for each channel, or the error of the channel.                      *)
Early == {"collect", "judge", "wait", "mail"}

MailDone  == flags.sendMail /\ ~flags.dryRun => Delivered("mail") \/ "mail" \in errors
IssueDone == flags.createIssue /\ ~flags.dryRun => Delivered("issue") \/ "issue" \in errors

NumberInv == runs \in Nat /\ \A r \in reports : r.run \in Nat /\ r.run <= runs
NoneYet   == pc \in Early \/ flags.dryRun => \A r \in reports : r.run # runs
PhaseInv ==
  /\ pc = "idle" => win = NoWindow
  /\ pc \in {"issue", "create"} => MailDone
  /\ pc = "create" => flags.createIssue /\ ~flags.dryRun
  /\ pc = "done" /\ win # NoWindow /\ errors \cap {"git", "render"} = {} => MailDone /\ IssueDone

ChannelInv == NumberInv /\ NoneYet /\ PhaseInv

LEMMA ChannelInit == Init => ChannelInv
  BY DEF Init, ChannelInv, NumberInv, NoneYet, PhaseInv

LEMMA ChannelQuiet ==
  ASSUME ChannelInv, Tick \/ Commit \/ Blog \/ Collect \/ Dispatch \/ (\E t \in Topics : Judge(t)) \/ Judged \/ Exit
  PROVE  ChannelInv'
<1> USE DEF ChannelInv
<1>0. UNCHANGED <<flags, runs, reports>>
  BY DEF Tick, Commit, Blog, Collect, Dispatch, Judge, Judged, Exit, run
<1>1. NumberInv'
  BY <1>0 DEF NumberInv
<1>2. CASE Tick \/ Commit \/ Blog
  <2>1. UNCHANGED <<pc, win, errors>>
    BY <1>2 DEF Tick, Commit, Blog, run
  <2> QED
    BY <1>0, <1>1, <2>1 DEF NoneYet, PhaseInv, MailDone, IssueDone, Delivered
<1>3. CASE Collect \/ Dispatch \/ (\E t \in Topics : Judge(t)) \/ Judged
  <2>1. /\ pc \in Early
        /\ \/ pc' \in Early
           \/ pc' = "done" /\ errors' \cap {"git", "render"} # {}
    BY <1>3 DEF Collect, Dispatch, Judge, Judged, Early
  <2>2. NoneYet'
    BY <1>0, <2>1 DEF NoneYet
  <2>3. PhaseInv'
    BY <2>1 DEF PhaseInv, Early
  <2> QED
    BY <1>1, <2>2, <2>3
<1>4. CASE Exit
  <2>1. pc' = "idle" /\ win' = NoWindow
    BY <1>4 DEF Exit
  <2> QED
    BY <1>0, <1>1, <2>1 DEF NoneYet, PhaseInv, Early
<1> QED
  BY <1>2, <1>3, <1>4

LEMMA ChannelStart ==
  ASSUME ChannelInv, Start
  PROVE  ChannelInv'
<1> USE DEF ChannelInv
<1>1. runs' = runs + 1 /\ reports' = reports /\ pc = "idle"
  BY DEF Start
<1>2. NumberInv' /\ \A r \in reports' : r.run # runs'
  BY <1>1 DEF NumberInv
<1>3. pc' = "collect" \/ (pc' = "done" /\ win' = win)
  BY DEF Start
<1>4. NoneYet'
  BY <1>2 DEF NoneYet
<1>5. PhaseInv'
  BY <1>1, <1>3 DEF PhaseInv
<1> QED
  BY <1>2, <1>4, <1>5

LEMMA ChannelMail ==
  ASSUME ChannelInv, Mail
  PROVE  ChannelInv'
<1> USE DEF ChannelInv
<1>0. pc = "mail" /\ pc' = "issue" /\ UNCHANGED <<flags, win, runs>>
  BY DEF Mail
<1>1. \A r \in reports : r.run # runs
  BY <1>0 DEF NoneYet, Early
<1>2. \/ ~flags.sendMail /\ reports' = reports
      \/ flags.dryRun /\ reports' = reports
      \/ ~flags.dryRun /\ reports' = reports \cup {Report("mail")}
      \/ ~flags.dryRun /\ reports' = reports /\ "mail" \in errors'
  BY DEF Mail
<1>3. Report("mail").run = runs /\ Report("mail").channel = "mail"
  BY DEF Report
<1>4. NumberInv'
  BY <1>0, <1>2, <1>3 DEF NumberInv
<1>5. NoneYet'
  BY <1>0, <1>1, <1>2 DEF NoneYet, Early
<1>6. MailDone'
  BY <1>0, <1>2, <1>3 DEF MailDone, Delivered
<1>7. PhaseInv'
  BY <1>0, <1>6 DEF PhaseInv
<1> QED
  BY <1>4, <1>5, <1>7

LEMMA ChannelResolve ==
  ASSUME ChannelInv, Resolve
  PROVE  ChannelInv'
<1> USE DEF ChannelInv
<1>0. pc = "issue" /\ UNCHANGED <<flags, win, runs, reports>> /\ errors \subseteq errors'
  BY DEF Resolve
<1>1. \/ pc' = "done" /\ (~flags.createIssue \/ flags.dryRun)
      \/ pc' = "create" /\ flags.createIssue /\ ~flags.dryRun
      \/ pc' = "done" /\ "issue" \in errors'
  BY DEF Resolve
<1>2. NumberInv' /\ NoneYet'
  BY <1>0, <1>1 DEF NumberInv, NoneYet, Early
<1>3. MailDone'
  BY <1>0 DEF PhaseInv, MailDone, Delivered
<1>4. pc' = "done" => IssueDone'
  BY <1>0, <1>1 DEF IssueDone
<1>5. PhaseInv'
  BY <1>0, <1>1, <1>3, <1>4 DEF PhaseInv
<1> QED
  BY <1>2, <1>5

LEMMA ChannelCreate ==
  ASSUME ChannelInv, Create
  PROVE  ChannelInv'
<1> USE DEF ChannelInv
<1>0. pc = "create" /\ pc' = "done" /\ UNCHANGED <<flags, win, runs>> /\ errors \subseteq errors'
  BY DEF Create
<1>1. /\ reports' = reports \/ reports' = reports \cup {Report("issue")}
      /\ reports' = reports \cup {Report("issue")} \/ "issue" \in errors'
  BY DEF Create
<1>2. Report("issue").run = runs /\ Report("issue").channel = "issue"
  BY DEF Report
<1>3. ~flags.dryRun
  BY <1>0 DEF PhaseInv
<1>4. NumberInv'
  BY <1>0, <1>1, <1>2 DEF NumberInv
<1>5. NoneYet'
  BY <1>0, <1>3 DEF NoneYet, Early
<1>6. reports \subseteq reports'
  BY <1>1
<1>7. MailDone'
  BY <1>0, <1>6 DEF PhaseInv, MailDone, Delivered
<1>8. IssueDone'
  BY <1>0, <1>1, <1>2 DEF IssueDone, Delivered
<1>9. PhaseInv'
  BY <1>0, <1>7, <1>8 DEF PhaseInv
<1> QED
  BY <1>4, <1>5, <1>9

LEMMA ChannelNext == ChannelInv /\ [Next]_vars => ChannelInv'
<1> SUFFICES ASSUME ChannelInv, [Next]_vars PROVE ChannelInv'
  OBVIOUS
<1>1. CASE UNCHANGED vars
  BY <1>1 DEF vars, run, ChannelInv, NumberInv, NoneYet, PhaseInv, MailDone, IssueDone, Delivered
<1>2. CASE Next
  BY <1>2, ChannelQuiet, ChannelStart, ChannelMail, ChannelResolve, ChannelCreate DEF Next, Step
<1> QED
  BY <1>1, <1>2

(* deliverCompact (compact.go): each channel a run was asked to use has    *)
(* its report, or its own error; a dry run delivers nothing.               *)
THEOREM EveryChannelAnswers == Spec => []ChannelsIndependent
<1>1. ChannelInv => ChannelsIndependent
  BY DEF ChannelInv, NoneYet, PhaseInv, MailDone, IssueDone, Delivered, Failed, ChannelsIndependent
<1> QED
  BY <1>1, ChannelInit, ChannelNext, PTL DEF Spec
-----------------------------------------------------------------------------
(* The announcements.  The rank of a number in a finite set is how many    *)
(* are below it.                                                           *)
Below(S, j) == {i \in S : i < j}
Rank(S, j)  == Cardinality(Below(S, j))
First(S, k) == {j \in S : Rank(S, j) < k}

LEMMA RankType ==
  ASSUME NEW S \in SUBSET Nat, IsFiniteSet(S), NEW j \in Nat
  PROVE  IsFiniteSet(Below(S, j)) /\ Rank(S, j) \in Nat
<1>1. Below(S, j) \in SUBSET S
  BY DEF Below
<1>2. IsFiniteSet(Below(S, j))
  BY <1>1, FS_Subset
<1> QED
  BY <1>2, FS_CardinalityType DEF Rank

LEMMA RanksGrow ==
  ASSUME NEW S \in SUBSET Nat, IsFiniteSet(S), NEW i \in S, NEW j \in Nat, i < j
  PROVE  Rank(S, i) < Rank(S, j)
<1>1. Below(S, i) \in SUBSET Below(S, j) /\ i \in Below(S, j) /\ i \notin Below(S, i)
  <2>1. i \in Nat /\ \A n \in S : n \in Nat /\ (n < i => n < j)
    OBVIOUS
  <2>2. Below(S, i) \subseteq Below(S, j)
    BY <2>1 DEF Below
  <2>3. i \in Below(S, j)
    BY <2>1 DEF Below
  <2>4. ~(i < i)
    BY <2>1
  <2>5. i \notin Below(S, i)
    BY <2>4 DEF Below
  <2> QED
    BY <2>2, <2>3, <2>5
<1>2. Rank(S, i) <= Rank(S, j) /\ Rank(S, i) # Rank(S, j)
  BY <1>1, RankType, FS_Subset DEF Rank
<1> QED
  BY <1>2, RankType

(* The ranks of a finite set leave no gap.                                 *)
LEMMA EveryRank ==
  ASSUME NEW S \in SUBSET Nat, IsFiniteSet(S), NEW n \in 1 .. Cardinality(S)
  PROVE  \E j \in S : Rank(S, j) = n - 1
<1> DEFINE f == [j \in S |-> Rank(S, j) + 1]
           T == 1 .. Cardinality(S)
<1>1. Cardinality(S) \in Nat
  BY FS_CardinalityType
<1>2. ASSUME NEW j \in S PROVE Rank(S, j) \in 0 .. Cardinality(S) - 1
  <2>1. Below(S, j) \in SUBSET (S \ {j})
    BY DEF Below
  <2>2. IsFiniteSet(S \ {j}) /\ Cardinality(S \ {j}) = Cardinality(S) - 1
    BY FS_RemoveElement
  <2>3. Rank(S, j) <= Cardinality(S \ {j})
    BY <2>1, <2>2, FS_Subset DEF Rank
  <2> QED
    BY <1>1, <2>2, <2>3, RankType
<1>3. f \in Injection(S, T)
  <2>1. f \in [S -> T]
    BY <1>1, <1>2
  <2>2. \A i, j \in S : i # j => f[i] # f[j]
    <3> SUFFICES ASSUME NEW i \in S, NEW j \in S, i < j PROVE f[i] # f[j]
      OBVIOUS
    <3>1. Rank(S, i) < Rank(S, j)
      BY RanksGrow
    <3> QED
      BY <1>2, <3>1
  <2> HIDE DEF f
  <2> QED
    BY <2>1, <2>2 DEF Injection, IsInjective
<1>4. IsFiniteSet(T) /\ Cardinality(T) = Cardinality(S)
  BY <1>1, FS_Interval
<1>5. f \in Surjection(S, T)
  <2> HIDE DEF f, T
  <2> QED
    BY <1>3, <1>4, FS_Injection
<1>6. PICK j \in S : f[j] = n
  <2>1. n \in T
    OBVIOUS
  <2> HIDE DEF f, T
  <2> QED
    BY <1>5, <2>1 DEF Surjection
<1> QED
  BY <1>2, <1>6

(* If not all of a set are among its first k, these are k indeed, and      *)
(* below all others.                                                       *)
LEMMA FirstOfMany ==
  ASSUME NEW S \in SUBSET Nat, IsFiniteSet(S), NEW k \in Nat, NEW i \in S \ First(S, k)
  PROVE  Cardinality(First(S, k)) = k /\ \A n \in First(S, k) : n < i
<1>1. Rank(S, i) \in Nat /\ Rank(S, i) >= k
  BY RankType DEF First
<1>2. ASSUME NEW n \in First(S, k) PROVE n < i
  <2>1. n \in S /\ Rank(S, n) < k
    BY DEF First
  <2>2. CASE n = i
    BY <1>1, <2>1, <2>2, RankType
  <2>3. CASE i < n
    <3>1. Rank(S, i) < Rank(S, n)
      BY <2>1, <2>3, RanksGrow
    <3> QED
      BY <1>1, <2>1, <3>1, RankType
  <2> QED
    BY <2>1, <2>2, <2>3
<1>3. Cardinality(S) \in Nat /\ k <= Cardinality(S)
  <2>1. Below(S, i) \in SUBSET S
    BY DEF Below
  <2>2. Rank(S, i) <= Cardinality(S)
    BY <2>1, FS_Subset DEF Rank
  <2> QED
    BY <1>1, <2>2, FS_CardinalityType
<1> DEFINE f == [j \in First(S, k) |-> Rank(S, j) + 1]
           T == 1 .. k
<1>4. f \in [First(S, k) -> T]
  <2>1. ASSUME NEW j \in First(S, k) PROVE Rank(S, j) + 1 \in T
    <3>1. j \in S /\ Rank(S, j) < k
      BY DEF First
    <3>2. Rank(S, j) \in Nat
      BY <3>1, RankType
    <3> QED
      BY <3>1, <3>2
  <2> QED
    BY <2>1
<1>5. \A m, j \in First(S, k) : m # j => f[m] # f[j]
  <2> SUFFICES ASSUME NEW m \in First(S, k), NEW j \in First(S, k), m < j PROVE f[m] # f[j]
    BY DEF First
  <2>1. m \in S /\ j \in S
    BY DEF First
  <2>2. Rank(S, m) < Rank(S, j) /\ Rank(S, m) \in Nat /\ Rank(S, j) \in Nat
    BY <2>1, RanksGrow, RankType
  <2> QED
    BY <2>2
<1>6. ASSUME NEW n \in T PROVE \E j \in First(S, k) : f[j] = n
  <2>1. n \in 1 .. Cardinality(S)
    BY <1>3
  <2>2. PICK j \in S : Rank(S, j) = n - 1
    BY <2>1, EveryRank
  <2>3. j \in First(S, k)
    BY <2>2 DEF First
  <2> QED
    BY <2>2, <2>3
<1>7. f \in Bijection(First(S, k), T)
  <2> HIDE DEF f, T
  <2> QED
    BY <1>4, <1>5, <1>6 DEF Bijection, Injection, IsInjective, Surjection
<1>8. IsFiniteSet(First(S, k))
  <2>1. First(S, k) \in SUBSET S
    BY DEF First
  <2> QED
    BY <2>1, FS_Subset
<1>9. Cardinality(T) = Cardinality(First(S, k))
  <2> HIDE DEF f, T
  <2>1. ExistsBijection(First(S, k), T)
    BY <1>7 DEF ExistsBijection
  <2> QED
    BY <1>8, <2>1, FS_Bijection
<1>10. Cardinality(T) = k
  BY FS_Interval
<1> QED
  BY <1>2, <1>9, <1>10

(* The hot topics are a sequence of topics.                                *)
HotInv == hot \in Seq(Topics)

(* A run ends its window before it starts, so no commit made meanwhile     *)
(* counts; what it has reported is what it has found out.                  *)
WindowInv   == win.end \in Nat /\ win.end <= now
CountInv    == /\ pc \in {"idle", "collect"} => hot = <<>>
               /\ \A i \in DOMAIN hot : Of(hot[i]) # {} /\ Of(hot[i]) \subseteq seen
AnnounceInv == pc # "idle" => \A r \in reports : r.run = runs => r.seen = seen /\ r.notices = Notices

NoticeInv == IInv /\ ChannelInv /\ HotInv /\ WindowInv /\ CountInv /\ AnnounceInv

LEMMA HotInit == Init => HotInv
  BY DEF Init, HotInv

(* The hot topics are the first of a ranking.                              *)
LEMMA PrefixOfRanking ==
  ASSUME NEW S \in SUBSET Topics, NEW s \in Rankings(S)
  PROVE  SubSeq(s, 1, AtMost(Len(s), TopHot)) \in Seq(S)
<1>1. Cardinality(S) \in Nat
  BY CompactAssumption, FS_Subset, FS_CardinalityType DEF CompactAssumption
<1>2. s \in [1 .. Cardinality(S) -> S]
  BY DEF Rankings
<1>3. s \in Seq(S)
  BY <1>1, <1>2
<1>4. Len(s) \in Nat /\ AtMost(Len(s), TopHot) \in 0 .. Len(s) /\ DOMAIN s = 1 .. Len(s)
  BY <1>3, CompactAssumption DEF AtMost, CompactAssumption
<1>5. \A i \in 1 .. AtMost(Len(s), TopHot) : s[i] \in S
  BY <1>3, <1>4
<1> QED
  BY <1>4, <1>5

LEMMA HotCollect ==
  ASSUME HotInv, Collect
  PROVE  HotInv'
<1> DEFINE topics == {t \in Topics : Of(t) # {}}
<1>1. \/ hot' = hot
      \/ \E s \in Rankings(topics) : hot' = SubSeq(s, 1, AtMost(Len(s), TopHot))
  BY DEF Collect
<1>2. topics \in SUBSET Topics
  OBVIOUS
<1> HIDE DEF topics
<1>3. CASE hot' = hot
  BY <1>3 DEF HotInv
<1>4. ASSUME NEW s \in Rankings(topics), hot' = SubSeq(s, 1, AtMost(Len(s), TopHot))
      PROVE  hot' \in Seq(Topics)
  <2>1. hot' \in Seq(topics)
    BY <1>2, <1>4, PrefixOfRanking
  <2> QED
    BY <1>2, <2>1
<1> QED
  BY <1>1, <1>3, <1>4 DEF HotInv

LEMMA HotNext == HotInv /\ [Next]_vars => HotInv'
<1> SUFFICES ASSUME HotInv, [Next]_vars PROVE HotInv'
  OBVIOUS
<1>1. CASE Collect
  BY <1>1, HotCollect
<1>2. CASE UNCHANGED hot
  BY <1>2 DEF HotInv
<1>3. CASE Exit
  BY <1>3 DEF Exit, HotInv
<1>4. Collect \/ Exit \/ UNCHANGED hot
  BY DEF Next, Step, vars, run, Tick, Commit, Blog, Start, Dispatch, Judge, Judged, Mail, Resolve, Create
<1> QED
  BY <1>1, <1>2, <1>3, <1>4

LEMMA WindowEnds ==
  ASSUME NEW t \in Nat
  PROVE  Window(t).end \in Nat /\ Window(t).end <= t
<1>1. Day \in Nat \ {0}
  BY CompactAssumption DEF CompactAssumption
<1>2. DayOf(t) * Day \in Nat /\ DayOf(t) * Day <= t
  BY <1>1 DEF DayOf
<1> QED
  BY <1>2 DEF Window

LEMMA WindowNext ==
  ASSUME NoticeInv, [Next]_vars
  PROVE  WindowInv'
<1>1. now \in Nat /\ win.end \in Nat /\ win.end <= now
  BY DEF NoticeInv, IInv, HistoryInv, WindowInv
<1>2. CASE Tick
  <2>1. now' \in Nat /\ now' > now /\ win' = win
    BY <1>2, CompactAssumption DEF Tick, run, CompactAssumption
  <2> QED
    BY <1>1, <2>1 DEF WindowInv
<1>3. CASE Start
  <2>1. now' = now /\ (win' = win \/ win' = Window(now))
    BY <1>3 DEF Start
  <2> QED
    BY <1>1, <2>1, WindowEnds DEF WindowInv
<1>4. CASE Exit
  <2>1. now' = now /\ win' = NoWindow
    BY <1>4 DEF Exit
  <2> QED
    BY <1>1, <2>1 DEF WindowInv, NoWindow
<1>5. CASE UNCHANGED <<now, win>>
  BY <1>1, <1>5 DEF WindowInv
<1> QED
  BY <1>2, <1>3, <1>4, <1>5 DEF Next, Step, vars, run, Commit, Blog, Collect, Dispatch, Judge,
     Judged, Mail, Resolve, Create

(* What makes up a topic stays while the window and the commits in it do.  *)
LEMMA OfStays ==
  ASSUME NoticeInv, win' = win,
         UNCHANGED commits \/ Commit
  PROVE  \A t : Of(t)' = Of(t)
<1>1. CASE UNCHANGED commits
  BY <1>1 DEF Of, Counts, InWindow, Touched, Edited
<1>2. CASE Commit
  <2>1. PICK e \in [Topics -> Sizes] : commits' = Append(commits, [at |-> now, edits |-> e])
    BY <1>2 DEF Commit
  <2> DEFINE c == [at |-> now, edits |-> e]
             n == Len(commits)
  <2>2. c \in [at : Nat, edits : [Topics -> Sizes]] /\ c.at = now
    BY DEF NoticeInv, IInv, HistoryInv
  <2>3. commits' = Append(commits, c)
    BY <2>1
  <2> HIDE DEF c
  <2>4. /\ DOMAIN commits = 1 .. n /\ n \in Nat /\ DOMAIN commits' = 1 .. n + 1
        /\ \A i \in 1 .. n : commits'[i] = commits[i]
        /\ commits'[n + 1] = c
    BY <2>2, <2>3 DEF NoticeInv, IInv, HistoryInv
  <2> HIDE DEF n
  <2>5. ~(commits'[n + 1].at < win.end)
    BY <2>2, <2>4 DEF NoticeInv, WindowInv, IInv, HistoryInv
  <2>6. ASSUME NEW t PROVE Of(t)' = Of(t)
    <3>1. \A i \in 1 .. n : /\ Counts(commits[i])' <=> Counts(commits[i])
                           /\ Edited(commits[i])' = Edited(commits[i])
      BY <2>4 DEF Counts, InWindow, Touched, Edited
    <3>2. \A i : i = n + 1 => ~Counts(commits[i])'
      BY <2>5 DEF Counts, InWindow
    <3>3. Of(t)' = {i \in 1 .. n + 1 : Counts(commits[i])' /\ t \in Edited(commits[i])'}
      BY <2>4 DEF Of
    <3>4. \A i : i \in 1 .. n + 1 <=> i \in 1 .. n \/ i = n + 1
      BY <2>4
    <3>5. Of(t) = {i \in 1 .. n : Counts(commits[i]) /\ t \in Edited(commits[i])}
      BY <2>4 DEF Of
    <3> QED
      BY <3>1, <3>2, <3>3, <3>4, <3>5
  <2> QED
    BY <2>6
<1> QED
  BY <1>1, <1>2

LEMMA CountNext ==
  ASSUME NoticeInv, [Next]_vars
  PROVE  CountInv'
<1>1. CASE Collect
  <2> DEFINE topics == {t \in Topics : Of(t) # {}}
  <2>1. /\ win' = win /\ UNCHANGED commits /\ pc' \in {"judge", "done"}
    BY <1>1 DEF Collect
  <2>2. \A t : Of(t)' = Of(t)
    BY <2>1, OfStays
  <2>3. CASE pc' = "done"
    <3>1. hot = <<>> /\ hot' = <<>>
      BY <1>1, <2>3 DEF Collect, NoticeInv, CountInv
    <3> QED
      BY <2>3, <3>1 DEF CountInv
  <2>4. CASE pc' = "judge"
    <3>1. PICK s \in Rankings(topics) : hot' = SubSeq(s, 1, AtMost(Len(s), TopHot))
      BY <1>1, <2>4 DEF Collect
    <3>2. seen' = UNION {Of(t) : t \in topics}
      BY <1>1, <2>4 DEF Collect
    <3>3. hot' \in Seq(topics)
      BY <3>1, PrefixOfRanking
    <3>4. \A i \in DOMAIN hot' : hot'[i] \in topics
      <4> HIDE DEF topics
      <4> QED
        BY <3>3, ElementOf
    <3>5. \A i \in DOMAIN hot' : Of(hot'[i]) # {} /\ Of(hot'[i]) \subseteq seen'
      BY <3>2, <3>4
    <3> QED
      BY <2>2, <2>4, <3>5 DEF CountInv
  <2> QED
    BY <2>1, <2>3, <2>4
<1>2. CASE Start
  <2>1. hot = <<>> /\ hot' = hot
    BY <1>2 DEF Start, NoticeInv, CountInv
  <2> QED
    BY <2>1 DEF CountInv
<1>3. CASE Exit
  BY <1>3 DEF Exit, CountInv
<1>4. CASE \/ Commit
           \/ UNCHANGED <<commits, win, hot, seen>> /\ (pc' \notin {"idle", "collect"} \/ pc' = pc)
  <2>1. UNCHANGED <<win, hot, seen>> /\ (pc' \notin {"idle", "collect"} \/ pc' = pc)
    BY <1>4 DEF Commit, run
  <2>2. \A t : Of(t)' = Of(t)
    BY <1>4, <2>1, OfStays
  <2> QED
    BY <2>1, <2>2 DEF NoticeInv, CountInv
<1>5. \/ Collect \/ Start \/ Exit \/ Commit
      \/ UNCHANGED <<commits, win, hot, seen>> /\ (pc' \notin {"idle", "collect"} \/ pc' = pc)
  <2>1. CASE Tick \/ Blog \/ UNCHANGED vars
    BY <2>1 DEF vars, run, Tick, Blog
  <2>2. CASE Dispatch \/ (\E t \in Topics : Judge(t)) \/ Judged \/ Mail \/ Resolve \/ Create
    BY <2>2 DEF Dispatch, Judge, Judged, Mail, Resolve, Create
  <2>3. \/ Collect \/ Start \/ Exit \/ Commit \/ Tick \/ Blog \/ UNCHANGED vars
        \/ Dispatch \/ (\E t \in Topics : Judge(t)) \/ Judged \/ Mail \/ Resolve \/ Create
    BY DEF Next, Step
  <2> QED
    BY <2>1, <2>2, <2>3
<1> QED
  BY <1>1, <1>2, <1>3, <1>4, <1>5

LEMMA AnnounceNext ==
  ASSUME NoticeInv, [Next]_vars
  PROVE  AnnounceInv'
<1>1. CASE Start
  <2>1. runs' = runs + 1 /\ reports' = reports
    BY <1>1 DEF Start
  <2>2. \A r \in reports' : r.run # runs'
    BY <2>1 DEF NoticeInv, ChannelInv, NumberInv
  <2> QED
    BY <2>2 DEF AnnounceInv
<1>2. CASE Exit
  BY <1>2 DEF Exit, AnnounceInv
<1>3. CASE Collect \/ Dispatch \/ (\E t \in Topics : Judge(t)) \/ Judged
  <2>1. pc \in Early /\ UNCHANGED <<runs, reports>>
    BY <1>3 DEF Collect, Dispatch, Judge, Judged, Early
  <2>2. \A r \in reports' : r.run # runs'
    BY <2>1 DEF NoticeInv, ChannelInv, NoneYet
  <2> QED
    BY <2>2 DEF AnnounceInv
<1>4. CASE /\ UNCHANGED <<hot, verdict, skipped, seen, runs>> /\ (pc' # "idle" => pc # "idle")
           /\ \A r \in reports' : r \in reports \/ (r.seen = seen /\ r.notices = Notices)
  <2>1. Notices' = Notices
    BY <1>4 DEF Notices, Recommended
  <2> QED
    BY <1>4, <2>1 DEF NoticeInv, AnnounceInv
<1>5. \/ Start \/ Exit \/ Collect \/ Dispatch \/ (\E t \in Topics : Judge(t)) \/ Judged
      \/ /\ UNCHANGED <<hot, verdict, skipped, seen, runs>> /\ (pc' # "idle" => pc # "idle")
         /\ \A r \in reports' : r \in reports \/ (r.seen = seen /\ r.notices = Notices)
  <2>1. \A channel : Report(channel).seen = seen /\ Report(channel).notices = Notices
    BY DEF Report
  <2>2. CASE Tick \/ Commit \/ Blog \/ UNCHANGED vars
    BY <2>2 DEF Tick, Commit, Blog, vars, run
  <2>3. CASE Mail \/ Resolve \/ Create
    <3>1. UNCHANGED <<hot, verdict, skipped, seen, runs>> /\ pc # "idle"
      BY <2>3 DEF Mail, Resolve, Create
    <3>2. \/ reports' = reports \/ reports' = reports \cup {Report("mail")}
          \/ reports' = reports \cup {Report("issue")}
      BY <2>3 DEF Mail, Resolve, Create
    <3> QED
      BY <2>1, <3>1, <3>2
  <2> QED
    BY <2>2, <2>3 DEF Next, Step
<1> QED
  BY <1>1, <1>2, <1>3, <1>4, <1>5

LEMMA NoticeInit == Init => NoticeInv
<1> SUFFICES ASSUME Init PROVE NoticeInv
  OBVIOUS
<1>1. IInv /\ ChannelInv /\ HotInv
  BY InitInv, ChannelInit, HotInit
<1>2. WindowInv
  BY CompactAssumption DEF Init, WindowInv, NoWindow, CompactAssumption
<1>3. CountInv /\ AnnounceInv
  BY DEF Init, CountInv, AnnounceInv
<1> QED
  BY <1>1, <1>2, <1>3 DEF NoticeInv

LEMMA NoticeNext == NoticeInv /\ [Next]_vars => NoticeInv'
<1> SUFFICES ASSUME NoticeInv, [Next]_vars PROVE NoticeInv'
  OBVIOUS
<1>1. IInv' /\ ChannelInv' /\ HotInv'
  BY NextInv, ChannelNext, HotNext DEF NoticeInv
<1> QED
  BY <1>1, WindowNext, CountNext, AnnounceNext DEF NoticeInv

(* compact.go: whatever is committed, judged and refused while a run goes  *)
(* on, what it has mailed and filed are the best ranked of the topics that *)
(* the AI recommended, fewer than the limit for want of others only, and   *)
(* each for edits of the window that the report counts.                    *)
THEOREM BestAnnounced == Spec => []NoticesAreTheBest
<1>1. NoticeInv => NoticesAreTheBest
  <2> SUFFICES ASSUME NoticeInv, NEW r \in reports, r.run = runs, pc # "idle"
               PROVE  /\ r.notices \subseteq Recommended
                      /\ \A i \in r.notices : Of(hot[i]) # {} /\ Of(hot[i]) \subseteq r.seen
                      /\ IF skipped THEN r.notices = {}
                         ELSE \A i \in Recommended \ r.notices :
                                Cardinality(r.notices) = TopNotice /\ \A n \in r.notices : n < i
    BY DEF NoticesAreTheBest
  <2>1. r.notices = Notices /\ r.seen = seen
    BY DEF NoticeInv, AnnounceInv
  <2>2. Notices \subseteq Recommended /\ (skipped => Notices = {})
    BY DEF Notices
  <2>3. \A i \in Notices : Of(hot[i]) # {} /\ Of(hot[i]) \subseteq seen
    BY <2>2 DEF Recommended, NoticeInv, CountInv
  <2>4. ASSUME ~skipped, NEW i \in Recommended \ Notices
        PROVE  Cardinality(Notices) = TopNotice /\ \A n \in Notices : n < i
    <3>1. Recommended \in SUBSET (1 .. Len(hot)) /\ Len(hot) \in Nat
      BY DEF Recommended, NoticeInv, HotInv
    <3>2. Recommended \in SUBSET Nat /\ IsFiniteSet(Recommended)
      <4>1. IsFiniteSet(1 .. Len(hot))
        BY <3>1, FS_Interval
      <4>2. IsFiniteSet(Recommended)
        BY <3>1, <4>1, FS_Subset
      <4>3. 1 .. Len(hot) \subseteq Nat
        BY <3>1
      <4> QED
        BY <3>1, <4>2, <4>3
    <3>3. Notices = First(Recommended, TopNotice)
      BY <2>4 DEF Notices, First, Rank, Below
    <3> QED
      BY <2>4, <3>2, <3>3, FirstOfMany, CompactAssumption DEF CompactAssumption
  <2> QED
    BY <2>1, <2>2, <2>3, <2>4
<1> QED
  BY <1>1, NoticeInit, NoticeNext, PTL DEF Spec
=============================================================================
