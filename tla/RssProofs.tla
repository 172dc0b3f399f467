------------------------------ MODULE RssProofs -------------------------------
(***************************************************************************)
(* Proofs about Rss: what its run checks of a small instance holds of any  *)
(* number of feeds, categories, sources, episodes, processes and runs.     *)
(*                                                                         *)
(* Each command has an inductive invariant of its own, proved of its own   *)
(* module; RssInv puts them together.                                      *)
(***************************************************************************)
EXTENDS Rss, FiniteSetTheorems, TLAPS

-----------------------------------------------------------------------------
(* Ranks. *)

Below(S, R, j) == {i \in S : <<i, j>> \in R}

\* R orders S.
Orders(R, S) ==
  \A i, j \in S : /\ <<i, i>> \notin R
                  /\ i # j => <<i, j>> \in R \/ <<j, i>> \in R
                  /\ \A k \in S : <<i, j>> \in R /\ <<j, k>> \in R => <<i, k>> \in R

\* In a finite set that is ordered every rank is taken, and by one element.
LEMMA EveryRank ==
  ASSUME NEW S, IsFiniteSet(S), NEW R, Orders(R, S), NEW n \in 1 .. Cardinality(S)
  PROVE  \E j \in S : Cardinality(Below(S, R, j)) = n - 1
<1> DEFINE f == [j \in S |-> Cardinality(Below(S, R, j)) + 1]
           T == 1 .. Cardinality(S)
<1>1. Cardinality(S) \in Nat
  BY FS_CardinalityType
<1>2. ASSUME NEW j \in S
      PROVE  Cardinality(Below(S, R, j)) \in 0 .. Cardinality(S) - 1
  <2>1. Below(S, R, j) \in SUBSET (S \ {j})
    BY DEF Below, Orders
  <2>2. IsFiniteSet(S \ {j}) /\ Cardinality(S \ {j}) = Cardinality(S) - 1
    BY FS_RemoveElement
  <2>3. IsFiniteSet(Below(S, R, j)) /\ Cardinality(Below(S, R, j)) <= Cardinality(S \ {j})
    BY <2>1, <2>2, FS_Subset
  <2>4. Cardinality(Below(S, R, j)) \in Nat
    BY <2>3, FS_CardinalityType
  <2> QED
    BY <1>1, <2>2, <2>3, <2>4
<1>3. ASSUME NEW i \in S, NEW j \in S, <<i, j>> \in R PROVE f[i] # f[j]
  <2>1. Below(S, R, i) \in SUBSET Below(S, R, j)
    BY <1>3 DEF Below, Orders
  <2>2. i \in Below(S, R, j) /\ i \notin Below(S, R, i)
    BY <1>3 DEF Below, Orders
  <2>3. IsFiniteSet(Below(S, R, j))
    <3>1. Below(S, R, j) \in SUBSET S
      BY DEF Below
    <3> QED
      BY <3>1, FS_Subset
  <2>4. Cardinality(Below(S, R, i)) # Cardinality(Below(S, R, j))
    BY <2>1, <2>2, <2>3, FS_Subset
  <2> QED
    BY <2>4, <1>2
<1>4. f \in Injection(S, T)
  <2>1. f \in [S -> T]
    BY <1>1, <1>2
  <2>2. \A i, j \in S : i # j => f[i] # f[j]
    BY <1>3 DEF Orders
  <2> HIDE DEF f
  <2> QED
    BY <2>1, <2>2 DEF Injection, IsInjective
<1>5. IsFiniteSet(T) /\ Cardinality(T) = Cardinality(S)
  BY <1>1, FS_Interval
<1>6. f \in Surjection(S, T)
  <2> HIDE DEF f, T
  <2> QED
    BY <1>4, <1>5, FS_Injection
<1>7. PICK j \in S : f[j] = n
  <2>1. n \in T
    OBVIOUS
  <2> HIDE DEF f, T
  <2> QED
    BY <1>6, <2>1 DEF Surjection
<1> QED
  BY <1>2, <1>7

-----------------------------------------------------------------------------
(* send (Newsletter).                                                      *)
SendType ==
  /\ phase \in {"idle", "fetching", "rendered", "mailed"}
  /\ stage \in [Nl!Cats -> {"queued", "fetching", "recording", "done"}]
  /\ outcome = [c \in Nl!Cats |-> outcome[c]]
  /\ \A c \in Nl!Cats : outcome[c] = <<>> \/ outcome[c] \in [FeedCategories[c] -> Nl!Outcomes]
  /\ file = [u \in Urls |-> file[u]] /\ streak = [u \in Urls |-> streak[u]]
  /\ \A u \in Urls : file[u].runs \in Nat /\ streak[u].runs \in Nat

\* The dates come from the categories that have answered, and are complete
\* for those that are done unless two have raced.
DatesKept ==
  /\ dates \subseteq UNION {Nl!Dated(c) : c \in Nl!Cats}
  /\ \A c \in Nl!Cats :
       /\ stage[c] \in {"queued", "fetching"} => Nl!Dated(c) = {}
       /\ stage[c] = "done" /\ ~raced => Nl!Dated(c) \subseteq dates
       /\ phase \in {"rendered", "mailed"} => stage[c] = "done"

\* While the file was always read and written it is the history.
FileIsHistory == ~unread /\ ~unsaved => file = streak

\* The report is that of the outcomes and of the history.
ReportIsHistory ==
  phase \in {"rendered", "mailed"} /\ ~unread /\ ~unsaved => report = Nl!Groups(Nl!Failed, streak)

SendInv ==
  SendType /\ DatesKept /\ Nl!CountsNeverInvented /\ FileIsHistory /\ ReportIsHistory

-----------------------------------------------------------------------------
LEMMA NoRuns == Nl!NoItem.runs = 0
  BY Zenon DEF Nl!NoItem

LEMMA NoneAnswered == DOMAIN <<>> = {}
  OBVIOUS

LEMMA SendInit == Nl!Init => SendInv
<1> SUFFICES ASSUME Nl!Init PROVE SendInv
  OBVIOUS
<1> USE NoRuns DEF Nl!Init, Nl!NoFile
<1>1. SendType
  BY DEF SendType
<1>2. DatesKept
  <2>1. \A c \in Nl!Cats : Nl!Dated(c) = {}
    BY NoneAnswered DEF Nl!Dated
  <2> QED
    BY <2>1 DEF DatesKept
<1>3. Nl!CountsNeverInvented
  BY DEF Nl!CountsNeverInvented
<1>4. FileIsHistory /\ ReportIsHistory
  BY DEF FileIsHistory, ReportIsHistory
<1> QED
  BY <1>1, <1>2, <1>3, <1>4 DEF SendInv

\* What the counts rest on is as it was.
LEMMA CountsAside ==
  ASSUME SendInv, file' = file, streak' = streak, unsaved' = unsaved, unread' = unread
  PROVE  Nl!CountsNeverInvented' /\ FileIsHistory'
BY DEF SendInv, Nl!CountsNeverInvented, FileIsHistory

LEMMA SendStart == ASSUME SendInv, Nl!StartRun PROVE SendInv'
<1> USE DEF Nl!StartRun, Nl!history
<1>1. SendType'
  BY DEF SendInv, SendType
<1>2. DatesKept'
  BY DEF DatesKept, Nl!Dated
<1>3. ReportIsHistory'
  BY DEF ReportIsHistory
<1> QED
  BY <1>1, <1>2, <1>3, CountsAside DEF SendInv

LEMMA SendLaunch == ASSUME SendInv, NEW c \in Nl!Cats, Nl!Launch(c) PROVE SendInv'
<1> USE DEF Nl!Launch, Nl!history
<1>1. SendType'
  BY DEF SendInv, SendType
<1>2. DatesKept'
  BY DEF SendInv, SendType, DatesKept, Nl!Dated
<1>3. ReportIsHistory'
  BY DEF ReportIsHistory
<1> QED
  BY <1>1, <1>2, <1>3, CountsAside DEF SendInv

LEMMA SendFetched == ASSUME SendInv, NEW c \in Nl!Cats, Nl!Fetched(c) PROVE SendInv'
<1>1. PICK o \in [FeedCategories[c] -> Nl!Outcomes] :
        /\ outcome' = [outcome EXCEPT ![c] = o]
        /\ LET writes == \E u \in FeedCategories[c] : o[u] = "ok"
           IN /\ stage' = [stage EXCEPT ![c] = IF writes THEN "recording" ELSE "done"]
              /\ raced' = (raced \/ (writes /\ \E b \in Nl!Cats : stage[b] = "recording"))
  BY DEF Nl!Fetched
<1>2. /\ phase = "fetching" /\ stage[c] = "fetching"
      /\ UNCHANGED <<phase, dates, file, report, runs, streak, unread, unsaved>>
  BY DEF Nl!Fetched, Nl!history
<1>3. SendType'
  BY <1>1, <1>2 DEF SendInv, SendType
<1>4. /\ \A b \in Nl!Cats : b # c => Nl!Dated(b)' = Nl!Dated(b)
      /\ Nl!Dated(c) = {}
      /\ Nl!Dated(c)' # {} <=> \E u \in FeedCategories[c] : o[u] = "ok"
  BY <1>1, <1>2 DEF SendInv, SendType, DatesKept, Nl!Dated
<1>5. DatesKept'
  <2>1. dates' \subseteq UNION {Nl!Dated(b)' : b \in Nl!Cats}
    BY <1>2, <1>4 DEF SendInv, DatesKept
  <2>2. ASSUME NEW b \in Nl!Cats
        PROVE  /\ stage'[b] \in {"queued", "fetching"} => Nl!Dated(b)' = {}
               /\ stage'[b] = "done" /\ ~raced' => Nl!Dated(b)' \subseteq dates'
               /\ phase' \in {"rendered", "mailed"} => stage'[b] = "done"
    <3>1. CASE b = c
      BY <1>1, <1>2, <1>4, <3>1 DEF SendInv, SendType
    <3>2. CASE b # c
      BY <1>1, <1>2, <1>4, <3>2 DEF SendInv, SendType, DatesKept
    <3> QED
      BY <3>1, <3>2
  <2> QED
    BY <2>1, <2>2 DEF DatesKept
<1>6. ReportIsHistory'
  BY <1>2 DEF ReportIsHistory
<1> QED
  BY <1>2, <1>3, <1>5, <1>6, CountsAside DEF SendInv

LEMMA SendRecord == ASSUME SendInv, NEW c \in Nl!Cats, Nl!Record(c) PROVE SendInv'
<1> USE DEF Nl!Record, Nl!history
<1>1. SendType'
  BY DEF SendInv, SendType
<1>2. DatesKept'
  <2>1. \A b \in Nl!Cats : Nl!Dated(b)' = Nl!Dated(b)
    BY DEF Nl!Dated
  <2>2. dates' \subseteq dates \cup Nl!Dated(c) /\ (~raced => dates' = dates \cup Nl!Dated(c))
    OBVIOUS
  <2>3. dates' \subseteq UNION {Nl!Dated(b) : b \in Nl!Cats}
    BY <2>2 DEF SendInv, DatesKept
  <2>4. dates' \subseteq UNION {Nl!Dated(b)' : b \in Nl!Cats}
    BY <2>1, <2>3
  <2> QED
    BY <2>1, <2>2, <2>4 DEF SendInv, SendType, DatesKept
<1>3. ReportIsHistory'
  BY DEF ReportIsHistory
<1> QED
  BY <1>1, <1>2, <1>3, CountsAside DEF SendInv

\* Steps that only move the run on.
LEMMA SendMoves ==
  ASSUME SendInv, phase' = "idle" \/ (phase = "rendered" /\ phase' = "mailed"),
         UNCHANGED <<stage, outcome, dates, file, report, runs, streak, unread, unsaved, raced>>
  PROVE  SendInv'
<1>1. SendType'
  BY DEF SendInv, SendType
<1>2. DatesKept'
  BY DEF SendInv, DatesKept, Nl!Dated
<1>3. ReportIsHistory'
  BY DEF SendInv, ReportIsHistory, Nl!Failed, Nl!FailedIn
<1> QED
  BY <1>1, <1>2, <1>3, CountsAside DEF SendInv

LEMMA SendReport == ASSUME SendInv, Nl!BuildReport PROVE SendInv'
<1> DEFINE failed == Nl!Failed
<1>1. PICK readable \in BOOLEAN, writable \in BOOLEAN :
        LET next == Nl!NextState(failed, IF readable THEN file ELSE Nl!NoFile)
        IN /\ file' = IF writable THEN next ELSE file
           /\ report' = Nl!Groups(failed, next)
           /\ unread' = (unread \/ ~readable)
           /\ unsaved' = (unsaved \/ ~writable)
  BY DEF Nl!BuildReport
<1>2. /\ phase' = "rendered" /\ streak' = Nl!Streaks(failed)
      /\ \A c \in Nl!Cats : stage[c] = "done"
      /\ UNCHANGED <<stage, outcome, dates, raced>>
  BY DEF Nl!BuildReport
<1>3. failed' = failed
  BY <1>2 DEF Nl!Failed, Nl!FailedIn
<1> HIDE DEF failed
<1> DEFINE before == IF readable THEN file ELSE Nl!NoFile
           next == Nl!NextState(failed, before)
<1>4. /\ \A u \in Urls : before[u].runs \in Nat /\ (before[u] = file[u] \/ before[u] = Nl!NoItem)
      /\ readable => before = file
  BY NoRuns DEF SendInv, SendType, Nl!NoFile
<1> HIDE DEF before
<1>5. ASSUME NEW u \in Urls, u \notin DOMAIN failed
      PROVE  next[u] = Nl!NoItem /\ streak'[u] = Nl!NoItem
  BY <1>2, <1>5 DEF Nl!NextState, Nl!Streaks
<1>6. ASSUME NEW u \in Urls, u \in DOMAIN failed
      PROVE  /\ next[u].kind = failed[u].kind
             /\ next[u].runs = IF before[u].kind = failed[u].kind THEN before[u].runs + 1 ELSE 1
             /\ streak'[u].kind = failed[u].kind
             /\ streak'[u].runs = 1 + IF streak[u].kind = failed[u].kind THEN streak[u].runs ELSE 0
  BY <1>2, <1>6 DEF Nl!NextState, Nl!NewItem, Nl!Streaks
<1>7. ASSUME NEW u \in Urls, u \in DOMAIN failed, next[u].runs = streak'[u].runs
       PROVE  next[u] = streak'[u]
  BY <1>2, <1>7 DEF Nl!NextState, Nl!NewItem, Nl!Streaks
<1>8. /\ next = [u \in Urls |-> next[u]] /\ streak' = [u \in Urls |-> streak'[u]]
      /\ file' = IF writable THEN next ELSE file
      /\ report' = Nl!Groups(failed, next)
  BY <1>1, <1>2 DEF Nl!NextState, Nl!Streaks, before
<1> HIDE DEF next
<1>9. ASSUME NEW u \in Urls PROVE next[u].runs \in Nat /\ streak'[u].runs \in Nat
  <2>1. before[u].runs \in Nat /\ streak[u].runs \in Nat
    BY <1>4 DEF SendInv, SendType
  <2>2. CASE u \in DOMAIN failed
    BY <2>1, <2>2, <1>5, <1>6
  <2>3. CASE u \notin DOMAIN failed
    BY <2>3, <1>5, <1>6, NoRuns
  <2> QED
    BY <2>2, <2>3
<1>10. SendType'
  <2>1. \A u \in Urls : file'[u].runs \in Nat /\ streak'[u].runs \in Nat
    BY <1>8, <1>9 DEF SendInv, SendType
  <2>2. file' = [u \in Urls |-> file'[u]] /\ streak' = [u \in Urls |-> streak'[u]]
    BY <1>8 DEF SendInv, SendType
  <2> QED
    BY <1>2, <2>1, <2>2 DEF SendInv, SendType
<1>11. DatesKept'
  <2>1. \A b \in Nl!Cats : Nl!Dated(b)' = Nl!Dated(b)
    BY <1>2 DEF Nl!Dated
  <2> QED
    BY <1>2, <2>1 DEF SendInv, DatesKept
<1>12. Nl!CountsNeverInvented'
  <2> SUFFICES ASSUME ~unsaved', NEW u \in Urls
               PROVE  /\ file'[u].runs <= streak'[u].runs
                      /\ file'[u].runs > 0 => file'[u].kind = streak'[u].kind
    BY DEF Nl!CountsNeverInvented
  <2>1. ~unsaved /\ file' = next
    BY <1>1, <1>8
  <2>2. /\ file[u].runs \in Nat /\ streak[u].runs \in Nat
        /\ file[u].runs <= streak[u].runs
        /\ file[u].runs > 0 => file[u].kind = streak[u].kind
    BY <2>1 DEF SendInv, SendType, Nl!CountsNeverInvented
  <2>3. CASE u \notin DOMAIN failed
    BY <2>1, <2>3, <1>5, <1>6, NoRuns
  <2>4. CASE u \in DOMAIN failed
    <3> DEFINE k == failed[u].kind
               was == before[u]
               ran == streak[u]
    <3>1. /\ next[u].kind = k /\ next[u].runs = IF was.kind = k THEN was.runs + 1 ELSE 1
          /\ streak'[u].kind = k /\ streak'[u].runs = 1 + IF ran.kind = k THEN ran.runs ELSE 0
      BY <2>4, <1>5, <1>6
    <3>2. was.runs \in Nat /\ ran.runs \in Nat /\ (was.runs = 0 \/ (was.runs <= ran.runs /\ was.kind = ran.kind))
      <4>1. CASE was = file[u]
        BY <4>1, <2>2
      <4>2. CASE was = Nl!NoItem
        BY <4>2, <2>2, NoRuns DEF was, ran
      <4> QED
        BY <4>1, <4>2, <1>4
    <3> HIDE DEF k, was, ran
    <3>3. next[u].runs <= streak'[u].runs
      BY <3>1, <3>2
    <3> QED
      BY <2>1, <3>1, <3>3
  <2> QED
    BY <2>3, <2>4
<1>13. ~unread' /\ ~unsaved' => next = streak' /\ file' = next
  <2> SUFFICES ASSUME ~unread', ~unsaved' PROVE next = streak' /\ file' = next
    OBVIOUS
  <2>1. ~unread /\ ~unsaved /\ readable /\ writable
    BY <1>1
  <2>2. before = streak /\ file' = next
    BY <2>1, <1>4, <1>8 DEF SendInv, FileIsHistory
  <2>3. ASSUME NEW u \in Urls PROVE next[u] = streak'[u]
    <3>1. streak[u].runs \in Nat
      BY DEF SendInv, SendType
    <3>2. CASE u \in DOMAIN failed
      <4>1. next[u].runs = streak'[u].runs
        BY <2>2, <3>1, <3>2, <1>6
      <4> QED
        BY <3>2, <4>1, <1>7
    <3> QED
      BY <3>2, <1>5
  <2> QED
    BY <2>2, <2>3, <1>8
<1>14. FileIsHistory' /\ ReportIsHistory'
  BY <1>3, <1>8, <1>13 DEF FileIsHistory, ReportIsHistory, failed
<1> QED
  BY <1>10, <1>11, <1>12, <1>14 DEF SendInv

LEMMA SendNext == SendInv /\ [Nl!Next]_(Nl!vars) => SendInv'
<1> SUFFICES ASSUME SendInv, [Nl!Next]_(Nl!vars) PROVE SendInv'
  OBVIOUS
<1>1. CASE Nl!MapWritesCollide \/ Nl!Mail \/ Nl!EndRun \/ Nl!Kill
  BY <1>1, SendMoves DEF Nl!MapWritesCollide, Nl!Mail, Nl!EndRun, Nl!Kill, Nl!history
<1>2. CASE UNCHANGED Nl!vars
  BY <1>2 DEF Nl!vars, SendInv, SendType, DatesKept, Nl!Dated, Nl!CountsNeverInvented,
              FileIsHistory, ReportIsHistory, Nl!Failed, Nl!FailedIn
<1> QED
  BY <1>1, <1>2, SendStart, SendLaunch, SendFetched, SendRecord, SendReport DEF Nl!Next

-----------------------------------------------------------------------------
\* The first of a group's URLs in the order of the report is one of them.
LEMMA FirstIsMember ==
  ASSUME NEW members \in SUBSET Urls, members # {}
  PROVE  Nl!FirstOf(members) \in members
<1> DEFINE I == {i \in DOMAIN UrlOrder : UrlOrder[i] \in members}
<1>1. /\ DOMAIN UrlOrder \subseteq Nat
      /\ \A u \in Urls : \E i \in DOMAIN UrlOrder : UrlOrder[i] = u
  BY RssAssumption DEF Nl!FailureReportAssumption
<1>2. PICK i \in I : \A j \in I : ~(<<j, i>> \in OpToRel(<, Nat))
  <2>1. I # {} /\ I \subseteq Nat
    BY <1>1
  <2> HIDE DEF I
  <2> QED
    BY <2>1, WFMin, NatLessThanWellFounded
<1>3. \A j \in I : i <= j
  <2> SUFFICES ASSUME NEW j \in I, j < i PROVE FALSE
    BY <1>1
  <2> QED
    BY <1>1, <1>2 DEF OpToRel
<1>4. \A v \in members \ {UrlOrder[i]} : Nl!Precedes(UrlOrder[i], v)
  <2> SUFFICES ASSUME NEW v \in members, v # UrlOrder[i] PROVE Nl!Precedes(UrlOrder[i], v)
    OBVIOUS
  <2>1. PICK j \in DOMAIN UrlOrder : UrlOrder[j] = v
    BY <1>1
  <2>2. i < j
    BY <1>1, <1>3, <2>1
  <2> QED
    BY <2>1, <2>2 DEF Nl!Precedes
<1> QED
  BY <1>4 DEF Nl!FirstOf

LEMMA Escalations == SendInv => Nl!EscalatedWhenDue
<1> SUFFICES ASSUME SendInv, phase = "mailed", ~unread, ~unsaved, NEW g \in report,
                    {u \in g.members : Nl!Failed[u].transient} \in {{}, g.members}
             PROVE  g.escalated <=>
                      \/ {u \in g.members : Nl!Failed[u].transient} = {}
                      \/ \E u \in g.members : streak[u].runs >= EscalateAfter
  BY DEF Nl!EscalatedWhenDue
<1> DEFINE failed == Nl!Failed
<1>1. DOMAIN failed \subseteq Urls
  <2>1. \A c \in Nl!Cats : FeedCategories[c] \subseteq Urls
    BY RssAssumption DEF Nl!NewsletterAssumption, Nl!Cats
  <2>2. \A c \in Nl!Cats : Nl!FailedIn(c) \subseteq Urls
    BY <2>1 DEF SendInv, SendType, Nl!FailedIn
  <2> QED
    BY <2>2 DEF Nl!Failed
<1>2. g \in Nl!Groups(failed, streak)
  BY DEF SendInv, ReportIsHistory
<1> HIDE DEF failed
<1>3. PICK w \in DOMAIN failed : g = Nl!Group(failed, streak, HostOf[w], failed[w].kind)
  BY <1>2 DEF Nl!Groups
<1> DEFINE members == Nl!Members(failed, HostOf[w], failed[w].kind)
<1>4. w \in members /\ members \subseteq Urls
  BY <1>1 DEF Nl!Members
<1>5. /\ g.members = members
      /\ g.escalated <=> \/ ~failed[Nl!FirstOf(members)].transient
                         \/ \E u \in members : streak[u].runs >= EscalateAfter
  BY <1>3 DEF Nl!Group
<1> HIDE DEF members
<1>6. Nl!FirstOf(members) \in members
  BY <1>4, FirstIsMember
<1> QED
  BY <1>4, <1>5, <1>6 DEF failed

LEMMA Details == SendInv => Nl!DetailsTrue
<1> SUFFICES ASSUME SendInv, phase = "mailed", NEW u \in Urls
             PROVE  LET answered == UNION {Nl!Dated(c) : c \in Nl!Cats}
                    IN /\ u \notin answered => Nl!Detail(u) = "unknown"
                       /\ u \in answered /\ ~raced => Nl!Detail(u) # "unknown"
  BY DEF Nl!DetailsTrue
<1> QED
  BY DEF SendInv, DatesKept, Nl!Detail

-----------------------------------------------------------------------------
(* hunt (SourceHunt).                                                      *)

\* What a report lists.
Found ==
  [url : Sources, provider : Hunt!Known, category : {Hunt!CategoryOf(j) : j \in Nat},
   score : Int, isNew : BOOLEAN]

HuntType ==
  /\ phase \in {"idle", "scanning", "reported", "saved", "published"}
  /\ job \in Nat \ {0}
  /\ pending \in Seq(Sources) /\ report \in Seq(Found)
  /\ mem \in Hunt!States /\ file \in Hunt!States
  /\ "accepted" \in DOMAIN stats
  /\ accepted \in [Sources -> Nat]

\* Between runs nothing is in memory, and nothing is published before the end.
Rests ==
  /\ phase = "idle" => pending = <<>> /\ report = <<>> /\ mem = Hunt!Empty
  /\ phase # "published" => link = 0

\* What is remembered for the next run.
Remembered == IF phase \in {"scanning", "reported"} THEN mem.seen ELSE file.seen

AcceptedIsSeen ==
  NewOnly /\ ~lost =>
    \A u \in Sources : accepted[u] <= 1 /\ (accepted[u] > 0 => u \in Remembered)

\* The run knows what was muted when it read the file, and the file what is now.
MutesKnown ==
  /\ ~edited => wanted = wantedThen
  /\ ~clobbered => wanted \subseteq file.muted
  /\ ~clobbered /\ ~unread /\ phase # "idle" => wantedThen \subseteq mem.muted
  /\ ~clobbered /\ ~unread /\ phase \in {"scanning", "reported"} =>
       \A u \in Hunt!UrlsIn(report) : u \notin wantedThen /\ DomainOf[u] \notin wantedThen

SeenInReport ==
  /\ file.seen \subseteq shown \cup cut
  /\ mem.seen \subseteq shown \cup cut \cup (IF phase = "scanning" THEN Hunt!UrlsIn(report) ELSE {})

Published ==
  /\ phase \in {"reported", "saved", "published"} => stats.accepted = Len(report)
  /\ link # 0 => link = html /\ stats.accepted > 0

HuntInv == HuntType /\ Rests /\ AcceptedIsSeen /\ MutesKnown /\ SeenInReport /\ Published

-----------------------------------------------------------------------------
\* What the providers and types weigh makes every score a number.
LEMMA ScoresCompare ==
  ASSUME NEW i \in DOMAIN Providers, NEW u \in Sources
  PROVE  Hunt!Score(Providers[i], u) \in Int
<1> DEFINE p == Providers[i]
<1>1. /\ p \in Hunt!Known /\ Weight[p] \in Int /\ RawScore[p][u] \in Int
      /\ Weight[Hunt!CandidateType(u)] \in Int
  <2>1. Hunt!CandidateType(u) \in Hunt!Types
    BY DEF Hunt!CandidateType, Hunt!Types
  <2> QED
    BY <2>1, RssAssumption DEF Hunt!SourceHuntAssumption
<1> HIDE DEF p
<1>2. Hunt!Fallback[p] \in Int
  BY <1>1 DEF Hunt!Known, Hunt!Fallback
<1>3. Hunt!Confidence(p, RawScore[p][u]) \in Int
  BY <1>1, <1>2 DEF Hunt!Confidence, Hunt!Least
<1> DEFINE a == IF Weight[p] = 0 THEN 80 ELSE Weight[p]
           b == IF Weight[Hunt!CandidateType(u)] = 0 THEN 50 ELSE Weight[Hunt!CandidateType(u)]
           c == IF Hunt!Confidence(p, RawScore[p][u]) = 0 THEN 50 ELSE Hunt!Confidence(p, RawScore[p][u])
<1>4. a \in Int /\ b \in Int /\ c \in Int
  BY <1>1, <1>3
<1>5. Hunt!Score(p, u) = a * b * c
  BY DEF Hunt!Score
<1> HIDE DEF a, b, c
<1>6. a * b \in Int
  BY <1>4
<1>7. a * b * c \in Int
  BY <1>4, <1>6
<1> QED
  BY <1>5, <1>7 DEF p

\* Sorting a report loses and adds nothing that was not there.
LEMMA SortedIsThere ==
  ASSUME NEW s \in Seq(Found)
  PROVE  /\ Hunt!Sorted(s) \in Seq(Found)
         /\ \A k \in DOMAIN Hunt!Sorted(s) : \E j \in DOMAIN s : Hunt!Sorted(s)[k] = s[j]
<1> DEFINE S == DOMAIN s
           Ahead(i, j) == s[i].score > s[j].score \/ (s[i].score = s[j].score /\ i < j)
           R == {x \in S \X S : Ahead(x[1], x[2])}
<1>1. S = 1 .. Len(s) /\ Len(s) \in Nat /\ IsFiniteSet(S) /\ Cardinality(S) = Len(s)
  <2>1. Len(s) \in Nat /\ S = 1 .. Len(s)
    OBVIOUS
  <2> HIDE DEF S
  <2> QED
    BY <2>1, FS_Interval
<1>2. \A i \in S : s[i].score \in Int /\ i \in Int /\ s[i] \in Found
  <2>1. \A i \in S : s[i] \in Found /\ i \in Int
    OBVIOUS
  <2>2. \A x \in Found : x.score \in Int
    BY DEF Found
  <2> QED
    BY <2>1, <2>2
<1>3. Orders(R, S)
  <2>1. \A i, j \in S : <<i, j>> \in R <=> Ahead(i, j)
    OBVIOUS
  <2> HIDE DEF R, S
  <2>2. ASSUME NEW i \in S, NEW j \in S, NEW k \in S
        PROVE  /\ <<i, i>> \notin R
               /\ i # j => <<i, j>> \in R \/ <<j, i>> \in R
               /\ <<i, j>> \in R /\ <<j, k>> \in R => <<i, k>> \in R
    <3>1. /\ s[i].score \in Int /\ s[j].score \in Int /\ s[k].score \in Int
          /\ i \in Int /\ j \in Int /\ k \in Int
      BY <1>2
    <3> DEFINE a == s[i].score
               b == s[j].score
               c == s[k].score
    <3>2. /\ <<i, i>> \in R <=> a > a \/ (a = a /\ i < i)
          /\ <<i, j>> \in R <=> a > b \/ (a = b /\ i < j)
          /\ <<j, i>> \in R <=> b > a \/ (b = a /\ j < i)
          /\ <<j, k>> \in R <=> b > c \/ (b = c /\ j < k)
          /\ <<i, k>> \in R <=> a > c \/ (a = c /\ i < k)
      BY <2>1
    <3> HIDE DEF a, b, c
    <3>3. a \in Int /\ b \in Int /\ c \in Int
      BY <3>1 DEF a, b, c
    <3> QED
      BY <3>1, <3>2, <3>3
  <2> QED
    BY <2>2 DEF Orders
<1>4. \A j \in S : {i \in S : Ahead(i, j)} = Below(S, R, j)
  BY DEF Below
<1>5. \A k \in S : \E j \in S : Cardinality({i \in S : Ahead(i, j)}) = k - 1
  <2> HIDE DEF R, Ahead
  <2> SUFFICES ASSUME NEW k \in S
               PROVE  \E j \in S : Cardinality({i \in S : Ahead(i, j)}) = k - 1
    OBVIOUS
  <2>1. k \in 1 .. Cardinality(S)
    BY <1>1
  <2> HIDE DEF S
  <2>2. PICK j \in S : Cardinality(Below(S, R, j)) = k - 1
    BY <2>1, <1>1, <1>3, EveryRank
  <2> QED
    BY <2>2, <1>4
<1>6. Hunt!Sorted(s) = [k \in S |-> s[CHOOSE j \in S : Cardinality({i \in S : Ahead(i, j)}) = k - 1]]
  BY DEF Hunt!Sorted, Hunt!Cardinality, Cardinality
<1> HIDE DEF Ahead, S, R
<1>7. \A k \in S : \E j \in S : Hunt!Sorted(s)[k] = s[j]
  BY <1>5, <1>6
<1>8. Hunt!Sorted(s) \in [1 .. Len(s) -> Found]
  BY <1>1, <1>2, <1>6, <1>7
<1>9. Hunt!Sorted(s) \in Seq(Found) /\ DOMAIN Hunt!Sorted(s) = S
  BY <1>1, <1>8
<1> QED
  BY <1>7, <1>9 DEF S

LEMMA CutIsThere ==
  ASSUME NEW s \in Seq(Found)
  PROVE  LET sorted == Hunt!Sorted(s)
             kept   == IF Max > 0 /\ Len(sorted) > Max THEN SubSeq(sorted, 1, Max) ELSE sorted
         IN kept \in Seq(Found) /\ Hunt!UrlsIn(kept) \subseteq Hunt!UrlsIn(s)
<1> DEFINE sorted == Hunt!Sorted(s)
           kept   == IF Max > 0 /\ Len(sorted) > Max THEN SubSeq(sorted, 1, Max) ELSE sorted
<1>1. sorted \in Seq(Found) /\ \A k \in DOMAIN sorted : \E j \in DOMAIN s : sorted[k] = s[j]
  BY SortedIsThere
<1>2. Max \in Nat
  BY RssAssumption DEF Hunt!SourceHuntAssumption
<1> HIDE DEF sorted
<1>3. kept \in Seq(Found) /\ \A k \in DOMAIN kept : k \in DOMAIN sorted /\ kept[k] = sorted[k]
  BY <1>1, <1>2
<1> HIDE DEF kept
<1>4. \A k \in DOMAIN kept : \E j \in DOMAIN s : kept[k] = s[j]
  BY <1>1, <1>3
<1>5. Hunt!UrlsIn(kept) \subseteq Hunt!UrlsIn(s)
  BY <1>4 DEF Hunt!UrlsIn
<1> QED
  BY <1>3, <1>5 DEF kept, sorted

-----------------------------------------------------------------------------
LEMMA HuntInit == Hunt!Init => HuntInv
<1> SUFFICES ASSUME Hunt!Init PROVE HuntInv
  OBVIOUS
<1> USE DEF Hunt!Init, Hunt!Empty
<1>1. HuntType
  <2>1. Hunt!Empty \in Hunt!States
    BY DEF Hunt!States
  <2>2. "accepted" \in DOMAIN stats
    BY DEF Hunt!NoStats
  <2>3. <<>> \in Seq(Sources) /\ <<>> \in Seq(Found)
    OBVIOUS
  <2>4. mem \in Hunt!States /\ file \in Hunt!States
    BY <2>1
  <2>5. pending \in Seq(Sources) /\ report \in Seq(Found) /\ accepted \in [Sources -> Nat]
    BY <2>3
  <2>6. /\ phase \in {"idle", "scanning", "reported", "saved", "published"}
        /\ job \in Nat \ {0}
    OBVIOUS
  <2> QED
    BY <2>2, <2>4, <2>5, <2>6 DEF HuntType
<1>2. Rests /\ Published
  BY DEF Rests, Published
<1>3. AcceptedIsSeen
  BY DEF AcceptedIsSeen
<1>4. MutesKnown /\ SeenInReport
  BY DEF MutesKnown, SeenInReport
<1> QED
  BY <1>1, <1>2, <1>3, <1>4 DEF HuntInv

LEMMA HuntStart == ASSUME HuntInv, Hunt!StartRun PROVE HuntInv'
<1>1. PICK readable \in BOOLEAN : /\ mem' = IF readable THEN file ELSE Hunt!Empty
                                  /\ lost' = (lost \/ ~readable) /\ unread' = ~readable
  BY DEF Hunt!StartRun
<1>2. /\ phase = "idle" /\ phase' = "scanning" /\ wantedThen' = wanted /\ edited' = FALSE
      /\ UNCHANGED <<job, pending, report, stats, file, html, link, accepted, cut, shown, wanted,
                     clobbered>>
  BY DEF Hunt!StartRun
<1>3. HuntType'
  BY <1>1, <1>2 DEF HuntInv, HuntType, Hunt!Empty, Hunt!States
<1>4. Rests' /\ Published'
  BY <1>2 DEF HuntInv, Rests, Published
<1>5. AcceptedIsSeen'
  BY <1>1, <1>2 DEF HuntInv, AcceptedIsSeen, Remembered
<1>6. Hunt!UrlsIn(report') = {}
  BY <1>2 DEF HuntInv, Rests, Hunt!UrlsIn
<1>7. MutesKnown'
  BY <1>1, <1>2, <1>6 DEF HuntInv, MutesKnown
<1>8. SeenInReport'
  BY <1>1, <1>2 DEF HuntInv, SeenInReport, Hunt!Empty
<1> QED
  BY <1>3, <1>4, <1>5, <1>7, <1>8 DEF HuntInv

LEMMA HuntAsk == ASSUME HuntInv, Hunt!Ask PROVE HuntInv'
<1>1. PICK answer \in Hunt!Answers(Hunt!ProviderOf(job)) :
        /\ pending' = answer
        /\ stats' = [stats EXCEPT !.raw = @ + Len(answer), !.calls = @ + 1,
                                  !.successful = IF answer = <<>> THEN @ ELSE @ + 1]
        /\ job' = IF answer = <<>> THEN job + 1 ELSE job
  BY DEF Hunt!Ask
<1>2. /\ phase = "scanning"
      /\ UNCHANGED <<phase, mem, report, file, html, link, accepted, cut, shown, wanted, wantedThen,
                     lost, unread, edited, clobbered>>
  BY DEF Hunt!Ask, Hunt!history
<1>3. answer \in Seq(Sources)
  <2>1. \A p : \A a \in Hunt!Answers(p) : a = <<>> \/ \E n \in Nat : a \in [1 .. n -> Sources]
    BY DEF Hunt!Answers
  <2>2. <<>> \in Seq(Sources)
    OBVIOUS
  <2>3. \A n \in Nat : \A a \in [1 .. n -> Sources] : a \in Seq(Sources)
    OBVIOUS
  <2> QED
    BY <2>1, <2>2, <2>3
<1>4. HuntType'
  BY <1>1, <1>2, <1>3 DEF HuntInv, HuntType
<1>5. Rests' /\ Published'
  BY <1>2 DEF HuntInv, Rests, Published
<1>6. AcceptedIsSeen' /\ MutesKnown' /\ SeenInReport'
  BY <1>2 DEF HuntInv, AcceptedIsSeen, Remembered, MutesKnown, SeenInReport
<1> QED
  BY <1>4, <1>5, <1>6 DEF HuntInv

\* What passes and what does not.
LEMMA CandidateFound ==
  ASSUME HuntInv, NEW u \in Sources, NEW new \in BOOLEAN
  PROVE  Hunt!Candidate(u, new) \in Found /\ Hunt!Candidate(u, new).url = u
<1>1. job \in Nat \ {0} /\ Providers \in Seq(Hunt!Known) /\ Len(Providers) \in Nat \ {0}
  BY RssAssumption DEF Hunt!SourceHuntAssumption, HuntInv, HuntType
<1> DEFINE i == ((job - 1) % Len(Providers)) + 1
<1>2. i \in DOMAIN Providers
  BY <1>1
<1>3. Hunt!ProviderOf(job) = Providers[i] /\ Hunt!ProviderOf(job) \in Hunt!Known
  BY <1>1, <1>2 DEF Hunt!ProviderOf
<1>4. Hunt!Score(Hunt!ProviderOf(job), u) \in Int
  BY <1>2, <1>3, ScoresCompare
<1> QED
  BY <1>1, <1>3, <1>4 DEF Hunt!Candidate, Found

LEMMA HuntConsider == ASSUME HuntInv, Hunt!Consider PROVE HuntInv'
<1> DEFINE u == Head(pending)
           accept == Hunt!Acceptable(u)
           found == Hunt!Candidate(u, u \notin mem.seen)
<1>1. /\ phase = "scanning" /\ pending # <<>>
      /\ mem' = IF accept THEN [mem EXCEPT !.seen = @ \cup {u}] ELSE mem
      /\ report' = IF accept THEN Append(report, found) ELSE report
      /\ stats' = Hunt!Counted(accept)
      /\ accepted' = IF accept THEN [accepted EXCEPT ![u] = @ + 1] ELSE accepted
      /\ pending' = Tail(pending)
      /\ job' = IF Len(pending) = 1 THEN job + 1 ELSE job
      /\ UNCHANGED <<phase, file, html, link, cut, shown, wanted, wantedThen, lost, unread, edited,
                     clobbered>>
  BY DEF Hunt!Consider, Hunt!Remember
<1>2. u \in Sources /\ Tail(pending) \in Seq(Sources)
  BY <1>1 DEF HuntInv, HuntType
<1>3. found \in Found /\ found.url = u
  BY <1>2, CandidateFound
<1>4. accept => /\ u \notin mem.muted /\ DomainOf[u] \notin mem.muted
                /\ NewOnly => u \notin mem.seen
  BY DEF Hunt!Acceptable, Hunt!IsMuted
<1> HIDE DEF u, accept, found
<1>5. CASE ~accept
  <2>1. HuntType'
    BY <1>1, <1>2, <1>5 DEF HuntInv, HuntType, Hunt!Counted
  <2>2. Rests' /\ Published'
    BY <1>1, <1>5 DEF HuntInv, Rests, Published
  <2>3. AcceptedIsSeen' /\ MutesKnown' /\ SeenInReport'
    BY <1>1, <1>5 DEF HuntInv, AcceptedIsSeen, Remembered, MutesKnown, SeenInReport
  <2> QED
    BY <2>1, <2>2, <2>3 DEF HuntInv
<1>6. CASE accept
  <2>1. /\ mem \in Hunt!States /\ report \in Seq(Found) /\ accepted \in [Sources -> Nat]
        /\ "accepted" \in DOMAIN stats
    BY DEF HuntInv, HuntType
  <2>2. /\ mem'.seen = mem.seen \cup {u} /\ mem'.muted = mem.muted /\ mem' \in Hunt!States
        /\ report' = Append(report, found) /\ report' \in Seq(Found)
    <3>1. mem' = [mem EXCEPT !.seen = @ \cup {u}] /\ report' = Append(report, found)
      BY <1>1, <1>6
    <3>2. /\ mem'.seen = mem.seen \cup {u} /\ mem'.muted = mem.muted /\ mem' \in Hunt!States
      BY <3>1, <1>2, <2>1 DEF Hunt!States
    <3> QED
      BY <3>1, <3>2, <1>3, <2>1
  <2>3. Hunt!UrlsIn(report') = Hunt!UrlsIn(report) \cup {u}
    BY <2>1, <2>2, <1>3 DEF Hunt!UrlsIn
  <2>4. /\ accepted' \in [Sources -> Nat] /\ accepted'[u] = accepted[u] + 1
        /\ \A v \in Sources : v # u => accepted'[v] = accepted[v]
    BY <1>1, <1>2, <1>6, <2>1
  <2>5. HuntType'
    BY <1>1, <1>2, <1>6, <2>2, <2>4 DEF HuntInv, HuntType, Hunt!Counted
  <2>6. Rests' /\ Published'
    BY <1>1 DEF HuntInv, Rests, Published
  <2>7. AcceptedIsSeen'
    <3> SUFFICES ASSUME NewOnly, ~lost, NEW v \in Sources
                 PROVE  accepted'[v] <= 1 /\ (accepted'[v] > 0 => v \in mem'.seen)
      BY <1>1 DEF AcceptedIsSeen, Remembered
    <3>1. accepted[v] <= 1 /\ (accepted[v] > 0 => v \in mem.seen) /\ accepted[v] \in Nat
      BY <1>1, <2>1 DEF HuntInv, AcceptedIsSeen, Remembered
    <3>2. CASE v = u
      BY <3>1, <3>2, <1>4, <1>6, <2>2, <2>4
    <3>3. CASE v # u
      BY <3>1, <3>3, <2>2, <2>4
    <3> QED
      BY <3>2, <3>3
  <2>8. MutesKnown'
    BY <1>1, <1>4, <1>6, <2>2, <2>3 DEF HuntInv, MutesKnown
  <2>9. SeenInReport'
    BY <1>1, <2>2, <2>3 DEF HuntInv, SeenInReport
  <2> QED
    BY <2>5, <2>6, <2>7, <2>8, <2>9 DEF HuntInv
<1> QED
  BY <1>5, <1>6

LEMMA HuntReport == ASSUME HuntInv, Hunt!Report PROVE HuntInv'
<1> DEFINE sorted == Hunt!Sorted(report)
           kept   == IF Max > 0 /\ Len(sorted) > Max THEN SubSeq(sorted, 1, Max) ELSE sorted
<1>1. /\ phase = "scanning" /\ phase' = "reported"
      /\ report' = kept /\ stats' = [stats EXCEPT !.accepted = Len(kept)]
      /\ cut' = cut \cup (Hunt!UrlsIn(report) \ Hunt!UrlsIn(kept))
      /\ shown' = shown \cup Hunt!UrlsIn(kept)
      /\ UNCHANGED <<job, pending, mem, file, link, accepted, wanted, wantedThen, lost, unread, edited,
                     clobbered>>
  BY DEF Hunt!Report
<1>2. kept \in Seq(Found) /\ Hunt!UrlsIn(kept) \subseteq Hunt!UrlsIn(report)
  BY CutIsThere DEF HuntInv, HuntType
<1> HIDE DEF kept
<1>3. HuntType'
  BY <1>1, <1>2 DEF HuntInv, HuntType
<1>4. Rests' /\ Published'
  BY <1>1 DEF HuntInv, HuntType, Rests, Published
<1>5. AcceptedIsSeen'
  BY <1>1 DEF HuntInv, AcceptedIsSeen, Remembered
<1>6. MutesKnown'
  BY <1>1, <1>2 DEF HuntInv, MutesKnown
<1>7. SeenInReport'
  BY <1>1, <1>2 DEF HuntInv, SeenInReport
<1> QED
  BY <1>3, <1>4, <1>5, <1>6, <1>7 DEF HuntInv

LEMMA HuntSave == ASSUME HuntInv, Hunt!Save PROVE HuntInv'
<1>1. /\ phase = "reported" /\ phase' = "saved"
      /\ UNCHANGED <<job, pending, mem, report, stats, html, link, accepted, cut, shown, wanted,
                     wantedThen, unread, edited>>
      /\ \/ file' = mem /\ clobbered' = (clobbered \/ edited \/ unread) /\ lost' = lost
         \/ file' = file /\ clobbered' = clobbered /\ lost' = TRUE
  BY DEF Hunt!Save
<1>2. HuntType' /\ Rests' /\ Published'
  BY <1>1 DEF HuntInv, HuntType, Rests, Published
<1>3. AcceptedIsSeen'
  BY <1>1 DEF HuntInv, AcceptedIsSeen, Remembered
<1>4. MutesKnown'
  BY <1>1 DEF HuntInv, MutesKnown
<1>5. SeenInReport'
  BY <1>1 DEF HuntInv, SeenInReport
<1> QED
  BY <1>2, <1>3, <1>4, <1>5 DEF HuntInv

LEMMA HuntPublish == ASSUME HuntInv, Hunt!Publish PROVE HuntInv'
<1>1. /\ phase = "saved" /\ phase' = "published"
      /\ \/ stats.accepted > 0 /\ link' = html
         \/ link' = link
      /\ UNCHANGED <<job, pending, mem, report, stats, file, html, accepted, cut, shown, wanted,
                     wantedThen, lost, unread, edited, clobbered>>
  BY DEF Hunt!Publish, Hunt!Publishable, Hunt!history
<1>2. HuntType'
  BY <1>1 DEF HuntInv, HuntType
<1>3. Rests' /\ Published'
  BY <1>1 DEF HuntInv, Rests, Published
<1>4. AcceptedIsSeen' /\ MutesKnown' /\ SeenInReport'
  BY <1>1 DEF HuntInv, AcceptedIsSeen, Remembered, MutesKnown, SeenInReport
<1> QED
  BY <1>2, <1>3, <1>4 DEF HuntInv

LEMMA HuntGone ==
  ASSUME HuntInv, Hunt!Gone, phase = "published" \/ lost',
         UNCHANGED <<file, accepted, cut, shown, wanted, wantedThen, unread, edited, clobbered>>,
         lost' = lost \/ lost' = TRUE
  PROVE  HuntInv'
<1> USE DEF Hunt!Gone, Hunt!Empty
<1>1. HuntType'
  BY DEF HuntInv, HuntType, Hunt!NoStats, Hunt!States
<1>2. Rests' /\ Published'
  BY DEF Rests, Published
<1>3. AcceptedIsSeen'
  BY DEF HuntInv, AcceptedIsSeen, Remembered
<1>4. MutesKnown'
  BY DEF HuntInv, MutesKnown
<1>5. SeenInReport'
  BY DEF HuntInv, SeenInReport
<1> QED
  BY <1>1, <1>2, <1>3, <1>4, <1>5 DEF HuntInv

LEMMA HuntMutes == ASSUME HuntInv, NEW x \in Mutes, Hunt!UserMutes(x) PROVE HuntInv'
<1>1. /\ file' = [file EXCEPT !.muted = @ \cup {x}] /\ wanted' = wanted \cup {x} /\ edited' = TRUE
      /\ UNCHANGED <<phase, job, pending, mem, report, stats, html, link, accepted, cut, shown,
                     wantedThen, lost, unread, clobbered>>
  BY DEF Hunt!UserMutes, Hunt!run
<1>2. file'.seen = file.seen /\ file'.muted = file.muted \cup {x} /\ file' \in Hunt!States
  BY <1>1, RssAssumption DEF HuntInv, HuntType, Hunt!States, Hunt!SourceHuntAssumption
<1>3. HuntType'
  BY <1>1, <1>2 DEF HuntInv, HuntType
<1>4. Rests' /\ Published'
  BY <1>1 DEF HuntInv, Rests, Published
<1>5. AcceptedIsSeen' /\ MutesKnown' /\ SeenInReport'
  BY <1>1, <1>2 DEF HuntInv, AcceptedIsSeen, Remembered, MutesKnown, SeenInReport
<1> QED
  BY <1>3, <1>4, <1>5 DEF HuntInv

LEMMA HuntNext == HuntInv /\ [Hunt!Next]_(Hunt!vars) => HuntInv'
<1> SUFFICES ASSUME HuntInv, [Hunt!Next]_(Hunt!vars) PROVE HuntInv'
  OBVIOUS
<1>1. CASE Hunt!EndRun
  BY <1>1, HuntGone DEF Hunt!EndRun, Hunt!history
<1>2. CASE Hunt!Kill
  BY <1>2, HuntGone DEF Hunt!Kill
<1>3. CASE UNCHANGED Hunt!vars
  BY <1>3 DEF Hunt!vars, Hunt!run, Hunt!history, HuntInv, HuntType, Rests, AcceptedIsSeen,
              Remembered, MutesKnown, SeenInReport, Published
<1> QED
  BY <1>1, <1>2, <1>3, HuntStart, HuntAsk, HuntConsider, HuntReport, HuntSave, HuntPublish,
     HuntMutes DEF Hunt!Next

LEMMA HuntHolds ==
  HuntInv => Hunt!NewOnlyOnce /\ Hunt!MutesHold /\ Hunt!SeenWasOffered /\ Hunt!PublishedIsCurrent
<1> SUFFICES ASSUME HuntInv PROVE Hunt!NewOnlyOnce /\ Hunt!MutesHold /\ Hunt!SeenWasOffered /\ Hunt!PublishedIsCurrent
  OBVIOUS
<1>1. Hunt!NewOnlyOnce
  BY DEF HuntInv, AcceptedIsSeen, Hunt!NewOnlyOnce
<1>2. Hunt!MutesHold
  BY DEF HuntInv, MutesKnown, Hunt!MutesHold
<1>3. Hunt!SeenWasOffered
  BY DEF HuntInv, SeenInReport, Hunt!SeenWasOffered
<1>4. Hunt!PublishedIsCurrent
  BY DEF HuntInv, Rests, Published, Hunt!PublishedIsCurrent
<1> QED
  BY <1>1, <1>2, <1>3, <1>4

-----------------------------------------------------------------------------
(* trns (Transcripts): the token.                                          *)
Saving == {"truncate", "save"}

TokenType ==
  /\ DOMAIN pc = Procs /\ pc = [p \in Procs |-> pc[p]]
  /\ token \in [Procs -> Nat]
  /\ live \in Nat \ {0} /\ file \in Nat

\* Nobody knows a newer token than the server.
Behind == file <= live /\ \A p \in Procs : token[p] <= live

\* While no token is lost, one process saves the latest and all others hold
\* an older one, so that the server denies them; or the file has the latest.
OneSaver ==
  ~broken =>
    /\ \A p \in Procs : pc[p] \in Saving =>
         /\ token[p] = live /\ file < live
         /\ \A q \in Procs \ {p} : pc[q] \notin Saving /\ (pc[q] = "rotate" => token[q] < live)
    /\ (\A p \in Procs : pc[p] \notin Saving) => file = live

TokenInv == TokenType /\ Behind /\ OneSaver

-----------------------------------------------------------------------------
LEMMA TokenInit == Trns!Init => TokenInv
<1> SUFFICES ASSUME Trns!Init PROVE TokenInv
  OBVIOUS
<1>1. TokenType
  BY DEF Trns!Init, TokenType, Trns!Torn
<1>2. Behind
  BY DEF Trns!Init, Behind, Trns!Torn
<1>3. OneSaver
  BY DEF Trns!Init, OneSaver, Saving
<1> QED
  BY <1>1, <1>2, <1>3 DEF TokenInv

(* A step that has nothing to do with the token, but to forget it.         *)
LEMMA TokenAside ==
  ASSUME TokenInv, NEW p \in Procs, NEW where,
         where \notin {"rotate", "truncate", "save"}, pc[p] \notin Saving \/ broken',
         pc' = [pc EXCEPT ![p] = where],
         token' = token \/ token' = [token EXCEPT ![p] = Trns!Torn],
         live' = live, file' = file, broken => broken'
  PROVE  TokenInv'
<1> USE DEF TokenInv
<1>1. TokenType'
  BY DEF TokenType, Trns!Torn
<1>2. Behind'
  BY DEF Behind, TokenType, Trns!Torn
<1>3. \A q \in Procs : /\ q # p => pc'[q] = pc[q] /\ token'[q] = token[q]
                       /\ q = p => pc'[q] = where
  BY DEF TokenType
<1>4. OneSaver'
  <2> SUFFICES ASSUME ~broken' PROVE OneSaver'
    BY DEF OneSaver
  <2>1. ~broken /\ pc[p] \notin Saving
    OBVIOUS
  <2> QED
    BY <1>3, <2>1 DEF OneSaver, Saving
<1> QED
  BY <1>1, <1>2, <1>4

LEMMA TokenQuiet ==
  ASSUME TokenInv, NEW p \in Procs,
         \/ Trns!Start(p) \/ Trns!NextItem(p) \/ Trns!LookUp(p) \/ Trns!Body(p) \/ Trns!WriteText(p) \/ Trns!WriteMeta(p)
         \/ Trns!Upload(p) \/ Trns!Found(p) \/ Trns!Fail(p) \/ Trns!End(p) \/ Trns!Kill(p)
  PROVE  TokenInv'
<1>1. CASE Trns!Start(p)
  BY <1>1, TokenAside DEF Trns!Start, Trns!Goto, Trns!shared, Saving
<1>2. CASE Trns!NextItem(p)
  <2>1. /\ pc[p] = "next" /\ token' = [token EXCEPT ![p] = Trns!Torn]
        /\ UNCHANGED <<live, file, broken>>
    BY <1>2 DEF Trns!NextItem, Trns!shared
  <2>2. \E where \in {"end", "next", "cache"} : pc' = [pc EXCEPT ![p] = where]
    BY <1>2 DEF Trns!NextItem, Trns!Goto
  <2> QED
    BY <2>1, <2>2, TokenAside DEF Saving
<1>3. CASE Trns!LookUp(p)
  <2>1. pc[p] = "cache" /\ UNCHANGED <<token, live, file, broken>>
    BY <1>3 DEF Trns!LookUp, Trns!shared
  <2>2. \E where \in {"found", "failed", "page", "load", "body"} : pc' = [pc EXCEPT ![p] = where]
    BY <1>3 DEF Trns!LookUp, Trns!Goto, Trns!Route
  <2> QED
    BY <2>1, <2>2, TokenAside DEF Saving
<1>4. CASE Trns!Body(p) \/ Trns!WriteText(p) \/ Trns!WriteMeta(p)
  <2>1. pc[p] \in {"body", "text", "meta"} /\ UNCHANGED <<token, live, file, broken>>
    BY <1>4 DEF Trns!Body, Trns!WriteText, Trns!WriteMeta, Trns!shared
  <2>2. \E where \in {"text", "failed", "meta", "page", "found"} : pc' = [pc EXCEPT ![p] = where]
    BY <1>4 DEF Trns!Body, Trns!WriteText, Trns!WriteMeta, Trns!Goto, Trns!Cached
  <2> QED
    BY <2>1, <2>2, TokenAside DEF Saving
<1>5. CASE Trns!Upload(p) \/ Trns!Found(p) \/ Trns!Fail(p)
  <2>1. pc[p] \in {"page", "found", "failed"} /\ UNCHANGED <<token, live, file, broken>>
    BY <1>5 DEF Trns!Upload, Trns!Found, Trns!Fail, Trns!shared
  <2>2. \E where \in {"next", "failed"} : pc' = [pc EXCEPT ![p] = where]
    BY <1>5 DEF Trns!Upload, Trns!Found, Trns!Fail, Trns!Goto
  <2> QED
    BY <2>1, <2>2, TokenAside DEF Saving
<1>6. CASE Trns!End(p)
  BY <1>6, TokenAside DEF Trns!End, Trns!Forgotten, Trns!Goto, Trns!shared, Saving
<1>7. CASE Trns!Kill(p)
  <2>1. /\ pc' = [pc EXCEPT ![p] = "idle"] /\ token' = [token EXCEPT ![p] = Trns!Torn]
        /\ UNCHANGED <<live, file>>
    BY <1>7 DEF Trns!Kill, Trns!Forgotten, Trns!Goto, Trns!shared
  <2>2. (broken => broken') /\ (pc[p] \notin Saving \/ broken')
    BY <1>7 DEF Trns!Kill, Saving
  <2> QED
    BY <2>1, <2>2, TokenAside
<1> QED
  BY <1>1, <1>2, <1>3, <1>4, <1>5, <1>6, <1>7

(* The token that is read while another process saves is an old one.       *)
LEMMA TokenLoad ==
  ASSUME TokenInv, NEW p \in Procs, Trns!LoadCredentials(p)
  PROVE  TokenInv'
<1> USE DEF TokenInv
<1>1. /\ pc[p] = "load" /\ token' = [token EXCEPT ![p] = file]
      /\ UNCHANGED <<live, file, broken>>
  BY DEF Trns!LoadCredentials, Trns!shared
<1>2. PICK where \in {"end", "failed", "rotate"} : pc' = [pc EXCEPT ![p] = where]
  BY DEF Trns!LoadCredentials, Trns!Goto, Trns!Denied
<1>3. TokenType' /\ Behind'
  BY <1>1, <1>2 DEF TokenType, Behind
<1>4. \A q \in Procs : /\ q # p => pc'[q] = pc[q] /\ token'[q] = token[q]
                       /\ q = p => pc'[q] = where /\ token'[q] = file
  BY <1>1, <1>2 DEF TokenType
<1>5. OneSaver'
  BY <1>1, <1>2, <1>4 DEF OneSaver, Saving
<1> QED
  BY <1>3, <1>5

(* The server accepts only who holds its latest token: then nobody saves.  *)
LEMMA TokenRotate ==
  ASSUME TokenInv, NEW p \in Procs, Trns!Rotate(p)
  PROVE  TokenInv'
<1> USE DEF TokenInv
<1>0. pc[p] = "rotate" /\ file' = file
  BY DEF Trns!Rotate
<1>1. CASE live' = live
  <2>1. UNCHANGED <<token, broken>> /\ \E where \in {"end", "failed"} : pc' = [pc EXCEPT ![p] = where]
    BY <1>1 DEF Trns!Rotate, Trns!Goto, Trns!Denied, TokenType
  <2> QED
    BY <1>0, <1>1, <2>1, TokenAside DEF Saving
<1>2. CASE live' = live + 1 /\ broken'
  <2>1. token' \in [Procs -> Nat] /\ \A q \in Procs : token'[q] <= live + 1
    <3>1. token' = token \/ token' = [token EXCEPT ![p] = live + 1]
      BY DEF Trns!Rotate
    <3>2. live \in Nat /\ token \in [Procs -> Nat] /\ \A q \in Procs : token[q] <= live
      BY DEF TokenType, Behind
    <3>3. CASE token' = token
      BY <3>2, <3>3
    <3>4. CASE token' = [token EXCEPT ![p] = live + 1]
      BY <3>2, <3>4
    <3> QED
      BY <3>1, <3>3, <3>4
  <2>2. \E where : pc' = [pc EXCEPT ![p] = where]
    BY DEF Trns!Rotate, Trns!Goto
  <2> QED
    BY <1>0, <1>2, <2>1, <2>2 DEF TokenType, Behind, OneSaver
<1>3. CASE live' = live + 1 /\ ~broken'
  <2>1. /\ token[p] = live /\ token' = [token EXCEPT ![p] = live + 1]
        /\ pc' = [pc EXCEPT ![p] = "truncate"] /\ ~broken
    BY <1>3 DEF Trns!Rotate, Trns!Goto, TokenType
  <2>2. \A q \in Procs : pc[q] \notin Saving
    BY <1>0, <2>1 DEF OneSaver, TokenType, Saving
  <2>3. \A q \in Procs : /\ q # p => pc'[q] = pc[q] /\ token'[q] = token[q]
                         /\ q = p => pc'[q] = "truncate" /\ token'[q] = live + 1
    BY <2>1 DEF TokenType
  <2>4. TokenType' /\ Behind'
    BY <1>0, <1>3, <2>1 DEF TokenType, Behind
  <2>5. OneSaver'
    BY <1>0, <1>3, <2>2, <2>3 DEF OneSaver, Saving, TokenType, Behind
  <2> QED
    BY <2>4, <2>5
<1> QED
  BY <1>1, <1>2, <1>3 DEF Trns!Rotate

LEMMA TokenTruncate ==
  ASSUME TokenInv, NEW p \in Procs, Trns!Truncate(p)
  PROVE  TokenInv'
<1> USE DEF TokenInv
<1>0. pc[p] = "truncate" /\ UNCHANGED <<token, live>>
  BY DEF Trns!Truncate
<1>1. CASE file' = Trns!Torn /\ pc' = [pc EXCEPT ![p] = "save"] /\ broken' = broken
  <2>1. TokenType' /\ Behind'
    BY <1>0, <1>1 DEF TokenType, Behind, Trns!Torn
  <2>2. \A q \in Procs : (q # p => pc'[q] = pc[q]) /\ (q = p => pc'[q] = "save")
    BY <1>1 DEF TokenType
  <2>3. OneSaver'
    BY <1>0, <1>1, <2>2 DEF OneSaver, Saving, TokenType, Trns!Torn
  <2> QED
    BY <2>1, <2>3
<1>2. CASE broken' /\ file' = file /\ \E where \in {"end", "failed"} : pc' = [pc EXCEPT ![p] = where]
  BY <1>0, <1>2, TokenAside
<1> QED
  BY <1>1, <1>2 DEF Trns!Truncate, Trns!Goto, Trns!Denied

LEMMA TokenSave ==
  ASSUME TokenInv, NEW p \in Procs, Trns!Save(p)
  PROVE  TokenInv'
<1> USE DEF TokenInv
<1>0. pc[p] = "save" /\ UNCHANGED <<token, live>>
  BY DEF Trns!Save
<1>1. CASE file' = token[p] /\ broken' = broken /\ \E where \in {"next", "body"} : pc' = [pc EXCEPT ![p] = where]
  <2>1. TokenType' /\ Behind'
    BY <1>0, <1>1 DEF TokenType, Behind
  <2>2. \A q \in Procs : (q # p => pc'[q] = pc[q]) /\ (q = p => pc'[q] \notin Saving)
    BY <1>1 DEF TokenType, Saving
  <2>3. OneSaver'
    BY <1>0, <1>1, <2>2 DEF OneSaver, Saving
  <2> QED
    BY <2>1, <2>3
<1>2. CASE broken' /\ file' = file /\ \E where \in {"end", "failed"} : pc' = [pc EXCEPT ![p] = where]
  BY <1>0, <1>2, TokenAside
<1> QED
  BY <1>1, <1>2 DEF Trns!Save, Trns!Goto, Trns!Denied

LEMMA TokenNext == TokenInv /\ [Trns!Next]_(Trns!vars) => TokenInv'
<1> SUFFICES ASSUME TokenInv, [Trns!Next]_(Trns!vars) PROVE TokenInv'
  OBVIOUS
<1>1. CASE UNCHANGED Trns!vars
  BY <1>1 DEF Trns!vars, Trns!local, Trns!shared, TokenInv, TokenType, Behind, OneSaver
<1>2. CASE Trns!Next
  BY <1>2, TokenQuiet, TokenLoad, TokenRotate, TokenTruncate, TokenSave DEF Trns!Next
<1> QED
  BY <1>1, <1>2

-----------------------------------------------------------------------------
LEMMA TokenHolds == TokenInv => Trns!TokenLive
  BY DEF TokenInv, OneSaver, Trns!TokenLive, Saving

-----------------------------------------------------------------------------
(* The cache.  Of an entry that is not mixed, one process at a time        *)
(* replaces the metadata, with those of the transcript that is there.      *)
CacheType ==
  /\ pc = [p \in Procs |-> pc[p]] /\ at = [p \in Procs |-> at[p]] /\ got = [p \in Procs |-> got[p]]
  /\ text = [k \in Trns!Keys |-> text[k]] /\ meta = [k \in Trns!Keys |-> meta[k]]
  /\ mixed \in [Trns!Keys -> BOOLEAN]

OneWriter ==
  \A k \in Trns!Keys : ~mixed[k] =>
    /\ \A p \in Procs : Trns!Writing(p, k) =>
         got[p] = text[k] /\ \A q \in Procs \ {p} : ~Trns!Writing(q, k)
    /\ (\A p \in Procs : ~Trns!Writing(p, k)) => meta[k] = Trns!None \/ meta[k] = text[k]

CacheInv == CacheType /\ OneWriter

LEMMA CacheInit == Trns!Init => CacheInv
<1> SUFFICES ASSUME Trns!Init PROVE CacheInv
  OBVIOUS
<1>1. CacheType
  BY DEF Trns!Init, CacheType
<1>2. OneWriter
  BY DEF Trns!Init, OneWriter, Trns!Writing
<1> QED
  BY <1>1, <1>2 DEF CacheInv

(* A step of a process that is not writing and does not begin to.          *)
LEMMA CacheAside ==
  ASSUME CacheInv, NEW p \in Procs, NEW where, NEW i, NEW v,
         pc[p] # "meta", where # "meta",
         pc' = [pc EXCEPT ![p] = where],
         at' = at \/ at' = [at EXCEPT ![p] = i],
         got' = got \/ got' = [got EXCEPT ![p] = v],
         UNCHANGED <<command, text, meta, mixed>>
  PROVE  CacheInv'
<1> USE DEF CacheInv
<1>1. CacheType'
  BY DEF CacheType
<1>2. \A q \in Procs, k \in Trns!Keys : Trns!Writing(q, k)' = Trns!Writing(q, k)
  BY DEF Trns!Writing, Trns!Key, CacheType
<1>3. \A q \in Procs, k \in Trns!Keys : Trns!Writing(q, k) => got'[q] = got[q]
  BY DEF Trns!Writing, CacheType
<1>4. OneWriter'
  BY <1>2, <1>3 DEF OneWriter
<1> QED
  BY <1>1, <1>4

LEMMA CacheQuiet ==
  ASSUME CacheInv, NEW p \in Procs,
         \/ Trns!Start(p) \/ Trns!NextItem(p) \/ Trns!LookUp(p) \/ Trns!LoadCredentials(p) \/ Trns!Rotate(p) \/ Trns!Truncate(p)
         \/ Trns!Save(p) \/ Trns!Body(p) \/ Trns!Upload(p) \/ Trns!Found(p) \/ Trns!Fail(p) \/ Trns!End(p)
  PROVE  CacheInv'
<1>1. CASE Trns!Start(p) \/ Trns!LoadCredentials(p) \/ Trns!Rotate(p) \/ Trns!Truncate(p) \/ Trns!Save(p) \/ Trns!Upload(p) \/ Trns!Found(p) \/ Trns!Fail(p)
  <2>1. /\ pc[p] \in Trns!Places \ {"meta"}
        /\ UNCHANGED <<command, at, got, text, meta, mixed>>
    BY <1>1 DEF Trns!Start, Trns!LoadCredentials, Trns!Rotate, Trns!Truncate, Trns!Save, Trns!Upload, Trns!Found, Trns!Fail, Trns!shared, Trns!Places
  <2>2. \E where \in Trns!Places \ {"meta"} : pc' = [pc EXCEPT ![p] = where]
    BY <1>1 DEF Trns!Start, Trns!LoadCredentials, Trns!Rotate, Trns!Truncate, Trns!Save, Trns!Upload, Trns!Found, Trns!Fail, Trns!Goto, Trns!Denied, Trns!Places
  <2> QED
    BY <2>1, <2>2, CacheAside
<1>2. CASE Trns!NextItem(p)
  <2>1. /\ pc[p] = "next" /\ got' = [got EXCEPT ![p] = Trns!None]
        /\ UNCHANGED <<command, text, meta, mixed>>
    BY <1>2 DEF Trns!NextItem, Trns!shared
  <2>2. \E where \in {"end", "next", "cache"} : pc' = [pc EXCEPT ![p] = where]
    BY <1>2 DEF Trns!NextItem, Trns!Goto
  <2>3. at' = at \/ at' = [at EXCEPT ![p] = at[p] + 1]
    BY <1>2 DEF Trns!NextItem
  <2> QED
    BY <2>1, <2>2, <2>3, CacheAside
<1>3. CASE Trns!LookUp(p)
  <2>1. pc[p] = "cache" /\ UNCHANGED <<command, at, text, meta, mixed>>
    BY <1>3 DEF Trns!LookUp, Trns!shared
  <2>2. \E where \in {"found", "failed", "page", "load", "body"} : pc' = [pc EXCEPT ![p] = where]
    BY <1>3 DEF Trns!LookUp, Trns!Goto, Trns!Route
  <2>3. got' = got \/ got' = [got EXCEPT ![p] = text[Trns!Key(p)]]
    BY <1>3 DEF Trns!LookUp
  <2> QED
    BY <2>1, <2>2, <2>3, CacheAside
<1>4. CASE Trns!Body(p)
  <2>1. pc[p] = "body" /\ UNCHANGED <<command, at, text, meta, mixed>>
    BY <1>4 DEF Trns!Body, Trns!shared
  <2>2. \E where \in {"text", "failed"} : pc' = [pc EXCEPT ![p] = where]
    BY <1>4 DEF Trns!Body, Trns!Goto
  <2>3. got' = got \/ \E v : got' = [got EXCEPT ![p] = v]
    BY <1>4 DEF Trns!Body
  <2> QED
    BY <2>1, <2>2, <2>3, CacheAside
<1>5. CASE Trns!End(p)
  BY <1>5, CacheAside DEF Trns!End, Trns!Forgotten, Trns!Goto, Trns!shared
<1> QED
  BY <1>1, <1>2, <1>3, <1>4, <1>5

(* The transcript first: whoever else was writing makes the entry mixed.   *)
LEMMA CacheText ==
  ASSUME CacheInv, NEW p \in Procs, Trns!WriteText(p)
  PROVE  CacheInv'
<1> USE DEF CacheInv
<1> DEFINE others == \E q \in Procs \ {p} : Trns!Writing(q, Trns!Key(p))
<1>0. pc[p] = "text" /\ UNCHANGED <<command, at, got, meta>>
  BY DEF Trns!WriteText
<1>1. CASE /\ UNCHANGED <<text, mixed>>
           /\ \E where \in {"page", "found"} : pc' = [pc EXCEPT ![p] = where]
  BY <1>0, <1>1, CacheAside
<1>2. CASE /\ text' = [text EXCEPT ![Trns!Key(p)] = got[p]]
           /\ mixed' = [mixed EXCEPT ![Trns!Key(p)] = others]
           /\ pc' = [pc EXCEPT ![p] = "meta"]
  <2>1. mixed' \in [Trns!Keys -> BOOLEAN]
    <3>1. others \in BOOLEAN
      OBVIOUS
    <3>2. mixed \in [Trns!Keys -> BOOLEAN]
      BY DEF CacheType
    <3> HIDE DEF others
    <3> QED
      BY <1>2, <3>1, <3>2
  <2>2. CacheType'
    BY <1>0, <1>2, <2>1 DEF CacheType
  <2>3. \A q \in Procs, k \in Trns!Keys : Trns!Writing(q, k)' <=> (q = p /\ k = Trns!Key(p)) \/ (q # p /\ Trns!Writing(q, k))
    BY <1>0, <1>2 DEF Trns!Writing, Trns!Key, CacheType
  <2>4. \A k \in Trns!Keys : k = Trns!Key(p) => text'[k] = got[p] /\ (others => mixed'[k])
    BY <1>2 DEF CacheType
  <2>5. \A k \in Trns!Keys : k # Trns!Key(p) => text'[k] = text[k] /\ mixed'[k] = mixed[k]
    BY <1>2 DEF CacheType
  <2>6. \A k \in Trns!Keys : ~Trns!Writing(p, k)
    BY <1>0 DEF Trns!Writing
  <2>7. OneWriter'
    <3> SUFFICES ASSUME NEW k \in Trns!Keys, ~mixed'[k]
                 PROVE  /\ \A r \in Procs : Trns!Writing(r, k)' =>
                             got'[r] = text'[k] /\ \A q \in Procs \ {r} : ~Trns!Writing(q, k)'
                        /\ (\A r \in Procs : ~Trns!Writing(r, k)') => meta'[k] = Trns!None \/ meta'[k] = text'[k]
      BY DEF OneWriter
    <3>1. CASE k = Trns!Key(p)
      BY <1>0, <2>3, <2>4, <3>1
    <3>2. CASE k # Trns!Key(p)
      <4>1. ~mixed[k] /\ text'[k] = text[k]
        BY <2>5, <3>2
      <4>2. \A q \in Procs : Trns!Writing(q, k)' <=> Trns!Writing(q, k)
        BY <2>3, <2>6, <3>2
      <4> QED
        BY <1>0, <4>1, <4>2 DEF OneWriter
    <3> QED
      BY <3>1, <3>2
  <2> QED
    BY <2>2, <2>7
<1> QED
  BY <1>1, <1>2 DEF Trns!WriteText, Trns!Goto, Trns!Cached

(* The metadata next, by the only writer, of the transcript that is there. *)
LEMMA CacheMeta ==
  ASSUME CacheInv, NEW p \in Procs, Trns!WriteMeta(p)
  PROVE  CacheInv'
<1> USE DEF CacheInv
<1>0. Trns!Writing(p, Trns!Key(p)) /\ UNCHANGED <<command, at, got, text>>
  BY DEF Trns!WriteMeta, Trns!Writing
<1>1. PICK where \in {"page", "found"} : pc' = [pc EXCEPT ![p] = where]
  BY DEF Trns!WriteMeta, Trns!Goto, Trns!Cached
<1>2. \A q \in Procs, k \in Trns!Keys : Trns!Writing(q, k)' <=> q # p /\ Trns!Writing(q, k)
  BY <1>0, <1>1 DEF Trns!Writing, Trns!Key, CacheType
<1>3. \A k \in Trns!Keys : k # Trns!Key(p) => meta'[k] = meta[k] /\ mixed'[k] = mixed[k]
  BY DEF Trns!WriteMeta, CacheType
<1>4. \A k \in Trns!Keys : k = Trns!Key(p) => mixed'[k] \/ (meta'[k] = got[p] /\ mixed'[k] = mixed[k])
  BY DEF Trns!WriteMeta, CacheType
<1>5. CacheType'
  <2>1. mixed' \in [Trns!Keys -> BOOLEAN]
    BY Zenon DEF Trns!WriteMeta, CacheType
  <2>2. meta' = [k \in Trns!Keys |-> meta'[k]]
    BY DEF Trns!WriteMeta, CacheType
  <2> QED
    BY <1>0, <1>1, <2>1, <2>2 DEF CacheType
<1>6. OneWriter'
  <2> SUFFICES ASSUME NEW k \in Trns!Keys, ~mixed'[k]
               PROVE  /\ \A r \in Procs : Trns!Writing(r, k)' =>
                           got'[r] = text'[k] /\ \A q \in Procs \ {r} : ~Trns!Writing(q, k)'
                      /\ (\A r \in Procs : ~Trns!Writing(r, k)') => meta'[k] = Trns!None \/ meta'[k] = text'[k]
    BY DEF OneWriter
  <2>1. CASE k = Trns!Key(p)
    BY <1>0, <1>2, <1>4, <2>1 DEF OneWriter
  <2>2. CASE k # Trns!Key(p)
    <3>1. ~mixed[k] /\ meta'[k] = meta[k]
      BY <1>3, <2>2
    <3>2. \A q \in Procs : Trns!Writing(q, k)' <=> Trns!Writing(q, k)
      BY <1>0, <1>2, <2>2 DEF Trns!Writing
    <3> QED
      BY <1>0, <3>1, <3>2 DEF OneWriter
  <2> QED
    BY <2>1, <2>2
<1> QED
  BY <1>5, <1>6

LEMMA CacheKill ==
  ASSUME CacheInv, NEW p \in Procs, Trns!Kill(p)
  PROVE  CacheInv'
<1> USE DEF CacheInv
<1>0. /\ pc' = [pc EXCEPT ![p] = "idle"] /\ UNCHANGED <<command, text, meta>>
      /\ at' = [at EXCEPT ![p] = 0] /\ got' = [got EXCEPT ![p] = Trns!None]
  BY DEF Trns!Kill, Trns!Forgotten, Trns!Goto, Trns!shared
<1>1. CASE pc[p] # "meta"
  <2>1. mixed' = mixed
    BY <1>1 DEF Trns!Kill
  <2> QED
    BY <1>0, <1>1, <2>1, CacheAside
<1>2. CASE pc[p] = "meta"
  <2>1. mixed' = [mixed EXCEPT ![Trns!Key(p)] = TRUE]
    BY <1>2 DEF Trns!Kill
  <2>2. \A k \in Trns!Keys : (k # Trns!Key(p) => mixed'[k] = mixed[k]) /\ (k = Trns!Key(p) => mixed'[k])
    BY <2>1 DEF CacheType
  <2>3. mixed' \in [Trns!Keys -> BOOLEAN]
    BY <2>1, Zenon DEF CacheType
  <2>4. CacheType'
    BY <1>0, <2>3 DEF CacheType
  <2>5. \A q \in Procs, k \in Trns!Keys : k # Trns!Key(p) => (Trns!Writing(q, k)' <=> Trns!Writing(q, k))
    BY <1>0, <1>2 DEF Trns!Writing, Trns!Key, CacheType
  <2>7. \A q \in Procs, k \in Trns!Keys : k # Trns!Key(p) /\ Trns!Writing(q, k) => got'[q] = got[q]
    BY <1>0, <1>2 DEF Trns!Writing, Trns!Key, CacheType
  <2>6. OneWriter'
    <3> SUFFICES ASSUME NEW k \in Trns!Keys, ~mixed'[k]
                 PROVE  /\ \A r \in Procs : Trns!Writing(r, k)' =>
                             got'[r] = text'[k] /\ \A q \in Procs \ {r} : ~Trns!Writing(q, k)'
                        /\ (\A r \in Procs : ~Trns!Writing(r, k)') => meta'[k] = Trns!None \/ meta'[k] = text'[k]
      BY DEF OneWriter
    <3>1. k # Trns!Key(p) /\ ~mixed[k]
      BY <2>2
    <3>2. \A q \in Procs : Trns!Writing(q, k)' <=> Trns!Writing(q, k)
      BY <2>5, <3>1
    <3>3. \A q \in Procs : Trns!Writing(q, k) => got'[q] = got[q]
      BY <2>7, <3>1
    <3> QED
      BY <1>0, <3>1, <3>2, <3>3 DEF OneWriter
  <2> QED
    BY <2>4, <2>6
<1> QED
  BY <1>1, <1>2

LEMMA CacheNext == CacheInv /\ [Trns!Next]_(Trns!vars) => CacheInv'
<1> SUFFICES ASSUME CacheInv, [Trns!Next]_(Trns!vars) PROVE CacheInv'
  OBVIOUS
<1>1. CASE UNCHANGED Trns!vars
  BY <1>1 DEF Trns!vars, Trns!local, Trns!shared, CacheInv, CacheType, OneWriter, Trns!Writing, Trns!Key
<1>2. CASE Trns!Next
  BY <1>2, CacheQuiet, CacheText, CacheMeta, CacheKill DEF Trns!Next
<1> QED
  BY <1>1, <1>2

-----------------------------------------------------------------------------
(* The tally.  A process that works on an episode has counted it as        *)
(* attempted, and not yet as linked or failed.                             *)
Tallies ==
  [eligible : Nat, attempted : Nat, linked : Nat, failed : Nat, noMedia : Nat, byLimit : Nat]

\* Past the index of a run, at an episode.
Working == {"cache", "body", "text", "meta", "page", "found", "failed"}
Tried(p) ==
  \/ pc[p] \in Working
  \/ pc[p] \in {"load", "rotate", "truncate", "save"} /\ at[p] # 0

Accounted(p) ==
  LET t == tally[p]
  IN /\ t \in Tallies
     /\ t.eligible + t.noMedia = at[p]
     /\ t.eligible = t.attempted + t.byLimit
     /\ t.attempted = t.linked + t.failed + IF Tried(p) THEN 1 ELSE 0

Placed(p) ==
  /\ at[p] \in 0 .. Len(Episodes)
  /\ pc[p] = "idle" => at[p] = 0
  /\ pc[p] = "end" => at[p] \in {0, Len(Episodes)}
  /\ pc[p] \in Working => at[p] # 0
  /\ pc[p] \in {"text", "meta", "page"} => got[p] # Trns!None
  /\ pc[p] = "found" => command[p] # "send"

LinkedTo(p) == {i \in DOMAIN Episodes : linked[p][i] # Trns!None}

Linkage(p) ==
  /\ linked[p] = [i \in DOMAIN Episodes |-> linked[p][i]]
  /\ \A i \in LinkedTo(p) : i <= at[p] /\ (Tried(p) => i # at[p])
  /\ command[p] = "send" => tally[p].linked = Cardinality(LinkedTo(p))

TallyType ==
  /\ pc = [p \in Procs |-> pc[p]] /\ command = [p \in Procs |-> command[p]]
  /\ at = [p \in Procs |-> at[p]] /\ got = [p \in Procs |-> got[p]]
  /\ tally = [p \in Procs |-> tally[p]] /\ linked = [p \in Procs |-> linked[p]]
  /\ text = [k \in Trns!Keys |-> text[k]]

TallyInv == TallyType /\ \A p \in Procs : Placed(p) /\ Accounted(p) /\ Linkage(p)

-----------------------------------------------------------------------------
LEMMA EpisodeCount ==
  /\ Len(Episodes) \in Nat /\ DOMAIN Episodes = 1 .. Len(Episodes)
  /\ IsFiniteSet(DOMAIN Episodes)
<1>1. Len(Episodes) \in Nat /\ DOMAIN Episodes = 1 .. Len(Episodes)
  BY RssAssumption DEF Trns!TranscriptsAssumption
<1> QED
  BY <1>1, FS_Interval

\* Of a process that has counted nothing and linked nothing.
LEMMA NothingCounted ==
  ASSUME NEW p \in Procs, at[p] = 0, tally[p] = Trns!NoTally, ~Tried(p),
         linked[p] = [i \in DOMAIN Episodes |-> Trns!None]
  PROVE  Accounted(p) /\ Linkage(p)
<1>1. tally[p] \in Tallies /\ tally[p].linked = 0
  BY DEF Trns!NoTally, Tallies
<1>2. Accounted(p)
  BY <1>1 DEF Accounted, Trns!NoTally
<1>3. LinkedTo(p) = {}
  BY DEF LinkedTo
<1> QED
  BY <1>1, <1>2, <1>3, FS_EmptySet DEF Linkage

LEMMA TallyInit == Trns!Init => TallyInv
<1> SUFFICES ASSUME Trns!Init PROVE TallyInv
  OBVIOUS
<1> USE DEF Trns!Init
<1>1. TallyType
  BY DEF TallyType
<1>2. ASSUME NEW p \in Procs PROVE Placed(p) /\ Accounted(p) /\ Linkage(p)
  <2>1. pc[p] = "idle" /\ at[p] = 0 /\ ~Tried(p)
    BY DEF Tried, Working
  <2>2. Placed(p)
    BY <2>1, EpisodeCount DEF Placed, Working
  <2> QED
    BY <2>1, <2>2, NothingCounted
<1> QED
  BY <1>1, <1>2 DEF TallyInv

\* A step of p touches nothing of the other processes.
LEMMA OthersKept ==
  ASSUME TallyInv, TallyType', NEW p \in Procs,
         \A q \in Procs \ {p} :
           /\ pc'[q] = pc[q] /\ at'[q] = at[q] /\ got'[q] = got[q]
           /\ tally'[q] = tally[q] /\ linked'[q] = linked[q],
         command' = command,
         Placed(p)', Accounted(p)', Linkage(p)'
  PROVE  TallyInv'
<1>1. ASSUME NEW q \in Procs \ {p} PROVE Placed(q)' /\ Accounted(q)' /\ Linkage(q)'
  <2>1. Placed(q) /\ Accounted(q) /\ Linkage(q)
    BY DEF TallyInv
  <2>2. Tried(q)' = Tried(q) /\ LinkedTo(q)' = LinkedTo(q)
    BY DEF Tried, LinkedTo
  <2> QED
    BY <2>1, <2>2 DEF Placed, Accounted, Linkage
<1> QED
  BY <1>1 DEF TallyInv

(* A step within an episode, or between the index and the first one.       *)
LEMMA TallyAside ==
  ASSUME TallyInv, NEW p \in Procs, NEW where, NEW v,
         pc' = [pc EXCEPT ![p] = where], got' = got \/ got' = [got EXCEPT ![p] = v],
         UNCHANGED <<command, at, tally, linked>>, text' = [k \in Trns!Keys |-> text'[k]],
         Tried(p)' = Tried(p), Placed(p)'
  PROVE  TallyInv'
<1>1. TallyType'
  BY DEF TallyInv, TallyType
<1>2. \A q \in Procs \ {p} : pc'[q] = pc[q] /\ got'[q] = got[q]
  BY DEF TallyInv, TallyType
<1>3. Accounted(p)' /\ Linkage(p)'
  <2>1. Accounted(p) /\ Linkage(p) /\ LinkedTo(p)' = LinkedTo(p)
    BY DEF TallyInv, LinkedTo
  <2> QED
    BY <2>1 DEF Accounted, Linkage
<1> QED
  BY <1>1, <1>2, <1>3, OthersKept

Between == {"load", "rotate", "truncate", "save"}

LEMMA TallyQuiet ==
  ASSUME TallyInv, NEW p \in Procs,
         \/ Trns!Start(p) \/ Trns!LookUp(p) \/ Trns!LoadCredentials(p) \/ Trns!Rotate(p)
         \/ Trns!Truncate(p) \/ Trns!Save(p) \/ Trns!Body(p) \/ Trns!WriteText(p) \/ Trns!WriteMeta(p)
  PROVE  TallyInv'
<1>0. TallyType /\ Placed(p)
  BY DEF TallyInv
<1>1. CASE Trns!Start(p)
  <2>1. /\ pc[p] = "idle" /\ at[p] = 0
        /\ UNCHANGED <<command, at, got, tally, linked, text>>
    BY <1>0, <1>1 DEF Trns!Start, Trns!shared, Placed
  <2>2. PICK where \in {"load", "next"} : pc' = [pc EXCEPT ![p] = where]
    BY <1>1 DEF Trns!Start, Trns!Goto
  <2>3. pc'[p] = where
    BY <1>0, <2>2 DEF TallyType
  <2>4. Tried(p)' = Tried(p) /\ Placed(p)'
    BY <1>0, <2>1, <2>3 DEF Tried, Working, Placed
  <2> QED
    BY <1>0, <2>1, <2>2, <2>4, TallyAside DEF TallyType
<1>2. CASE Trns!LookUp(p)
  <2> DEFINE k == Trns!Key(p)
  <2>1. /\ pc[p] = "cache" /\ at[p] # 0
        /\ UNCHANGED <<command, at, tally, linked, text>>
    BY <1>0, <1>2 DEF Trns!LookUp, Trns!shared, Placed, Working
  <2>2. \/ /\ got' = got
           /\ \E where \in {"load", "body", "failed"} : pc' = [pc EXCEPT ![p] = where]
        \/ /\ got' = [got EXCEPT ![p] = text[k]] /\ text[k] # Trns!None
           /\ \/ pc' = [pc EXCEPT ![p] = "failed"]
              \/ pc' = [pc EXCEPT ![p] = "found"] /\ command[p] # "send"
              \/ pc' = [pc EXCEPT ![p] = "page"]
    BY <1>2 DEF Trns!LookUp, Trns!Hit, Trns!Goto, Trns!Route
  <2>3. PICK where : /\ pc' = [pc EXCEPT ![p] = where]
                     /\ where \in {"load", "body", "failed", "found", "page"}
                     /\ where = "found" => command[p] # "send"
                     /\ where = "page" => got'[p] # Trns!None
    BY <1>0, <2>2 DEF TallyType
  <2>4. Tried(p)' = Tried(p) /\ Placed(p)'
    BY <1>0, <2>1, <2>3 DEF Tried, Working, Placed, TallyType
  <2>5. got' = got \/ got' = [got EXCEPT ![p] = text[k]]
    BY <2>2
  <2> HIDE DEF k
  <2> QED
    BY <1>0, <2>1, <2>3, <2>4, <2>5, TallyAside DEF TallyType
<1>3. CASE Trns!LoadCredentials(p) \/ Trns!Rotate(p) \/ Trns!Truncate(p) \/ Trns!Save(p)
  <2>1. /\ pc[p] \in Between
        /\ UNCHANGED <<command, at, got, tally, linked, text>>
    BY <1>3 DEF Trns!LoadCredentials, Trns!Rotate, Trns!Truncate, Trns!Save, Trns!shared, Between
  <2>2. PICK where : /\ pc' = [pc EXCEPT ![p] = where]
                     /\ where \in Between \cup {"next", "body", "failed", "end"}
                     /\ IF at[p] = 0 THEN where \notin {"body", "failed"} ELSE where \notin {"end", "next"}
    BY <1>3 DEF Trns!LoadCredentials, Trns!Rotate, Trns!Truncate, Trns!Save, Trns!Goto, Trns!Denied, Between
  <2>3. pc'[p] = where
    BY <1>0, <2>2 DEF TallyType
  <2>4. Tried(p)' = Tried(p)
    BY <2>1, <2>2, <2>3 DEF Tried, Working, Between
  <2>5. Placed(p)'
    <3>1. CASE at[p] = 0
      BY <3>1, <1>0, <2>1, <2>2, <2>3 DEF Working, Placed, Between
    <3>2. CASE at[p] # 0
      BY <3>2, <1>0, <2>1, <2>2, <2>3 DEF Working, Placed, Between
    <3> QED
      BY <3>1, <3>2
  <2> QED
    BY <1>0, <2>1, <2>2, <2>4, <2>5, TallyAside DEF TallyType
<1>4. CASE Trns!Body(p)
  <2>1. pc[p] = "body" /\ at[p] # 0 /\ UNCHANGED <<command, at, tally, linked, text>>
    BY <1>0, <1>4 DEF Trns!Body, Trns!shared, Placed, Working
  <2>2. \/ got' = got /\ pc' = [pc EXCEPT ![p] = "failed"]
        \/ \E v \in Trns!Contents(Episodes[at[p]]) :
             got' = [got EXCEPT ![p] = v] /\ pc' = [pc EXCEPT ![p] = "text"]
    BY <1>4 DEF Trns!Body, Trns!Goto
  <2>3. Trns!None \notin Trns!Contents(Episodes[at[p]])
    BY RssAssumption DEF Trns!Contents, Trns!TranscriptsAssumption, Trns!None, Trns!Blank
  <2>4. PICK where, v : /\ pc' = [pc EXCEPT ![p] = where] /\ where \in {"failed", "text"}
                        /\ got' = got \/ got' = [got EXCEPT ![p] = v]
                        /\ where = "text" => got'[p] # Trns!None
    BY <1>0, <2>2, <2>3 DEF TallyType
  <2>5. Tried(p)' = Tried(p) /\ Placed(p)'
    BY <1>0, <2>1, <2>4 DEF Tried, Working, Placed, TallyType
  <2> QED
    BY <1>0, <2>1, <2>4, <2>5, TallyAside DEF TallyType
<1>5. CASE Trns!WriteText(p) \/ Trns!WriteMeta(p)
  <2>1. /\ pc[p] \in {"text", "meta"} /\ at[p] # 0 /\ got[p] # Trns!None
        /\ UNCHANGED <<command, at, got, tally, linked>>
    BY <1>0, <1>5 DEF Trns!WriteText, Trns!WriteMeta, Trns!shared, Placed, Working
  <2>2. PICK where \in {"meta", "page", "found"} :
           pc' = [pc EXCEPT ![p] = where] /\ (where = "found" => command[p] # "send")
    BY <1>5 DEF Trns!WriteText, Trns!WriteMeta, Trns!Goto, Trns!Cached
  <2>3. text' = [k \in Trns!Keys |-> text'[k]]
    BY <1>0, <1>5 DEF Trns!WriteText, Trns!WriteMeta, TallyType
  <2>4. Tried(p)' = Tried(p) /\ Placed(p)'
    BY <1>0, <2>1, <2>2 DEF Tried, Working, Placed, TallyType
  <2> QED
    BY <2>1, <2>2, <2>3, <2>4, TallyAside
<1> QED
  BY <1>1, <1>2, <1>3, <1>4, <1>5

LEMMA TallyFields ==
  ASSUME NEW t \in Tallies
  PROVE  /\ t.eligible \in Nat /\ t.attempted \in Nat /\ t.linked \in Nat
         /\ t.failed \in Nat /\ t.noMedia \in Nat /\ t.byLimit \in Nat
  BY DEF Tallies

\* What counting does to a tally: an item without input, one past the limit
\* and one that is tried.
LEMMA CountNoMedia ==
  ASSUME NEW t \in Tallies, NEW u, u = [t EXCEPT !.noMedia = @ + 1]
  PROVE  /\ u \in Tallies /\ u.eligible = t.eligible /\ u.attempted = t.attempted
         /\ u.linked = t.linked /\ u.failed = t.failed /\ u.noMedia = t.noMedia + 1
         /\ u.byLimit = t.byLimit
  BY DEF Tallies

LEMMA CountByLimit ==
  ASSUME NEW t \in Tallies, NEW u, u = [t EXCEPT !.eligible = @ + 1, !.byLimit = @ + 1]
  PROVE  /\ u \in Tallies /\ u.eligible = t.eligible + 1 /\ u.attempted = t.attempted
         /\ u.linked = t.linked /\ u.failed = t.failed /\ u.noMedia = t.noMedia
         /\ u.byLimit = t.byLimit + 1
<1>1. [t EXCEPT !.eligible = @ + 1] \in Tallies
  BY DEF Tallies
<1>2. \A s \in Tallies : [s EXCEPT !.byLimit = @ + 1] \in Tallies
  BY DEF Tallies
<1>3. u = [[t EXCEPT !.eligible = @ + 1] EXCEPT !.byLimit = @ + 1]
  BY DEF Tallies
<1> QED
  BY <1>1, <1>2, <1>3 DEF Tallies

LEMMA CountAttempted ==
  ASSUME NEW t \in Tallies, NEW u, u = [t EXCEPT !.eligible = @ + 1, !.attempted = @ + 1]
  PROVE  /\ u \in Tallies /\ u.eligible = t.eligible + 1 /\ u.attempted = t.attempted + 1
         /\ u.linked = t.linked /\ u.failed = t.failed /\ u.noMedia = t.noMedia
         /\ u.byLimit = t.byLimit
<1>1. [t EXCEPT !.eligible = @ + 1] \in Tallies
  BY DEF Tallies
<1>2. \A s \in Tallies : [s EXCEPT !.attempted = @ + 1] \in Tallies
  BY DEF Tallies
<1>3. u = [[t EXCEPT !.eligible = @ + 1] EXCEPT !.attempted = @ + 1]
  BY DEF Tallies
<1> QED
  BY <1>1, <1>2, <1>3 DEF Tallies

\* What the tally of a run that was refused its token says.
LEMMA EmptyTally ==
  ASSUME NEW t \in Tallies, t.eligible = 0, t.attempted = 0, t.linked = 0, t.failed = 0, t.noMedia = 0,
         t.byLimit = 0
  PROVE  t = Trns!NoTally
  BY DEF Tallies, Trns!NoTally

LEMMA NextItemTally ==
  ASSUME TallyInv, NEW p \in Procs, Trns!NextItem(p)
  PROVE  TallyInv'
<1> DEFINE i == at[p] + 1
<1>0. /\ TallyType /\ Placed(p) /\ Accounted(p) /\ Linkage(p)
      /\ pc[p] = "next" /\ ~Tried(p)
  BY DEF TallyInv, Trns!NextItem, Tried, Working
<1>1. /\ UNCHANGED <<command, linked, text>>
      /\ got' = [got EXCEPT ![p] = Trns!None]
  BY DEF Trns!NextItem, Trns!shared
<1>2. CASE i > Len(Episodes)
  <2>1. pc' = [pc EXCEPT ![p] = "end"] /\ UNCHANGED <<at, tally>>
    BY <1>2 DEF Trns!NextItem, Trns!Goto
  <2>2. Tried(p)' = Tried(p)
    BY <1>0, <2>1 DEF Tried, Working, TallyType
  <2>3. Placed(p)'
    BY <1>0, <1>1, <1>2, <2>1, EpisodeCount DEF Placed, TallyType, Working
  <2> QED
    BY <1>0, <1>1, <2>1, <2>2, <2>3, TallyAside DEF TallyType
<1>3. CASE ~(i > Len(Episodes))
  <2> DEFINE t == tally[p]
  <2>1. /\ at' = [at EXCEPT ![p] = i]
        /\ \/ /\ pc' = [pc EXCEPT ![p] = "next"]
              /\ tally' = [tally EXCEPT ![p].noMedia = @ + 1]
           \/ /\ pc' = [pc EXCEPT ![p] = "next"]
              /\ tally' = [tally EXCEPT ![p].eligible = @ + 1, ![p].byLimit = @ + 1]
           \/ /\ pc' = [pc EXCEPT ![p] = "cache"]
              /\ tally' = [tally EXCEPT ![p].eligible = @ + 1, ![p].attempted = @ + 1]
    BY <1>3 DEF Trns!NextItem, Trns!Goto, Trns!Count
  <2>2. i \in 1 .. Len(Episodes) /\ at[p] \in Nat
    BY <1>0, <1>3, EpisodeCount DEF Placed
  <2>3. /\ at'[p] = i /\ pc'[p] \in {"next", "cache"} /\ linked'[p] = linked[p]
        /\ command'[p] = command[p]
    BY <1>0, <1>1, <2>1 DEF TallyType
  <2>4. Placed(p)'
    BY <2>2, <2>3 DEF Placed, Working
  <2>5. /\ tally'[p] \in Tallies /\ tally'[p].linked = t.linked
        /\ tally'[p].eligible + tally'[p].noMedia = i
        /\ tally'[p].eligible = tally'[p].attempted + tally'[p].byLimit
        /\ tally'[p].attempted = tally'[p].linked + tally'[p].failed + IF pc'[p] = "cache" THEN 1 ELSE 0
    <3>1. /\ t \in Tallies /\ t.eligible + t.noMedia = at[p] /\ t.eligible = t.attempted + t.byLimit
          /\ t.attempted = t.linked + t.failed
      BY <1>0 DEF Accounted, Tallies
    <3>2. \/ pc'[p] = "next" /\ tally'[p] = [t EXCEPT !.noMedia = @ + 1]
          \/ pc'[p] = "next" /\ tally'[p] = [t EXCEPT !.eligible = @ + 1, !.byLimit = @ + 1]
          \/ pc'[p] = "cache" /\ tally'[p] = [t EXCEPT !.eligible = @ + 1, !.attempted = @ + 1]
      BY <1>0, <2>1 DEF TallyType
    <3> HIDE DEF t
    <3>3. PICK u : u = tally'[p]
      OBVIOUS
    <3>4. /\ t.eligible \in Nat /\ t.attempted \in Nat /\ t.linked \in Nat /\ t.failed \in Nat
          /\ t.noMedia \in Nat /\ t.byLimit \in Nat /\ at[p] \in Nat
      BY <2>2, <3>1, TallyFields
    <3> DEFINE Fits(one) ==
          /\ u \in Tallies /\ u.linked = t.linked /\ u.eligible + u.noMedia = at[p] + 1
          /\ u.eligible = u.attempted + u.byLimit /\ u.attempted = u.linked + u.failed + one
    <3>5. ASSUME pc'[p] = "next", u = [t EXCEPT !.noMedia = @ + 1]
          PROVE  Fits(IF pc'[p] = "cache" THEN 1 ELSE 0)
      <4>1. /\ u \in Tallies /\ u.eligible = t.eligible /\ u.attempted = t.attempted
            /\ u.linked = t.linked /\ u.failed = t.failed /\ u.noMedia = t.noMedia + 1
            /\ u.byLimit = t.byLimit
        BY <3>1, <3>5, CountNoMedia
      <4>2. Fits(0)
        BY <3>1, <3>4, <4>1
      <4> QED
        BY <3>5, <4>2
    <3>6. ASSUME pc'[p] = "next", u = [t EXCEPT !.eligible = @ + 1, !.byLimit = @ + 1]
          PROVE  Fits(IF pc'[p] = "cache" THEN 1 ELSE 0)
      <4>1. /\ u \in Tallies /\ u.eligible = t.eligible + 1 /\ u.attempted = t.attempted
            /\ u.linked = t.linked /\ u.failed = t.failed /\ u.noMedia = t.noMedia
            /\ u.byLimit = t.byLimit + 1
        BY <3>1, <3>6, CountByLimit
      <4>2. Fits(0)
        BY <3>1, <3>4, <4>1
      <4> QED
        BY <3>6, <4>2
    <3>7. ASSUME pc'[p] = "cache", u = [t EXCEPT !.eligible = @ + 1, !.attempted = @ + 1]
          PROVE  Fits(IF pc'[p] = "cache" THEN 1 ELSE 0)
      <4>1. /\ u \in Tallies /\ u.eligible = t.eligible + 1 /\ u.attempted = t.attempted + 1
            /\ u.linked = t.linked /\ u.failed = t.failed /\ u.noMedia = t.noMedia
            /\ u.byLimit = t.byLimit
        BY <3>1, <3>7, CountAttempted
      <4>2. Fits(1)
        BY <3>1, <3>4, <4>1
      <4> QED
        BY <3>7, <4>2
    <3> QED
      BY <3>2, <3>3, <3>5, <3>6, <3>7
  <2>6. Tried(p)' <=> pc'[p] = "cache"
    BY <2>3 DEF Tried, Working
  <2>7. Accounted(p)'
    BY <2>3, <2>5, <2>6 DEF Accounted
  <2>8. Linkage(p)'
    <3>1. LinkedTo(p)' = LinkedTo(p)
      BY <1>1 DEF LinkedTo
    <3>2. \A j \in LinkedTo(p) : j <= at[p] /\ j \in Nat
      BY <1>0, EpisodeCount DEF Linkage, LinkedTo
    <3> QED
      BY <1>0, <1>1, <2>2, <2>3, <2>5, <3>1, <3>2 DEF Linkage
  <2>9. TallyType'
    BY <1>0, <1>1, <2>1 DEF TallyType
  <2>10. \A q \in Procs \ {p} :
           /\ pc'[q] = pc[q] /\ at'[q] = at[q] /\ got'[q] = got[q]
           /\ tally'[q] = tally[q] /\ linked'[q] = linked[q]
    BY <1>0, <1>1, <2>1 DEF TallyType
  <2> QED
    BY <1>1, <2>4, <2>7, <2>8, <2>9, <2>10, OthersKept
<1> QED
  BY <1>2, <1>3

(* The end of an episode: it is linked, found or failed.                   *)
LEMMA ItemEndTally ==
  ASSUME TallyInv, NEW p \in Procs, Trns!Upload(p) \/ Trns!Found(p) \/ Trns!Fail(p)
  PROVE  TallyInv'
<1> DEFINE t == tally[p]
<1>0. /\ TallyType /\ Placed(p) /\ Accounted(p) /\ Linkage(p)
      /\ pc[p] \in {"page", "found", "failed"} /\ Tried(p) /\ at[p] \in 1 .. Len(Episodes)
  <2>1. TallyType /\ Placed(p) /\ Accounted(p) /\ Linkage(p) /\ pc[p] \in {"page", "found", "failed"}
    BY DEF TallyInv, Trns!Upload, Trns!Found, Trns!Fail
  <2> QED
    BY <2>1, EpisodeCount DEF Placed, Tried, Working
<1>1. UNCHANGED <<command, at, got, text>>
  BY DEF Trns!Upload, Trns!Found, Trns!Fail, Trns!shared
<1>2. CASE UNCHANGED <<linked, tally>> /\ pc' = [pc EXCEPT ![p] = "failed"]
  <2>1. Tried(p)' = Tried(p) /\ Placed(p)'
    BY <1>0, <1>1, <1>2 DEF Tried, Working, Placed, TallyType
  <2> QED
    BY <1>0, <1>1, <1>2, <2>1, TallyAside DEF TallyType
<1>3. CASE pc' = [pc EXCEPT ![p] = "next"]
  <2>1. \/ /\ pc[p] = "page" /\ tally' = [tally EXCEPT ![p].linked = @ + 1]
           /\ linked' = [linked EXCEPT ![p][at[p]] = got[p]]
        \/ /\ pc[p] = "found" /\ tally' = [tally EXCEPT ![p].linked = @ + 1] /\ linked' = linked
        \/ /\ pc[p] = "failed" /\ tally' = [tally EXCEPT ![p].failed = @ + 1] /\ linked' = linked
    <3>1. CASE Trns!Upload(p)
      BY <1>0, <1>3, <3>1 DEF Trns!Upload, Trns!Goto, Trns!Count, TallyType
    <3>2. CASE Trns!Found(p) \/ Trns!Fail(p)
      BY <3>2 DEF Trns!Found, Trns!Fail, Trns!Count
    <3> QED
      BY <3>1, <3>2
  <2>2. pc'[p] = "next" /\ ~Tried(p)' /\ Placed(p)'
    BY <1>0, <1>1, <1>3 DEF Tried, Working, Placed, TallyType
  <2>3. /\ t \in Tallies /\ t.eligible + t.noMedia = at[p] /\ t.eligible = t.attempted + t.byLimit
        /\ t.attempted = t.linked + t.failed + 1
    BY <1>0 DEF Accounted, Tallies
  <2>4. \/ pc[p] # "failed" /\ tally'[p] = [t EXCEPT !.linked = @ + 1]
        \/ pc[p] = "failed" /\ tally'[p] = [t EXCEPT !.failed = @ + 1]
    BY <1>0, <2>1 DEF TallyType
  <2>5. Accounted(p)'
    <3> HIDE DEF t
    <3>1. /\ tally'[p] \in Tallies
          /\ tally'[p].eligible + tally'[p].noMedia = at[p]
          /\ tally'[p].eligible = tally'[p].attempted + tally'[p].byLimit
          /\ tally'[p].attempted = tally'[p].linked + tally'[p].failed
      BY <2>3, <2>4 DEF Tallies
    <3> QED
      BY <1>1, <2>2, <3>1 DEF Accounted, Tallies
  <2>6. Linkage(p)'
    <3>1. CASE pc[p] = "page"
      <4>1. got[p] # Trns!None /\ tally'[p].linked = t.linked + 1
        BY <1>0, <2>3, <2>4, <3>1 DEF Placed, Tallies
      <4>2. linked'[p] = [linked[p] EXCEPT ![at[p]] = got[p]]
        BY <1>0, <2>1, <3>1 DEF TallyType
      <4>3. LinkedTo(p)' = LinkedTo(p) \cup {at[p]} /\ at[p] \notin LinkedTo(p)
        BY <1>0, <4>1, <4>2, EpisodeCount DEF Linkage, LinkedTo
      <4>4. IsFiniteSet(LinkedTo(p))
        BY EpisodeCount, FS_Subset DEF LinkedTo
      <4>5. command[p] = "send" => tally'[p].linked = Cardinality(LinkedTo(p)')
        BY <1>0, <4>1, <4>3, <4>4, FS_AddElement DEF Linkage
      <4>6. linked'[p] = [j \in DOMAIN Episodes |-> linked'[p][j]]
        BY <1>0, <4>2 DEF Linkage
      <4>7. \A j \in LinkedTo(p)' : j <= at[p]
        BY <1>0, <4>3 DEF Linkage
      <4> QED
        BY <1>1, <2>2, <4>5, <4>6, <4>7 DEF Linkage
    <3>2. CASE pc[p] # "page"
      <4>1. linked' = linked /\ LinkedTo(p)' = LinkedTo(p)
        BY <2>1, <3>2 DEF LinkedTo
      <4>2. command[p] = "send" => tally'[p].linked = t.linked
        <5>1. CASE pc[p] = "found"
          BY <1>0, <5>1 DEF Placed
        <5>2. CASE pc[p] = "failed"
          BY <2>3, <2>4, <5>2 DEF Tallies
        <5> QED
          BY <1>0, <3>2, <5>1, <5>2
      <4> QED
        BY <1>0, <1>1, <2>2, <4>1, <4>2 DEF Linkage
    <3> QED
      BY <3>1, <3>2
  <2>7. TallyType'
    BY <1>0, <1>1, <1>3, <2>1 DEF TallyType
  <2>8. \A q \in Procs \ {p} :
           /\ pc'[q] = pc[q] /\ at'[q] = at[q] /\ got'[q] = got[q]
           /\ tally'[q] = tally[q] /\ linked'[q] = linked[q]
    BY <1>0, <1>1, <1>3, <2>1 DEF TallyType
  <2> QED
    BY <1>1, <2>2, <2>5, <2>6, <2>7, <2>8, OthersKept
<1> QED
  BY <1>2, <1>3 DEF Trns!Upload, Trns!Found, Trns!Fail, Trns!Goto

LEMMA ForgetTally ==
  ASSUME TallyInv, NEW p \in Procs, Trns!End(p) \/ Trns!Kill(p)
  PROVE  TallyInv'
<1>0. TallyType
  BY DEF TallyInv
<1>1. /\ pc' = [pc EXCEPT ![p] = "idle"] /\ at' = [at EXCEPT ![p] = 0]
      /\ got' = [got EXCEPT ![p] = Trns!None] /\ tally' = [tally EXCEPT ![p] = Trns!NoTally]
      /\ linked' = [linked EXCEPT ![p] = [i \in DOMAIN Episodes |-> Trns!None]]
      /\ UNCHANGED <<command, text>>
  BY DEF Trns!End, Trns!Kill, Trns!Goto, Trns!Forgotten, Trns!shared
<1>2. TallyType'
  BY <1>0, <1>1 DEF TallyType
<1>3. /\ pc'[p] = "idle" /\ at'[p] = 0 /\ tally'[p] = Trns!NoTally
      /\ linked'[p] = [i \in DOMAIN Episodes |-> Trns!None]
  BY <1>0, <1>1 DEF TallyType
<1>4. ~Tried(p)' /\ Placed(p)'
  BY <1>3, EpisodeCount DEF Tried, Working, Placed
<1>5. Accounted(p)' /\ Linkage(p)'
  <2>1. tally'[p] \in Tallies /\ tally'[p].linked = 0
    BY <1>3 DEF Trns!NoTally, Tallies
  <2>2. Accounted(p)'
    BY <1>3, <1>4, <2>1 DEF Accounted, Trns!NoTally
  <2>3. LinkedTo(p)' = {}
    BY <1>3 DEF LinkedTo
  <2> QED
    BY <1>3, <2>1, <2>2, <2>3, FS_EmptySet DEF Linkage
<1>6. \A q \in Procs \ {p} :
        /\ pc'[q] = pc[q] /\ at'[q] = at[q] /\ got'[q] = got[q]
        /\ tally'[q] = tally[q] /\ linked'[q] = linked[q]
  BY <1>0, <1>1 DEF TallyType
<1> QED
  BY <1>1, <1>2, <1>4, <1>5, <1>6, OthersKept

LEMMA TallyNext == TallyInv /\ [Trns!Next]_(Trns!vars) => TallyInv'
<1> SUFFICES ASSUME TallyInv, [Trns!Next]_(Trns!vars) PROVE TallyInv'
  OBVIOUS
<1>1. CASE UNCHANGED Trns!vars
  BY <1>1 DEF Trns!vars, Trns!local, Trns!shared, TallyInv, TallyType, Placed, Accounted, Linkage,
              LinkedTo, Tried
<1>2. CASE Trns!Next
  BY <1>2, TallyQuiet, NextItemTally, ItemEndTally, ForgetTally DEF Trns!Next
<1> QED
  BY <1>1, <1>2

LEMMA TallyEnds == TallyInv => Trns!TallyAddsUp
<1> SUFFICES ASSUME TallyInv PROVE Trns!TallyAddsUp
  OBVIOUS
<1>1. ASSUME NEW p \in Procs, pc[p] = "end"
      PROVE  /\ tally[p] = Trns!NoTally \/ tally[p].eligible + tally[p].noMedia = Len(Episodes)
             /\ tally[p].eligible = tally[p].attempted + tally[p].byLimit
             /\ tally[p].attempted = tally[p].linked + tally[p].failed
             /\ command[p] = "send" => tally[p].linked = Cardinality(LinkedTo(p))
  <2> DEFINE t == tally[p]
  <2>0. Placed(p) /\ Accounted(p) /\ Linkage(p) /\ ~Tried(p)
    BY <1>1 DEF TallyInv, Tried, Working
  <2>1. /\ t \in Tallies
        /\ t.eligible + t.noMedia = at[p] /\ t.eligible = t.attempted + t.byLimit
        /\ t.attempted = t.linked + t.failed + 0
    BY <2>0 DEF Accounted
  <2>2. at[p] = 0 \/ at[p] = Len(Episodes)
    BY <1>1, <2>0 DEF Placed
  <2>3. command[p] = "send" => t.linked = Cardinality(LinkedTo(p))
    BY <2>0 DEF Linkage
  <2> HIDE DEF t
  <2>4. t.attempted = t.linked + t.failed
    BY <2>1, TallyFields
  <2>5. at[p] = 0 => t = Trns!NoTally
    <3> SUFFICES ASSUME at[p] = 0 PROVE t = Trns!NoTally
      OBVIOUS
    <3>1. t.eligible = 0 /\ t.noMedia = 0
      BY <2>1, TallyFields
    <3>2. t.attempted = 0 /\ t.byLimit = 0
      BY <2>1, <3>1, TallyFields
    <3>3. t.linked = 0 /\ t.failed = 0
      BY <2>1, <2>4, <3>2, TallyFields
    <3> QED
      BY <2>1, <3>1, <3>2, <3>3, EmptyTally
  <2> QED
    BY <2>1, <2>2, <2>3, <2>4, <2>5 DEF t
<1>2. \A S : Trns!Cardinality(S) = Cardinality(S)
  BY DEF Trns!Cardinality, Cardinality
<1> QED
  BY <1>1, <1>2 DEF Trns!TallyAddsUp, LinkedTo

-----------------------------------------------------------------------------
(* The three commands. *)

RssInv ==
  /\ tool = "send" => SendInv
  /\ tool = "hunt" => HuntInv
  /\ tool = "trns" => TokenInv /\ CacheInv /\ TallyInv

LEMMA Invariant == Spec => []RssInv
<1>1. Init => RssInv
  BY SendInit, HuntInit, TokenInit, CacheInit, TallyInit DEF Init, RssInv
<1>2. RssInv /\ [Next]_vars => RssInv'
  <2> SUFFICES ASSUME RssInv, [Next]_vars PROVE RssInv'
    OBVIOUS
  <2>1. tool' = tool
    BY DEF Next, vars
  <2>2. CASE tool = "send"
    <3>1. [Nl!Next]_(Nl!vars)
      BY <2>2 DEF Next, vars, common, ofSend, Nl!vars
    <3> QED
      BY <2>1, <2>2, <3>1, SendNext DEF RssInv
  <2>3. CASE tool = "hunt"
    <3>1. [Hunt!Next]_(Hunt!vars)
      BY <2>3 DEF Next, vars, common, ofHunt, Hunt!vars, Hunt!run, Hunt!history
    <3> QED
      BY <2>1, <2>3, <3>1, HuntNext DEF RssInv
  <2>4. CASE tool = "trns"
    <3>1. [Trns!Next]_(Trns!vars)
      BY <2>4 DEF Next, vars, ofTrns, Trns!vars, Trns!local, Trns!shared
    <3> QED
      BY <2>1, <2>4, <3>1, TokenNext, CacheNext, TallyNext DEF RssInv
  <2> QED
    BY <2>1, <2>2, <2>3, <2>4 DEF RssInv
<1> QED
  BY <1>1, <1>2, PTL DEF Spec

(* send: the state file never claims more failures in a row than there     *)
(* were, whatever is killed or cannot be read, as long as it was written   *)
(* (failure_report.go, nextState).                                         *)
THEOREM CountsAreReal == Spec => []CountsNeverInvented
<1>1. RssInv => CountsNeverInvented
  BY DEF RssInv, SendInv, CountsNeverInvented
<1> QED
  BY <1>1, Invariant, PTL

(* send: a mailed newsletter escalates a host's failures exactly when they *)
(* are due, and its dashboard knows the feeds that have answered           *)
(* (BuildFeedFailureReport; processSingleFeed of send.go).                 *)
THEOREM NewslettersTell == Spec => []NewsletterTells
<1>1. RssInv => NewsletterTells
  BY Escalations, Details DEF RssInv, NewsletterTells
<1> QED
  BY <1>1, Invariant, PTL

(* hunt: with newOnly a URL is accepted once, over all providers,          *)
(* categories and runs (hunt.go, processCandidates and saveHuntState),     *)
(* unless seen state was lost.                                             *)
THEOREM OncePerUrl == Spec => []NewOnlyOnce
<1>1. RssInv => NewOnlyOnce
  BY HuntHolds DEF RssInv, NewOnlyOnce
<1> QED
  BY <1>1, Invariant, PTL

(* hunt: what the user mutes stays muted and out of the reports, what      *)
(* counts as seen was in a report or cut off one, and the page that is     *)
(* published is the one of this run (hunt.go, runHunt).                    *)
THEOREM HuntReportsHold == Spec => []ReportsHold
<1>1. RssInv => ReportsHold
  BY HuntHolds DEF RssInv, ReportsHold
<1> QED
  BY <1>1, Invariant, PTL

(* trns: however many processes trade the refresh token of the credential  *)
(* file (xiaoyuzhou.go, refreshAndGetToken: its mutex is one of a          *)
(* process), the file or the process that is saving it has the token the   *)
(* server accepts, as long as none got lost on the way.                    *)
THEOREM FileKeepsUp == Spec => []TokenLive
<1>1. RssInv => TokenLive
  BY TokenHolds DEF RssInv, TokenLive
<1> QED
  BY <1>1, Invariant, PTL

(* trns: Cache.Set (cache.go) writes two files: those of an entry that     *)
(* nobody is replacing belong together, unless a replacement stopped       *)
(* between them or two have crossed.                                       *)
THEOREM EntriesCohere == Spec => []CacheCoherent
<1>1. RssInv => CacheCoherent
  BY DEF RssInv, CacheInv, OneWriter, CacheCoherent, Trns!CacheCoherent
<1> QED
  BY <1>1, Invariant, PTL

(* trns: the statistics of a run that has ended account for every episode  *)
(* once, as without media, held back by the limit, linked or failed, and   *)
(* those it calls linked have their link (trns.go, attachTranscriptLinks). *)
THEOREM EveryEpisodeCounted == Spec => []TallyAddsUp
<1>1. RssInv => TallyAddsUp
  BY TallyEnds DEF RssInv, TallyAddsUp
<1> QED
  BY <1>1, Invariant, PTL
=============================================================================
