-------------------------- MODULE FeedFetchProofs --------------------------
(***************************************************************************)
(* Proofs about FeedFetch, for any categories, hosts, feeds and limits:    *)
(* the type invariant, the accounting of the hosts' permits, and the bound *)
(* on the requests that reach a host after its circuit has opened.         *)
(***************************************************************************)
EXTENDS FeedFetch, FiniteSetTheorems, TLAPS

\* Where a goroutine has no permit.
Outside == {"queued", "acquire", "done"}

\* The goroutines that have looked at the circuit and have not sent yet.
Senders(s) == {f \in Feeds : Slot(f) = s /\ pc[f] = "send"}

SinceInv == \A s \in Slots : since[s] <= MinInterval[s[2]]

FeedInv ==
  \A f \in Feeds :
    /\ pc[f] = "spacing" => HasHost(f)
    /\ pc[f] # "done" => tries[f] < MaxTries

\* Who opened the circuit had a permit and was not about to send.
LateInv ==
  \A s \in Slots :
    IF circuit[s] = Nil THEN late[s] = 0
    ELSE late[s] + Cardinality(Senders(s)) < HostConcurrency[s[2]]

IInv == TypeOK /\ SinceInv /\ FeedInv /\ PermitsAccounted /\ LateInv

-----------------------------------------------------------------------------
(* What the assumptions say of one feed. *)
LEMMA FeedFacts ==
  ASSUME NEW f \in Feeds
  PROVE  /\ f[1] \in Categories /\ f[2] \in DOMAIN HostOf[f[1]]
         /\ f = <<f[1], f[2]>>
         /\ Host(f) \in Hosts \cup {Nil}
         /\ HasHost(f) => Slot(f) \in Slots /\ Host(f) \in Hosts
         /\ Slot(f)[2] = Host(f)
  BY FeedFetchAssumption DEF Feeds, Host, Slot, Slots, HasHost

(* A slot belongs to feeds that have a host only. *)
LEMMA SlotFacts ==
  ASSUME NEW f \in Feeds, NEW s \in Slots, Slot(f) = s
  PROVE  HasHost(f)
  BY FeedFetchAssumption DEF Slot, Slots, HasHost

(* The holders and the senders of a slot can be counted. *)
LEMMA FiniteHolders ==
  ASSUME NEW s
  PROVE  /\ IsFiniteSet(Holders(s)) /\ Cardinality(Holders(s)) \in Nat
         /\ IsFiniteSet(Senders(s)) /\ Cardinality(Senders(s)) \in Nat
<1>1. Holders(s) \in SUBSET Feeds /\ Senders(s) \in SUBSET Feeds
  BY DEF Holders, Senders
<1> QED
  BY <1>1, FS_Subset, FS_CardinalityType, FeedFetchAssumption

(* A goroutine that moves where it has a permit as before. *)
LEMMA HoldersSame ==
  ASSUME TypeOK, NEW f \in Feeds, NEW w \in PCs, pc' = [pc EXCEPT ![f] = w],
         pc[f] \in Outside <=> w \in Outside,
         NEW s
  PROVE  Holders(s)' = Holders(s)
  BY DEF TypeOK, Holders, Outside, PCs

(* A goroutine that gets its permit. *)
LEMMA HoldersJoin ==
  ASSUME TypeOK, NEW f \in Feeds, NEW w \in PCs, pc' = [pc EXCEPT ![f] = w],
         pc[f] \in Outside, w \notin Outside,
         NEW s
  PROVE  /\ f \notin Holders(s)
         /\ Holders(s)' = IF Slot(f) = s THEN Holders(s) \cup {f} ELSE Holders(s)
  BY DEF TypeOK, Holders, Outside, PCs

(* A goroutine that returns its permit. *)
LEMMA HoldersLeave ==
  ASSUME TypeOK, NEW f \in Feeds, NEW w \in PCs, pc' = [pc EXCEPT ![f] = w],
         pc[f] \notin Outside, w \in Outside,
         NEW s
  PROVE  /\ Slot(f) = s => f \in Holders(s)
         /\ Holders(s)' = IF Slot(f) = s THEN Holders(s) \ {f} ELSE Holders(s)
  BY DEF TypeOK, Holders, Outside, PCs

(* The senders change with the goroutines that come to "send" or leave it. *)
LEMMA SendersMove ==
  ASSUME TypeOK, NEW f \in Feeds, NEW w \in PCs, pc' = [pc EXCEPT ![f] = w],
         NEW s
  PROVE  Senders(s)' = IF Slot(f) = s /\ w = "send" THEN Senders(s) \cup {f}
                       ELSE Senders(s) \ {f}
  BY DEF TypeOK, Senders, PCs

(* The permits after a step that takes and returns none. *)
LEMMA PermitsKept ==
  ASSUME PermitsAccounted, taken' = taken,
         \A s \in Slots : Holders(s)' = Holders(s)
  PROVE  PermitsAccounted'
  BY DEF PermitsAccounted

(* The permits after f has returned the one it had. *)
LEMMA PermitReturned ==
  ASSUME TypeOK, PermitsAccounted, NEW f \in Feeds,
         pc' = [pc EXCEPT ![f] = "done"], pc[f] \notin Outside,
         taken' = IF HasHost(f) THEN [taken EXCEPT ![Slot(f)] = @ - 1] ELSE taken
  PROVE  PermitsAccounted' /\ taken' \in [Slots -> Nat]
<1> SUFFICES ASSUME NEW s \in Slots
             PROVE  /\ taken'[s] = Cardinality(Holders(s)')
                    /\ taken'[s] <= HostConcurrency[s[2]]
                    /\ taken'[s] \in Nat
  <2>1. taken' = [s \in Slots |-> taken'[s]]
    BY DEF TypeOK
  <2> QED
    BY <2>1 DEF PermitsAccounted
<1>1. /\ Slot(f) = s => f \in Holders(s)
      /\ Holders(s)' = IF Slot(f) = s THEN Holders(s) \ {f} ELSE Holders(s)
  BY HoldersLeave DEF Outside, PCs
<1>2. /\ taken[s] = Cardinality(Holders(s)) /\ taken[s] <= HostConcurrency[s[2]]
      /\ taken[s] \in Nat /\ HostConcurrency[s[2]] \in Nat
  BY FeedFetchAssumption DEF PermitsAccounted, TypeOK, Slots
<1>3. IsFiniteSet(Holders(s)) /\ IsFiniteSet(Holders(s)')
  BY <1>1, FiniteHolders, FS_RemoveElement
<1>4. Cardinality(Holders(s)') \in Nat
  BY <1>3, FS_CardinalityType
<1>5. CASE Slot(f) = s
  <2>1. HasHost(f)
    BY <1>5, SlotFacts
  <2>2. taken'[s] = taken[s] - 1
    BY <1>5, <2>1 DEF TypeOK
  <2>3. Cardinality(Holders(s)') = Cardinality(Holders(s)) - 1
    BY <1>1, <1>3, <1>5, FS_RemoveElement
  <2> QED
    BY <1>2, <1>4, <2>2, <2>3
<1>6. CASE Slot(f) # s
  <2>1. taken'[s] = taken[s]
    BY <1>6 DEF TypeOK
  <2> QED
    BY <1>1, <1>2, <1>6, <2>1
<1> QED
  BY <1>5, <1>6

(* A move to anywhere but "send" leaves what LateInv says of the senders. *)
LEMMA LateKept ==
  ASSUME TypeOK, LateInv, NEW f \in Feeds, NEW w \in PCs \ {"send"},
         pc' = [pc EXCEPT ![f] = w], circuit' = circuit, late' = late
  PROVE  LateInv'
<1> SUFFICES ASSUME NEW s \in Slots, circuit[s] # Nil
             PROVE  late[s] + Cardinality(Senders(s)') < HostConcurrency[s[2]]
  BY DEF LateInv
<1>1. Senders(s)' \in SUBSET Senders(s)
  <2>1. w \in PCs /\ w # "send"
    OBVIOUS
  <2>2. Senders(s)' = Senders(s) \ {f}
    BY <2>1, SendersMove
  <2> QED
    BY <2>2
<1>2. /\ Cardinality(Senders(s)') <= Cardinality(Senders(s))
      /\ Cardinality(Senders(s)') \in Nat /\ Cardinality(Senders(s)) \in Nat
  BY <1>1, FiniteHolders, FS_Subset, FS_CardinalityType
<1>3. late[s] \in Nat /\ HostConcurrency[s[2]] \in Nat
  BY FeedFetchAssumption DEF TypeOK, Slots
<1> QED
  BY <1>2, <1>3 DEF LateInv

(* A fetch that ends in any way but by opening a circuit. *)
LEMMA FinishKeeps ==
  ASSUME IInv, NEW f \in Feeds, NEW what \in {"feed", "failed", "skipped"},
         pc[f] \notin Outside, Finish(f, what),
         UNCHANGED <<circuit, timer, tries, expired, late>>
  PROVE  IInv'
<1>1. PermitsAccounted' /\ taken' \in [Slots -> Nat]
  BY PermitReturned DEF IInv, Finish
<1>2. since' \in [Slots -> Nat] /\ SinceInv'
  <2>1. \A s \in Slots : MinInterval[s[2]] \in Nat
    BY FeedFetchAssumption DEF Slots
  <2>2. CASE ~HasHost(f)
    BY <2>2 DEF IInv, TypeOK, SinceInv, Finish
  <2>3. CASE HasHost(f)
    <3>1. since' = [since EXCEPT ![Slot(f)] = 0] /\ Slot(f) \in Slots
      BY <2>3, FeedFacts DEF Finish
    <3>2. ASSUME NEW s \in Slots PROVE since'[s] \in Nat /\ since'[s] <= MinInterval[s[2]]
      BY <2>1, <3>1 DEF IInv, TypeOK, SinceInv
    <3>3. since' \in [Slots -> Nat]
      BY <3>1 DEF IInv, TypeOK
    <3> QED
      BY <3>2, <3>3 DEF SinceInv
  <2> QED
    BY <2>2, <2>3
<1>3. TypeOK'
  BY <1>1, <1>2 DEF IInv, TypeOK, Finish, PCs
<1>4. FeedInv'
  BY DEF IInv, TypeOK, FeedInv, Finish
<1>5. LateInv'
  BY LateKept DEF IInv, Finish, PCs
<1> QED
  BY <1>1, <1>2, <1>3, <1>4, <1>5 DEF IInv

(* A goroutine that moves on with its permit, or without one as before. *)
LEMMA MoveKeeps ==
  ASSUME IInv, NEW f \in Feeds, NEW w \in PCs \ {"send", "spacing", "done"},
         pc[f] # "done", HasHost(f) => (pc[f] \in Outside <=> w \in Outside),
         Goto(f, w),
         UNCHANGED <<taken, since, circuit, timer, tries, outcome, expired, late>>
  PROVE  IInv'
<1>1. TypeOK'
  BY DEF IInv, TypeOK, Goto, PCs
<1>2. SinceInv' /\ FeedInv'
  BY DEF IInv, TypeOK, SinceInv, FeedInv, Goto
<1>3. PermitsAccounted'
  <2>1. ASSUME NEW s \in Slots PROVE Holders(s)' = Holders(s)
    <3>1. CASE HasHost(f)
      BY <3>1, HoldersSame DEF IInv, Goto
    <3>2. CASE ~HasHost(f)
      BY <3>2, SlotFacts DEF IInv, TypeOK, Goto, Holders
    <3> QED
      BY <3>1, <3>2
  <2> QED
    BY <2>1, PermitsKept DEF IInv
<1>4. LateInv'
  BY LateKept DEF IInv, Goto
<1> QED
  BY <1>1, <1>2, <1>3, <1>4 DEF IInv

-----------------------------------------------------------------------------
LEMMA InitIInv == Init => IInv
<1> SUFFICES ASSUME Init PROVE IInv
  OBVIOUS
<1>1. TypeOK
  <2>1. \A s \in Slots : MinInterval[s[2]] \in Nat
    BY FeedFetchAssumption DEF Slots
  <2>2. since \in [Slots -> Nat]
    BY <2>1 DEF Init
  <2>3. /\ pc \in [Feeds -> PCs] /\ taken \in [Slots -> Nat]
        /\ circuit \in [Slots -> Feeds \cup {Nil}] /\ timer \in [Feeds -> Nat]
        /\ late \in [Slots -> Nat]
    BY DEF Init, PCs
  <2>4. /\ tries \in [Feeds -> 0 .. MaxTries]
        /\ outcome \in [Feeds -> {"none", "feed", "failed", "skipped", "cancelled"}]
    BY FeedFetchAssumption DEF Init
  <2>5. expired \in BOOLEAN
    BY DEF Init
  <2> QED
    BY <2>2, <2>3, <2>4, <2>5 DEF TypeOK
<1>2. SinceInv /\ FeedInv
  BY FeedFetchAssumption DEF Init, SinceInv, FeedInv, Slots
<1>3. PermitsAccounted
  <2> SUFFICES ASSUME NEW s \in Slots
               PROVE  /\ taken[s] = Cardinality(Holders(s))
                      /\ taken[s] <= HostConcurrency[s[2]]
    BY DEF PermitsAccounted
  <2>1. Holders(s) = {}
    BY DEF Init, Holders
  <2>2. taken[s] = 0 /\ HostConcurrency[s[2]] \in Nat
    BY FeedFetchAssumption DEF Init, Slots
  <2> QED
    BY <2>1, <2>2, FS_EmptySet
<1>4. LateInv
  BY DEF Init, LateInv
<1> QED
  BY <1>1, <1>2, <1>3, <1>4 DEF IInv

LEMMA AcquireIInv ==
  ASSUME IInv, NEW f \in Feeds, Acquire(f)
  PROVE  IInv'
<1>1. CASE ~HasHost(f)
  <2>1. Goto(f, "enter")
    BY <1>1 DEF Acquire
  <2>2. pc[f] = "acquire" /\ UNCHANGED <<taken, since, circuit, timer, tries,
                                        outcome, expired, late>>
    BY <1>1 DEF Acquire
  <2> QED
    BY <1>1, <2>1, <2>2, MoveKeeps DEF PCs
<1>2. CASE HasHost(f)
  <2> SUFFICES ASSUME NEW wait, wait = MinInterval[Host(f)] - since[Slot(f)],
                      NEW w, w = IF wait = 0 THEN "enter" ELSE "spacing"
               PROVE  IInv'
    OBVIOUS
  <2>1. /\ pc[f] = "acquire" /\ pc' = [pc EXCEPT ![f] = w]
        /\ taken' = [taken EXCEPT ![Slot(f)] = @ + 1]
        /\ timer' = [timer EXCEPT ![f] = wait]
        /\ taken[Slot(f)] < HostConcurrency[Host(f)]
        /\ UNCHANGED <<since, circuit, tries, outcome, expired, late>>
    BY <1>2 DEF Acquire, Goto
  <2>2. Slot(f) \in Slots /\ Host(f) \in Hosts /\ Slot(f)[2] = Host(f)
    BY <1>2, FeedFacts
  <2>3. wait \in Nat /\ w \in PCs \ {"send"} /\ w \notin Outside
    <3>1. /\ MinInterval[Host(f)] \in Nat /\ since[Slot(f)] \in Nat
          /\ since[Slot(f)] <= MinInterval[Host(f)]
      BY <2>2, FeedFetchAssumption DEF IInv, TypeOK, SinceInv
    <3> QED
      BY <3>1 DEF PCs, Outside
  <2>4. TypeOK'
    BY <2>1, <2>2, <2>3 DEF IInv, TypeOK
  <2>5. SinceInv' /\ FeedInv'
    BY <1>2, <2>1 DEF IInv, TypeOK, SinceInv, FeedInv
  <2>6. PermitsAccounted'
    <3> SUFFICES ASSUME NEW s \in Slots
                 PROVE  /\ taken'[s] = Cardinality(Holders(s)')
                        /\ taken'[s] <= HostConcurrency[s[2]]
      BY DEF PermitsAccounted
    <3>1. /\ f \notin Holders(s)
          /\ Holders(s)' = IF Slot(f) = s THEN Holders(s) \cup {f} ELSE Holders(s)
      BY <2>1, <2>3, HoldersJoin DEF IInv, Outside
    <3>2. /\ taken[s] = Cardinality(Holders(s)) /\ taken[s] <= HostConcurrency[s[2]]
          /\ taken[s] \in Nat /\ HostConcurrency[s[2]] \in Nat
      BY FeedFetchAssumption DEF IInv, PermitsAccounted, TypeOK, Slots
    <3>3. CASE Slot(f) = s
      <4>1. Cardinality(Holders(s)') = Cardinality(Holders(s)) + 1
        BY <3>1, <3>3, FiniteHolders, FS_AddElement
      <4>2. taken'[s] = taken[s] + 1
        BY <2>1, <2>2, <3>3 DEF IInv, TypeOK
      <4> QED
        BY <2>1, <2>2, <3>2, <3>3, <4>1, <4>2
    <3>4. CASE Slot(f) # s
      BY <2>1, <3>1, <3>2, <3>4 DEF IInv, TypeOK
    <3> QED
      BY <3>3, <3>4
  <2>7. LateInv'
    BY <2>1, <2>3, LateKept DEF IInv
  <2> QED
    BY <2>4, <2>5, <2>6, <2>7 DEF IInv
<1> QED
  BY <1>1, <1>2

LEMMA GiveUpIInv ==
  ASSUME IInv, NEW f \in Feeds, GiveUp(f)
  PROVE  IInv'
<1>1. /\ pc' = [pc EXCEPT ![f] = "done"]
      /\ outcome' = [outcome EXCEPT ![f] = "cancelled"]
      /\ timer' = [timer EXCEPT ![f] = 0]
      /\ UNCHANGED <<since, circuit, tries, expired, late>>
  BY DEF GiveUp, Goto
<1>2. PermitsAccounted' /\ taken' \in [Slots -> Nat]
  <2>1. CASE pc[f] = "acquire"
    <3>1. taken' = taken
      BY <2>1 DEF GiveUp
    <3>2. \A s \in Slots : Holders(s)' = Holders(s)
      BY <1>1, <2>1, HoldersSame DEF IInv, PCs, Outside
    <3> QED
      BY <3>1, <3>2, PermitsKept DEF IInv, TypeOK
  <2>2. CASE pc[f] = "spacing"
    <3>1. HasHost(f) /\ pc[f] \notin Outside
      BY <2>2 DEF IInv, FeedInv, Outside
    <3>2. taken' = [taken EXCEPT ![Slot(f)] = @ - 1]
      BY <2>2 DEF GiveUp
    <3> QED
      BY <1>1, <3>1, <3>2, PermitReturned DEF IInv
  <2> QED
    BY <2>1, <2>2 DEF GiveUp
<1>3. TypeOK'
  BY <1>1, <1>2 DEF IInv, TypeOK, PCs
<1>4. SinceInv' /\ FeedInv'
  BY <1>1 DEF IInv, TypeOK, SinceInv, FeedInv
<1>5. LateInv'
  BY <1>1, LateKept DEF IInv, PCs
<1> QED
  BY <1>2, <1>3, <1>4, <1>5 DEF IInv

LEMMA AttemptIInv ==
  ASSUME IInv, NEW f \in Feeds, Attempt(f)
  PROVE  IInv'
<1>1. pc[f] = "attempt" /\ UNCHANGED <<circuit, timer, tries, expired, late>>
  BY DEF Attempt
<1>2. CASE \E what \in {"failed", "skipped"} : Finish(f, what)
  BY <1>1, <1>2, FinishKeeps DEF Outside
<1>3. CASE ~Open(f) /\ Goto(f, "send") /\ UNCHANGED <<taken, since, outcome>>
  <2>1. pc' = [pc EXCEPT ![f] = "send"] /\ "send" \in PCs
    BY <1>3 DEF Goto, PCs
  <2>2. TypeOK'
    BY <1>1, <1>3, <2>1 DEF IInv, TypeOK
  <2>3. SinceInv' /\ FeedInv'
    BY <1>1, <1>3, <2>1 DEF IInv, TypeOK, SinceInv, FeedInv
  <2>4. PermitsAccounted'
    <3>1. \A s \in Slots : Holders(s)' = Holders(s)
      BY <1>1, <2>1, HoldersSame DEF IInv, Outside
    <3> QED
      BY <1>3, <3>1, PermitsKept DEF IInv
  <2>5. LateInv'
    <3> SUFFICES ASSUME NEW s \in Slots, circuit[s] # Nil
                 PROVE  Senders(s)' = Senders(s)
      BY <1>1 DEF IInv, LateInv
    <3>1. Slot(f) # s
      BY <1>3, SlotFacts DEF Open
    <3> QED
      BY <2>1, <3>1 DEF IInv, TypeOK, Senders
  <2> QED
    BY <2>2, <2>3, <2>4, <2>5 DEF IInv
<1> QED
  BY <1>2, <1>3 DEF Attempt

LEMMA SendIInv ==
  ASSUME IInv, NEW f \in Feeds, Send(f)
  PROVE  IInv'
<1>1. /\ pc[f] = "send" /\ pc' = [pc EXCEPT ![f] = "request"]
      /\ "request" \in PCs \ {"send"}
      /\ UNCHANGED <<taken, since, circuit, timer, tries, outcome, expired>>
  BY DEF Send, Goto, PCs
<1>2. PermitsAccounted'
  <2>1. \A s \in Slots : Holders(s)' = Holders(s)
    BY <1>1, HoldersSame DEF IInv, Outside
  <2> QED
    BY <1>1, <2>1, PermitsKept DEF IInv
<1>3. SinceInv' /\ FeedInv'
  BY <1>1 DEF IInv, TypeOK, SinceInv, FeedInv
<1>4. CASE ~Open(f)
  <2>1. late' = late
    BY <1>4 DEF Send
  <2>2. TypeOK' /\ LateInv'
    BY <1>1, <2>1, LateKept DEF IInv, TypeOK
  <2> QED
    BY <1>2, <1>3, <2>2 DEF IInv
<1>5. CASE Open(f)
  <2>1. late' = [late EXCEPT ![Slot(f)] = @ + 1] /\ Slot(f) \in Slots
    BY <1>5, FeedFacts DEF Send, Open
  <2>2. TypeOK'
    BY <1>1, <2>1 DEF IInv, TypeOK
  <2>3. LateInv'
    <3> SUFFICES ASSUME NEW s \in Slots
                 PROVE  IF circuit[s] = Nil THEN late'[s] = 0
                        ELSE late'[s] + Cardinality(Senders(s)') < HostConcurrency[s[2]]
      BY <1>1 DEF LateInv
    <3>1. CASE Slot(f) = s
      <4>1. Senders(s)' = Senders(s) \ {f} /\ f \in Senders(s)
        BY <1>1, <3>1 DEF IInv, TypeOK, Senders
      <4>2. Cardinality(Senders(s)') = Cardinality(Senders(s)) - 1
        BY <4>1, FiniteHolders, FS_RemoveElement
      <4>3. late'[s] = late[s] + 1 /\ late[s] \in Nat
        BY <2>1, <3>1 DEF IInv, TypeOK
      <4>4. circuit[s] # Nil /\ Cardinality(Senders(s)) \in Nat
        BY <1>5, <3>1, FiniteHolders DEF Open
      <4> QED
        BY <4>2, <4>3, <4>4 DEF IInv, LateInv
    <3>2. CASE Slot(f) # s
      <4>1. Senders(s)' = Senders(s)
        BY <1>1, <3>2 DEF IInv, TypeOK, Senders
      <4>2. late'[s] = late[s]
        BY <2>1, <3>2 DEF IInv, TypeOK
      <4> QED
        BY <4>1, <4>2 DEF IInv, LateInv
    <3> QED
      BY <3>1, <3>2
  <2> QED
    BY <1>2, <1>3, <2>2, <2>3 DEF IInv
<1> QED
  BY <1>4, <1>5

LEMMA RefusedIInv ==
  ASSUME IInv, NEW f \in Feeds, NEW error \in Errors, Refused(f, error)
  PROVE  IInv'
<1> SUFFICES ASSUME NEW opens,
                    opens = (Trips(f, error) /\ HasHost(f) /\ ~Open(f)),
                    NEW w, w = pc'[f]
             PROVE  IInv'
  OBVIOUS
<1>1. /\ pc[f] = "request"
      /\ tries' = [tries EXCEPT ![f] = @ + 1]
      /\ UNCHANGED <<timer, expired, late>>
  BY DEF Refused
<1>2. circuit' = IF opens THEN [circuit EXCEPT ![Slot(f)] = f] ELSE circuit
  BY DEF Refused
<1>3. \/ /\ Finish(f, "failed")
         /\ w = "done"
      \/ /\ Goto(f, "backoff") /\ UNCHANGED <<taken, since, outcome>>
         /\ w = "backoff" /\ tries[f] + 1 # MaxTries /\ ~opens
  BY DEF Refused, Finish, Goto, IInv, TypeOK
<1>4. pc' = [pc EXCEPT ![f] = w] /\ w \in PCs \ {"send"}
  BY <1>3 DEF Finish, Goto, PCs
<1>5. MaxTries \in Nat /\ tries[f] \in 0 .. MaxTries /\ tries[f] < MaxTries
  BY <1>1, FeedFetchAssumption DEF IInv, TypeOK, FeedInv
<1>6. PermitsAccounted' /\ taken' \in [Slots -> Nat]
  <2>1. CASE w = "done"
    BY <1>1, <1>3, <2>1, PermitReturned DEF IInv, Finish, Outside
  <2>2. CASE w = "backoff"
    <3>1. \A s \in Slots : Holders(s)' = Holders(s)
      BY <1>1, <1>4, <2>2, HoldersSame DEF IInv, Outside
    <3> QED
      BY <1>3, <2>2, <3>1, PermitsKept DEF IInv, TypeOK
  <2> QED
    BY <1>3, <2>1, <2>2
<1>7. since' \in [Slots -> Nat] /\ SinceInv'
  <2>1. CASE since' = since
    BY <2>1 DEF IInv, TypeOK, SinceInv
  <2>2. CASE HasHost(f) /\ since' = [since EXCEPT ![Slot(f)] = 0]
    <3>1. \A s \in Slots : MinInterval[s[2]] \in Nat
      BY FeedFetchAssumption DEF Slots
    <3>2. ASSUME NEW s \in Slots PROVE since'[s] <= MinInterval[s[2]]
      BY <2>2, <3>1, FeedFacts DEF IInv, TypeOK, SinceInv
    <3> QED
      BY <2>2, <3>2 DEF IInv, TypeOK, SinceInv
  <2> QED
    BY <1>3, <2>1, <2>2 DEF Finish
<1>8. TypeOK'
  <2>1. circuit' \in [Slots -> Feeds \cup {Nil}]
    BY <1>2 DEF IInv, TypeOK
  <2>2. tries' \in [Feeds -> 0 .. MaxTries]
    <3>1. tries[f] + 1 \in 0 .. MaxTries
      BY <1>5
    <3> QED
      BY <1>1, <3>1 DEF IInv, TypeOK
  <2>3. outcome' \in [Feeds -> {"none", "feed", "failed", "skipped", "cancelled"}]
    BY <1>3 DEF IInv, TypeOK, Finish
  <2>4. pc' \in [Feeds -> PCs]
    BY <1>4 DEF IInv, TypeOK
  <2> QED
    BY <1>1, <1>6, <1>7, <2>1, <2>2, <2>3, <2>4 DEF IInv, TypeOK
<1>9. FeedInv'
  <2> SUFFICES ASSUME NEW g \in Feeds
               PROVE  /\ pc'[g] = "spacing" => HasHost(g)
                      /\ pc'[g] # "done" => tries'[g] < MaxTries
    BY DEF FeedInv
  <2>1. CASE g = f
    BY <1>1, <1>3, <1>4, <1>5, <2>1 DEF IInv, TypeOK
  <2>2. CASE g # f
    BY <1>1, <1>4, <2>2 DEF IInv, TypeOK, FeedInv
  <2> QED
    BY <2>1, <2>2
<1>10. LateInv'
  <2>1. CASE ~opens
    BY <1>1, <1>2, <1>4, <2>1, LateKept DEF IInv
  <2>2. CASE opens
    <3> SUFFICES ASSUME NEW s \in Slots
                 PROVE  IF circuit'[s] = Nil THEN late[s] = 0
                        ELSE late[s] + Cardinality(Senders(s)') < HostConcurrency[s[2]]
      BY <1>1 DEF LateInv
    <3>1. CASE Slot(f) # s
      <4>1. Senders(s)' = Senders(s)
        BY <1>4, <3>1 DEF IInv, TypeOK, Senders
      <4>2. circuit'[s] = circuit[s]
        BY <1>2, <3>1 DEF IInv, TypeOK
      <4> QED
        BY <4>1, <4>2 DEF IInv, LateInv
    <3>2. CASE Slot(f) = s
      <4>1. late[s] = 0
        BY <2>2, <3>2 DEF IInv, LateInv, Open
      <4>2. f \in Holders(s) /\ Senders(s)' \in SUBSET (Holders(s) \ {f})
        BY <1>1, <1>4, <3>2 DEF IInv, TypeOK, Holders, Senders
      <4>3. Cardinality(Holders(s) \ {f}) = Cardinality(Holders(s)) - 1
        BY <4>2, FiniteHolders, FS_RemoveElement
      <4>4. /\ Cardinality(Senders(s)') <= Cardinality(Holders(s) \ {f})
            /\ Cardinality(Senders(s)') \in Nat
        BY <4>2, FiniteHolders, FS_RemoveElement, FS_Subset, FS_CardinalityType
      <4>5. /\ Cardinality(Holders(s)) <= HostConcurrency[s[2]]
            /\ Cardinality(Holders(s)) \in Nat /\ HostConcurrency[s[2]] \in Nat
        BY FiniteHolders, FeedFetchAssumption DEF IInv, PermitsAccounted, Slots
      <4> QED
        BY <4>1, <4>3, <4>4, <4>5
    <3> QED
      BY <3>1, <3>2
  <2> QED
    BY <2>1, <2>2
<1> QED
  BY <1>6, <1>7, <1>8, <1>9, <1>10 DEF IInv

LEMMA TickIInv ==
  ASSUME IInv, Tick
  PROVE  IInv'
<1>1. UNCHANGED <<pc, taken, circuit, tries, outcome, expired, late>>
  BY DEF Tick
<1>2. timer' \in [Feeds -> Nat]
  BY DEF IInv, TypeOK, Tick
<1>3. since' \in [Slots -> Nat] /\ SinceInv'
  <2>1. \A s \in Slots : MinInterval[s[2]] \in Nat
    BY FeedFetchAssumption DEF Slots
  <2>2. ASSUME NEW s \in Slots
        PROVE  since'[s] \in Nat /\ since'[s] <= MinInterval[s[2]]
    BY <2>1 DEF IInv, TypeOK, SinceInv, Tick
  <2>3. since' = [s \in Slots |-> since'[s]]
    BY DEF Tick
  <2> QED
    BY <2>2, <2>3 DEF SinceInv
<1>4. TypeOK'
  BY <1>1, <1>2, <1>3 DEF IInv, TypeOK
<1>5. FeedInv' /\ PermitsAccounted' /\ LateInv'
  BY <1>1 DEF IInv, FeedInv, PermitsAccounted, LateInv, Holders, Senders
<1> QED
  BY <1>3, <1>4, <1>5 DEF IInv

LEMMA NextIInv == IInv /\ [Next]_vars => IInv'
<1> SUFFICES ASSUME IInv, [Next]_vars PROVE IInv'
  OBVIOUS
<1>1. ASSUME NEW f \in Feeds, Step(f) PROVE IInv'
  <2>1. CASE Launch(f)
    <3>1. pc[f] = "queued" /\ Goto(f, "acquire")
      BY <2>1 DEF Launch
    <3>2. UNCHANGED <<taken, since, circuit, timer, tries, outcome, expired, late>>
      BY <2>1 DEF Launch
    <3> QED
      BY <3>1, <3>2, MoveKeeps DEF PCs, Outside
  <2>2. CASE Acquire(f)
    BY <2>2, AcquireIInv
  <2>3. CASE SpacingOver(f)
    <3>1. pc[f] = "spacing" /\ Goto(f, "enter")
      BY <2>3 DEF SpacingOver
    <3>2. UNCHANGED <<taken, since, circuit, timer, tries, outcome, expired, late>>
      BY <2>3 DEF SpacingOver
    <3> QED
      BY <3>1, <3>2, MoveKeeps DEF PCs, Outside
  <2>4. CASE GiveUp(f)
    BY <2>4, GiveUpIInv
  <2>5. CASE Enter(f)
    <3>1. pc[f] = "enter" /\ UNCHANGED <<circuit, timer, tries, expired, late>>
      BY <2>5 DEF Enter
    <3>2. CASE \E what \in {"failed", "skipped"} : Finish(f, what)
      BY <3>1, <3>2, FinishKeeps DEF Outside
    <3>3. CASE Goto(f, "attempt") /\ UNCHANGED <<taken, since, outcome>>
      BY <3>1, <3>3, MoveKeeps DEF PCs, Outside
    <3> QED
      BY <2>5, <3>2, <3>3 DEF Enter
  <2>6. CASE Attempt(f)
    BY <2>6, AttemptIInv
  <2>7. CASE Send(f)
    BY <2>7, SendIInv
  <2>8. CASE Fetched(f)
    <3>1. pc[f] = "request" /\ Finish(f, "feed")
      BY <2>8 DEF Fetched
    <3>2. UNCHANGED <<circuit, timer, tries, expired, late>>
      BY <2>8 DEF Fetched
    <3> QED
      BY <3>1, <3>2, FinishKeeps DEF Outside
  <2>9. CASE BackoffOver(f)
    <3>1. pc[f] = "backoff" /\ UNCHANGED <<circuit, timer, tries, expired, late>>
      BY <2>9 DEF BackoffOver
    <3>2. CASE Finish(f, "failed")
      BY <3>1, <3>2, FinishKeeps DEF Outside
    <3>3. CASE Goto(f, "attempt") /\ UNCHANGED <<taken, since, outcome>>
      BY <3>1, <3>3, MoveKeeps DEF PCs, Outside
    <3> QED
      BY <2>9, <3>2, <3>3 DEF BackoffOver
  <2>10. CASE \E error \in Errors : Refused(f, error)
    BY <2>10, RefusedIInv
  <2> QED
    BY <1>1, <2>1, <2>2, <2>3, <2>4, <2>5, <2>6, <2>7, <2>8, <2>9, <2>10 DEF Step
<1>2. CASE Tick
  BY <1>2, TickIInv
<1>3. CASE Timeout
  <2>1. UNCHANGED <<pc, taken, since, circuit, timer, tries, outcome, late>>
    BY <1>3 DEF Timeout
  <2>2. expired' \in BOOLEAN
    BY <1>3 DEF Timeout
  <2>3. TypeOK'
    BY <2>1, <2>2 DEF IInv, TypeOK
  <2>4. SinceInv' /\ FeedInv' /\ PermitsAccounted' /\ LateInv'
    BY <2>1 DEF IInv, SinceInv, FeedInv, PermitsAccounted, LateInv, Holders, Senders
  <2> QED
    BY <2>3, <2>4 DEF IInv
<1>4. CASE UNCHANGED vars
  <2>1. TypeOK'
    BY <1>4 DEF IInv, TypeOK, vars
  <2>2. SinceInv' /\ FeedInv' /\ PermitsAccounted' /\ LateInv'
    BY <1>4 DEF IInv, SinceInv, FeedInv, PermitsAccounted, LateInv, Holders, Senders, vars
  <2> QED
    BY <2>1, <2>2 DEF IInv
<1> QED
  BY <1>1, <1>2, <1>3, <1>4 DEF Next, Finished

LEMMA Invariance == Spec => []IInv
BY InitIInv, NextIInv, PTL DEF Spec

(* The controllers and the goroutines keep their types: no permit count,   *)
(* wait or number of attempts leaves its range.                            *)
THEOREM TypeCorrect == Spec => []TypeOK
<1>1. IInv => TypeOK
  BY DEF IInv
<1> QED
  BY <1>1, Invariance, PTL

(* Every path out of a fetch returns the permit it took and no other       *)
(* (host_policy.go:186-228).                                               *)
THEOREM PermitsReturned == Spec => []PermitsAccounted
<1>1. IInv => PermitsAccounted
  BY DEF IInv
<1> QED
  BY <1>1, Invariance, PTL

(* An open circuit lets through fewer requests than the host has permits,  *)
(* whatever the number of feeds and of attempts (host_policy.go:157-167).  *)
THEOREM CircuitStopsHost == Spec => []FewLateRequests
<1>1. IInv => FewLateRequests
  <2> SUFFICES ASSUME IInv, NEW s \in Slots
               PROVE  late[s] < HostConcurrency[s[2]]
    BY DEF FewLateRequests
  <2>1. late[s] \in Nat /\ HostConcurrency[s[2]] \in Nat \ {0}
    BY FeedFetchAssumption DEF IInv, TypeOK, Slots
  <2>2. Cardinality(Senders(s)) \in Nat
    BY FiniteHolders
  <2> QED
    BY <2>1, <2>2 DEF IInv, LateInv
<1> QED
  BY <1>1, Invariance, PTL

-----------------------------------------------------------------------------
(* While a goroutine waits for the interval of a host that is fetched      *)
(* serially, no other ends there: its timer and the clock stay in step.    *)
Serial(f) == HasHost(f) /\ HostConcurrency[Host(f)] = 1

RestInv ==
  \A f \in Feeds :
    Serial(f) /\ pc[f] = "spacing" =>
      timer[f] + since[Slot(f)] = MinInterval[Host(f)]

(* A host that is fetched serially has one holder. *)
LEMMA OneHolder ==
  ASSUME PermitsAccounted, NEW s \in Slots, HostConcurrency[s[2]] = 1,
         NEW f \in Holders(s), NEW g \in Holders(s)
  PROVE  f = g
<1> SUFFICES ASSUME f # g PROVE FALSE
  OBVIOUS
<1>1. Cardinality(Holders(s)) <= 1 /\ IsFiniteSet(Holders(s))
  BY FiniteHolders DEF PermitsAccounted
<1>2. /\ Cardinality(Holders(s) \ {f}) = Cardinality(Holders(s)) - 1
      /\ IsFiniteSet(Holders(s) \ {f})
  BY <1>1, FS_RemoveElement
<1>3. Cardinality((Holders(s) \ {f}) \ {g}) = Cardinality(Holders(s) \ {f}) - 1
  BY <1>2, FS_RemoveElement
<1>4. Cardinality((Holders(s) \ {f}) \ {g}) \in Nat
  BY <1>2, FS_RemoveElement, FS_CardinalityType
<1> QED
  BY <1>1, <1>2, <1>3, <1>4, FiniteHolders

(* What a step of g does to the clock and the timers of the others. *)
LEMMA OthersKeep ==
  ASSUME IInv, NEW g \in Feeds, Step(g), NEW f \in Feeds, f # g
  PROVE  /\ pc'[f] = pc[f] /\ timer'[f] = timer[f]
         /\ Serial(f) /\ pc[f] = "spacing" => since'[Slot(f)] = since[Slot(f)]
<1>1. pc'[f] = pc[f] /\ timer'[f] = timer[f]
  BY DEF IInv, TypeOK, Step, Launch, Acquire, SpacingOver, GiveUp, Enter, Attempt,
         Send, Fetched, Refused, BackoffOver, Finish, Goto
<1>2. ASSUME Serial(f), pc[f] = "spacing" PROVE since'[Slot(f)] = since[Slot(f)]
  <2>1. CASE since' = since
    BY <2>1
  <2>2. CASE /\ HasHost(g) /\ pc[g] \notin Outside
             /\ since' = [since EXCEPT ![Slot(g)] = 0]
    <3>1. Slot(f) \in Slots /\ Slot(f)[2] = Host(f)
      BY <1>2, FeedFacts DEF Serial
    <3>2. Slot(g) # Slot(f)
      <4> SUFFICES ASSUME Slot(g) = Slot(f) PROVE FALSE
        OBVIOUS
      <4>1. f \in Holders(Slot(f)) /\ g \in Holders(Slot(f))
        BY <1>2, <2>2 DEF Holders, Outside
      <4> QED
        BY <1>2, <3>1, <4>1, OneHolder DEF IInv, Serial
    <3> QED
      BY <2>2, <3>1, <3>2 DEF IInv, TypeOK
  <2>3. \/ since' = since
        \/ /\ HasHost(g) /\ pc[g] \notin Outside
           /\ since' = [since EXCEPT ![Slot(g)] = 0]
    BY DEF Step, Launch, Acquire, SpacingOver, GiveUp, Enter, Attempt, Send,
           Fetched, Refused, BackoffOver, Finish, Outside
  <2> QED
    BY <2>1, <2>2, <2>3
<1> QED
  BY <1>1, <1>2

LEMMA NextRestInv == IInv /\ RestInv /\ [Next]_vars => RestInv'
<1> SUFFICES ASSUME IInv, RestInv, [Next]_vars,
                    NEW f \in Feeds, Serial(f), pc'[f] = "spacing"
             PROVE  timer'[f] + since'[Slot(f)] = MinInterval[Host(f)]
  BY DEF RestInv, Serial
<1>1. /\ Slot(f) \in Slots /\ Slot(f)[2] = Host(f)
      /\ MinInterval[Host(f)] \in Nat /\ since[Slot(f)] \in Nat /\ timer[f] \in Nat
      /\ since[Slot(f)] <= MinInterval[Host(f)]
  BY FeedFacts, FeedFetchAssumption DEF Serial, IInv, TypeOK, SinceInv
<1>2. CASE Step(f)
  <2>1. Acquire(f)
    BY <1>2 DEF IInv, TypeOK, Step, Launch, SpacingOver, GiveUp, Enter, Attempt,
                Send, Fetched, Refused, BackoffOver, Finish, Goto
  <2>2. timer'[f] = MinInterval[Host(f)] - since[Slot(f)] /\ since' = since
    BY <2>1 DEF Acquire, Serial, IInv, TypeOK
  <2> QED
    BY <1>1, <2>2
<1>3. ASSUME NEW g \in Feeds, g # f, Step(g)
      PROVE  timer'[f] + since'[Slot(f)] = MinInterval[Host(f)]
  BY <1>3, OthersKeep DEF RestInv
<1>4. CASE Tick
  <2>1. timer[f] + since[Slot(f)] = MinInterval[Host(f)]
    BY <1>4 DEF Tick, RestInv
  <2>2. /\ timer'[f] = IF timer[f] > 0 THEN timer[f] - 1 ELSE 0
        /\ since'[Slot(f)] = IF since[Slot(f)] < MinInterval[Host(f)]
                             THEN since[Slot(f)] + 1 ELSE since[Slot(f)]
    BY <1>1, <1>4 DEF Tick
  <2> QED
    BY <1>1, <2>1, <2>2
<1>5. CASE Timeout \/ UNCHANGED vars
  BY <1>5 DEF Timeout, vars, RestInv
<1> QED
  BY <1>2, <1>3, <1>4, <1>5 DEF Next, Finished

(* A host that is fetched serially rests for its whole interval before the *)
(* next feed (host_policy.go:193-217).                                     *)
THEOREM HostRests == Spec => RestBetweenFeeds
<1>1. Init => RestInv
  BY DEF Init, RestInv
<1>2. ASSUME IInv, RestInv, [Next]_vars, NEW f \in Feeds,
             HasHost(f), HostConcurrency[Host(f)] = 1,
             pc[f] \in {"acquire", "spacing"}, pc'[f] = "enter"
      PROVE  since[Slot(f)] = MinInterval[Host(f)]
  <2>1. Step(f)
    <3>1. ASSUME NEW g \in Feeds, g # f, Step(g) PROVE FALSE
      BY <1>2, <3>1, OthersKeep
    <3> QED
      BY <1>2, <3>1 DEF Next, Tick, Timeout, Finished, vars
  <2>2. Acquire(f) \/ SpacingOver(f)
    BY <1>2, <2>1 DEF IInv, TypeOK, Step, Launch, GiveUp, Enter, Attempt, Send,
                      Fetched, Refused, BackoffOver, Finish, Goto
  <2>3. /\ MinInterval[Host(f)] \in Nat /\ since[Slot(f)] \in Nat
        /\ since[Slot(f)] <= MinInterval[Host(f)]
    BY <1>2, FeedFacts, FeedFetchAssumption DEF IInv, TypeOK, SinceInv
  <2>4. CASE Acquire(f)
    <3>1. MinInterval[Host(f)] - since[Slot(f)] = 0
      BY <1>2, <2>4 DEF Acquire, Goto, IInv, TypeOK
    <3> QED
      BY <2>3, <3>1
  <2>5. CASE SpacingOver(f)
    BY <1>2, <2>3, <2>5 DEF SpacingOver, RestInv, Serial
  <2> QED
    BY <2>2, <2>4, <2>5
<1>3. IInv /\ RestInv /\ [Next]_vars =>
        [\A f \in Feeds :
           /\ HasHost(f) /\ HostConcurrency[Host(f)] = 1
           /\ pc[f] \in {"acquire", "spacing"} /\ pc'[f] = "enter"
           => since[Slot(f)] = MinInterval[Host(f)]]_vars
  BY <1>2
<1> QED
  BY <1>1, <1>3, Invariance, NextRestInv, PTL DEF Spec, RestBetweenFeeds
=============================================================================
