--------------------------- MODULE PathLockProofs ---------------------------
(***************************************************************************)
(* Proofs about PathLock, for any number of calls, files and levels of     *)
(* concurrency: the type invariant, ownership of the mutex objects, the    *)
(* absence of registry leaks, and exclusion and the safety of the entries  *)
(* as long as the clean-up removes no object that another call uses.       *)
(***************************************************************************)
EXTENDS PathLock, TLAPS

\* Call c has looked up its level l and has not cleaned up after it.
HasRef(c, l) ==
  \/ level[c] = l /\ pc[c] \notin {"idle", "lookup", "done"}
  \/ l = "outer" /\ level[c] = "inner" /\ Outer[c] # Nil

LevelInv ==
  \A c \in Calls :
    /\ Outer[c] = Nil => level[c] = "inner"
    /\ pc[c] \in {"idle", "done"} /\ Outer[c] # Nil => level[c] = "outer"
    /\ pc[c] \in {"read", "write"} => level[c] = "outer"
    /\ pc[c] \in {"line", "newline"} => level[c] = "inner"
    /\ level[c] = "inner" /\ Outer[c] # Nil => result[c] = "ok"

RefInv ==
  \A c \in Calls, l \in Levels : HasRef(c, l) <=> ref[<<c, l>>] # Nil

\* An object serves the path it was created for.
ObjectPath(m) == PathOf(m[1], m[2])

ObjectPathInv ==
  /\ \A p \in Paths : reg[p] # Nil => ObjectPath(reg[p]) = p
  /\ \A i \in Mutexes : ref[i] # Nil => ObjectPath(ref[i]) = ObjectPath(i)

\* A registered object is still in use by the call that created it.
RegInv == \A p \in Paths : reg[p] # Nil => ref[reg[p]] = reg[p]

\* Until an object is orphaned, the users of a path all use its registered object.
SharedInv ==
  orphaned = {} =>
    \A i \in Mutexes : ref[i] # Nil => reg[ObjectPath(i)] = ref[i]

\* Until then, what a call has read is still what the file holds.
EntryInv ==
  orphaned = {} /\ misread = {} =>
    \A c \in Calls :
      /\ pc[c] = "write" => copy[c] = file[Outer[c]]
      /\ Outer[c] # Nil /\ result[c] = "ok" => c \in file[Outer[c]]

IInv == /\ TypeOK /\ LevelInv /\ RefInv /\ ObjectPathInv
        /\ HolderOwns /\ RegInv /\ SharedInv /\ EntryInv

-----------------------------------------------------------------------------
USE DEF Levels, PCs

LEMMA InitIInv == Init => IInv
<1> SUFFICES ASSUME Init PROVE IInv
  OBVIOUS
<1> USE PathLockAssumption DEF Init
<1>1. TypeOK
  BY DEF TypeOK, Mutexes
<1>2. LevelInv /\ RefInv
  BY DEF LevelInv, RefInv, HasRef, Mutexes
<1>3. ObjectPathInv /\ RegInv
  BY DEF ObjectPathInv, RegInv
<1>4. HolderOwns
  BY DEF HolderOwns, Inside
<1>5. SharedInv /\ EntryInv
  BY DEF SharedInv, EntryInv, Mutexes
<1> QED
  BY <1>1, <1>2, <1>3, <1>4, <1>5 DEF IInv

(* The index of a call's present lock, and its file. *)
LEMMA Indices ==
  ASSUME TypeOK, LevelInv, NEW c \in Calls
  PROVE  /\ <<c, level[c]>> \in Mutexes
         /\ PathOf(c, level[c]) \in Paths
         /\ pc[c] \in {"read", "write"} => Outer[c] \in Paths
         /\ LogFile[c] \in Paths
  BY PathLockAssumption DEF TypeOK, LevelInv, PathOf, Mutexes

(* A ref is for a path. *)
LEMMA UsedPaths ==
  ASSUME TypeOK, LevelInv, RefInv, NEW i \in Mutexes, ref[i] # Nil
  PROVE  ObjectPath(i) \in Paths
<1>1. PICK c \in Calls, l \in Levels : i = <<c, l>>
  BY DEF Mutexes
<1>2. HasRef(c, l)
  BY <1>1 DEF RefInv
<1> QED
  BY <1>1, <1>2, PathLockAssumption DEF HasRef, ObjectPath, PathOf, LevelInv, TypeOK

(* Types. *)
LEMMA StepType ==
  ASSUME TypeOK, LevelInv, RefInv, NEW c \in Calls, Start(c) \/ Step(c)
  PROVE  TypeOK'
<1> USE DEF TypeOK, Goto, Return, Failed, history
<1>0. /\ <<c, level[c]>> \in Mutexes
      /\ PathOf(c, level[c]) \in Paths
      /\ pc[c] \in {"read", "write"} => Outer[c] \in Paths
      /\ LogFile[c] \in Paths
  BY Indices
<1>1. CASE Start(c)
  BY <1>1 DEF Start
<1>2. CASE Lookup(c)
  <2>1. reg' \in [Paths -> Mutexes \cup {Nil}]
    BY <1>0, <1>2 DEF Lookup
  <2>2. ref' \in [Mutexes -> Mutexes \cup {Nil}]
    BY <1>0, <1>2 DEF Lookup
  <2>3. pc' \in [Calls -> PCs]
    BY <1>2 DEF Lookup
  <2> QED
    BY <1>2, <2>1, <2>2, <2>3 DEF Lookup
<1>3. CASE Lock(c)
  <2>1. owner' \in [Mutexes -> Calls \cup {Nil}]
    BY <1>3 DEF Lock
  <2>2. pc' \in [Calls -> PCs]
    BY <1>3 DEF Lock
  <2> QED
    BY <1>3, <2>1, <2>2 DEF Lock
<1>4. CASE ReadFile(c)
  <2>1. copy' \in [Calls -> SUBSET Calls]
    BY <1>0, <1>4 DEF ReadFile
  <2>2. pc' \in [Calls -> PCs]
    BY <1>4 DEF ReadFile, PCs
  <2>3. result' \in [Calls -> {"none", "ok", "error"}]
    BY <1>4 DEF ReadFile
  <2>4. misread' \subseteq Calls
    BY <1>4 DEF ReadFile
  <2> QED
    BY <1>4, <2>1, <2>2, <2>3, <2>4 DEF ReadFile
<1>5. CASE WriteFile(c)
  <2>1. file' \in [Paths -> SUBSET Calls]
    <3>1. copy[c] \cup {c} \in SUBSET Calls
      OBVIOUS
    <3>2. file \in [Paths -> SUBSET Calls]
      OBVIOUS
    <3>3. file' = file \/ file' = [file EXCEPT ![Outer[c]] = copy[c] \cup {c}]
      BY <1>5 DEF WriteFile
    <3> QED
      BY <3>1, <3>2, <3>3
  <2>2. pc' \in [Calls -> PCs]
    BY <1>5 DEF WriteFile, PCs
  <2>3. result' \in [Calls -> {"none", "ok", "error"}]
    BY <1>5 DEF WriteFile
  <2>4. level' \in [Calls -> Levels]
    BY <1>5 DEF WriteFile, Levels
  <2> QED
    BY <1>5, <2>1, <2>2, <2>3, <2>4 DEF WriteFile
<1>6. CASE AppendLine(c)
  <2>1. log' \in [Paths -> Seq(Calls \cup {Nil})]
    <3>1. Append(log[LogFile[c]], c) \in Seq(Calls \cup {Nil})
      BY <1>0
    <3> QED
      BY <1>6, <3>1 DEF AppendLine
  <2>2. pc' \in [Calls -> PCs]
    BY <1>6 DEF AppendLine, PCs
  <2>3. result' \in [Calls -> {"none", "ok", "error"}]
    BY <1>6 DEF AppendLine
  <2> QED
    BY <1>6, <2>1, <2>2, <2>3 DEF AppendLine
<1>7. CASE AppendNewline(c)
  <2>1. log' \in [Paths -> Seq(Calls \cup {Nil})]
    <3>1. Append(log[LogFile[c]], Nil) \in Seq(Calls \cup {Nil})
      BY <1>0
    <3> QED
      BY <1>7, <3>1 DEF AppendNewline
  <2>2. pc' \in [Calls -> PCs]
    BY <1>7 DEF AppendNewline, PCs
  <2>3. result' \in [Calls -> {"none", "ok", "error"}]
    BY <1>7 DEF AppendNewline
  <2> QED
    BY <1>7, <2>1, <2>2, <2>3 DEF AppendNewline
<1>8. CASE Unlock(c)
  BY <1>8 DEF Unlock
<1>9. CASE Cleanup(c)
  <2>1. /\ reg' \in [Paths -> Mutexes \cup {Nil}]
        /\ ref' \in [Mutexes -> Mutexes \cup {Nil}]
    BY <1>9 DEF Cleanup
  <2>2. orphaned' \subseteq Mutexes
    <3>1. Ref(c) \in Mutexes
      BY <1>0, <1>9 DEF Cleanup, Ref, RefInv, HasRef
    <3> QED
      BY <1>9, <3>1 DEF Cleanup
  <2>3. /\ pc' \in [Calls -> PCs]
        /\ level' \in [Calls -> Levels]
    BY <1>9 DEF Cleanup
  <2> QED
    BY <1>9, <2>1, <2>2, <2>3 DEF Cleanup
<1> QED
  BY <1>1, <1>2, <1>3, <1>4, <1>5, <1>6, <1>7, <1>8, <1>9 DEF Step

LEMMA StepLevel ==
  ASSUME TypeOK, LevelInv, NEW c \in Calls, Start(c) \/ Step(c)
  PROVE  LevelInv'
<1> USE PathLockAssumption DEF TypeOK, LevelInv, Goto, Return, Failed, history
<1>1. CASE Start(c)
  BY <1>1 DEF Start
<1>2. CASE Lookup(c)
  BY <1>2 DEF Lookup
<1>3. CASE Lock(c)
  BY <1>3 DEF Lock
<1>4. CASE ReadFile(c)
  BY <1>4 DEF ReadFile
<1>5. CASE WriteFile(c)
  BY <1>5 DEF WriteFile
<1>6. CASE AppendLine(c)
  BY <1>6 DEF AppendLine
<1>7. CASE AppendNewline(c)
  BY <1>7 DEF AppendNewline
<1>8. CASE Unlock(c)
  BY <1>8 DEF Unlock
<1>9. CASE Cleanup(c)
  BY <1>9 DEF Cleanup
<1> QED
  BY <1>1, <1>2, <1>3, <1>4, <1>5, <1>6, <1>7, <1>8, <1>9 DEF Step

(* A call has a ref for each lock it has looked up and not yet cleaned up. *)
LEMMA StepRef ==
  ASSUME TypeOK, LevelInv, RefInv, NEW c \in Calls, Start(c) \/ Step(c)
  PROVE  RefInv'
<1> SUFFICES ASSUME NEW d \in Calls, NEW l \in Levels
             PROVE  HasRef(d, l)' <=> ref'[<<d, l>>] # Nil
  BY DEF RefInv
<1> DEFINE Using == {"lock", "read", "write", "line", "newline", "unlock", "cleanup"}
<1>0. /\ \A e \in Calls, k \in Levels : <<e, k>> \in Mutexes
      /\ HasRef(d, l) <=> ref[<<d, l>>] # Nil
      /\ pc[d] \in PCs /\ level[d] \in Levels /\ level[c] \in Levels
  BY DEF Mutexes, TypeOK, RefInv
<1>1. CASE Start(c)
  <2>1. /\ ref' = ref /\ level' = level
        /\ pc[c] = "idle" /\ pc' = [pc EXCEPT ![c] = "lookup"]
    BY <1>1 DEF Start, Goto
  <2> QED
    BY <1>0, <2>1 DEF HasRef, TypeOK
<1>2. CASE Lookup(c)
  <2>1. /\ ref'[<<c, level[c]>>] # Nil
        /\ <<d, l>> # <<c, level[c]>> => ref'[<<d, l>>] = ref[<<d, l>>]
    BY <1>0, <1>2, PathLockAssumption DEF Lookup, TypeOK
  <2>2. level' = level /\ pc[c] = "lookup" /\ pc' = [pc EXCEPT ![c] = "lock"]
    BY <1>2 DEF Lookup, Goto
  <2> QED
    BY <1>0, <2>1, <2>2 DEF HasRef, TypeOK
<1>3. CASE WriteFile(c)
  <2>1. /\ ref' = ref /\ pc[c] = "write" /\ level[c] = "outer" /\ Outer[c] # Nil
        /\ \/ /\ level' = [level EXCEPT ![c] = "inner"]
              /\ pc' = [pc EXCEPT ![c] = "lookup"]
           \/ /\ level' = level
              /\ pc' = [pc EXCEPT ![c] = "unlock"]
    BY <1>3 DEF WriteFile, Goto, Failed, LevelInv
  <2> QED
    BY <1>0, <2>1 DEF HasRef, TypeOK
<1>4. CASE Cleanup(c)
  <2>1. /\ ref'[<<c, level[c]>>] = Nil
        /\ <<d, l>> # <<c, level[c]>> => ref'[<<d, l>>] = ref[<<d, l>>]
    BY <1>0, <1>4 DEF Cleanup, TypeOK
  <2>2. CASE level[c] = "inner" /\ Outer[c] # Nil
    <3>1. /\ pc[c] = "cleanup" /\ pc' = [pc EXCEPT ![c] = "unlock"]
          /\ level' = [level EXCEPT ![c] = "outer"]
      BY <1>4, <2>2 DEF Cleanup, Goto
    <3> QED
      BY <1>0, <2>1, <2>2, <3>1 DEF HasRef, TypeOK
  <2>3. CASE ~(level[c] = "inner" /\ Outer[c] # Nil)
    <3>1. /\ pc[c] = "cleanup" /\ pc' = [pc EXCEPT ![c] = "done"]
          /\ level' = level
      BY <1>4, <2>3 DEF Cleanup, Goto
    <3> QED
      BY <1>0, <2>1, <2>3, <3>1 DEF HasRef, TypeOK
  <2> QED
    BY <2>2, <2>3
<1>5. CASE Lock(c) \/ ReadFile(c) \/ AppendLine(c) \/ AppendNewline(c) \/ Unlock(c)
  <2>1. /\ ref' = ref /\ level' = level
        /\ pc[c] \in Using /\ \E u \in Using : pc' = [pc EXCEPT ![c] = u]
    BY <1>5 DEF Lock, ReadFile, AppendLine, AppendNewline, Unlock, Goto, Failed
  <2> QED
    BY <1>0, <2>1 DEF HasRef, TypeOK
<1> QED
  BY <1>1, <1>2, <1>3, <1>4, <1>5 DEF Step

(* The steps that leave the registry, the objects and the refs alone. *)
LEMMA LocalSteps ==
  ASSUME TypeOK, LevelInv, NEW c \in Calls,
         Start(c) \/ ReadFile(c) \/ WriteFile(c) \/ AppendLine(c) \/ AppendNewline(c)
  PROVE  /\ UNCHANGED <<reg, owner, ref, orphaned>>
         /\ \A d \in Calls, l \in Levels : Inside(d, l)' <=> Inside(d, l)
<1>1. UNCHANGED <<reg, owner, ref, orphaned>>
  BY DEF Start, ReadFile, WriteFile, AppendLine, AppendNewline, history
<1>2. CASE level' = level
  <2> SUFFICES ASSUME NEW d \in Calls, NEW l \in Levels
               PROVE  Inside(d, l)' <=> Inside(d, l)
    BY <1>1
  <2>1. CASE Start(c)
    <3>1. pc[c] = "idle" /\ pc' = [pc EXCEPT ![c] = "lookup"]
      BY <2>1 DEF Start, Goto
    <3>2. ~(level[c] = "inner" /\ Outer[c] # Nil)
      BY <3>1 DEF LevelInv
    <3> QED
      BY <1>2, <3>1, <3>2 DEF Inside, TypeOK
  <2>2. CASE ReadFile(c) \/ WriteFile(c)
    <3>1. /\ pc[c] \in {"read", "write"} /\ level[c] = "outer"
          /\ \/ pc' = [pc EXCEPT ![c] = "write"]
             \/ pc' = [pc EXCEPT ![c] = "unlock"]
      BY <1>2, <2>2 DEF ReadFile, WriteFile, Failed, Goto, LevelInv, TypeOK
    <3> QED
      BY <1>2, <3>1 DEF Inside, TypeOK
  <2>3. CASE AppendLine(c) \/ AppendNewline(c)
    <3>1. /\ pc[c] \in {"line", "newline"} /\ level[c] = "inner"
          /\ \/ pc' = [pc EXCEPT ![c] = "newline"]
             \/ pc' = [pc EXCEPT ![c] = "unlock"]
      BY <2>3 DEF AppendLine, AppendNewline, Failed, Goto, LevelInv
    <3> QED
      BY <1>2, <3>1 DEF Inside, TypeOK
  <2> QED
    BY <2>1, <2>2, <2>3
<1>3. CASE level' # level
  <2>1. /\ pc[c] = "write" /\ level[c] = "outer" /\ Outer[c] # Nil
        /\ pc' = [pc EXCEPT ![c] = "lookup"] /\ level' = [level EXCEPT ![c] = "inner"]
    BY <1>3 DEF Start, ReadFile, WriteFile, AppendLine, AppendNewline, Goto, Failed, LevelInv
  <2> QED
    BY <1>1, <2>1 DEF Inside, TypeOK
<1> QED
  BY <1>1, <1>2, <1>3

(* The two objects a call holds are different: it cannot release the one *)
(* of its markdown file with the one of its log.                         *)
LEMMA TwoObjects ==
  ASSUME TypeOK, LevelInv, RefInv, ObjectPathInv, NEW c \in Calls,
         ref[<<c, "outer">>] # Nil
  PROVE  ref[<<c, "outer">>] # ref[<<c, "inner">>]
<1> SUFFICES ASSUME ref[<<c, "outer">>] = ref[<<c, "inner">>] PROVE FALSE
  OBVIOUS
<1>1. <<c, "outer">> \in Mutexes /\ <<c, "inner">> \in Mutexes
  BY DEF Mutexes
<1>2. ObjectPath(<<c, "outer">>) = ObjectPath(<<c, "inner">>)
  BY <1>1 DEF ObjectPathInv
<1> QED
  BY <1>2, PathLockAssumption DEF ObjectPath, PathOf

LEMMA StepOwns ==
  ASSUME TypeOK, LevelInv, RefInv, ObjectPathInv, HolderOwns,
         NEW c \in Calls, Start(c) \/ Step(c)
  PROVE  HolderOwns'
<1> SUFFICES ASSUME NEW d \in Calls, NEW l \in Levels, Inside(d, l)'
             PROVE  ref'[<<d, l>>] \in Mutexes /\ owner'[ref'[<<d, l>>]] = d
  BY DEF HolderOwns
<1> DEFINE r == ref[<<d, l>>]
<1>0. /\ \A e \in Calls, k \in Levels : <<e, k>> \in Mutexes
      /\ level[c] \in Levels
      /\ Inside(d, l) => r \in Mutexes /\ owner[r] = d
  BY DEF Mutexes, TypeOK, HolderOwns
<1>1. CASE Start(c) \/ ReadFile(c) \/ WriteFile(c) \/ AppendLine(c) \/ AppendNewline(c)
  BY <1>0, <1>1, LocalSteps
<1>2. CASE Lookup(c)
  <2>1. Inside(d, l) /\ <<d, l>> # <<c, level[c]>>
    BY <1>2 DEF Lookup, Goto, Inside, TypeOK
  <2>2. ref'[<<d, l>>] = r /\ owner' = owner
    BY <1>0, <1>2, <2>1 DEF Lookup, TypeOK
  <2> QED
    BY <1>0, <2>1, <2>2
<1>3. CASE Lock(c)
  <2>1. /\ ref' = ref /\ owner[Ref(c)] = Nil /\ owner' = [owner EXCEPT ![Ref(c)] = c]
        /\ level' = level /\ pc[c] = "lock"
    BY <1>3 DEF Lock
  <2>2. Ref(c) \in Mutexes
    BY <1>0, <2>1 DEF RefInv, HasRef, Ref, TypeOK
  <2>3. CASE <<d, l>> = <<c, level[c]>>
    BY <1>0, <2>1, <2>2, <2>3 DEF TypeOK, Ref
  <2>4. CASE <<d, l>> # <<c, level[c]>>
    <3>1. Inside(d, l)
      BY <1>3, <2>4 DEF Lock, Goto, Inside, TypeOK
    <3>2. r # Ref(c)
      BY <1>0, <2>1, <3>1, PathLockAssumption
    <3> QED
      BY <1>0, <2>1, <2>2, <3>1, <3>2 DEF TypeOK
  <2> QED
    BY <2>3, <2>4
<1>4. CASE Unlock(c)
  <2>1. /\ ref' = ref /\ owner' = [owner EXCEPT ![Ref(c)] = Nil] /\ level' = level
        /\ pc[c] = "unlock"
    BY <1>4 DEF Unlock
  <2>2. Inside(d, l) /\ <<d, l>> # <<c, level[c]>>
    BY <1>4 DEF Unlock, Goto, Inside, TypeOK
  <2>3. Inside(c, level[c]) /\ owner[Ref(c)] = c /\ Ref(c) \in Mutexes
    BY <1>0, <2>1 DEF Inside, HolderOwns, Ref
  <2>4. r # Ref(c)
    <3>1. CASE d # c
      BY <1>0, <2>2, <2>3, <3>1
    <3>2. CASE d = c
      <4>1. level[c] = "inner" /\ l = "outer"
        BY <2>2, <3>2 DEF Inside
      <4>2. ref[<<c, "outer">>] # Nil
        BY <1>0, <2>2, <3>2, <4>1, PathLockAssumption
      <4> QED
        BY <3>2, <4>1, <4>2, TwoObjects DEF Ref
    <3> QED
      BY <3>1, <3>2
  <2> QED
    BY <1>0, <2>1, <2>2, <2>3, <2>4 DEF TypeOK
<1>5. CASE Cleanup(c)
  <2>1. Inside(d, l) /\ <<d, l>> # <<c, level[c]>>
    BY <1>5 DEF Cleanup, Goto, Inside, TypeOK
  <2>2. ref'[<<d, l>>] = r /\ owner' = owner
    BY <1>0, <1>5, <2>1 DEF Cleanup, TypeOK
  <2> QED
    BY <1>0, <2>1, <2>2
<1> QED
  BY <1>1, <1>2, <1>3, <1>4, <1>5 DEF Step

(* The objects in the registry and in the refs of the calls. *)
LEMMA StepObjects ==
  ASSUME TypeOK, LevelInv, RefInv, ObjectPathInv, RegInv, SharedInv,
         NEW c \in Calls, Start(c) \/ Step(c)
  PROVE  ObjectPathInv' /\ RegInv' /\ SharedInv'
<1> DEFINE i == <<c, level[c]>>
           p == ObjectPath(i)
<1>0. /\ i \in Mutexes /\ p \in Paths /\ p = PathOf(c, level[c])
      /\ \A m \in Mutexes : m # Nil
  BY Indices, PathLockAssumption DEF ObjectPath
<1>1. ASSUME UNCHANGED <<reg, ref, orphaned>> PROVE ObjectPathInv' /\ RegInv' /\ SharedInv'
  BY <1>1 DEF ObjectPathInv, RegInv, SharedInv
<1> HIDE DEF p
<1>2. CASE Lookup(c)
  <2> DEFINE m == IF reg[p] = Nil THEN i ELSE reg[p]
  <2>1. /\ reg' = [reg EXCEPT ![p] = m] /\ ref' = [ref EXCEPT ![i] = m]
        /\ orphaned' = orphaned
    BY <1>0, <1>2 DEF Lookup, history
  <2>2. ref[i] = Nil
    BY <1>0, <1>2 DEF Lookup, RefInv, HasRef, TypeOK
  <2>3. reg'[p] = m /\ \A q \in Paths \ {p} : reg'[q] = reg[q]
    BY <1>0, <2>1 DEF TypeOK
  <2>4. ref'[i] = m /\ \A j \in Mutexes \ {i} : ref'[j] = ref[j]
    BY <1>0, <2>1 DEF TypeOK
  <2>5. m # Nil /\ ObjectPath(m) = p
    BY <1>0 DEF ObjectPathInv, p
  <2> HIDE DEF i
  <2>6. ObjectPathInv'
    <3>1. \A q \in Paths : reg'[q] # Nil => ObjectPath(reg'[q]) = q
      BY <2>3, <2>5 DEF ObjectPathInv
    <3>2. \A j \in Mutexes : ref'[j] # Nil => ObjectPath(ref'[j]) = ObjectPath(j)
      BY <2>4, <2>5 DEF ObjectPathInv, p
    <3> QED
      BY <3>1, <3>2 DEF ObjectPathInv
  <2>7. RegInv'
    <3> SUFFICES ASSUME NEW q \in Paths, reg'[q] # Nil
                 PROVE  ref'[reg'[q]] = reg'[q]
      BY DEF RegInv
    <3>1. CASE q = p /\ reg[p] = Nil
      BY <2>3, <2>4, <3>1
    <3>2. CASE ~(q = p /\ reg[p] = Nil)
      <4>1. reg'[q] = reg[q] /\ reg[q] \in Mutexes
        BY <1>0, <2>3, <3>2 DEF TypeOK
      <4>2. ref[reg[q]] = reg[q] /\ reg[q] # i
        BY <1>0, <2>2, <4>1 DEF RegInv
      <4> QED
        BY <2>4, <4>1, <4>2
    <3> QED
      BY <3>1, <3>2
  <2>8. SharedInv'
    <3> SUFFICES ASSUME orphaned = {}, NEW j \in Mutexes, ref'[j] # Nil
                 PROVE  reg'[ObjectPath(j)] = ref'[j]
      BY <2>1 DEF SharedInv
    <3>1. CASE j = i
      BY <2>3, <2>4, <3>1 DEF p
    <3>2. CASE j # i
      <4>1. ref'[j] = ref[j] /\ reg[ObjectPath(j)] = ref[j]
        BY <2>4, <3>2 DEF SharedInv
      <4>2. CASE ObjectPath(j) = p
        BY <2>3, <4>1, <4>2
      <4>3. CASE ObjectPath(j) # p
        BY <2>1, <4>1, <4>3, UsedPaths DEF TypeOK
      <4> QED
        BY <4>2, <4>3
    <3> QED
      BY <3>1, <3>2
  <2> QED
    BY <2>6, <2>7, <2>8
<1>3. CASE Cleanup(c)
  <2> DEFINE m == ref[i]
             registered == reg[p] = m
  <2>1. /\ reg' = IF registered THEN [reg EXCEPT ![p] = Nil] ELSE reg
        /\ orphaned' = IF registered /\ OtherUsers(c, m) # {}
                       THEN orphaned \cup {m} ELSE orphaned
        /\ ref' = [ref EXCEPT ![i] = Nil]
    BY <1>0, <1>3 DEF Cleanup, Ref
  <2>2. /\ registered => reg'[p] = Nil
        /\ \A q \in Paths : q # p \/ ~registered => reg'[q] = reg[q]
    BY <1>0, <2>1 DEF TypeOK
  <2>3. ref'[i] = Nil /\ \A j \in Mutexes \ {i} : ref'[j] = ref[j]
    BY <1>0, <2>1 DEF TypeOK
  <2>4. \A q \in Paths : reg'[q] # Nil =>
          reg'[q] = reg[q] /\ (q # p \/ ~registered)
    BY <2>2
  <2>5. ObjectPathInv'
    <3>1. \A q \in Paths : reg'[q] # Nil => ObjectPath(reg'[q]) = q
      BY <2>4 DEF ObjectPathInv
    <3>2. \A j \in Mutexes : ref'[j] # Nil => ObjectPath(ref'[j]) = ObjectPath(j)
      BY <2>3 DEF ObjectPathInv
    <3> QED
      BY <3>1, <3>2 DEF ObjectPathInv
  <2>6. RegInv'
    <3> SUFFICES ASSUME NEW q \in Paths, reg'[q] # Nil
                 PROVE  ref'[reg'[q]] = reg'[q]
      BY DEF RegInv
    <3>1. /\ reg'[q] = reg[q] /\ reg[q] \in Mutexes /\ ref[reg[q]] = reg[q]
          /\ ObjectPath(reg[q]) = q
      BY <2>4 DEF RegInv, ObjectPathInv, TypeOK
    <3>2. reg[q] # i
      <4> SUFFICES ASSUME reg[q] = i PROVE FALSE
        OBVIOUS
      <4>1. q = p /\ registered
        BY <3>1 DEF p
      <4> QED
        BY <2>4, <4>1
    <3> QED
      BY <2>3, <3>1, <3>2
  <2>7. SharedInv'
    <3> SUFFICES ASSUME orphaned' = {}, NEW j \in Mutexes, ref'[j] # Nil
                 PROVE  reg'[ObjectPath(j)] = ref'[j]
      BY DEF SharedInv
    <3>1. orphaned = {} /\ (registered => OtherUsers(c, m) = {})
      BY <2>1
    <3>2. j # i /\ ref'[j] = ref[j]
      BY <2>3
    <3>3. reg[ObjectPath(j)] = ref[j]
      BY <3>1, <3>2 DEF SharedInv
    <3>4. ObjectPath(j) # p \/ ~registered
      <4> SUFFICES ASSUME ObjectPath(j) = p, registered PROVE FALSE
        OBVIOUS
      <4>1. PICK d \in Calls, l \in Levels : j = <<d, l>>
        BY DEF Mutexes
      <4>2. d \notin OtherUsers(c, m) /\ ref[<<d, l>>] = m
        BY <3>1, <3>3, <4>1
      <4>3. d = c
        BY <4>2 DEF OtherUsers
      <4>4. l # level[c]
        BY <3>2, <4>1, <4>3
      <4>5. PathOf(c, l) = PathOf(c, level[c])
        BY <1>0, <4>1, <4>3 DEF ObjectPath
      <4> QED
        BY <4>4, <4>5, PathLockAssumption DEF PathOf, TypeOK
    <3> QED
      BY <2>2, <3>2, <3>3, <3>4, UsedPaths
  <2> QED
    BY <2>5, <2>6, <2>7
<1>4. CASE Lock(c) \/ Unlock(c)
  BY <1>1, <1>4 DEF Lock, Unlock, history
<1>5. CASE Start(c) \/ ReadFile(c) \/ WriteFile(c) \/ AppendLine(c) \/ AppendNewline(c)
  BY <1>1, <1>5, LocalSteps
<1> QED
  BY <1>2, <1>3, <1>4, <1>5 DEF Step

(* Until an object is orphaned a file has one holder. *)
LEMMA Exclusion ==
  ASSUME TypeOK, HolderOwns, SharedInv, orphaned = {},
         NEW c \in Calls, NEW d \in Calls, NEW l \in Levels, NEW k \in Levels,
         Inside(c, l), Inside(d, k), PathOf(c, l) = PathOf(d, k)
  PROVE  c = d
<1>1. /\ ref[<<c, l>>] \in Mutexes /\ owner[ref[<<c, l>>]] = c
      /\ ref[<<d, k>>] \in Mutexes /\ owner[ref[<<d, k>>]] = d
  BY DEF HolderOwns
<1>2. <<c, l>> \in Mutexes /\ <<d, k>> \in Mutexes
  BY DEF Mutexes
<1>3. ref[<<c, l>>] = reg[ObjectPath(<<c, l>>)] /\ ref[<<d, k>>] = reg[ObjectPath(<<d, k>>)]
  BY <1>1, <1>2, PathLockAssumption DEF SharedInv
<1>4. ObjectPath(<<c, l>>) = ObjectPath(<<d, k>>)
  BY DEF ObjectPath
<1> QED
  BY <1>1, <1>3, <1>4

(* No entry is lost. *)
LEMMA StepEntry ==
  ASSUME TypeOK, LevelInv, HolderOwns, SharedInv, EntryInv,
         NEW c \in Calls, Start(c) \/ Step(c)
  PROVE  EntryInv'
<1> SUFFICES ASSUME orphaned' = {}, misread' = {}, NEW d \in Calls
             PROVE  /\ pc'[d] = "write" => copy'[d] = file'[Outer[d]]
                    /\ Outer[d] # Nil /\ result'[d] = "ok" => d \in file'[Outer[d]]
  BY DEF EntryInv
<1>0. orphaned = {} /\ misread = {}
  BY DEF Step, Start, Lookup, Lock, ReadFile, WriteFile, AppendLine, AppendNewline,
         Unlock, Cleanup, history
<1>1. /\ pc[d] = "write" => copy[d] = file[Outer[d]]
      /\ Outer[d] # Nil /\ result[d] = "ok" => d \in file[Outer[d]]
  BY <1>0 DEF EntryInv
<1>2. CASE ReadFile(c)
  <2>1. \/ copy' = [copy EXCEPT ![c] = file[Outer[c]]]
        \/ pc'[c] = "unlock"
    <3>1. ~(misread' = misread \cup {c})
      OBVIOUS
    <3> QED
      BY <1>2, <3>1 DEF ReadFile, Failed, Goto, TypeOK
  <2>2. d # c => pc'[d] = pc[d] /\ copy'[d] = copy[d]
    BY <1>2 DEF ReadFile, Failed, Goto, TypeOK
  <2>3. result'[d] = "ok" => result[d] = "ok"
    BY <1>2 DEF ReadFile, Failed, Return, TypeOK
  <2>4. file' = file /\ misread' = misread
    BY <1>0, <1>2 DEF ReadFile
  <2> QED
    BY <1>1, <2>1, <2>2, <2>3, <2>4 DEF TypeOK
<1>3. CASE WriteFile(c)
  <2>1. pc[c] = "write" /\ level[c] = "outer" /\ Outer[c] # Nil /\ Outer[c] \in Paths
    BY <1>3, PathLockAssumption DEF WriteFile, LevelInv
  <2>2. CASE file' = file
    <3>1. pc'[d] = "write" => pc[d] = "write" /\ copy' = copy
      BY <1>3 DEF WriteFile, Failed, Goto, TypeOK
    <3>2. result'[d] = "ok" => result[d] = "ok" \/ d \in file'[Outer[d]]
      BY <1>3, <2>1 DEF WriteFile, Failed, Return, TypeOK
    <3> QED
      BY <1>1, <2>2, <3>1, <3>2
  <2>3. CASE file' # file
    <3>1. /\ file' = [file EXCEPT ![Outer[c]] = copy[c] \cup {c}] /\ copy' = copy
          /\ result' = [result EXCEPT ![c] = "ok"] /\ pc' = [pc EXCEPT ![c] = "lookup"]
      BY <1>3, <2>3 DEF WriteFile, Failed, Goto, Return
    <3>2. copy[c] = file[Outer[c]]
      BY <1>0, <2>1 DEF EntryInv
    <3>3. CASE d = c
      BY <2>1, <3>1, <3>3 DEF TypeOK
    <3>4. CASE d # c /\ Outer[d] = Outer[c]
      <4>1. pc[d] # "write"
        <5> SUFFICES ASSUME pc[d] = "write" PROVE FALSE
          OBVIOUS
        <5>1. Inside(c, "outer") /\ Inside(d, "outer")
          BY <2>1 DEF Inside, LevelInv
        <5>2. PathOf(c, "outer") = PathOf(d, "outer")
          BY <3>4 DEF PathOf
        <5> QED
          BY <1>0, <3>4, <5>1, <5>2, Exclusion
      <4> QED
        BY <1>1, <2>1, <3>1, <3>2, <3>4, <4>1 DEF TypeOK
    <3>5. CASE d # c /\ Outer[d] # Outer[c]
      <4>1. file'[Outer[d]] = file[Outer[d]] \/ Outer[d] \notin Paths
        BY <3>1, <3>5 DEF TypeOK
      <4>2. pc[d] = "write" => Outer[d] \in Paths
        BY PathLockAssumption DEF LevelInv
      <4>3. Outer[d] # Nil => Outer[d] \in Paths
        BY PathLockAssumption
      <4> QED
        BY <1>1, <3>1, <3>5, <4>1, <4>2, <4>3 DEF TypeOK
    <3> QED
      BY <3>3, <3>4, <3>5
  <2> QED
    BY <2>2, <2>3
<1>4. CASE AppendLine(c) \/ AppendNewline(c)
  <2>1. file' = file /\ copy' = copy
    BY <1>4 DEF AppendLine, AppendNewline
  <2>2. pc'[d] = "write" => pc[d] = "write"
    BY <1>4 DEF AppendLine, AppendNewline, Failed, Goto, TypeOK
  <2>3. Outer[d] # Nil /\ result'[d] = "ok" => result[d] = "ok"
    BY <1>4 DEF AppendLine, AppendNewline, Failed, Return, TypeOK, LevelInv
  <2> QED
    BY <1>1, <2>1, <2>2, <2>3
<1>5. CASE Start(c) \/ Lookup(c) \/ Lock(c) \/ Unlock(c) \/ Cleanup(c)
  <2>1. file' = file /\ copy' = copy /\ result' = result
    BY <1>5 DEF Start, Lookup, Lock, Unlock, Cleanup
  <2>2. pc'[d] = "write" => pc[d] = "write"
    BY <1>5 DEF Start, Lookup, Lock, Unlock, Cleanup, Goto, TypeOK
  <2> QED
    BY <1>1, <2>1, <2>2
<1> QED
  BY <1>2, <1>3, <1>4, <1>5 DEF Step

-----------------------------------------------------------------------------
LEMMA Inductive == IInv /\ [Next]_vars => IInv'
<1> SUFFICES ASSUME IInv, [Next]_vars PROVE IInv'
  OBVIOUS
<1> USE DEF IInv
<1>1. CASE UNCHANGED vars
  <2>1. UNCHANGED <<reg, owner, ref, pc, level, copy, file, log, result, orphaned, misread>>
    BY <1>1 DEF vars, history
  <2>2. TypeOK' /\ LevelInv'
    BY <2>1 DEF TypeOK, LevelInv
  <2>3. ObjectPathInv' /\ RegInv'
    BY <2>1 DEF ObjectPathInv, RegInv
  <2>4. RefInv' /\ HolderOwns'
    BY <2>1 DEF RefInv, HasRef, HolderOwns, Inside
  <2>5. SharedInv' /\ EntryInv'
    BY <2>1 DEF SharedInv, EntryInv
  <2> QED
    BY <2>2, <2>3, <2>4, <2>5
<1>2. ASSUME NEW c \in Calls, Start(c) \/ Step(c) PROVE IInv'
  BY <1>2, StepType, StepLevel, StepRef, StepOwns, StepObjects, StepEntry
<1>3. CASE Finished
  BY <1>1, <1>3 DEF Finished
<1> QED
  BY <1>1, <1>2, <1>3 DEF Next

LEMMA Invariant == Spec => []IInv
  BY InitIInv, Inductive, PTL DEF Spec

(* The types of the registry, of the mutex objects and of the calls hold  *)
(* in every reachable state, whatever the calls and the files are.         *)
THEOREM TypeCorrect == Spec => []TypeOK
  BY Invariant, PTL DEF IInv

(* mu.Unlock (write.go:66) is only ever applied to a mutex the call itself *)
(* has locked.                                                             *)
THEOREM OnlyHoldersUnlock == Spec => []HolderOwns
  BY Invariant, PTL DEF IInv

(* The clean-up of lockPath (write.go:66-72) leaves no registry entry      *)
(* behind: each belongs to a call in progress.                             *)
THEOREM NoRegistryLeak == Spec => []RegistryEntryLive
<1>1. IInv => RegistryEntryLive
  <2> SUFFICES ASSUME IInv, NEW p \in Paths, reg[p] # Nil
               PROVE  \E c \in Active, l \in Levels :
                        reg[p] = <<c, l>> /\ ref[<<c, l>>] = <<c, l>> /\ PathOf(c, l) = p
    BY DEF RegistryEntryLive
  <2>0. reg[p] \in Mutexes
    BY DEF IInv, TypeOK
  <2>1. PICK c \in Calls, l \in Levels : reg[p] = <<c, l>>
    BY <2>0 DEF Mutexes
  <2>2. ref[<<c, l>>] = <<c, l>> /\ PathOf(c, l) = p
    BY <2>1 DEF IInv, RegInv, ObjectPathInv, ObjectPath
  <2>3. HasRef(c, l)
    BY <2>1, <2>2 DEF IInv, RefInv
  <2>4. c \in Active
    BY <2>3 DEF HasRef, Active, IInv, LevelInv
  <2> QED
    BY <2>1, <2>2, <2>4
<1> QED
  BY <1>1, Invariant, PTL

(* Both together: what a run of TLC checks of the registry.                *)
THEOREM RegistryHolds == Spec => []RegistrySound
<1>1. HolderOwns /\ RegistryEntryLive => RegistrySound
  BY DEF RegistrySound
<1> QED
  BY <1>1, OnlyHoldersUnlock, NoRegistryLeak, PTL

(* A file never has two holders unless the clean-up has removed an object  *)
(* that another call was still using.                                      *)
THEOREM ExclusionHolds == Spec => []ExclusionUnlessOrphaned
<1>1. IInv => ExclusionUnlessOrphaned
  BY Exclusion DEF IInv, ExclusionUnlessOrphaned
<1> QED
  BY <1>1, Invariant, PTL

(* Nor does a markdown file lose the entry of a call that succeeded, if no *)
(* read of it has failed either.                                           *)
THEOREM EntriesSurvive == Spec => []NoLostEntry
<1>1. IInv => NoLostEntry
  BY DEF IInv, EntryInv, NoLostEntry
<1> QED
  BY <1>1, Invariant, PTL
=============================================================================
