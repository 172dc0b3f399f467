------------------------------ MODULE PathLock ------------------------------
(***************************************************************************)
(* The per-file lock registry of the wiki writer (lockPath) and the calls  *)
(* that use it: WriteSummary, WriteManualReviewEntry and LogDigestEntry    *)
(* (internal/docs/wiki/write/write.go and digest.go).                      *)
(*                                                                         *)
(* A call locks the markdown file it rewrites (its "outer" lock), reads    *)
(* it, writes it back and, still holding it, appends a record to a JSONL   *)
(* log under that log's own lock (its "inner" lock).  WriteFailureEntry    *)
(* has no markdown file and takes the inner lock only.                     *)
(*                                                                         *)
(* The registry maps a path to a mutex object.  A lookup that misses       *)
(* creates the object, which is named here after that lookup.              *)
(***************************************************************************)
EXTENDS Naturals, Sequences, FiniteSets

CONSTANTS
  Calls,      \* the calls, each in a goroutine of its own
  Paths,      \* the files: markdown files and JSONL logs
  Nil,        \* no path, no mutex object, no call
  Outer,      \* Outer[c]: the markdown file of call c, Nil for a call that only logs
  LogFile,    \* LogFile[c]: the JSONL log of call c
  MaxActive,  \* how many calls the callers let run at the same time
  IOFails     \* the file operations that may fail

Levels  == {"outer", "inner"}
Mutexes == Calls \X Levels       \* <<c, l>>: created by the lookup of c at level l

ASSUME PathLockAssumption ==
  /\ IsFiniteSet(Calls)
  /\ Nil \notin Paths /\ Nil \notin Calls /\ Nil \notin Mutexes
  /\ Outer \in [Calls -> Paths \cup {Nil}]
  /\ LogFile \in [Calls -> Paths]
  /\ \A c, d \in Calls : Outer[c] # LogFile[d]
  /\ MaxActive \in Nat
  /\ IOFails \subseteq {"mkdir", "read", "write", "log"}

VARIABLES
  reg,      \* pathLocks.locks: path -> mutex object
  owner,    \* mutex object -> the call that has it locked
  ref,      \* <<call, level>> -> the object its lookup returned
  pc,       \* where each call is
  level,    \* the lock a call is taking, holding or releasing
  copy,     \* what a call read of its markdown file
  file,     \* markdown file -> the calls whose entries are in it
  log,      \* JSONL log -> the records and newlines written to it, in order
  result,   \* what the call returns: nothing yet, ok or error
  orphaned, \* history: objects removed from reg while another call used them
  misread   \* history: the calls whose read of the markdown file failed

history == <<orphaned, misread>>
vars == <<reg, owner, ref, pc, level, copy, file, log, result, history>>

PCs == {"idle", "lookup", "lock", "read", "write", "line", "newline",
        "unlock", "cleanup", "done"}

Init ==
  /\ reg = [p \in Paths |-> Nil]
  /\ owner = [m \in Mutexes |-> Nil]
  /\ ref = [m \in Mutexes |-> Nil]
  /\ pc = [c \in Calls |-> "idle"]
  /\ level = [c \in Calls |-> IF Outer[c] = Nil THEN "inner" ELSE "outer"]
  /\ copy = [c \in Calls |-> {}]
  /\ file = [p \in Paths |-> {}]
  /\ log = [p \in Paths |-> <<>>]
  /\ result = [c \in Calls |-> "none"]
  /\ orphaned = {}
  /\ misread = {}

\* The file a call locks at its present level, and the object it got for it.
PathOf(c, l) == IF l = "outer" THEN Outer[c] ELSE LogFile[c]
Ref(c)       == ref[<<c, level[c]>>]

Goto(c, where)  == pc' = [pc EXCEPT ![c] = where]
Return(c, what) == result' = [result EXCEPT ![c] = what]

Active == {c \in Calls : pc[c] \notin {"idle", "done"}}

-----------------------------------------------------------------------------
(* The caller starts a write. *)
Start(c) ==
  /\ pc[c] = "idle"
  /\ Cardinality(Active) < MaxActive
  /\ Goto(c, "lookup")
  /\ UNCHANGED <<reg, owner, ref, level, copy, file, log, result, history>>

(* Mutant of Lookup: a new object is not put into the registry. *)
LookupUnregistered(c) ==
  LET p == PathOf(c, level[c])
  IN /\ pc[c] = "lookup"
     /\ ref' = [ref EXCEPT ![<<c, level[c]>>] =
                  IF reg[p] = Nil THEN <<c, level[c]>> ELSE reg[p]]
     /\ Goto(c, "lock")
     /\ UNCHANGED <<reg, owner, level, copy, file, log, result, history>>

(* Get or create the mutex object, atomically under pathLocks.mu. *)
Lookup(c) ==
  LET p == PathOf(c, level[c])
      m == IF reg[p] = Nil THEN <<c, level[c]>> ELSE reg[p]
  IN /\ pc[c] = "lookup"
     /\ reg' = [reg EXCEPT ![p] = m]
     /\ ref' = [ref EXCEPT ![<<c, level[c]>>] = m]
     /\ Goto(c, "lock")
     /\ UNCHANGED <<owner, level, copy, file, log, result, history>>

(* Mutant of Lock: it does not wait (a TryLock whose result is ignored). *)
LockUnchecked(c) ==
  /\ pc[c] = "lock"
  /\ owner' = [owner EXCEPT ![Ref(c)] = c]
  /\ Goto(c, IF level[c] = "outer" THEN "read" ELSE "line")
  /\ UNCHANGED <<reg, ref, level, copy, file, log, result, history>>

(* mu.Lock(): waits until the object is free. *)
Lock(c) ==
  /\ pc[c] = "lock"
  /\ owner[Ref(c)] = Nil
  /\ owner' = [owner EXCEPT ![Ref(c)] = c]
  /\ Goto(c, IF level[c] = "outer" THEN "read" ELSE "line")
  /\ UNCHANGED <<reg, ref, level, copy, file, log, result, history>>

(* Mutants of Failed: the error path returns without the deferred unlock;  *)
(* the operation is returned in place of an error.                         *)
FailedStillLocked(c, operation) ==
  /\ operation \in IOFails
  /\ Return(c, IF result[c] = "ok" THEN "ok" ELSE "error")
  /\ Goto(c, "done")

(* A file operation failed: the error goes to the caller, except that of a *)
(* log append made for a markdown entry, which is dropped with a warning.  *)
Failed(c, operation) ==
  /\ operation \in IOFails
  /\ Return(c, IF result[c] = "ok" THEN "ok" ELSE "error")
  /\ Goto(c, "unlock")

(* EnsureDir (of WriteSummary), then loadFrontmatter or os.ReadFile: a     *)
(* read that fails, for whatever reason, counts as an empty file.          *)
ReadFile(c) ==
  /\ pc[c] = "read"
  /\ \/ /\ copy' = [copy EXCEPT ![c] = file[Outer[c]]]
        /\ Goto(c, "write")
        /\ UNCHANGED <<result, misread>>
     \/ /\ "read" \in IOFails
        /\ copy' = [copy EXCEPT ![c] = {}]
        /\ misread' = misread \cup {c}
        /\ Goto(c, "write")
        /\ UNCHANGED result
     \/ /\ Failed(c, "mkdir")
        /\ UNCHANGED <<copy, misread>>
  /\ UNCHANGED <<reg, owner, ref, level, file, log, orphaned>>

(* AtomicWriteFile of the content read with the entry added.  From here on *)
(* the call reports success and goes on to log it.                         *)
WriteFile(c) ==
  /\ pc[c] = "write"
  /\ \/ /\ file' = [file EXCEPT ![Outer[c]] = copy[c] \cup {c}]
        /\ Return(c, "ok")
        /\ level' = [level EXCEPT ![c] = "inner"]
        /\ Goto(c, "lookup")
     \/ Failed(c, "write") /\ UNCHANGED <<file, level>>
  /\ UNCHANGED <<reg, owner, ref, copy, log, history>>

(* OpenFile with O_APPEND and the first of two writes: the JSON record. *)
AppendLine(c) ==
  /\ pc[c] = "line"
  /\ \/ /\ log' = [log EXCEPT ![LogFile[c]] = Append(@, c)]
        /\ Goto(c, "newline")
        /\ UNCHANGED result
     \/ Failed(c, "log") /\ UNCHANGED log
  /\ UNCHANGED <<reg, owner, ref, level, copy, file, history>>

(* The second write: the newline that ends the record. *)
AppendNewline(c) ==
  /\ pc[c] = "newline"
  /\ \/ /\ log' = [log EXCEPT ![LogFile[c]] = Append(@, Nil)]
        /\ Return(c, "ok")
        /\ Goto(c, "unlock")
     \/ Failed(c, "log") /\ UNCHANGED log
  /\ UNCHANGED <<reg, owner, ref, level, copy, file, history>>

(* Mutant of Unlock: it unlocks whatever the registry holds by then. *)
UnlockRegistered(c) ==
  LET m == reg[PathOf(c, level[c])]
  IN /\ pc[c] = "unlock"
     /\ owner' = IF m = Nil THEN owner ELSE [owner EXCEPT ![m] = Nil]
     /\ Goto(c, "cleanup")
     /\ UNCHANGED <<reg, ref, level, copy, file, log, result, history>>

(* The closure lockPath returned, first half: mu.Unlock(). *)
Unlock(c) ==
  /\ pc[c] = "unlock"
  /\ owner' = [owner EXCEPT ![Ref(c)] = Nil]
  /\ Goto(c, "cleanup")
  /\ UNCHANGED <<reg, ref, level, copy, file, log, result, history>>

\* The other calls that have looked m up and have not cleaned up after it.
OtherUsers(c, m) == {d \in Calls \ {c} : \E l \in Levels : ref[<<d, l>>] = m}

(* Second half, under pathLocks.mu: the entry goes if it is still this     *)
(* object, whoever else has looked it up.  The deferred release of the     *)
(* outer lock follows that of the inner one.                               *)
Cleanup(c) ==
  LET p == PathOf(c, level[c])
      registered == reg[p] = Ref(c)
      outerNext == level[c] = "inner" /\ Outer[c] # Nil
  IN /\ pc[c] = "cleanup"
     /\ reg' = IF registered THEN [reg EXCEPT ![p] = Nil] ELSE reg
     /\ orphaned' = IF registered /\ OtherUsers(c, Ref(c)) # {}
                    THEN orphaned \cup {Ref(c)} ELSE orphaned
     /\ ref' = [ref EXCEPT ![<<c, level[c]>>] = Nil]
     /\ level' = IF outerNext THEN [level EXCEPT ![c] = "outer"] ELSE level
     /\ Goto(c, IF outerNext THEN "unlock" ELSE "done")
     /\ UNCHANGED <<owner, copy, file, log, result, misread>>

Step(c) ==
  \/ Lookup(c) \/ Lock(c)
  \/ ReadFile(c) \/ WriteFile(c) \/ AppendLine(c) \/ AppendNewline(c)
  \/ Unlock(c) \/ Cleanup(c)

(* Every call has returned. *)
Finished == (\A c \in Calls : pc[c] = "done") /\ UNCHANGED vars

Next == Finished \/ \E c \in Calls : Start(c) \/ Step(c)

Spec == Init /\ [][Next]_vars

(* The Go scheduler runs every goroutine that can run, and a mutex that is *)
(* free goes to one of the goroutines waiting for it.                      *)
FairSpec == Spec /\ \A c \in Calls : WF_vars(Start(c)) /\ WF_vars(Step(c))

-----------------------------------------------------------------------------
(* Type invariant of the registry, the mutex objects and the calls. *)
TypeOK ==
  /\ reg \in [Paths -> Mutexes \cup {Nil}]
  /\ owner \in [Mutexes -> Calls \cup {Nil}]
  /\ ref \in [Mutexes -> Mutexes \cup {Nil}]
  /\ pc \in [Calls -> PCs]
  /\ level \in [Calls -> Levels]
  /\ copy \in [Calls -> SUBSET Calls]
  /\ file \in [Paths -> SUBSET Calls]
  /\ log \in [Paths -> Seq(Calls \cup {Nil})]
  /\ result \in [Calls -> {"none", "ok", "error"}]
  /\ orphaned \subseteq Mutexes
  /\ misread \subseteq Calls

\* Call c is between mu.Lock() and mu.Unlock() at level l.
Inside(c, l) ==
  \/ level[c] = l /\ pc[c] \in {"read", "write", "line", "newline", "unlock"}
  \/ l = "outer" /\ level[c] = "inner" /\ Outer[c] # Nil
       /\ pc[c] \in {"lookup", "lock", "line", "newline", "unlock", "cleanup"}

(* A call unlocks only an object it has locked itself (write.go:66 would   *)
(* otherwise kill the program), even after the registry has moved on to    *)
(* another object for the same path.                                       *)
HolderOwns ==
  \A c \in Calls, l \in Levels :
    Inside(c, l) => ref[<<c, l>>] \in Mutexes /\ owner[ref[<<c, l>>]] = c

(* No entry leaks: an object is in the registry only while the call whose  *)
(* lookup created it still has its clean-up to do (write.go:57-72), so the *)
(* registry never outgrows the calls in progress.                          *)
RegistryEntryLive ==
  \A p \in Paths : reg[p] # Nil =>
    \E c \in Active, l \in Levels :
      reg[p] = <<c, l>> /\ ref[<<c, l>>] = <<c, l>> /\ PathOf(c, l) = p

(* The registry is sound: every lock is unlocked by its owner, and every   *)
(* entry has somebody who will remove it (write.go:57-72).                 *)
RegistrySound == HolderOwns /\ RegistryEntryLive

(* As long as no object was removed from the registry under another call,  *)
(* a file has one holder (write.go:63).                                    *)
ExclusionUnlessOrphaned ==
  orphaned = {} =>
    \A c, d \in Calls, l, k \in Levels :
      Inside(c, l) /\ Inside(d, k) /\ PathOf(c, l) = PathOf(d, k) => c = d

(* Under the same condition, and while no read has failed, no rewrite of a *)
(* markdown file loses the entry of a call that reported success           *)
(* (write.go:147-170, 415-431).                                            *)
NoLostEntry ==
  orphaned = {} /\ misread = {} =>
    \A c \in Calls : Outer[c] # Nil /\ result[c] = "ok" => c \in file[Outer[c]]

(* Every write returns: the two nested locks never wait on each other.     *)
AllCallsReturn == <>(\A c \in Calls : pc[c] = "done")

(* digest.go:47, "This function is thread-safe (uses per-file locking via  *)
(* lockPath)": every record of a JSONL log is followed by its newline      *)
(* before another record is written.                                       *)
LogLinesIntact ==
  \A p \in Paths : \A i \in 1 .. Len(log[p]) - 1 :
    log[p][i] # Nil => log[p][i + 1] = Nil
=============================================================================
