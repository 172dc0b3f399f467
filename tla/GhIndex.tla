------------------------------ MODULE GhIndex ------------------------------
(***************************************************************************)
(* The index of repositories that `gh-alfred search` reads: `gh-alfred     *)
(* export` renders data/gh into gh.yml, a CDN serves it, and every search  *)
(* reads a cached copy of it, refreshed by itself or by a `gh-alfred sync` *)
(* it leaves running (internal/gh/index/export.go and remote.go).          *)
(*                                                                         *)
(* Of a file only its version matters; 0 stands for what does not pass     *)
(* ValidateConfigYAML.  The cache may be such a file when all begins: an   *)
(* older version of the program did not validate.  Processes share the     *)
(* cache and nothing else; AtomicWriteFile replaces it at once.            *)
(***************************************************************************)
EXTENDS Naturals

CONSTANTS
  Procs,        \* searches and syncs
  MaxVersion    \* bound: versions of data/gh

GhIndexAssumption == MaxVersion \in Nat \ {0}

Broken == 0
Absent == [data |-> Broken, state |-> "absent"]

VARIABLES
  source,     \* the version of data/gh, Broken while it does not load
  versions,   \* versions so far
  artifact,   \* gh.yml, as the CDN serves it
  cache,      \* the cached file: its data, and "absent", "fresh" or "stale"
  pc,         \* where each process is
  why,        \* "search" or "sync", or why a search syncs: the cache is "absent", "stale", "invalid"
  got,        \* what it downloaded
  result,     \* its outcome
  intact      \* history: the cache has been valid since it looked at it first

origin == <<source, versions, artifact>>
local  == <<pc, why, got, result, intact>>
vars   == <<origin, cache, local>>

Init ==
  /\ source = 1 /\ versions = 1
  /\ artifact \in {Broken, 1}
  /\ cache \in {Absent} \cup [data : {Broken, 1}, state : {"fresh", "stale"}]
  /\ pc = [p \in Procs |-> "idle"]
  /\ why = [p \in Procs |-> "search"]
  /\ got = [p \in Procs |-> Broken]
  /\ result = [p \in Procs |-> "none"]
  /\ intact = [p \in Procs |-> FALSE]

Go(p, place)    == pc' = [pc EXCEPT ![p] = place]
End(p, outcome) == Go(p, "idle") /\ result' = [result EXCEPT ![p] = outcome]

-----------------------------------------------------------------------------
(* The user edits data/gh, and may leave it broken for a while. *)
Edit ==
  /\ versions < MaxVersion
  /\ versions' = versions + 1
  /\ source' \in {Broken, versions + 1}
  /\ UNCHANGED <<artifact, cache, local>>

\* RenderConfigYAMLFromDir: what does not load or validate is not rendered.
Rendered == source # Broken

(* WriteConfigYAMLFromDir *)
Export ==
  /\ Rendered
  /\ artifact' = source
  /\ UNCHANGED <<source, versions, cache, local>>

(* maxAge passes. *)
Age ==
  /\ cache.state = "fresh"
  /\ cache' = [cache EXCEPT !.state = "stale"]
  /\ UNCHANGED <<origin, local>>

(* The user, or the system, removes the cache. *)
Remove ==
  /\ cache # Absent
  /\ cache' = Absent
  /\ intact' = [p \in Procs |-> FALSE]
  /\ UNCHANGED <<origin, pc, why, got, result>>

-----------------------------------------------------------------------------
Begins(p) ==
  /\ pc[p] = "idle"
  /\ result' = [result EXCEPT ![p] = "none"]
  /\ intact' = [intact EXCEPT ![p] = cache.data # Broken]

(* LoadWithBackgroundSync up to its os.Stat *)
Search(p) ==
  /\ Begins(p)
  /\ Go(p, CASE cache.state = "absent" -> "ttl"
             [] cache.state = "stale"  -> "spawn"
             [] OTHER                  -> "load")
  /\ why' = [why EXCEPT ![p] = "search"]
  /\ UNCHANGED <<origin, cache, got>>

(* RunSync *)
Sync(p) ==
  /\ Begins(p)
  /\ why' = [why EXCEPT ![p] = "sync"]
  /\ Go(p, "download")
  /\ UNCHANGED <<origin, cache, got>>

(* startBackgroundSyncProcess: a goroutine starts the process, if the      *)
(* search does not end before it.  Without it the old copy is as good.     *)
Spawn(p) ==
  /\ pc[p] = "spawn"
  /\ \/ /\ Go(p, "load")
        /\ UNCHANGED <<why, result, intact>>
     \/ \E q \in Procs \ {p} :
          /\ pc[q] = "idle"
          /\ pc' = [pc EXCEPT ![p] = "load", ![q] = "download"]
          /\ why' = [why EXCEPT ![q] = "sync"]
          /\ result' = [result EXCEPT ![q] = "none"]
          /\ intact' = [intact EXCEPT ![q] = cache.data # Broken]
  /\ UNCHANGED <<origin, cache, got>>

(* LoadWithCacheTTL up to its os.Stat: by now another process may have     *)
(* written the cache.                                                      *)
CheckTTL(p) ==
  /\ pc[p] = "ttl"
  /\ IF cache.state = "fresh" THEN Go(p, "try") /\ UNCHANGED why
     ELSE Go(p, "download") /\ why' = [why EXCEPT ![p] = cache.state]
  /\ intact' = [intact EXCEPT ![p] = cache.data # Broken]
  /\ UNCHANGED <<origin, cache, got, result>>

(* The fresh branch of LoadWithCacheTTL: an invalid cache is refreshed. *)
TryLoad(p) ==
  /\ pc[p] = "try"
  /\ IF cache.data # Broken THEN End(p, "served") /\ UNCHANGED why
     ELSE /\ Go(p, "download")
          /\ why' = [why EXCEPT ![p] = "invalid"]
          /\ UNCHANGED result
  /\ UNCHANGED <<origin, cache, got, intact>>

\* A sync that fails: only a stale cache is used all the same.
SyncFailed(p) ==
  IF why[p] = "stale" THEN Go(p, "load") /\ UNCHANGED result ELSE End(p, "failed")

(* Mutant of Download: what is downloaded is not validated. *)
DownloadUnchecked(p) ==
  /\ pc[p] = "download"
  /\ \/ SyncFailed(p) /\ UNCHANGED got
     \/ \E data \in {Broken, artifact} :
          /\ got' = [got EXCEPT ![p] = data]
          /\ Go(p, "write")
          /\ UNCHANGED result
  /\ UNCHANGED <<origin, cache, why, intact>>

(* Manager.Sync up to the write: the CDN answers with gh.yml, with a page  *)
(* of its own, or not at all.                                              *)
Download(p) ==
  /\ pc[p] = "download"
  /\ \/ SyncFailed(p) /\ UNCHANGED got
     \/ /\ artifact # Broken
        /\ got' = [got EXCEPT ![p] = artifact]
        /\ Go(p, "write")
        /\ UNCHANGED result
  /\ UNCHANGED <<origin, cache, why, intact>>

(* writeCache, which may fail *)
WriteCache(p) ==
  /\ pc[p] = "write"
  /\ \/ SyncFailed(p) /\ UNCHANGED cache
     \/ /\ cache' = [data |-> got[p], state |-> "fresh"]
        /\ IF why[p] = "sync" THEN End(p, "synced") ELSE Go(p, "load") /\ UNCHANGED result
  /\ UNCHANGED <<origin, why, got, intact>>

(* loadFromFile *)
LoadFromFile(p) ==
  /\ pc[p] = "load"
  /\ End(p, IF cache.data = Broken THEN "failed" ELSE "served")
  /\ UNCHANGED <<origin, cache, why, got, intact>>

(* The process is killed. *)
Kill(p) ==
  /\ pc[p] # "idle"
  /\ End(p, "killed")
  /\ UNCHANGED <<origin, cache, why, got, intact>>

Next ==
  \/ Edit \/ Export \/ Age \/ Remove
  \/ \E p \in Procs :
       \/ Search(p) \/ Sync(p) \/ Spawn(p) \/ CheckTTL(p) \/ TryLoad(p)
       \/ Download(p) \/ WriteCache(p) \/ LoadFromFile(p) \/ Kill(p)

Spec == Init /\ [][Next]_vars

-----------------------------------------------------------------------------
TypeOK ==
  /\ source \in 0..MaxVersion /\ versions \in 1..MaxVersion /\ artifact \in 0..MaxVersion
  /\ cache \in {Absent} \cup [data : 0..MaxVersion, state : {"fresh", "stale"}]
  /\ pc \in [Procs -> {"idle", "ttl", "spawn", "load", "try", "download", "write"}]
  /\ why \in [Procs -> {"search", "sync", "absent", "stale", "invalid"}]
  /\ got \in [Procs -> 0..MaxVersion]
  /\ result \in [Procs -> {"none", "served", "synced", "failed", "killed"}]
  /\ intact \in [Procs -> BOOLEAN]

(* A search never fails over a good cache: whatever the CDN answers and    *)
(* whoever writes the cache meanwhile, a search that found a valid copy,   *)
(* be it with its second look, serves one, unless the file is removed.     *)
ValidCacheServes ==
  \A p \in Procs : intact[p] => ~(result[p] = "failed" /\ why[p] # "sync")

(* With a valid cache in place no process ever makes it invalid again. *)
CacheStaysValid == [][cache.data # Broken /\ cache' # Absent => cache'.data # Broken]_cache
=============================================================================
