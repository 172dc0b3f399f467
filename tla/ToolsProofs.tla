----------------------------- MODULE ToolsProofs -----------------------------
(***************************************************************************)
(* Proofs about Tools: what its run checks of a small instance holds of    *)
(* any number of processes, comments, items, files and directories.        *)
(*                                                                         *)
(* Each command has an inductive invariant of its own, proved of its own   *)
(* module; ToolsInv puts them together.                                    *)
(***************************************************************************)
EXTENDS Tools, FiniteSetTheorems, SequenceTheorems, WellFoundedInduction, TLAPS

-----------------------------------------------------------------------------
(* gh (GhIndex).                                                           *)

GhVersions == 0..MaxVersion
Caches   == {Gh!Absent} \cup [data : GhVersions, state : {"fresh", "stale"}]
GhPlaces   == {"idle", "ttl", "spawn", "load", "try", "download", "write"}
Reasons  == {"search", "sync", "absent", "stale", "invalid"}
Results  == {"none", "served", "synced", "failed", "killed"}

GhOrigin == source \in GhVersions /\ versions \in 1..MaxVersion /\ artifact \in GhVersions
GhLocal ==
  /\ pc \in [Procs -> GhPlaces] /\ why \in [Procs -> Reasons] /\ got \in [Procs -> GhVersions]
  /\ result \in [Procs -> Results] /\ intact \in [Procs -> BOOLEAN]

\* What was downloaded has been validated before it is written.
GotInv == \A p \in Procs : pc[p] = "write" => got[p] # Gh!Broken

\* The outcome comes with the end.
ResultInv == \A p \in Procs : pc[p] # "idle" => result[p] = "none"

\* A process that found a valid cache still has one, and falls back to it; a
\* sync has no cache to fall back to, but is not a search.
IntactInv ==
  \A p \in Procs : intact[p] =>
    /\ cache.data # Gh!Broken
    /\ why[p] # "sync" =>
         /\ result[p] # "failed"
         /\ pc[p] \in {"download", "write"} => why[p] = "stale"

GhInv == GhOrigin /\ cache \in Caches /\ GhLocal /\ GotInv /\ ResultInv /\ IntactInv

-----------------------------------------------------------------------------
LEMMA GhTypes == GhOrigin /\ cache \in Caches /\ GhLocal <=> Gh!TypeOK
  BY DEF Gh!TypeOK, GhOrigin, GhLocal, GhVersions, Caches, GhPlaces, Reasons, Results

LEMMA GhInit ==
  ASSUME Gh!GhIndexAssumption, Gh!Init
  PROVE  GhInv
<1> USE DEF Gh!GhIndexAssumption, Gh!Init, Gh!Broken, Gh!Absent
<1>1. GhOrigin
  BY DEF GhOrigin, GhVersions
<1>2. cache \in Caches
  BY DEF Caches, GhVersions
<1>3. GhLocal
  BY DEF GhLocal, GhPlaces, Reasons, Results, GhVersions
<1>4. GotInv /\ ResultInv /\ IntactInv
  BY DEF GotInv, ResultInv, IntactInv
<1> QED
  BY <1>1, <1>2, <1>3, <1>4 DEF GhInv

(* What is in the cache, if anything is. *)
LEMMA CacheParts ==
  ASSUME Gh!GhIndexAssumption, NEW c \in Caches
  PROVE  /\ c.data \in GhVersions /\ c.state \in {"absent", "fresh", "stale"}
         /\ c.state = "absent" => c = Gh!Absent
         /\ c = Gh!Absent => c.data = Gh!Broken
<1>1. CASE c = Gh!Absent
  BY <1>1, Gh!GhIndexAssumption DEF Gh!Absent, GhVersions, Gh!Broken, Gh!GhIndexAssumption
<1>2. CASE c \in [data : GhVersions, state : {"fresh", "stale"}]
  <2>1. c.data \in GhVersions /\ c.state \in {"fresh", "stale"}
    BY <1>2
  <2>2. c.state # "absent" /\ c # Gh!Absent
    BY <2>1 DEF Gh!Absent
  <2> QED
    BY <2>1, <2>2
<1> QED
  BY <1>1, <1>2 DEF Caches

-----------------------------------------------------------------------------
(* The user, and time. *)
LEMMA GhOutside ==
  ASSUME Gh!GhIndexAssumption, GhInv, Gh!Edit \/ Gh!Export \/ Gh!Age \/ Gh!Remove
  PROVE  GhInv'
<1> USE DEF Gh!GhIndexAssumption, GhInv, Gh!Broken
<1>1. CASE Gh!Edit
  <2>1. GhOrigin'
    BY <1>1 DEF Gh!Edit, GhOrigin, GhVersions
  <2>2. cache \in Caches /\ cache' = cache
    BY <1>1 DEF Gh!Edit
  <2>3. GhLocal' /\ GotInv' /\ ResultInv' /\ IntactInv'
    BY <1>1, <2>2 DEF Gh!Edit, Gh!local, GhLocal, GotInv, ResultInv, IntactInv
  <2> QED
    BY <2>1, <2>2, <2>3 DEF Caches, GhVersions
<1>2. CASE Gh!Export
  <2>1. GhOrigin'
    BY <1>2 DEF Gh!Export, GhOrigin, GhVersions
  <2>2. cache' = cache
    BY <1>2 DEF Gh!Export
  <2>3. GhLocal' /\ GotInv' /\ ResultInv' /\ IntactInv'
    BY <1>2, <2>2 DEF Gh!Export, Gh!local, GhLocal, GotInv, ResultInv, IntactInv
  <2> QED
    BY <2>1, <2>2, <2>3
<1>3. CASE Gh!Age
  <2>1. cache \in [data : GhVersions, state : {"fresh", "stale"}]
    BY <1>3 DEF Gh!Age, Caches, Gh!Absent
  <2>2. cache' = [data |-> cache.data, state |-> "stale"]
    BY <1>3, <2>1 DEF Gh!Age
  <2>3. cache' \in Caches /\ cache'.data = cache.data
    BY <2>1, <2>2 DEF Caches
  <2>4. GhOrigin' /\ GhLocal'
    BY <1>3 DEF Gh!Age, Gh!origin, Gh!local, GhOrigin, GhLocal
  <2>5. GotInv' /\ ResultInv' /\ IntactInv'
    BY <1>3, <2>3 DEF Gh!Age, Gh!local, GotInv, ResultInv, IntactInv
  <2> QED
    BY <2>3, <2>4, <2>5
<1>4. CASE Gh!Remove
  <2>1. cache' \in Caches
    BY <1>4 DEF Gh!Remove, Caches
  <2>2. GhOrigin' /\ GhLocal'
    BY <1>4 DEF Gh!Remove, Gh!origin, GhOrigin, GhLocal
  <2>3. GotInv' /\ ResultInv' /\ IntactInv'
    BY <1>4 DEF Gh!Remove, GotInv, ResultInv, IntactInv
  <2> QED
    BY <2>1, <2>2, <2>3
<1> QED
  BY <1>1, <1>2, <1>3, <1>4

(* A process that ends, or goes on, and leaves the cache alone. *)
LEMMA GhReaders ==
  ASSUME Gh!GhIndexAssumption, GhInv, NEW p \in Procs,
         Gh!Search(p) \/ Gh!Sync(p) \/ Gh!Spawn(p) \/ Gh!CheckTTL(p) \/ Gh!TryLoad(p) \/ Gh!LoadFromFile(p)
           \/ Gh!Kill(p)
  PROVE  GhInv'
<1>1. cache' = cache /\ GhOrigin' /\ got' = got
  BY DEF GhInv, Gh!Search, Gh!Sync, Gh!Spawn, Gh!CheckTTL, Gh!TryLoad, Gh!LoadFromFile, Gh!Kill, Gh!origin, GhOrigin
<1>2. cache.state \in {"absent", "fresh", "stale"} /\ (cache.state = "absent" => cache.data = Gh!Broken)
  BY CacheParts DEF GhInv
<1> USE DEF GhInv, Gh!Go, Gh!End, Gh!Begins, GhLocal, GhPlaces, Reasons, Results
<1>3. GhLocal'
  <2>1. CASE Gh!Search(p)
    BY <1>1, <2>1 DEF Gh!Search
  <2>2. CASE Gh!Sync(p)
    BY <1>1, <2>2 DEF Gh!Sync
  <2>3. CASE Gh!Spawn(p)
    BY <1>1, <2>3 DEF Gh!Spawn
  <2>4. CASE Gh!CheckTTL(p)
    <3>1. pc' \in [Procs -> GhPlaces] /\ result' = result
      BY <2>4 DEF Gh!CheckTTL
    <3>2. why' \in [Procs -> Reasons]
      BY <1>2, <2>4 DEF Gh!CheckTTL
    <3>3. intact' \in [Procs -> BOOLEAN]
      BY <2>4 DEF Gh!CheckTTL
    <3> QED
      BY <1>1, <3>1, <3>2, <3>3
  <2>5. CASE Gh!TryLoad(p)
    BY <1>1, <2>5 DEF Gh!TryLoad
  <2>6. CASE Gh!LoadFromFile(p) \/ Gh!Kill(p)
    BY <1>1, <2>6 DEF Gh!LoadFromFile, Gh!Kill
  <2> QED
    BY <2>1, <2>2, <2>3, <2>4, <2>5, <2>6
<1>4. GotInv' /\ ResultInv' /\ IntactInv'
  <2> USE DEF GotInv, ResultInv, IntactInv
  <2>1. CASE Gh!Search(p)
    BY <1>1, <1>2, <2>1 DEF Gh!Search
  <2>2. CASE Gh!Sync(p)
    BY <1>1, <2>2 DEF Gh!Sync
  <2>3. CASE Gh!Spawn(p)
    BY <1>1, <2>3 DEF Gh!Spawn
  <2>4. CASE Gh!CheckTTL(p)
    <3>1. GotInv' /\ ResultInv'
      BY <1>1, <1>2, <2>4 DEF Gh!CheckTTL
    <3>2. result[p] = "none" /\ result' = result
      BY <2>4 DEF Gh!CheckTTL
    <3>3. CASE cache.state = "fresh"
      <4>1. pc'[p] = "try" /\ why' = why /\ \A q \in Procs \ {p} : pc'[q] = pc[q] /\ intact'[q] = intact[q]
        BY <2>4, <3>3 DEF Gh!CheckTTL
      <4>2. intact'[p] = (cache.data # Gh!Broken)
        BY <2>4 DEF Gh!CheckTTL
      <4> QED
        BY <1>1, <3>1, <3>2, <4>1, <4>2
    <3>4. CASE cache.state # "fresh"
      <4>1. pc'[p] = "download" /\ why'[p] = cache.state
        BY <2>4, <3>4 DEF Gh!CheckTTL
      <4>2. intact'[p] = (cache.data # Gh!Broken)
        BY <2>4 DEF Gh!CheckTTL
      <4>3. \A q \in Procs \ {p} : pc'[q] = pc[q] /\ intact'[q] = intact[q] /\ why'[q] = why[q]
        BY <2>4, <3>4 DEF Gh!CheckTTL
      <4> QED
        BY <1>1, <1>2, <3>1, <3>2, <3>4, <4>1, <4>2, <4>3
    <3> QED
      BY <3>3, <3>4
  <2>5. CASE Gh!TryLoad(p)
    BY <1>1, <2>5 DEF Gh!TryLoad
  <2>6. CASE Gh!LoadFromFile(p) \/ Gh!Kill(p)
    BY <1>1, <2>6 DEF Gh!LoadFromFile, Gh!Kill
  <2> QED
    BY <2>1, <2>2, <2>3, <2>4, <2>5, <2>6
<1> QED
  BY <1>1, <1>3, <1>4

(* The two halves of a sync. *)
LEMMA GhSync ==
  ASSUME Gh!GhIndexAssumption, GhInv, NEW p \in Procs, Gh!Download(p) \/ Gh!WriteCache(p)
  PROVE  GhInv'
<1> USE DEF GhInv, Gh!Go, Gh!End, Gh!SyncFailed, GhLocal, GhPlaces, Reasons, Results
<1>1. CASE Gh!Download(p)
  <2>1. cache' = cache /\ GhOrigin'
    BY <1>1 DEF Gh!Download, Gh!origin, GhOrigin
  <2>2. GhLocal'
    BY <1>1, <2>1 DEF Gh!Download, GhOrigin
  <2>3. GotInv' /\ ResultInv' /\ IntactInv'
    BY <1>1, <2>1 DEF Gh!Download, GotInv, ResultInv, IntactInv
  <2> QED
    BY <2>1, <2>2, <2>3
<1>2. CASE Gh!WriteCache(p)
  <2>1. GhOrigin'
    BY <1>2 DEF Gh!WriteCache, Gh!origin, GhOrigin
  <2>2. cache' = cache \/ (cache' = [data |-> got[p], state |-> "fresh"] /\ got[p] # Gh!Broken)
    BY <1>2 DEF Gh!WriteCache, GotInv
  <2>3. cache' \in Caches /\ (cache' = cache \/ cache'.data # Gh!Broken)
    BY <2>2 DEF Caches
  <2>4. GhLocal'
    BY <1>2 DEF Gh!WriteCache
  <2>5. GotInv' /\ ResultInv' /\ IntactInv'
    BY <1>2, <2>3 DEF Gh!WriteCache, GotInv, ResultInv, IntactInv
  <2> QED
    BY <2>1, <2>3, <2>4, <2>5
<1> QED
  BY <1>1, <1>2

LEMMA GhNext ==
  ASSUME Gh!GhIndexAssumption, GhInv, [Gh!Next]_(Gh!vars)
  PROVE  GhInv'
<1>1. CASE UNCHANGED Gh!vars
  BY <1>1 DEF Gh!vars, Gh!origin, Gh!local, GhInv, GhOrigin, GhLocal, GotInv, ResultInv, IntactInv
<1>2. CASE Gh!Next
  BY <1>2, GhOutside, GhReaders, GhSync DEF Gh!Next
<1> QED
  BY <1>1, <1>2

-----------------------------------------------------------------------------
(* Ranks. *)

Below(S, R, j) == {i \in S : <<i, j>> \in R}

\* R orders S.
Orders(R, S) ==
  \A i, j \in S : /\ <<i, i>> \notin R
                  /\ i # j => <<i, j>> \in R \/ <<j, i>> \in R
                  /\ \A k \in S : <<i, j>> \in R /\ <<j, k>> \in R => <<i, k>> \in R

\* What comes before another has the smaller rank.
LEMMA RanksGrow ==
  ASSUME NEW S, IsFiniteSet(S), NEW R, Orders(R, S), NEW i \in S, NEW j \in S, <<i, j>> \in R
  PROVE  Cardinality(Below(S, R, i)) < Cardinality(Below(S, R, j))
<1>1. Below(S, R, i) \in SUBSET Below(S, R, j)
  BY DEF Below, Orders
<1>2. i \in Below(S, R, j) /\ i \notin Below(S, R, i)
  BY DEF Below, Orders
<1>3. IsFiniteSet(Below(S, R, j))
  <2>1. Below(S, R, j) \in SUBSET S
    BY DEF Below
  <2> QED
    BY <2>1, FS_Subset
<1>4. /\ IsFiniteSet(Below(S, R, i))
      /\ Cardinality(Below(S, R, i)) <= Cardinality(Below(S, R, j))
      /\ Cardinality(Below(S, R, i)) # Cardinality(Below(S, R, j))
  BY <1>1, <1>2, <1>3, FS_Subset
<1>5. Cardinality(Below(S, R, i)) \in Nat /\ Cardinality(Below(S, R, j)) \in Nat
  BY <1>3, <1>4, FS_CardinalityType
<1> QED
  BY <1>4, <1>5

\* In a finite set that is ordered every rank is taken.
LEMMA EveryRank ==
  ASSUME NEW S, IsFiniteSet(S), NEW R, Orders(R, S), NEW n \in 1 .. Cardinality(S)
  PROVE  \E j \in S : Cardinality(Below(S, R, j)) = n - 1
<1> DEFINE f == [j \in S |-> Cardinality(Below(S, R, j)) + 1]
           T == 1 .. Cardinality(S)
<1>1. Cardinality(S) \in Nat
  BY FS_CardinalityType
<1>2. ASSUME NEW j \in S
      PROVE  Cardinality(Below(S, R, j)) \in 0 .. Cardinality(S) - 1
  <2>1. Below(S, R, j) \in SUBSET (S \ {j})
    BY DEF Below, Orders
  <2>2. IsFiniteSet(S \ {j}) /\ Cardinality(S \ {j}) = Cardinality(S) - 1
    BY FS_RemoveElement
  <2>3. IsFiniteSet(Below(S, R, j)) /\ Cardinality(Below(S, R, j)) <= Cardinality(S \ {j})
    BY <2>1, <2>2, FS_Subset
  <2>4. Cardinality(Below(S, R, j)) \in Nat
    BY <2>3, FS_CardinalityType
  <2> QED
    BY <1>1, <2>2, <2>3, <2>4
<1>3. ASSUME NEW i \in S, NEW j \in S, <<i, j>> \in R PROVE f[i] # f[j]
  BY <1>2, <1>3, RanksGrow
<1>4. f \in Injection(S, T)
  <2>1. f \in [S -> T]
    BY <1>1, <1>2
  <2>2. \A i, j \in S : i # j => f[i] # f[j]
    BY <1>3 DEF Orders
  <2> HIDE DEF f
  <2> QED
    BY <2>1, <2>2 DEF Injection, IsInjective
<1>5. IsFiniteSet(T) /\ Cardinality(T) = Cardinality(S)
  BY <1>1, FS_Interval
<1>6. f \in Surjection(S, T)
  <2> HIDE DEF f, T
  <2> QED
    BY <1>4, <1>5, FS_Injection
<1>7. PICK j \in S : f[j] = n
  <2>1. n \in T
    OBVIOUS
  <2> HIDE DEF f, T
  <2> QED
    BY <1>6, <2>1 DEF Surjection
<1> QED
  BY <1>2, <1>7

-----------------------------------------------------------------------------
(* content (WikiContent). *)

\* The items of the URL are at the front of the queue.
OwnFirst(q) == \A i, j \in DOMAIN q : i < j /\ q[j].own => q[i].own

\* Only a link of t.co is resolved; media and the length were asked about, and
\* what makes a content long is its page or what is said.
ContentInv ==
  /\ queue \in Seq(Content!FeedItems) /\ OwnFirst(queue)
  /\ entry # "tco" => site = entry /\ pc # "tco"
  /\ site \in Content!Videos /\ entry # "tco" /\ pc \notin {"start", "over"} =>
       media \/ driver # "opencli"
  /\ entry \in Content!Videos /\ pc \in {"catalog", "ask", "verify"} => body.long
  /\ entry \in Content!Videos =>
       pc \notin {"repo", "feed", "episode"} /\ (body.long => body.page \/ body.parts \cap Content!Said # {})

LEMMA ContentInit == Content!Init => ContentInv
BY DEF Content!Init, Content!Empty, ContentInv, OwnFirst

LEMMA QueueOfFeed ==
  ASSUME NEW feed \in Seq(Content!FeedItems)
  PROVE  LET order == Content!Candidates(feed)
             q == [i \in DOMAIN order |-> feed[order[i]]]
         IN  q \in Seq(Content!FeedItems) /\ OwnFirst(q)
<1> DEFINE S == DOMAIN feed
           class(i) == Content!Class(feed[i])
           Ahead(i, j) == class(i) < class(j) \/ (class(i) = class(j) /\ i < j)
           R == {x \in S \X S : Ahead(x[1], x[2])}
           order == Content!Candidates(feed)
           q == [i \in DOMAIN order |-> feed[order[i]]]
<1>1. S = 1 .. Len(feed) /\ Len(feed) \in Nat /\ IsFiniteSet(S) /\ Cardinality(S) = Len(feed)
  <2>1. Len(feed) \in Nat /\ S = 1 .. Len(feed)
    OBVIOUS
  <2> HIDE DEF S
  <2> QED
    BY <2>1, FS_Interval
<1>2. ASSUME NEW i \in S
      PROVE  i \in Int /\ class(i) \in 1..3 /\ (class(i) = 1 <=> feed[i].own)
  <2>1. i \in Int
    BY <1>1
  <2> QED
    BY <2>1 DEF Content!Class
<1>3. \A i, j \in S : <<i, j>> \in R <=> Ahead(i, j)
  OBVIOUS
<1>4. \A j \in S : {i \in S : Ahead(i, j)} = Below(S, R, j)
  <2> HIDE DEF Ahead
  <2> QED
    BY DEF Below
<1>5. order = [n \in S |-> CHOOSE j \in S : Cardinality({i \in S : Ahead(i, j)}) = n - 1]
  BY DEF Content!Candidates, Content!Cardinality, Cardinality
<1> HIDE DEF R, S, class, order
<1>6. Orders(R, S)
  <2>1. ASSUME NEW i \in S, NEW j \in S, NEW k \in S
        PROVE  /\ <<i, i>> \notin R
               /\ i # j => <<i, j>> \in R \/ <<j, i>> \in R
               /\ <<i, j>> \in R /\ <<j, k>> \in R => <<i, k>> \in R
    <3>1. /\ class(i) \in Int /\ class(j) \in Int /\ class(k) \in Int
          /\ i \in Int /\ j \in Int /\ k \in Int
      BY <1>2
    <3> DEFINE a == class(i)
               b == class(j)
               c == class(k)
    <3>2. /\ <<i, i>> \in R <=> a < a \/ (a = a /\ i < i)
          /\ <<i, j>> \in R <=> a < b \/ (a = b /\ i < j)
          /\ <<j, i>> \in R <=> b < a \/ (b = a /\ j < i)
          /\ <<j, k>> \in R <=> b < c \/ (b = c /\ j < k)
          /\ <<i, k>> \in R <=> a < c \/ (a = c /\ i < k)
      BY <1>3
    <3>3. a \in Int /\ b \in Int /\ c \in Int
      BY <3>1
    <3> HIDE DEF a, b, c
    <3> QED
      BY <3>1, <3>2, <3>3
  <2> QED
    BY <2>1 DEF Orders
<1>7. ASSUME NEW n \in S
      PROVE  order[n] \in S /\ Cardinality(Below(S, R, order[n])) = n - 1
  <2>1. n \in 1 .. Cardinality(S)
    BY <1>1
  <2>2. \E j \in S : Cardinality(Below(S, R, j)) = n - 1
    BY <2>1, <1>1, <1>6, EveryRank
  <2> HIDE DEF Ahead
  <2> QED
    BY <1>4, <1>5, <2>2
<1>8. DOMAIN order = S
  BY <1>5
<1>9. q \in Seq(Content!FeedItems)
  <2>1. \A i \in 1 .. Len(feed) : feed[order[i]] \in Content!FeedItems
    BY <1>1, <1>7 DEF S
  <2> QED
    BY <1>1, <1>8, <2>1
<1>10. OwnFirst(q)
  <2> SUFFICES ASSUME NEW i \in S, NEW j \in S, i < j, feed[order[j]].own, ~feed[order[i]].own
               PROVE  FALSE
    BY <1>8 DEF OwnFirst
  <2>1. order[i] \in S /\ order[j] \in S
    BY <1>7
  <2>2. <<order[j], order[i]>> \in R
    BY <1>2, <1>3, <2>1
  <2>3. Cardinality(Below(S, R, order[j])) < Cardinality(Below(S, R, order[i]))
    BY <1>1, <1>6, <2>1, <2>2, RanksGrow
  <2>4. j - 1 < i - 1
    BY <1>7, <2>3
  <2> QED
    BY <1>2, <2>4
<1> QED
  BY <1>9, <1>10 DEF order

\* Steps that leave the queue and where the URL leads.
LEMMA ContentMoves ==
  ASSUME ContentInv,
         Content!Begin \/ Content!FetchRepo \/ Content!FetchHTTP \/ Content!ReadSite
           \/ Content!AppendYoutube \/ Content!AppendBilibili \/ Content!AppendSummary
           \/ Content!MakeDir \/ Content!Download \/ Content!Judge \/ Content!LoadCatalog
           \/ Content!Ask \/ Content!Verify \/ Content!Expire \/ Content!Kill
           \/ UNCHANGED Content!vars
  PROVE  ContentInv'
<1> USE DEF Content!Goto, Content!End, Content!Unverified, Content!given, Content!fetching, Content!Videos
<1>1. UNCHANGED <<driver, media, entry, site, queue>>
  BY DEF Content!Begin, Content!FetchRepo, Content!FetchHTTP, Content!ReadSite,
     Content!AppendYoutube, Content!AppendBilibili, Content!AppendSummary, Content!MakeDir,
     Content!Download, Content!Judge, Content!LoadCatalog, Content!Ask, Content!Verify,
     Content!Expire, Content!Kill, Content!vars
<1>2. ASSUME site \in Content!Videos, entry # "tco", pc' \notin {"start", "over"}
      PROVE  media \/ driver # "opencli"
  <2>1. CASE Content!Begin
    BY <1>2, <2>1 DEF Content!Begin, Content!Drive
  <2>2. CASE pc \notin {"start", "over"}
    BY <1>2, <2>2 DEF ContentInv
  <2>3. Content!Begin \/ pc # "start"
    BY <1>2 DEF Content!FetchRepo, Content!FetchHTTP, Content!ReadSite,
       Content!AppendYoutube, Content!AppendBilibili, Content!AppendSummary, Content!MakeDir,
       Content!Download, Content!Judge, Content!LoadCatalog, Content!Ask, Content!Verify,
       Content!Expire, Content!Kill, Content!vars
  <2>4. pc # "over"
    BY <1>2 DEF Content!Begin, Content!FetchRepo, Content!FetchHTTP, Content!ReadSite,
       Content!AppendYoutube, Content!AppendBilibili, Content!AppendSummary, Content!MakeDir,
       Content!Download, Content!Judge, Content!LoadCatalog, Content!Ask, Content!Verify,
       Content!Expire, Content!Kill, Content!vars
  <2> QED
    BY <2>1, <2>2, <2>3, <2>4
<1>3. ASSUME entry \in Content!Videos, pc' \in {"catalog", "ask", "verify"}
      PROVE  body'.long
  <2>1. CASE pc \in {"catalog", "ask", "verify"}
    BY <1>3, <2>1 DEF ContentInv, Content!Begin, Content!FetchRepo, Content!FetchHTTP,
       Content!ReadSite, Content!AppendYoutube, Content!AppendBilibili, Content!AppendSummary,
       Content!MakeDir, Content!Download, Content!Judge, Content!LoadCatalog, Content!Ask,
       Content!Verify, Content!Expire, Content!Kill, Content!vars
  <2>2. CASE Content!Judge
    BY <1>3, <2>2 DEF Content!Judge, Content!TooShort
  <2>3. pc \in {"catalog", "ask", "verify"} \/ Content!Judge
    BY <1>3 DEF Content!Begin, Content!Drive, Content!FetchRepo, Content!FetchHTTP,
       Content!ReadSite, Content!AppendYoutube, Content!AppendBilibili, Content!AppendSummary,
       Content!MakeDir, Content!Download, Content!LoadCatalog, Content!Ask, Content!Verify,
       Content!Expire, Content!Kill, Content!vars
  <2> QED
    BY <2>1, <2>2, <2>3
<1>4. ASSUME entry # "tco" PROVE pc' # "tco"
  <2>1. site # "tco" /\ pc # "tco"
    BY <1>4 DEF ContentInv
  <2>2. CASE Content!Begin
    <3>1. Content!Drive # "tco"
      BY <2>1 DEF Content!Drive
    <3>2. pc' \in {"over", "repo", "feed", Content!Drive}
      BY <2>2 DEF Content!Begin
    <3> QED
      BY <3>1, <3>2
  <2>3. CASE ~Content!Begin
    BY <2>1, <2>3 DEF Content!FetchRepo, Content!FetchHTTP,
       Content!ReadSite, Content!AppendYoutube, Content!AppendBilibili, Content!AppendSummary,
       Content!MakeDir, Content!Download, Content!Judge, Content!LoadCatalog, Content!Ask,
       Content!Verify, Content!Expire, Content!Kill, Content!vars
  <2> QED
    BY <2>2, <2>3
<1>5. ASSUME entry \in Content!Videos
      PROVE  /\ pc' \notin {"repo", "feed", "episode"}
             /\ body'.long => body'.page \/ body'.parts \cap Content!Said # {}
  <2>1. /\ site \in Content!Videos /\ pc \notin {"repo", "feed", "episode"}
        /\ body.long => body.page \/ body.parts \cap Content!Said # {}
    BY <1>5 DEF ContentInv
  <2>2. CASE Content!Begin
    <3>1. Content!Drive \notin {"repo", "feed", "episode"}
      BY DEF Content!Drive
    <3>2. pc' \in {"over", Content!Drive} /\ UNCHANGED body
      BY <2>1, <2>2 DEF Content!Begin
    <3> QED
      BY <2>1, <3>1, <3>2
  <2>3. CASE ~Content!Begin
    <3>1. pc' \notin {"repo", "feed", "episode"}
      BY <2>1, <2>3 DEF Content!FetchRepo, Content!FetchHTTP, Content!ReadSite,
         Content!AppendYoutube, Content!AppendBilibili, Content!AppendSummary, Content!MakeDir,
         Content!Download, Content!Judge, Content!LoadCatalog, Content!Ask, Content!Verify,
         Content!Expire, Content!Kill, Content!vars
    <3>2. \/ UNCHANGED body \/ Content!Holds({"page"})
          \/ Content!Holds({"transcript"}) \/ Content!Holds({"official"})
      BY <2>1, <2>3 DEF Content!FetchRepo, Content!FetchHTTP, Content!ReadSite, Content!AddTranscript,
         Content!AppendYoutube, Content!AppendBilibili, Content!AppendSummary, Content!MakeDir,
         Content!Download, Content!Judge, Content!LoadCatalog, Content!Ask, Content!Verify,
         Content!Expire, Content!Kill, Content!vars
    <3>3. CASE UNCHANGED body
      BY <2>1, <3>1, <3>3
    <3>4. ASSUME NEW part \in {"page"} \cup Content!Said, Content!Holds({part})
          PROVE  body'.long => body'.page \/ body'.parts \cap Content!Said # {}
      <4>1. PICK long \in {body.long, TRUE} :
              body' = [parts |-> body.parts \cup {part},
                       page |-> body.page \/ (long /\ "page" \in {part}), long |-> long]
        BY <3>4 DEF Content!Holds
      <4>2. /\ body'.parts = body.parts \cup {part} /\ body'.long = long
            /\ body'.page = (body.page \/ (long /\ "page" \in {part}))
        BY <4>1
      <4> QED
        BY <4>2
    <3> QED
      BY <3>1, <3>2, <3>3, <3>4 DEF Content!Said
  <2> QED
    BY <2>2, <2>3
<1> QED
  BY <1>1, <1>2, <1>3, <1>4, <1>5 DEF ContentInv, OwnFirst

LEMMA ContentNext ==
  ASSUME Content!WikiContentAssumption, ContentInv, [Content!Next]_(Content!vars)
  PROVE  ContentInv'
<1>1. CASE Content!FetchFeed
  <2>1. /\ UNCHANGED <<driver, media, entry, site, body>>
        /\ pc = "feed" /\ pc' \in {"episode", "over"}
    BY <1>1 DEF Content!FetchFeed, Content!given, Content!Goto, Content!End
  <2>2. queue' \in Seq(Content!FeedItems) /\ OwnFirst(queue')
    <3>1. CASE UNCHANGED queue
      BY <3>1 DEF ContentInv
    <3>2. CASE queue' # queue
      <4>1. PICK feed \in Feeds :
              queue' = LET order == Content!Candidates(feed)
                       IN  [i \in DOMAIN order |-> feed[order[i]]]
        BY <1>1, <3>2 DEF Content!FetchFeed
      <4>2. feed \in Seq(Content!FeedItems)
        BY DEF Content!WikiContentAssumption
      <4> QED
        BY <4>1, <4>2, QueueOfFeed
    <3> QED
      BY <3>1, <3>2
  <2> QED
    BY <2>1, <2>2 DEF ContentInv, OwnFirst
<1>2. CASE Content!TryEpisode
  <2>1. /\ UNCHANGED <<driver, media, entry, site>>
        /\ pc = "episode" /\ pc' \in {"episode", "fetched", "over"}
        /\ queue' = queue \/ (queue # <<>> /\ queue' = Tail(queue))
    BY <1>2 DEF Content!TryEpisode, Content!given, Content!Goto, Content!End
  <2>2. queue' \in Seq(Content!FeedItems) /\ OwnFirst(queue')
    <3>1. CASE queue' = queue
      BY <3>1 DEF ContentInv
    <3>2. CASE queue # <<>> /\ queue' = Tail(queue)
      <4>1. queue' \in Seq(Content!FeedItems)
        BY <3>2 DEF ContentInv
      <4>2. \A i \in DOMAIN queue' : i + 1 \in DOMAIN queue /\ queue'[i] = queue[i + 1]
        BY <3>2 DEF ContentInv
      <4>3. DOMAIN queue' \subseteq Nat
        BY <4>1
      <4> QED
        BY <4>1, <4>2, <4>3 DEF ContentInv, OwnFirst
    <3> QED
      BY <2>1, <3>1, <3>2
  <2> QED
    BY <2>1, <2>2 DEF ContentInv
<1>3. CASE Content!Resolve
  <2>1. /\ UNCHANGED <<driver, media, entry, queue, body>>
        /\ pc = "tco" /\ pc' = "adapter"
    BY <1>3 DEF Content!Resolve, Content!given, Content!Goto
  <2>2. entry = "tco"
    BY <2>1 DEF ContentInv
  <2> QED
    BY <2>1, <2>2 DEF ContentInv, Content!Videos
<1>4. CASE UNCHANGED Content!vars
  BY <1>4, ContentMoves
<1> QED
  BY <1>1, <1>2, <1>3, <1>4, ContentMoves DEF Content!Next

LEMMA ContentHolds == ContentInv => Content!OwnEpisodeFirst /\ Content!HeardOrLong
<1>1. ASSUME ContentInv, queue # <<>>, ~Head(queue).own PROVE \A i \in DOMAIN queue : ~queue[i].own
  <2>1. Head(queue) = queue[1] /\ 1 \in DOMAIN queue /\ DOMAIN queue \subseteq Nat \ {0}
    BY <1>1 DEF ContentInv
  <2> QED
    BY <1>1, <2>1 DEF ContentInv, OwnFirst
<1>2. ContentInv => Content!HeardOrLong
  BY DEF ContentInv, Content!HeardOrLong
<1> QED
  BY <1>1, <1>2 DEF Content!OwnEpisodeFirst

-----------------------------------------------------------------------------
(* issue (IssueReview).                                                    *)

Comments == [id : Nat, holds : Bodies \cup {"review"}]

\* The comments before page p.
Listed(p) == (p - 1) * PerPage

Running == {"list", "linear", "ask", "post"}

IssueType ==
  /\ comments \in Seq(Comments) /\ made \in Nat
  /\ pc \in Running \cup {"idle", "over"}
  /\ page \in Nat \ {0}
  /\ prompt \in [from : {"github", "linear"}, texts : SUBSET Comments]

\* Unless one was deleted, no comment changes its place: those of the pages
\* that were read are in the prompt, and in the end all that were there.
IssueInv ==
  /\ IssueType
  /\ pc \in Running /\ ~shifted => start \subseteq {comments[i] : i \in DOMAIN comments}
  /\ pc = "list" /\ ~shifted =>
       /\ Listed(page) <= Len(comments)
       /\ \A i \in DOMAIN comments : i <= Listed(page) => comments[i] \in prompt.texts
  /\ pc \in {"linear", "ask", "post"} /\ ~shifted /\ prompt.from = "github" =>
       start \subseteq prompt.texts

LEMMA Pages ==
  ASSUME Issue!IssueReviewAssumption, NEW p \in Nat \ {0}
  PROVE  /\ Listed(p) \in Nat /\ Listed(1) = 0
         /\ p * PerPage = Listed(p) + PerPage /\ Listed(p + 1) = p * PerPage
         /\ PerPage \in Nat \ {0}
<1>1. PerPage \in Nat \ {0}
  BY DEF Issue!IssueReviewAssumption
<1>2. /\ (p - 1) * PerPage \in Nat /\ (1 - 1) * PerPage = 0
      /\ p * PerPage = (p - 1) * PerPage + PerPage
      /\ (p + 1) - 1 = p
  BY <1>1
<1> QED
  BY <1>1, <1>2 DEF Listed

LEMMA IssueInit == Issue!Init => IssueInv
<1> SUFFICES ASSUME Issue!Init PROVE IssueInv
  OBVIOUS
<1>1. IssueType
  BY DEF Issue!Init, Issue!Nothing, IssueType, Comments
<1> QED
  BY <1>1 DEF Issue!Init, IssueInv, Running

\* A comment that is added at the end changes no other's place.
LEMMA Appended ==
  ASSUME IssueType, NEW c \in Comments, comments' = Append(comments, c)
  PROVE  /\ comments' \in Seq(Comments) /\ Len(comments') = Len(comments) + 1
         /\ DOMAIN comments' = DOMAIN comments \cup {Len(comments) + 1}
         /\ \A i \in DOMAIN comments : comments'[i] = comments[i]
         /\ DOMAIN comments \subseteq 1 .. Len(comments) /\ Len(comments) \in Nat
BY DEF IssueType

LEMMA IssueComment == ASSUME IssueInv, Issue!Comment, Issue!IssueReviewAssumption PROVE IssueInv'
<1>1. PICK name \in Bodies : comments' = Append(comments, [id |-> made + 1, holds |-> name])
  BY DEF Issue!Comment
<1>2. UNCHANGED <<pc, page, prompt, start, shifted>> /\ made' = made + 1
  BY DEF Issue!Comment, Issue!hist
<1>3. [id |-> made + 1, holds |-> name] \in Comments
  BY DEF IssueInv, IssueType, Comments
<1> DEFINE c == [id |-> made + 1, holds |-> name]
<1> HIDE DEF c
<1>4. /\ comments' \in Seq(Comments) /\ Len(comments') = Len(comments) + 1
      /\ DOMAIN comments' = DOMAIN comments \cup {Len(comments) + 1}
      /\ \A i \in DOMAIN comments : comments'[i] = comments[i]
      /\ DOMAIN comments \subseteq 1 .. Len(comments) /\ Len(comments) \in Nat
  BY <1>1, <1>3, Appended DEF c, IssueInv
<1>5. IssueType'
  BY <1>2, <1>4 DEF IssueInv, IssueType
<1>6. ASSUME pc = "list", ~shifted
      PROVE  /\ Listed(page) <= Len(comments')
             /\ \A i \in DOMAIN comments' : i <= Listed(page) => comments'[i] \in prompt.texts
  <2>1. Listed(page) \in Nat
    BY Pages DEF IssueInv, IssueType
  <2> QED
    BY <1>4, <1>6, <2>1 DEF IssueInv
<1>7. ASSUME pc \in Running, ~shifted
      PROVE  start \subseteq {comments'[i] : i \in DOMAIN comments'}
  BY <1>4, <1>7 DEF IssueInv
<1>8. Listed(page)' = Listed(page)
  BY <1>2 DEF Listed
<1> QED
  BY <1>2, <1>5, <1>6, <1>7, <1>8 DEF IssueInv

LEMMA IssueDelete == ASSUME IssueInv, Issue!Delete PROVE IssueInv'
<1>1. PICK i \in DOMAIN comments : comments' = Issue!RemoveAt(comments, i)
  BY DEF Issue!Delete
<1>2. i \in 1 .. Len(comments) /\ Len(comments) \in Nat /\ comments \in Seq(Comments)
  BY DEF IssueInv, IssueType
<1>3. comments' = SubSeq(comments, 1, i - 1) \o SubSeq(comments, i + 1, Len(comments))
  BY <1>1 DEF Issue!RemoveAt
<1>4. SubSeq(comments, 1, i - 1) \in Seq(Comments)
  BY <1>2, SubSeqProperties
<1>5. SubSeq(comments, i + 1, Len(comments)) \in Seq(Comments)
  BY <1>2, SubSeqProperties
<1>6. comments' \in Seq(Comments)
  BY <1>3, <1>4, <1>5, ConcatProperties
<1>7. shifted' /\ UNCHANGED <<made, pc, page, prompt>>
  BY DEF Issue!Delete
<1> QED
  BY <1>6, <1>7 DEF IssueInv, IssueType

LEMMA IssueBegin == ASSUME IssueInv, Issue!Begin, Issue!IssueReviewAssumption PROVE IssueInv'
<1>1. /\ pc' = "list" /\ page' = 1 /\ prompt' = [from |-> "github", texts |-> {}]
      /\ UNCHANGED <<comments, made>>
      /\ start' = Issue!ToSet(comments)
  BY DEF Issue!Begin, Issue!Go, Issue!Nothing, Issue!github
<1>2. IssueType'
  BY <1>1 DEF IssueInv, IssueType, Running
<1>3. Listed(page)' = 0 /\ Len(comments) \in Nat /\ DOMAIN comments \subseteq Nat \ {0}
  <2>1. Listed(1) = 0
    BY Pages
  <2>2. Listed(page)' = Listed(1)
    BY <1>1 DEF Listed
  <2> QED
    BY <2>1, <2>2 DEF IssueInv, IssueType
<1> QED
  BY <1>1, <1>2, <1>3 DEF IssueInv, Issue!ToSet, Running

\* What is read with a page.
LEMMA PageHolds ==
  ASSUME IssueType, Issue!IssueReviewAssumption
  PROVE  /\ Issue!Page(page) \subseteq Comments
         /\ \A i \in DOMAIN comments :
              Listed(page) < i /\ i <= page * PerPage => comments[i] \in Issue!Page(page)
<1> DEFINE a == Listed(page)
           last == page * PerPage
           b == IF last < Len(comments) THEN last ELSE Len(comments)
           s == SubSeq(comments, a + 1, b)
<1>1. a \in Nat /\ last \in Nat /\ Len(comments) \in Nat
  <2>1. /\ Listed(page) \in Nat /\ page * PerPage = Listed(page) + PerPage
        /\ PerPage \in Nat \ {0}
    BY Pages DEF IssueType
  <2> QED
    BY <2>1 DEF IssueType
<1>2. Issue!Page(page) = {s[i] : i \in DOMAIN s}
  BY DEF Issue!Page, Issue!ToSet, Listed
<1> HIDE DEF a, last
<1>3. b \in Nat /\ b <= Len(comments)
  BY <1>1
<1>4. /\ s \in Seq(Comments)
      /\ \A i \in 1 .. (b - a) : i \in DOMAIN s /\ s[i] = comments[a + i]
  <2>1. comments \in Seq(Comments)
    BY DEF IssueType
  <2> HIDE DEF b
  <2> QED
    BY <1>1, <1>3, <2>1
<1>5. ASSUME NEW i \in DOMAIN comments, a < i, i <= last
      PROVE  comments[i] \in Issue!Page(page)
  <2>1. i \in 1 .. Len(comments)
    BY DEF IssueType
  <2>2. i - a \in 1 .. (b - a) /\ a + (i - a) = i
    BY <1>1, <1>5, <2>1
  <2> HIDE DEF s
  <2> QED
    BY <1>2, <1>4, <2>2
<1> QED
  BY <1>2, <1>4, <1>5 DEF a, last

LEMMA IssueList == ASSUME IssueInv, Issue!ListPage, Issue!IssueReviewAssumption PROVE IssueInv'
<1>1. pc = "list" /\ UNCHANGED <<comments, made, start, shifted>>
  BY DEF Issue!ListPage, Issue!github, Issue!hist
<1>2. CASE Issue!End("error") /\ UNCHANGED <<page, prompt>>
  BY <1>1, <1>2 DEF Issue!End, IssueInv, IssueType, Running
<1>3. CASE /\ prompt' = [prompt EXCEPT !.texts = @ \cup Issue!Page(page)]
           /\ IF page * PerPage < Len(comments)
              THEN page' = page + 1 /\ Issue!Go("list")
              ELSE Issue!Go("linear") /\ UNCHANGED page
  <2>1. /\ Issue!Page(page) \subseteq Comments
        /\ \A i \in DOMAIN comments :
             Listed(page) < i /\ i <= page * PerPage => comments[i] \in Issue!Page(page)
    BY PageHolds DEF IssueInv
  <2>2. /\ prompt' \in [from : {"github", "linear"}, texts : SUBSET Comments]
        /\ prompt'.texts = prompt.texts \cup Issue!Page(page)
    BY <1>3, <2>1 DEF IssueInv, IssueType
  <2>3. /\ page \in Nat \ {0} /\ Len(comments) \in Nat /\ DOMAIN comments = 1 .. Len(comments)
    BY DEF IssueInv, IssueType
  <2>4. IssueType'
    BY <1>1, <1>3, <2>2, <2>3 DEF Issue!Go, IssueInv, IssueType, Running
  <2>5. /\ Listed(page) \in Nat /\ PerPage \in Nat \ {0}
        /\ page * PerPage = Listed(page) + PerPage /\ Listed(page + 1) = page * PerPage
    BY <2>3, Pages
  <2>6. ~shifted => \A i \in DOMAIN comments : i <= page * PerPage => comments[i] \in prompt'.texts
    BY <1>1, <2>1, <2>2, <2>3, <2>5 DEF IssueInv
  <2>7. CASE page * PerPage < Len(comments)
    <3>1. pc' = "list" /\ Listed(page)' = page * PerPage
      BY <1>3, <2>5, <2>7 DEF Issue!Go, Listed
    <3> QED
      BY <1>1, <2>3, <2>4, <2>5, <2>6, <2>7, <3>1 DEF IssueInv, Running
  <2>8. CASE ~(page * PerPage < Len(comments))
    <3>1. pc' = "linear"
      BY <1>3, <2>8 DEF Issue!Go
    <3>2. ~shifted => start \subseteq prompt'.texts
      BY <1>1, <2>3, <2>5, <2>6, <2>8 DEF IssueInv, Running
    <3> QED
      BY <1>1, <2>4, <3>1, <3>2 DEF IssueInv, Running
  <2> QED
    BY <2>7, <2>8
<1> QED
  BY <1>2, <1>3 DEF Issue!ListPage

LEMMA IssueEnrich == ASSUME IssueInv, Issue!Enrich PROVE IssueInv'
<1>1. /\ pc = "linear" /\ pc' = "ask"
      /\ UNCHANGED <<comments, made, page, start, shifted>>
  BY DEF Issue!Enrich, Issue!Go, Issue!github, Issue!hist
<1>2. prompt' = prompt \/ prompt' = [from |-> "linear", texts |-> {}]
  BY DEF Issue!Enrich, Issue!Merged
<1>3. prompt' \in [from : {"github", "linear"}, texts : SUBSET Comments]
  BY <1>2 DEF IssueInv, IssueType
<1> QED
  BY <1>1, <1>2, <1>3 DEF IssueInv, IssueType, Running

LEMMA IssueRest ==
  ASSUME IssueInv, Issue!Ask \/ Issue!Post \/ Issue!Kill \/ UNCHANGED Issue!vars
  PROVE  IssueInv'
<1> USE DEF Issue!github, Issue!hist, Issue!Go, Issue!End
<1>1. CASE UNCHANGED Issue!vars
  BY <1>1 DEF Issue!vars, IssueInv, IssueType, Listed
<1>2. CASE Issue!Ask
  BY <1>2 DEF Issue!Ask, IssueInv, IssueType, Running
<1>3. CASE Issue!Kill
  BY <1>3 DEF Issue!Kill, IssueInv, IssueType, Running
<1>4. CASE Issue!Post
  <2>1. /\ pc' = "over" /\ UNCHANGED <<page, prompt, start, shifted>>
        /\ \/ UNCHANGED <<comments, made>>
           \/ /\ comments' = Append(comments, [id |-> made + 1, holds |-> "review"])
              /\ made' = made + 1
    BY <1>4 DEF Issue!Post, Issue!Review
  <2>2. comments' \in Seq(Comments) /\ made' \in Nat
    <3>1. [id |-> made + 1, holds |-> "review"] \in Comments
      BY DEF IssueInv, IssueType, Comments
    <3> QED
      BY <2>1, <3>1, Appended DEF IssueInv, IssueType
  <2> QED
    BY <2>1, <2>2 DEF IssueInv, IssueType, Running
<1> QED
  BY <1>1, <1>2, <1>3, <1>4

LEMMA IssueNext ==
  ASSUME Issue!IssueReviewAssumption, IssueInv, [Issue!Next]_(Issue!vars)
  PROVE  IssueInv'
BY IssueComment, IssueDelete, IssueBegin, IssueList, IssueEnrich, IssueRest DEF Issue!Next

-----------------------------------------------------------------------------
(* audit (WikiAudit).                                                      *)

AuditType ==
  /\ {head, index, tree} \subseteq [WikiFiles -> WikiTexts \cup {Audit!Absent}]
  /\ pc \in {"idle", "cached", "diff", "others", "audit"}
  /\ mode \in {"all", "changed", "paths"}
  /\ pc \in {"cached", "diff", "others"} => mode = "changed"
  /\ pc # "idle" => outcome = "none"

\* The summaries the audit has to find something wrong with.
Flawed(f) == f \in still \cap Summaries /\ tree[f] \cap Audit!Serious # {}

\* It will, or it did.
Caught(f) == f \in left \/ \E flaw \in Audit!Serious : <<f, flaw>> \in issues

Changed(f) == head[f] # index[f] \/ index[f] # tree[f]

\* Once a git command has listed it, or the walk has come by, a flawed
\* summary is caught; in the end the audit does not say "ok".
AuditInv ==
  /\ AuditType
  /\ \A f \in WikiFiles : Flawed(f) =>
       /\ mode = "all" /\ pc = "audit" => f \in unseen \/ Caught(f)
       /\ mode = "changed" /\ f \notin Odd =>
            /\ pc = "diff"   => (head[f] # index[f] => Caught(f))
            /\ pc = "others" =>
                 (head[f] # index[f] \/ (index[f] # Audit!Absent /\ index[f] # tree[f]) => Caught(f))
            /\ pc = "audit"  => (Changed(f) => Caught(f) \/ Audit!Hidden(f))
       /\ mode = "all" => outcome # "ok"
       /\ mode = "changed" /\ ~Audit!Hidden(f) /\ Changed(f) => outcome # "ok"

LEMMA AuditInit == Audit!Init => AuditInv
<1> SUFFICES ASSUME Audit!Init PROVE AuditInv
  OBVIOUS
<1>1. AuditType
  BY DEF Audit!Init, AuditType
<1> QED
  BY <1>1 DEF Audit!Init, AuditInv, Flawed

\* A flawed summary is there, and the audit of it finds a serious flaw.
LEMMA FlawsAreFound ==
  ASSUME Audit!WikiAuditAssumption, AuditType, NEW f \in WikiFiles, Flawed(f)
  PROVE  /\ tree[f] # Audit!Absent
         /\ \E flaw \in Audit!Serious : flaw \in Audit!Found(f)
<1>1. PICK flaw \in Audit!Serious : flaw \in tree[f]
  BY DEF Flawed
<1>2. tree[f] \in WikiTexts \cup {Audit!Absent}
  BY DEF AuditType
<1>3. tree[f] # Audit!Absent
  BY <1>1 DEF Audit!Absent, Audit!Serious
<1>4. flaw \in {"malformed", "lowQuality"}
  <2>1. tree[f] \in SUBSET Audit!Flaws
    BY <1>2, <1>3 DEF Audit!WikiAuditAssumption
  <2>2. flaw \in Audit!Flaws
    BY <1>1, <2>1
  <2> QED
    BY <1>1, <2>2 DEF Audit!Flaws, Audit!Serious
<1>5. Audit!Found(f) = Audit!SummaryFlaws(tree[f])
  <2>1. f \in Summaries /\ f \notin Failures
    BY DEF Flawed, Audit!WikiAuditAssumption
  <2> QED
    BY <1>3, <2>1 DEF Audit!Found
<1>6. flaw \in Audit!Found(f)
  BY <1>1, <1>4, <1>5 DEF Audit!SummaryFlaws, Audit!MalformedURLs
<1> QED
  BY <1>3, <1>6

\* The user may do as he pleases: what he touches does not count any more.
LEMMA AuditOutside ==
  ASSUME Audit!WikiAuditAssumption, AuditInv,
         (\E f \in WikiFiles : Audit!Write(f) \/ Audit!Stage(f)) \/ Audit!Commit
           \/ UNCHANGED Audit!vars
  PROVE  AuditInv'
<1> USE DEF AuditType
<1>1. UNCHANGED <<pc, mode, unseen, left, issues, outcome>>
  BY DEF Audit!Write, Audit!Stage, Audit!Commit, Audit!vars, Audit!run
<1>2. AuditType'
  <2>1. {head', index', tree'} \subseteq [WikiFiles -> WikiTexts \cup {Audit!Absent}]
    BY DEF AuditInv, Audit!Write, Audit!Stage, Audit!Commit, Audit!vars, Audit!git
  <2> QED
    BY <1>1, <2>1 DEF AuditInv
<1>3. ASSUME NEW f \in WikiFiles, f \in still'
      PROVE  f \in still /\ head'[f] = head[f] /\ index'[f] = index[f] /\ tree'[f] = tree[f]
  BY <1>3 DEF AuditInv, Audit!Write, Audit!Stage, Audit!Commit, Audit!vars, Audit!git
<1>4. ASSUME NEW f \in WikiFiles, Flawed(f)'
      PROVE  /\ Flawed(f) /\ Changed(f)' = Changed(f) /\ Caught(f)' = Caught(f)
             /\ Audit!Hidden(f)' = Audit!Hidden(f)
  BY <1>1, <1>3, <1>4 DEF Flawed, Changed, Caught, Audit!Hidden
<1> QED
  BY <1>1, <1>2, <1>3, <1>4 DEF AuditInv, Flawed

LEMMA AuditBegin ==
  ASSUME AuditInv, NEW m \in {"all", "changed", "paths"}, Audit!Begin(m)
  PROVE  AuditInv'
<1>1. /\ mode' = m /\ pc' = (IF m = "changed" THEN "cached" ELSE "audit")
      /\ unseen' = (IF m = "all" THEN WikiFiles ELSE {})
      /\ outcome' = "none" /\ UNCHANGED <<head, index, tree>>
  BY DEF Audit!Begin, Audit!git
<1>2. AuditType'
  BY <1>1 DEF AuditInv, AuditType
<1> QED
  BY <1>1, <1>2 DEF AuditInv

\* One of the three git commands.
LEMMA AuditList ==
  ASSUME Audit!WikiAuditAssumption, AuditInv,
         Audit!ListStaged \/ Audit!ListUnstaged \/ Audit!ListUntracked
  PROVE  AuditInv'
<1> USE DEF Audit!ListStaged, Audit!ListUnstaged, Audit!ListUntracked, Audit!List, Audit!End
<1>1. /\ UNCHANGED <<head, index, tree, mode, unseen, issues, still>>
      /\ pc \in {"cached", "diff", "others"} /\ outcome' \in {"error", outcome}
      /\ \/ pc' = "idle" /\ outcome' = "error"
         \/ /\ outcome' = outcome
            /\ \/ pc = "cached" /\ pc' = "diff" /\ left' = left \cup Audit!Named(Audit!Staged)
               \/ pc = "diff" /\ pc' = "others" /\ left' = left \cup Audit!Named(Audit!Unstaged)
               \/ pc = "others" /\ pc' = "audit" /\ left' = left \cup Audit!Named(Audit!Untracked)
  BY DEF Audit!git
<1>2. AuditType'
  BY <1>1 DEF AuditInv, AuditType
<1>3. mode = "changed" /\ outcome = "none"
  BY <1>1 DEF AuditInv, AuditType
<1>4. CASE pc' = "idle" /\ outcome' = "error"
  BY <1>1, <1>2, <1>3, <1>4 DEF AuditInv
<1>5. CASE outcome' = outcome /\ left \subseteq left'
  <2>1. ASSUME NEW f \in WikiFiles, Flawed(f)', f \notin Odd
        PROVE  /\ pc' = "diff"   => (head[f] # index[f] => Caught(f)')
               /\ pc' = "others" =>
                    (head[f] # index[f] \/ (index[f] # Audit!Absent /\ index[f] # tree[f])
                       => Caught(f)')
               /\ pc' = "audit"  => (Changed(f) => Caught(f)' \/ Audit!Hidden(f))
    <3>1. Flawed(f) /\ (Caught(f) => Caught(f)')
      BY <1>1, <1>5, <2>1 DEF Flawed, Caught
    <3>2. tree[f] # Audit!Absent
      BY <3>1, FlawsAreFound DEF AuditInv
    <3>3. \A printed : f \in printed => f \in Audit!Named(printed)
      BY <2>1, <3>2 DEF Audit!Named
    <3>4. CASE pc = "cached" /\ pc' = "diff" /\ left' = left \cup Audit!Named(Audit!Staged)
      BY <3>3, <3>4 DEF Audit!Staged, Caught
    <3>5. CASE pc = "diff" /\ pc' = "others" /\ left' = left \cup Audit!Named(Audit!Unstaged)
      BY <1>3, <2>1, <3>1, <3>3, <3>5 DEF AuditInv, Audit!Unstaged, Caught
    <3>6. CASE pc = "others" /\ pc' = "audit" /\ left' = left \cup Audit!Named(Audit!Untracked)
      <4>1. CASE index[f] = Audit!Absent
        <5>1. CASE f \notin Ignored
          BY <3>2, <3>3, <3>6, <4>1, <5>1 DEF Audit!Untracked, Caught
        <5>2. CASE f \in Ignored
          BY <1>3, <2>1, <3>1, <3>6, <4>1, <5>2 DEF AuditInv, Audit!Hidden
        <5> QED
          BY <5>1, <5>2
      <4>2. CASE index[f] # Audit!Absent
        BY <1>3, <2>1, <3>1, <3>6, <4>2 DEF AuditInv, Changed
      <4> QED
        BY <4>1, <4>2
    <3>7. pc' # "idle"
      BY <1>1, <1>3, <1>5
    <3> QED
      BY <1>1, <3>4, <3>5, <3>6, <3>7
  <2>2. \A f \in WikiFiles : Changed(f)' = Changed(f) /\ Audit!Hidden(f)' = Audit!Hidden(f)
    BY <1>1 DEF Changed, Audit!Hidden
  <2>3. mode' = "changed" /\ outcome' = "none" /\ head' = head /\ index' = index /\ tree' = tree
    BY <1>1, <1>3, <1>5
  <2> QED
    BY <1>2, <2>1, <2>2, <2>3 DEF AuditInv
<1> QED
  BY <1>1, <1>4, <1>5

\* The walk and the audits of files.
LEMMA AuditFiles ==
  ASSUME Audit!WikiAuditAssumption, AuditInv, NEW f \in WikiFiles, Audit!Walk(f) \/ Audit!Audit(f)
  PROVE  AuditInv'
<1>1. UNCHANGED <<head, index, tree, pc, mode, outcome, still>> /\ pc = "audit"
  BY DEF Audit!Walk, Audit!Audit, Audit!git
<1>2. AuditType'
  BY <1>1 DEF AuditInv, AuditType
<1>3. ASSUME NEW g \in WikiFiles, Flawed(g)'
      PROVE  /\ Flawed(g) /\ Changed(g)' = Changed(g) /\ Audit!Hidden(g)' = Audit!Hidden(g)
             /\ Caught(g) => Caught(g)'
             /\ g \in unseen => g \in unseen' \/ Caught(g)'
  <2>1. Flawed(g) /\ Changed(g)' = Changed(g) /\ Audit!Hidden(g)' = Audit!Hidden(g)
    BY <1>1, <1>3 DEF Flawed, Changed, Audit!Hidden
  <2>2. tree[g] # Audit!Absent /\ \E flaw \in Audit!Serious : flaw \in Audit!Found(g)
    BY <2>1, FlawsAreFound DEF AuditInv
  <2>3. CASE Audit!Walk(f)
    BY <2>1, <2>2, <2>3 DEF Audit!Walk, Caught
  <2>4. CASE Audit!Audit(f)
    <3>1. PICK found \in {Audit!Found(f), {"gone"}} :
            issues' = issues \cup {<<f, flaw>> : flaw \in found}
      BY <2>4 DEF Audit!Audit
    <3>2. left' = left \ {f} /\ unseen' = unseen
      BY <2>4 DEF Audit!Audit
    <3>3. CASE g = f
      <4>1. \E flaw \in Audit!Serious : flaw \in found
        BY <2>2, <3>3 DEF Audit!Serious
      <4> QED
        BY <2>1, <3>1, <3>2, <4>1, <3>3 DEF Caught
    <3>4. CASE g # f
      BY <2>1, <3>1, <3>2, <3>4 DEF Caught
    <3> QED
      BY <3>3, <3>4
  <2> QED
    BY <2>1, <2>3, <2>4
<1> QED
  BY <1>1, <1>2, <1>3 DEF AuditInv

LEMMA AuditEnds ==
  ASSUME AuditInv, Audit!Refuse \/ Audit!Finish
  PROVE  AuditInv'
<1>1. UNCHANGED <<head, index, tree, mode, unseen, left, issues, still>> /\ pc' = "idle"
  BY DEF Audit!Refuse, Audit!Finish, Audit!git, Audit!End
<1>2. AuditType'
  BY <1>1 DEF AuditInv, AuditType
<1>3. CASE Audit!Refuse
  BY <1>1, <1>2, <1>3 DEF AuditInv, Audit!Refuse, Audit!End
<1>4. CASE Audit!Finish
  <2>1. /\ pc = "audit" /\ left = {} /\ unseen = {}
        /\ (\E i \in issues : i[2] \in Audit!Serious) => outcome' = "issues"
    BY <1>4 DEF Audit!Finish, Audit!End
  <2>2. ASSUME NEW f \in WikiFiles, Caught(f) PROVE outcome' # "ok"
    BY <2>1, <2>2 DEF Caught
  <2>3. ASSUME NEW f \in WikiFiles, Flawed(f)'
        PROVE  /\ mode = "all" => outcome' # "ok"
               /\ mode = "changed" /\ ~Audit!Hidden(f)' /\ Changed(f)' => outcome' # "ok"
    <3>1. Flawed(f) /\ Changed(f)' = Changed(f) /\ Audit!Hidden(f)' = Audit!Hidden(f)
      BY <1>1, <2>3 DEF Flawed, Changed, Audit!Hidden
    <3> QED
      BY <2>1, <2>2, <3>1 DEF AuditInv, Audit!Hidden
  <2> QED
    BY <1>1, <1>2, <2>3 DEF AuditInv
<1> QED
  BY <1>3, <1>4

LEMMA AuditNext ==
  ASSUME Audit!WikiAuditAssumption, AuditInv, [Audit!Next]_(Audit!vars)
  PROVE  AuditInv'
BY AuditOutside, AuditBegin, AuditList, AuditFiles, AuditEnds DEF Audit!Next

LEMMA AuditHolds ==
  ASSUME Audit!WikiAuditAssumption, AuditInv
  PROVE  Audit!OkMeansClean
<1> SUFFICES ASSUME outcome = "ok", mode # "paths", NEW f \in still \cap Summaries,
                    tree[f] \cap Audit!Serious # {}
             PROVE  mode = "changed" /\ (Audit!Hidden(f) \/ (head[f] = index[f] /\ index[f] = tree[f]))
  BY DEF Audit!OkMeansClean
<1>1. f \in WikiFiles /\ Flawed(f) /\ mode \in {"all", "changed"}
  BY DEF AuditInv, AuditType, Audit!WikiAuditAssumption, Flawed
<1> QED
  BY <1>1 DEF AuditInv, Changed

-----------------------------------------------------------------------------
(* data (DataRules).                                                       *)

DataType ==
  /\ data \in [DataFiles -> Seq(Items)]
  /\ report.of \in [DataFiles -> Seq(Items)]
  /\ issues.found = [f \in DataFiles |-> issues.found[f]]

\* The files only grow, so that what a report was about is not what they are
\* now unless nothing was added since; what the check found is of its items.
DataInv ==
  /\ DataType
  /\ \A f \in DataFiles : Len(report.of[f]) <= Len(data[f])
  /\ \A f \in DataFiles :
       \/ issues.found[f] = {"error"}
       \/ issues.found[f] =
            UNION {Rules!MappingIssues(issues.of[f][n]) : n \in DOMAIN issues.of[f]}
  /\ Rules!EveryTwinIsTold

LEMMA DataInit == Rules!Init => DataInv
<1> SUFFICES ASSUME Rules!Init PROVE DataInv
  OBVIOUS
<1> USE DEF Rules!Init, Rules!Nothing
<1>1. /\ data = [f \in DataFiles |-> <<>>] /\ report.of = data /\ issues.of = data
      /\ issues.found = [f \in DataFiles |-> {}]
  OBVIOUS
<1>2. DataType
  BY <1>1 DEF DataType
<1>3. \A f \in DataFiles : Len(report.of[f]) <= Len(data[f])
  BY <1>1
<1>4. ASSUME NEW f \in DataFiles
      PROVE  issues.found[f] = UNION {Rules!MappingIssues(issues.of[f][n]) : n \in DOMAIN issues.of[f]}
  <2>1. issues.found[f] = {} /\ DOMAIN issues.of[f] = {}
    BY <1>1
  <2> QED
    BY <2>1
<1>5. Rules!EveryTwinIsTold
  <2>1. Rules!Places = {}
    BY <1>1 DEF Rules!Places
  <2> QED
    BY <2>1 DEF Rules!EveryTwinIsTold, Rules!Parsed
<1> QED
  BY <1>2, <1>3, <1>4, <1>5 DEF DataInv

-----------------------------------------------------------------------------
LEMMA Bridge ==
  /\ \A S : Rules!Cardinality(S) = Cardinality(S)
  /\ \A S : Rules!IsFiniteSet(S) <=> IsFiniteSet(S)
BY DEF Rules!Cardinality, Cardinality, Rules!IsFiniteSet, IsFiniteSet

\* Two are more than one.
LEMMA TwoAreMore ==
  ASSUME NEW S, IsFiniteSet(S), NEW x \in S, NEW y \in S, x # y
  PROVE  Cardinality(S) > 1
<1>1. IsFiniteSet(S \ {x}) /\ Cardinality(S \ {x}) = Cardinality(S) - 1
  BY FS_RemoveElement
<1>2. y \in S \ {x}
  OBVIOUS
<1>3. S \ {x} # {} => Cardinality(S \ {x}) # 0
  BY <1>1, FS_EmptySet
<1>4. Cardinality(S \ {x}) \in Nat /\ Cardinality(S) \in Nat
  BY <1>1, FS_CardinalityType
<1> QED
  BY <1>1, <1>2, <1>3, <1>4

LEMMA ParsedFinite ==
  ASSUME Rules!DataRulesAssumption
  PROVE  IsFiniteSet(Rules!Parsed)
<1>1. IsFiniteSet(DataFiles) /\ MaxItems \in Nat
  BY Bridge DEF Rules!DataRulesAssumption
<1>2. IsFiniteSet(1 .. MaxItems)
  BY <1>1, FS_Interval
<1>3. IsFiniteSet(DataFiles \X (1 .. MaxItems))
  BY <1>1, <1>2, FS_Product
<1>4. Rules!Parsed \in SUBSET (DataFiles \X (1 .. MaxItems))
  BY DEF Rules!Parsed, Rules!Places
<1> QED
  BY <1>3, <1>4, FS_Subset

\* The two kinds of groups together name one of every two twins.
LEMMA TwinsAreGrouped ==
  ASSUME Rules!DataRulesAssumption, NEW x \in Rules!Parsed, NEW y \in Rules!Parsed, x # y,
         \A key \in {"name", "author"} : Rules!Text(x, key) = Rules!Text(y, key)
  PROVE  \E z \in UNION (Rules!UrlGroups \cup Rules!NameAuthorGroups) :
           \E t \in {x, y} : z[1] = t[1] /\ Rules!Text(z, "name") = Rules!Text(t, "name")
<1>1. CASE \E t \in {x, y} : Rules!UrlMatched(t)
  <2>1. PICK t \in {x, y} : Rules!UrlMatched(t)
    BY <1>1
  <2>2. PICK z \in UNION Rules!UrlGroups :
          z[1] = t[1] /\ Rules!Text(z, "name") = Rules!Text(t, "name")
    BY <2>1 DEF Rules!UrlMatched
  <2> QED
    BY <2>2
<1>2. CASE \A t \in {x, y} : ~Rules!UrlMatched(t)
  <2> DEFINE uncaught == {p \in Rules!Parsed : ~Rules!UrlMatched(p)}
             g == Rules!Alike(x, Rules!Parsed, {"name", "author"}) \cap uncaught
  <2>1. x \in g /\ y \in g
    BY <1>2 DEF Rules!Alike
  <2>2. Cardinality(g) > 1
    <3>1. g \in SUBSET Rules!Parsed
      OBVIOUS
    <3>2. IsFiniteSet(g)
      BY <3>1, ParsedFinite, FS_Subset
    <3> HIDE DEF g
    <3> QED
      BY <2>1, <3>2, TwoAreMore
  <2>3. g \in Rules!NameAuthorGroups
    BY <2>2, Bridge DEF Rules!NameAuthorGroups
  <2> HIDE DEF g
  <2> QED
    BY <2>1, <2>3
<1> QED
  BY <1>1, <1>2

-----------------------------------------------------------------------------
\* What the items are told of depends on the items only, and on what a report
\* was about.
LEMMA IssuesRigid == \A item : Rules!MappingIssues(item)' = Rules!MappingIssues(item)
BY DEF Rules!MappingIssues, Rules!NameIssues, Rules!KeyIssues, Rules!FieldIssues

LEMMA FoundStays ==
  ASSUME DataInv, UNCHANGED issues, NEW f \in DataFiles
  PROVE  \/ issues'.found[f] = {"error"}
         \/ issues'.found[f] =
              UNION {Rules!MappingIssues(issues'.of[f][n]) : n \in DOMAIN issues'.of[f]}
BY DEF DataInv

LEMMA TwinsStay ==
  ASSUME Rules!EveryTwinIsTold, UNCHANGED <<data, report>>, broken \subseteq broken'
  PROVE  Rules!EveryTwinIsTold'
<1>1. \A x, key : Rules!Text(x, key)' = Rules!Text(x, key)
  BY DEF Rules!Text, Rules!Value
<1>2. \A x \in Rules!Parsed' : x \in Rules!Parsed
  BY <1>1 DEF Rules!Parsed, Rules!Places, Rules!Decodes, Rules!Value
<1> QED
  BY <1>1, <1>2 DEF Rules!EveryTwinIsTold

LEMMA DataEdit == ASSUME DataInv, NEW f \in DataFiles, Rules!Edit(f) PROVE DataInv'
<1>1. UNCHANGED <<issues, report>>
  BY DEF Rules!Edit
<1>2. CASE UNCHANGED data /\ broken \subseteq broken'
  <2>1. Rules!EveryTwinIsTold'
    BY <1>1, <1>2, TwinsStay DEF DataInv
  <2> QED
    BY <1>1, <1>2, <2>1, IssuesRigid, FoundStays DEF DataInv, DataType
<1>3. CASE \E item \in Items : data' = [data EXCEPT ![f] = Append(@, item)]
  <2>1. PICK item \in Items : data' = [data EXCEPT ![f] = Append(@, item)]
    BY <1>3
  <2>2. \A g \in DataFiles : data[g] \in Seq(Items) /\ report.of[g] \in Seq(Items)
    BY DEF DataInv, DataType
  <2>3. /\ data' \in [DataFiles -> Seq(Items)]
        /\ \A g \in DataFiles : Len(data'[g]) = IF g = f THEN Len(data[g]) + 1 ELSE Len(data[g])
    BY <2>1, <2>2 DEF DataInv, DataType
  <2>4. \A g \in DataFiles : /\ Len(data[g]) \in Nat /\ Len(report.of[g]) \in Nat
                             /\ Len(report.of[g]) <= Len(data[g])
    BY <2>2 DEF DataInv
  <2>5. \A g \in DataFiles : Len(report'.of[g]) <= Len(data'[g])
    BY <1>1, <2>3, <2>4
  <2>6. report'.of # data'
    BY <1>1, <2>3, <2>4
  <2> QED
    BY <1>1, <2>3, <2>5, <2>6, IssuesRigid, FoundStays DEF DataInv, DataType, Rules!EveryTwinIsTold
<1> QED
  BY <1>2, <1>3 DEF Rules!Edit

LEMMA DataCheck == ASSUME DataInv, Rules!Check PROVE DataInv'
<1>1. /\ issues' = [of |-> data, found |-> [f \in DataFiles |-> Rules!FileIssues(f)]]
      /\ UNCHANGED <<data, broken, report>>
  BY DEF Rules!Check
<1>2. /\ issues'.of = data
      /\ issues'.found = [f \in DataFiles |-> Rules!FileIssues(f)]
  BY <1>1
<1>3. ASSUME NEW f \in DataFiles
      PROVE  \/ issues'.found[f] = {"error"}
             \/ issues'.found[f] =
                  UNION {Rules!MappingIssues(issues'.of[f][n]) : n \in DOMAIN issues'.of[f]}
  BY <1>2 DEF Rules!FileIssues
<1>4. Rules!EveryTwinIsTold'
  BY <1>1, TwinsStay DEF DataInv
<1>5. DataType'
  BY <1>1, <1>2 DEF DataInv, DataType
<1> QED
  BY <1>1, <1>3, <1>4, <1>5, IssuesRigid DEF DataInv

LEMMA DataDuplicates ==
  ASSUME Rules!DataRulesAssumption, DataInv, Rules!FindDuplicates
  PROVE  DataInv'
<1>1. /\ report' = [of |-> data, groups |-> Rules!UrlGroups \cup Rules!NameAuthorGroups]
      /\ UNCHANGED <<data, broken, issues>>
  BY DEF Rules!FindDuplicates
<1>2. report'.of = data /\ report'.groups = Rules!UrlGroups \cup Rules!NameAuthorGroups
  BY <1>1
<1>3. \A x, key : Rules!Text(x, key)' = Rules!Text(x, key)
  BY <1>1 DEF Rules!Text, Rules!Value
<1>4. Rules!Parsed' = Rules!Parsed
  BY <1>1, <1>3 DEF Rules!Parsed, Rules!Places, Rules!Decodes, Rules!Value
<1>5. Rules!EveryTwinIsTold'
  BY <1>1, <1>2, <1>3, <1>4, TwinsAreGrouped DEF Rules!EveryTwinIsTold
<1>6. DataType'
  BY <1>1, <1>2 DEF DataInv, DataType
<1>7. \A f \in DataFiles : Len(report'.of[f]) <= Len(data'[f])
  BY <1>1, <1>2 DEF DataInv, DataType
<1> QED
  BY <1>1, <1>5, <1>6, <1>7 DEF DataInv

LEMMA DataNext ==
  ASSUME Rules!DataRulesAssumption, DataInv, [Rules!Next]_(Rules!vars)
  PROVE  DataInv'
<1>1. CASE UNCHANGED Rules!vars
  <2>1. UNCHANGED <<data, broken, issues, report>>
    BY <1>1 DEF Rules!vars
  <2>2. Rules!EveryTwinIsTold'
    BY <2>1, TwinsStay DEF DataInv
  <2> QED
    BY <2>1, <2>2, IssuesRigid, FoundStays DEF DataInv, DataType
<1> QED
  BY <1>1, DataEdit, DataCheck, DataDuplicates DEF Rules!Next

\* A name that is no text is an issue, whatever else the item has.
LEMMA DataHolds ==
  ASSUME DataInv
  PROVE  Rules!NamelessReported /\ Rules!EveryTwinIsTold
<1> SUFFICES ASSUME issues.of = data, Domain # "diary", NEW x \in Rules!Places,
                    Rules!Text(x, "name") = Rules!NoText
             PROVE  issues.found[x[1]] # {}
  BY DEF DataInv, Rules!NamelessReported
<1> DEFINE item == data[x[1]][x[2]]
<1>1. x[1] \in DataFiles /\ x[2] \in DOMAIN data[x[1]]
  BY DEF Rules!Places
<1>2. Rules!Value(item, "name") \in {"null", Rules!NoText}
  BY DEF Rules!Text
<1>3. Rules!MappingIssues(item) # {}
  <2>1. CASE "name" \notin DOMAIN item
    <3>1. "error" \in Rules!NameIssues(item)
      BY <2>1 DEF Rules!NameIssues
    <3> QED
      BY <3>1 DEF Rules!MappingIssues
  <2>2. CASE "name" \in DOMAIN item
    <3>1. item["name"] \in {"null", Rules!NoText}
      BY <1>2, <2>2 DEF Rules!Value
    <3>2. Rules!KeyIssues("name", item["name"]) # {}
      BY <3>1 DEF Rules!KeyIssues, Rules!Empty
    <3>3. "name" \in DOMAIN item \ {"sub"}
      BY <2>2
    <3> HIDE DEF item
    <3> QED
      BY <3>2, <3>3 DEF Rules!MappingIssues
  <2> QED
    BY <2>1, <2>2
<1> HIDE DEF item
<1>4. CASE issues.found[x[1]] = {"error"}
  BY <1>4
<1>5. CASE issues.found[x[1]] =
             UNION {Rules!MappingIssues(issues.of[x[1]][n]) : n \in DOMAIN issues.of[x[1]]}
  BY <1>1, <1>3, <1>5 DEF item
<1> QED
  BY <1>1, <1>4, <1>5 DEF DataInv

-----------------------------------------------------------------------------
(* images (Images).                                                        *)

\* A component of a path.  The provers do not know that "../temp" is a string.
Step     == (STRING \cup {"../temp"}) \X Nat
DirType  == {d \in Seq(Step) : d # <<>> /\ d[1][1] # "../temp"}
FileType == [dir : Seq(Step), base : Img!Bases, id : {f.id : f \in ImageFiles}]
PathType  == [dir : Seq(Step), base : Img!Bases]

\* The names that may hide d.
Named(d, n) == Img!Front(d) \o <<<<Img!Last(d)[1], n>>>>

\* d and p agree as far as d goes.
Above(d, p) == Len(d) <= Len(p) /\ \A i \in 1 .. Len(d) : p[i] = d[i]

LEMMA UnderIsAbove ==
  ASSUME NEW p \in Seq(Step), NEW d \in DirType
  PROVE  Img!Under(p, d) <=> Above(d, p)
<1>1. CASE Len(d) <= Len(p)
  <2> DEFINE s == SubSeq(p, 1, Len(d))
  <2>1. s \in Seq(Step) /\ Len(s) = Len(d) /\ \A i \in 1 .. Len(d) : s[i] = p[i]
    BY <1>1 DEF DirType
  <2>2. (\A i \in 1 .. Len(d) : s[i] = d[i]) => s = d
    BY <2>1, SeqEqual DEF DirType
  <2>3. s = d <=> \A i \in 1 .. Len(d) : p[i] = d[i]
    <3> HIDE DEF s
    <3> QED
      BY <2>1, <2>2
  <2> QED
    BY <1>1, <2>3 DEF Img!Under, Above
<1>2. CASE ~(Len(d) <= Len(p))
  BY <1>2 DEF Img!Under, Above, DirType
<1> QED
  BY <1>1, <1>2

LEMMA NamedIs ==
  ASSUME NEW d \in DirType, NEW n \in Nat
  PROVE  /\ Named(d, n) \in DirType /\ Len(Named(d, n)) = Len(d)
         /\ \A i \in 1 .. Len(d) - 1 : Named(d, n)[i] = d[i]
         /\ Named(d, n)[Len(d)] = <<d[Len(d)][1], n>>
         /\ Named(d, n)[1][1] = d[1][1]
<1> DEFINE F == SubSeq(d, 1, Len(d) - 1)
           c == <<d[Len(d)][1], n>>
<1>1. Len(d) \in Nat \ {0} /\ d \in Seq(Step)
  BY DEF DirType
<1>2. d[Len(d)] \in Step
  BY <1>1
<1>3. c \in Step
  BY <1>2 DEF Step
<1>4. F \in Seq(Step) /\ Len(F) = Len(d) - 1 /\ \A i \in 1 .. Len(d) - 1 : F[i] = d[i]
  <2>1. Len(d) - 1 \in Int /\ 1 \in Int /\ \A i \in 1 .. Len(d) - 1 : d[i] \in Step
    BY <1>1
  <2>2. /\ F \in Seq(Step)
        /\ Len(F) = IF 1 <= Len(d) - 1 THEN Len(d) - 1 - 1 + 1 ELSE 0
        /\ \A i \in 1 .. Len(d) - 1 - 1 + 1 : F[i] = d[1 + i - 1]
    BY <2>1, SubSeqProperties
  <2> HIDE DEF F
  <2>3. ASSUME NEW i \in 1 .. Len(d) - 1 PROVE F[i] = d[i]
    <3>1. i \in 1 .. Len(d) - 1 - 1 + 1 /\ 1 + i - 1 = i
      BY <1>1
    <3> QED
      BY <2>2, <3>1
  <2>4. Len(F) = Len(d) - 1
    <3> DEFINE k == Len(d)
    <3>1. k \in Nat \ {0} /\ Len(F) = IF 1 <= k - 1 THEN k - 1 - 1 + 1 ELSE 0
      BY <1>1, <2>2
    <3> HIDE DEF k
    <3>2. Len(F) = k - 1
      BY <3>1
    <3> QED
      BY <3>2 DEF k
  <2> QED
    BY <2>2, <2>3, <2>4
<1>5. Named(d, n) = F \o <<c>>
  BY DEF Named, Img!Front, Img!Last
<1> HIDE DEF F, c
<1>6. /\ F \o <<c>> \in Seq(Step) /\ Len(F \o <<c>>) = Len(d)
      /\ \A i \in 1 .. Len(d) - 1 : (F \o <<c>>)[i] = F[i]
      /\ (F \o <<c>>)[Len(d)] = c
  BY <1>1, <1>3, <1>4
<1>7. F \o <<c>> # <<>>
  BY <1>1, <1>6
<1>8. (F \o <<c>>)[1][1] = d[1][1]
  <2>1. c[1] = d[Len(d)][1]
    BY DEF c
  <2>2. CASE Len(d) = 1
    BY <1>6, <2>1, <2>2
  <2>3. CASE Len(d) # 1
    <3>1. 1 \in 1 .. Len(d) - 1
      <4> DEFINE k == Len(d)
      <4>1. k \in Nat \ {0} /\ k # 1
        BY <1>1, <2>3
      <4> HIDE DEF k
      <4>2. 1 \in 1 .. k - 1
        BY <4>1
      <4> QED
        BY <4>2 DEF k
    <3> QED
      BY <1>4, <1>6, <3>1
  <2> QED
    BY <2>2, <2>3
<1> DEFINE N == F \o <<c>>
<1>9. N \in DirType
  <2>1. N \in Seq(Step) /\ N # <<>> /\ N[1][1] = d[1][1] /\ d[1][1] # "../temp"
    BY <1>6, <1>7, <1>8 DEF DirType
  <2> HIDE DEF N
  <2> QED
    BY <2>1 DEF DirType
<1> QED
  BY <1>4, <1>5, <1>6, <1>8, <1>9 DEF c

\* A finite tree leaves a name to hide a directory under.
LEMMA HiddenIsNamed ==
  ASSUME dirs \subseteq DirType, IsFiniteSet(dirs), NEW d \in DirType
  PROVE  \E k \in Nat \ {0} : Img!Hidden(d) = Named(d, k)
<1> DEFINE K == 1 .. (Cardinality(dirs) + 1)
           Taken(n) == Named(d, n) \in dirs
<1>1. Cardinality(dirs) \in Nat
  BY FS_CardinalityType
<1>2. Img!Cardinality(dirs) = Cardinality(dirs)
  BY DEF Img!Cardinality, Cardinality
<1>3. \E n \in K : ~Taken(n)
  <2> SUFFICES ASSUME \A n \in K : Taken(n) PROVE FALSE
    OBVIOUS
  <2> DEFINE f == [n \in K |-> Named(d, n)]
  <2>1. f \in [K -> dirs]
    OBVIOUS
  <2>2. IsFiniteSet(K) /\ Cardinality(K) = Cardinality(dirs) + 1
    BY <1>1, FS_Interval
  <2>3. PICK m, n \in K : m # n /\ f[m] = f[n]
    <3> HIDE DEF K, f
    <3>1. Cardinality(dirs) < Cardinality(K)
      BY <1>1, <2>2
    <3> QED
      BY <2>1, <2>2, <3>1, FS_PigeonHole
  <2>4. m \in Nat /\ n \in Nat /\ Named(d, m) = Named(d, n)
    BY <1>1, <2>3
  <2>5. <<d[Len(d)][1], m>> = <<d[Len(d)][1], n>>
    BY <2>4, NamedIs
  <2> QED
    BY <2>3, <2>5
<1>4. \E n \in K : ~Taken(n) /\ \A m \in 1 .. (n - 1) : Taken(m)
  <2> DEFINE T == {n \in K : ~Taken(n)}
  <2>1. T \subseteq Nat /\ T # {}
    BY <1>1, <1>3
  <2>2. PICK n \in T : \A m \in T : ~(<<m, n>> \in OpToRel(<, Nat))
    <3> HIDE DEF T
    <3> QED
      BY <2>1, NatLessThanWellFounded, WFMin
  <2>3. \A m \in T : ~(m < n)
    BY <2>1, <2>2 DEF OpToRel
  <2>4. ASSUME NEW m \in 1 .. (n - 1) PROVE Taken(m)
    <3>1. m \in K /\ m < n
      BY <1>1, <2>1
    <3> QED
      BY <2>3, <3>1
  <2> QED
    BY <2>4
<1> DEFINE Least(n) == n \in K /\ ~Taken(n) /\ \A m \in 1 .. (n - 1) : Taken(m)
           k == CHOOSE n \in K : ~Taken(n) /\ \A m \in 1 .. (n - 1) : Taken(m)
<1>5. Img!Hidden(d) = Named(d, k)
  BY <1>2, Zenon DEF Img!Hidden, Named
<1>6. k \in K
  BY <1>4, Zenon
<1>7. K \subseteq Nat \ {0}
  BY <1>1
<1> HIDE DEF k, K, Taken
<1> QED
  BY <1>5, <1>6, <1>7

\* Hiding d changes one component of what is in d, and nothing else.
LEMMA MovedIs ==
  ASSUME NEW d \in DirType, NEW k \in Nat \ {0}, NEW p \in Seq(Step)
  PROVE  LET m == Img!Moved(p, d, Named(d, k))
         IN  /\ m \in Seq(Step) /\ Len(m) = Len(p)
             /\ ~Above(d, p) => m = p
             /\ Above(d, p) => m[Len(d)][2] = k /\ Len(d) \in 1 .. Len(p)
             /\ p # <<>> => m # <<>> /\ m[1][1] = p[1][1]
<1> DEFINE N == Named(d, k)
           S == SubSeq(p, Len(d) + 1, Len(p))
<1>1. /\ N \in Seq(Step) /\ Len(N) = Len(d) /\ N[Len(d)] = <<d[Len(d)][1], k>>
      /\ N[1][1] = d[1][1]
      /\ Len(d) \in Nat \ {0} /\ Len(p) \in Nat
  BY NamedIs DEF DirType
<1>2. CASE ~Above(d, p)
  BY <1>2, UnderIsAbove DEF Img!Moved
<1>3. CASE Above(d, p)
  <2>1. Len(d) <= Len(p)
    BY <1>3 DEF Above
  <2>2. S \in Seq(Step) /\ Len(S) = Len(p) - Len(d)
    BY <1>1, <2>1
  <2>3. Img!Moved(p, d, N) = N \o S
    BY <1>3, UnderIsAbove DEF Img!Moved
  <2> HIDE DEF N, S
  <2>4. /\ N \o S \in Seq(Step) /\ Len(N \o S) = Len(p)
        /\ (N \o S)[Len(d)] = N[Len(d)]
    <3>1. N \o S \in Seq(Step) /\ Len(N \o S) = Len(p)
      <4>1. N \o S \in Seq(Step) /\ Len(N \o S) = Len(N) + Len(S)
        <5>1. N \in Seq(Step) /\ S \in Seq(Step)
          BY <1>1, <2>2
        <5> QED
          BY <5>1
      <4> DEFINE a == Len(p)
                 b == Len(d)
      <4>2. a \in Nat /\ b \in Nat /\ Len(N) = b /\ Len(S) = a - b
        BY <1>1, <2>2
      <4> HIDE DEF a, b
      <4>3. Len(N \o S) = a
        BY <4>1, <4>2
      <4> QED
        BY <4>1, <4>3 DEF a
    <3>2. Len(d) \in 1 .. Len(N)
      BY <1>1
    <3>3. (N \o S)[Len(d)] = N[Len(d)]
      BY <1>1, <2>2, <3>2
    <3> QED
      BY <3>1, <3>3
  <2>5. (N \o S)[1] = N[1] /\ N \o S # <<>>
    <3>1. 1 \in 1 .. Len(N)
      BY <1>1
    <3>2. (N \o S)[1] = N[1]
      BY <1>1, <2>2, <3>1
    <3>3. Len(N \o S) # 0
      BY <1>1, <2>1, <2>4
    <3> QED
      BY <3>2, <3>3
  <2>6. <<d[Len(d)][1], k>>[2] = k
    OBVIOUS
  <2>7. p[1] = d[1]
    BY <1>1, <1>3 DEF Above
  <2> QED
    BY <1>1, <1>3, <2>1, <2>3, <2>4, <2>6, <2>7, <2>5 DEF N
<1> QED
  BY <1>2, <1>3

ImgType ==
  /\ dirs \subseteq DirType /\ IsFiniteSet(dirs)
  /\ files \subseteq FileType
  /\ before[1] \subseteq DirType /\ before[2] \subseteq FileType
  /\ pc \in {"idle", "remove", "hide", "move"}
  /\ list \subseteq PathType /\ \A f \in list : Img!Visible(f.dir)
  /\ extra \subseteq DirType /\ \A e \in extra : Img!Visible(e)
  /\ left \subseteq IF pc = "idle" THEN {} ELSE IF pc = "hide" THEN extra ELSE list

\* What is lost is accounted for: what can be seen has not moved since the scan,
\* no two files are one, and while nothing fails .temp gets files of the root
\* only, whose names differ.
Accounted ==
  /\ Img!LossesAreNamed
  /\ \A g \in files : Img!Visible(g.dir) => g \in before[2]
  /\ \A g \in files : g.dir \in dirs \cup {<<>>, Img!Temp}
  /\ \A g, h \in files : g.id = h.id => g = h
  /\ \A g, h \in before[2] : g.id = h.id \/ (g.dir = <<>> /\ Img!Path(g) = Img!Path(h)) => g = h
  /\ settled => \A g \in files : g.dir = Img!Temp =>
       \E f \in before[2] : f.id = g.id /\ f.base = g.base /\ f.dir \in {<<>>, Img!Temp}

\* While nothing fails, what can be seen was seen by the scan, and what a loop
\* is done with needs it no more.
Settling ==
  /\ \A g \in files : Img!Visible(g.dir) => Img!Path(g) \in list
  /\ \A d \in dirs : Img!Visible(d) => d \in before[1]
  /\ \A d \in before[1] : Img!Visible(d) =>
       \/ d \in extra \/ d \in Expected
       \/ Img!IsParentOfExpected(d) /\ \A f \in list : f.dir # d
  /\ \A g, h \in files : Img!Visible(g.dir) /\ (pc = "remove" => Img!Path(g) \notin left) =>
       ~(Img!IsCopy(Img!Path(g)) /\ Img!Path(h) = Img!Original(Img!Path(g)))
  /\ pc # "remove" => \A e \in extra : (pc = "hide" => e \notin left) => e \notin dirs
  /\ pc \in {"move", "idle"} =>
       \A g \in files : g.dir = <<>> => pc = "move" /\ Img!Path(g) \in left

\* A container is hidden for a file of its own.
Excused ==
  /\ \A e \in extra : /\ e \notin Expected
                      /\ Img!IsParentOfExpected(e) => \E f \in before[2] : f.dir = e
  /\ \A d \in Expected : d \in before[1] /\ d \notin dirs =>
       \E p \in Img!Parents(d), f \in before[2] : f.dir = p

ImgInv == ImgType /\ Accounted /\ (settled => Settling) /\ Excused

LEMMA ImgRigid ==
  /\ \A d : Img!Visible(d)' = Img!Visible(d)
  /\ \A f : Img!Path(f)' = Img!Path(f)
  /\ \A f : Img!IsCopy(f)' = Img!IsCopy(f)
  /\ \A f : Img!Original(f)' = Img!Original(f)
  /\ \A d : Img!IsParentOfExpected(d)' = Img!IsParentOfExpected(d)
  /\ \A d : Img!Parents(d)' = Img!Parents(d)
  /\ Img!Temp' = Img!Temp
BY DEF Img!Visible, Img!Path, Img!IsCopy, Img!Original, Img!IsParentOfExpected, Img!Parents,
       Img!Front, Img!Temp

\* Nothing is lost by a step that leaves the tree and the history.
LEMMA QuietAccounts ==
  ASSUME Accounted, UNCHANGED <<dirs, files, before>>, settled' => settled
  PROVE  Accounted'
<1>1. \A f : /\ Img!Kept(f)' = Img!Kept(f) /\ Img!Duplicate(f)' = Img!Duplicate(f)
             /\ Img!Overwritten(f)' = Img!Overwritten(f)
  BY ImgRigid DEF Img!Kept, Img!Duplicate, Img!Overwritten
<1>2. Img!LossesAreNamed'
  BY <1>1 DEF Accounted, Img!LossesAreNamed
<1> QED
  BY <1>2, ImgRigid DEF Accounted

LEMMA DuplicatesStay ==
  ASSUME UNCHANGED before, NEW f, Img!Duplicate(f) PROVE Img!Duplicate(f)'
BY ImgRigid DEF Img!Duplicate

LEMMA TempIs == Img!Temp \in Seq(Step) \ DirType /\ ~Img!Visible(Img!Temp) /\ Img!Temp # <<>>
<1> DEFINE c == <<"../temp", 1>>
<1>1. c \in Step /\ c[2] = 1 /\ c[1] = "../temp"
  BY DEF Step
<1>2. Img!Temp = <<c>>
  BY DEF Img!Temp
<1> HIDE DEF c
<1>3. <<c>> \in Seq(Step) /\ Len(<<c>>) = 1 /\ <<c>>[1] = c /\ 1 \in DOMAIN <<c>>
  BY <1>1
<1>4. <<c>> # <<>>
  OBVIOUS
<1>5. ~Img!Visible(<<c>>)
  BY <1>1, <1>3 DEF Img!Visible
<1>6. <<c>> \notin DirType
  BY <1>1, <1>3 DEF DirType
<1> QED
  BY <1>2, <1>3, <1>4, <1>5, <1>6

LEMMA ImgInit == ASSUME Img!ImagesAssumption, Img!Init PROVE ImgInv
<1>1. \A S : Img!IsFiniteSet(S) <=> IsFiniteSet(S)
  BY DEF Img!IsFiniteSet, IsFiniteSet
<1>2. Dirs \subseteq DirType /\ IsFiniteSet(Dirs)
  <2>1. Img!Component \subseteq Step
    BY DEF Img!Component, Step
  <2>2. Seq(Img!Component) \subseteq Seq(Step)
    BY <2>1
  <2> QED
    BY <1>1, <2>2 DEF Img!ImagesAssumption, DirType
<1>3. ImageFiles \subseteq FileType
  <2> SUFFICES ASSUME NEW f \in ImageFiles PROVE f \in FileType
    OBVIOUS
  <2>1. f = [dir |-> f.dir, base |-> f.base, id |-> f.id] /\ f.base \in Img!Bases
    BY DEF Img!ImagesAssumption
  <2>2. f.dir \in Seq(Step)
    BY <1>2, EmptySeq, TempIs DEF Img!ImagesAssumption, Img!Root, DirType
  <2> QED
    BY <2>1, <2>2 DEF FileType
<1>4. dirs \subseteq DirType /\ IsFiniteSet(dirs) /\ files \subseteq FileType
  BY <1>2, <1>3, FS_Subset DEF Img!Init
<1>5. before = <<dirs, files>> /\ pc = "idle" /\ list = {} /\ extra = {} /\ left = {} /\ settled = FALSE
  BY DEF Img!Init, Img!tree
<1>6. ImgType
  BY <1>4, <1>5 DEF ImgType
<1>7. Accounted
  <2>1. before[2] = files /\ ~settled
    BY <1>5
  <2>2. Img!LossesAreNamed
    BY <2>1 DEF Img!LossesAreNamed, Img!Kept
  <2>3. /\ \A g, h \in files : g.id = h.id => g = h
        /\ \A g, h \in files : Img!Path(g) = Img!Path(h) => g = h
        /\ \A g \in files : g.dir \in dirs \cup {<<>>, Img!Temp}
    BY DEF Img!Init, Img!ImagesAssumption, Img!Root
  <2> QED
    BY <2>1, <2>2, <2>3 DEF Accounted
<1>8. Excused
  BY <1>5 DEF Excused
<1> QED
  BY <1>5, <1>6, <1>7, <1>8 DEF ImgInv

LEMMA PathIs ==
  ASSUME NEW f \in FileType
  PROVE  /\ Img!Path(f) \in PathType
         /\ Img!Path(f).dir = f.dir /\ Img!Path(f).base = f.base
         /\ \A x : /\ [f EXCEPT !.dir = x].dir = x /\ [f EXCEPT !.dir = x].base = f.base
                   /\ [f EXCEPT !.dir = x].id = f.id
         /\ \A x \in Seq(Step) : [f EXCEPT !.dir = x] \in FileType
         /\ [f EXCEPT !.dir = f.dir] = f
BY DEF Img!Path, FileType, PathType

LEMMA OriginalIs ==
  ASSUME NEW f \in PathType
  PROVE  /\ Img!Original(f).dir = f.dir
         /\ Img!Original(f).base = <<f.base[1], Img!Front(f.base[2])>>
         /\ f.base[1] \in STRING /\ f.base[2] \in Seq(STRING)
BY DEF Img!Original, PathType, Img!Bases

LEMMA NothingIsVisible == Img!Visible(<<>>)
BY DEF Img!Visible

\* What can be seen after a step was there before it.
Calm ==
  /\ \A d \in dirs' : Img!Visible(d) => d \in dirs
  /\ \A g \in files' : Img!Visible(g.dir) => g \in files

LEMMA CalmSettles ==
  ASSUME ImgType, ImgType', Settling, Calm, UNCHANGED <<pc, list, extra, before>>, pc # "idle",
         NEW x, left' = left \ {x},
         pc = "remove" => \A g, h \in files' : Img!Visible(g.dir) /\ Img!Path(g) = x =>
                            ~(Img!IsCopy(x) /\ Img!Path(h) = Img!Original(x)),
         pc = "hide" => x \notin dirs',
         pc = "move" => \A g \in files' : g.dir = <<>> => Img!Path(g) # x
  PROVE  Settling'
<1>1. \A g \in files' : Img!Visible(g.dir) => Img!Path(g) \in list
  BY DEF Calm, Settling
<1>2. \A d \in dirs' : Img!Visible(d) => d \in before[1]
  BY DEF Calm, Settling
<1>3. ASSUME NEW g \in files', NEW h \in files', Img!Visible(g.dir),
             pc = "remove" => Img!Path(g) \notin left \ {x},
             Img!IsCopy(Img!Path(g)), Img!Path(h) = Img!Original(Img!Path(g))
      PROVE  FALSE
  <2>1. g \in FileType /\ h \in FileType
    BY DEF ImgType
  <2>2. h.dir = g.dir
    BY <1>3, <2>1, PathIs, OriginalIs
  <2>3. g \in files /\ h \in files
    BY <1>3, <2>2 DEF Calm
  <2>4. ~(pc = "remove" /\ Img!Path(g) = x)
    BY <1>3
  <2>5. pc = "remove" => Img!Path(g) \notin left
    BY <1>3, <2>4
  <2> QED
    BY <1>3, <2>3, <2>5 DEF Settling
<1>4. ASSUME pc # "remove", NEW e \in extra, pc = "hide" => e \notin left \ {x}, e \in dirs'
      PROVE  FALSE
  <2>1. Img!Visible(e)
    BY DEF ImgType
  <2>2. e \in dirs
    BY <1>4, <2>1 DEF Calm
  <2>3. ~(pc = "hide" /\ e = x)
    BY <1>4
  <2> QED
    BY <1>4, <2>2, <2>3 DEF Settling
<1>5. ASSUME pc = "move", NEW g \in files', g.dir = <<>> PROVE Img!Path(g) \in left \ {x}
  <2>1. g \in files
    BY <1>5, NothingIsVisible DEF Calm
  <2> QED
    BY <1>5, <2>1 DEF Settling
<1> DEFINE L == left \ {x}
<1>6. /\ \A g, h \in files' : Img!Visible(g.dir) /\ (pc = "remove" => Img!Path(g) \notin L) =>
           ~(Img!IsCopy(Img!Path(g)) /\ Img!Path(h) = Img!Original(Img!Path(g)))
      /\ pc # "remove" => \A e \in extra : (pc = "hide" => e \notin L) => e \notin dirs'
      /\ pc = "move" => \A g \in files' : g.dir = <<>> => Img!Path(g) \in L
  BY <1>3, <1>4, <1>5
<1>7. \A d \in before[1] : Img!Visible(d) =>
        \/ d \in extra \/ d \in Expected
        \/ Img!IsParentOfExpected(d) /\ \A f \in list : f.dir # d
  BY DEF Settling
<1>8. left' = L
  OBVIOUS
<1> HIDE DEF L
<1> QED
  BY <1>1, <1>2, <1>6, <1>7, <1>8, ImgRigid DEF Settling

LEMMA ImgScan == ASSUME ImgInv, Img!Scan PROVE ImgInv'
<1>1. /\ pc = "idle" /\ pc' = "remove" /\ list' = Img!ActualFiles /\ left' = Img!ActualFiles
      /\ extra' = Img!ExtraDirs /\ before' = <<dirs, files>> /\ settled' = TRUE
      /\ UNCHANGED <<dirs, files>>
  BY DEF Img!Scan, Img!tree
<1>2. /\ \A f \in list' : f \in PathType /\ Img!Visible(f.dir)
      /\ \A g \in files : Img!Visible(g.dir) => Img!Path(g) \in list'
      /\ \A f \in list' : \E g \in files : f.dir = g.dir
  <2>1. \A g \in files : g \in FileType
    BY DEF ImgInv, ImgType
  <2> QED
    BY <1>1, <2>1, PathIs DEF Img!ActualFiles
<1>3. \A e \in extra' :
        /\ e \in dirs /\ Img!Visible(e) /\ e \notin Expected
        /\ Img!IsParentOfExpected(e) => \E f \in list' : f.dir = e
  BY <1>1 DEF Img!ExtraDirs, Img!Existing, Img!DirHasDirectFiles
<1>4. \A d \in dirs : Img!Visible(d) /\ d \notin extra' /\ d \notin Expected =>
        Img!IsParentOfExpected(d) /\ \A f \in list' : f.dir # d
  BY <1>1 DEF Img!ExtraDirs, Img!Existing, Img!DirHasDirectFiles
<1>5. before'[1] = dirs /\ before'[2] = files
  BY <1>1
<1>6. ImgType'
  BY <1>1, <1>2, <1>3, <1>5, ImgRigid DEF ImgInv, ImgType
<1>7. Accounted'
  <2>1. Img!LossesAreNamed'
    BY <1>1, <1>5 DEF Img!LossesAreNamed, Img!Kept
  <2>2. \A g, h \in files : g.dir = <<>> /\ Img!Path(g) = Img!Path(h) => g = h
    <3> SUFFICES ASSUME NEW g \in files, NEW h \in files,
                        g.dir = <<>>, Img!Path(g) = Img!Path(h)
                 PROVE  g = h
      OBVIOUS
    <3>1. h.dir = <<>>
      <4>1. g \in FileType /\ h \in FileType
        BY DEF ImgInv, ImgType
      <4> QED
        BY <4>1, PathIs
    <3>2. g \in before[2] /\ h \in before[2]
      BY <3>1, NothingIsVisible DEF ImgInv, Accounted
    <3> QED
      BY <3>2 DEF ImgInv, Accounted
  <2>3. /\ \A g \in files : g.dir \in dirs \cup {<<>>, Img!Temp}
        /\ \A g, h \in files : g.id = h.id => g = h
    BY DEF ImgInv, Accounted
  <2> QED
    BY <1>1, <1>5, <2>1, <2>2, <2>3, ImgRigid DEF Accounted
<1>8. Settling'
  BY <1>1, <1>2, <1>4, <1>5, ImgRigid DEF Settling
<1>9. Excused'
  <2>1. \A e \in extra' : Img!IsParentOfExpected(e) => \E f \in files : f.dir = e
    BY <1>2, <1>3
  <2> QED
    BY <1>1, <1>3, <1>5, <2>1, ImgRigid DEF Excused
<1> QED
  BY <1>6, <1>7, <1>8, <1>9 DEF ImgInv

\* The end of a loop, and of the command.
LEMMA ImgEnds == ASSUME ImgInv, Img!NextLoop \/ Img!Kill PROVE ImgInv'
<1>1. UNCHANGED <<dirs, files, list, extra, before>> /\ pc # "idle"
  BY DEF Img!NextLoop, Img!Kill, Img!tree, Img!hist
<1>2. Excused'
  BY <1>1, ImgRigid DEF ImgInv, Excused
<1>3. \/ pc' = "idle" /\ left' = {} /\ settled' = FALSE
      \/ /\ left = {} /\ settled' = settled
         /\ \/ pc = "remove" /\ pc' = "hide" /\ left' = extra
            \/ pc = "hide" /\ pc' = "move" /\ left' = list
            \/ pc = "move" /\ pc' = "idle" /\ left' = {}
  BY DEF Img!NextLoop, Img!Kill, Img!hist, ImgInv, ImgType
<1>4. ImgType'
  BY <1>1, <1>3, ImgRigid DEF ImgInv, ImgType
<1>5. Accounted'
  BY <1>1, <1>3, QuietAccounts DEF ImgInv
<1>6. ASSUME settled' PROVE Settling'
  <2> DEFINE Twins == \A g, h \in files : Img!Visible(g.dir) =>
                        ~(Img!IsCopy(Img!Path(g)) /\ Img!Path(h) = Img!Original(Img!Path(g)))
             Parts == /\ \A g \in files : Img!Visible(g.dir) => Img!Path(g) \in list
                      /\ \A d \in dirs : Img!Visible(d) => d \in before[1]
                      /\ \A d \in before[1] : Img!Visible(d) =>
                           \/ d \in extra \/ d \in Expected
                           \/ Img!IsParentOfExpected(d) /\ \A f \in list : f.dir # d
  <2>1. settled /\ Settling /\ left = {}
    BY <1>3, <1>6 DEF ImgInv
  <2>2. Parts /\ Twins
    BY <2>1 DEF Settling
  <2>3. pc' \in {"hide", "move", "idle"} /\ (pc' = "hide" => left' = extra)
    BY <1>3, <2>1, <1>6
  <2>4. pc' \in {"move", "idle"} => \A e \in extra : e \notin dirs
    BY <1>3, <2>1, <1>6 DEF Settling
  <2>5. ASSUME pc' \in {"move", "idle"}, NEW g \in files, g.dir = <<>>
        PROVE  pc' = "move" /\ Img!Path(g) \in left'
    <3>1. Img!Path(g) \in list
      BY <2>2, <2>5, NothingIsVisible
    <3> QED
      BY <1>3, <1>6, <2>1, <2>5, <3>1 DEF Settling
  <2>6. pc' # "remove" => \A e \in extra : (pc' = "hide" => e \notin left') => e \notin dirs
    BY <2>3, <2>4
  <2> QED
    BY <1>1, <2>2, <2>3, <2>5, <2>6, ImgRigid DEF Settling
<1> QED
  BY <1>2, <1>4, <1>6, <1>5 DEF ImgInv

\* A step of a loop that leaves the tree as it is.
LEMMA ImgQuiet ==
  ASSUME ImgInv, UNCHANGED <<dirs, files, pc, list, extra, before>>, pc # "idle",
         NEW x, left' = left \ {x},
         settled' => /\ settled
                     /\ pc = "remove" => ~(Img!IsCopy(x) /\ Img!There(Img!Original(x)))
                     /\ pc = "hide" => x \notin dirs
                     /\ pc = "move" => x.dir # <<>> \/ ~Img!There(x)
  PROVE  ImgInv'
<1>1. Accounted' /\ Excused'
  <2>1. Accounted'
    BY QuietAccounts DEF ImgInv
  <2> QED
    BY <2>1, ImgRigid DEF ImgInv, Excused
<1>2. ImgType'
  BY ImgRigid DEF ImgInv, ImgType
<1>3. ASSUME settled' PROVE Settling'
  <2>1. Calm
    BY DEF Calm
  <2>2. pc = "remove" => \A g, h \in files' : Img!Visible(g.dir) /\ Img!Path(g) = x =>
                            ~(Img!IsCopy(x) /\ Img!Path(h) = Img!Original(x))
    BY <1>3 DEF Img!There
  <2>3. ASSUME pc = "move", NEW g \in files', g.dir = <<>>, Img!Path(g) = x PROVE FALSE
    <3>1. g \in FileType /\ x.dir = <<>>
      <4>1. g \in FileType
        BY DEF ImgInv, ImgType
      <4> QED
        BY <2>3, <4>1, PathIs
    <3> QED
      BY <1>3, <2>3, <3>1 DEF Img!There
  <2> QED
    BY <1>2, <1>3, <2>1, <2>2, <2>3, CalmSettles DEF ImgInv
<1> QED
  BY <1>1, <1>2, <1>3 DEF ImgInv

LEMMA ImgRemove == ASSUME ImgInv, NEW f \in left, Img!RemoveDuplicate(f) PROVE ImgInv'
<1>1. /\ pc = "remove" /\ left' = left \ {f}
      /\ UNCHANGED <<dirs, pc, list, extra, before>>
  BY DEF Img!RemoveDuplicate, Img!Fail, Img!tree
<1>2. \/ /\ UNCHANGED files
         /\ settled' => settled /\ ~(Img!IsCopy(f) /\ Img!There(Img!Original(f)))
      \/ /\ Img!IsCopy(f) /\ Img!There(Img!Original(f))
         /\ Img!Delete(f) /\ settled' = settled
  BY DEF Img!RemoveDuplicate, Img!Fail, Img!tree
<1>3. CASE UNCHANGED files /\ (settled' => settled /\ ~(Img!IsCopy(f) /\ Img!There(Img!Original(f))))
  BY <1>1, <1>3, ImgQuiet
<1>4. CASE /\ Img!IsCopy(f) /\ Img!There(Img!Original(f))
           /\ Img!Delete(f) /\ settled' = settled
  <2>1. files' = {g \in files : Img!Path(g) # f}
    BY <1>4 DEF Img!Delete
  <2>2. f \in PathType
    BY <1>1 DEF ImgInv, ImgType
  <2>3. PICK o \in files : Img!Path(o) = Img!Original(f)
    BY <1>4 DEF Img!There
  <2>4. o \in FileType /\ files \subseteq FileType
    BY DEF ImgInv, ImgType
  <2>5. ImgType'
    BY <1>1, <2>1, ImgRigid DEF ImgInv, ImgType
  <2>6. Img!Visible(f.dir) /\ o.dir = f.dir
    <3>1. Img!Visible(f.dir)
      BY <1>1 DEF ImgInv, ImgType
    <3> QED
      BY <2>2, <2>3, <2>4, <3>1, PathIs, OriginalIs
  <2>7. ASSUME NEW g \in files, Img!Path(g) = f PROVE g \in before[2] /\ Img!Duplicate(g)
    <3>1. g \in FileType /\ g.dir = f.dir /\ g.base = f.base
      BY <2>2, <2>4, <2>7, PathIs
    <3>2. g \in before[2] /\ o \in before[2]
      BY <2>6, <3>1 DEF ImgInv, Accounted
    <3>3. Img!IsCopy(g)
      BY <1>4, <3>1 DEF Img!IsCopy
    <3> QED
      BY <2>3, <2>7, <3>2, <3>3 DEF Img!Duplicate
  <2>8. Img!LossesAreNamed'
    <3> SUFFICES ASSUME NEW i \in before[2]
                 PROVE  \/ Img!Kept(i)' \/ Img!Duplicate(i)'
                        \/ Img!Overwritten(i)' /\ (i.dir = Img!Temp \/ ~settled')
      BY <1>1, ImgRigid DEF Img!LossesAreNamed
    <3>1. CASE Img!Kept(i)
      <4>1. PICK g \in files : g.id = i.id /\ g.base = i.base
        BY <3>1 DEF Img!Kept
      <4>2. CASE Img!Path(g) = f
        <5>1. g = i
          BY <2>7, <4>1, <4>2 DEF ImgInv, Accounted
        <5> QED
          BY <1>1, <2>7, <4>2, <5>1, DuplicatesStay
      <4>3. CASE Img!Path(g) # f
        BY <2>1, <4>1, <4>3 DEF Img!Kept
      <4> QED
        BY <4>2, <4>3
    <3>2. CASE Img!Duplicate(i)
      BY <1>1, <3>2, DuplicatesStay
    <3>3. CASE Img!Overwritten(i) /\ (i.dir = Img!Temp \/ ~settled)
      <4>1. PICK g \in files : g.dir = Img!Temp /\ g.base = i.base /\ g.id # i.id
        BY <3>3 DEF Img!Overwritten
      <4>2. Img!Path(g) # f
        <5>1. g \in FileType
          BY <2>4
        <5> QED
          BY <2>6, <4>1, <5>1, PathIs, TempIs
      <4> QED
        BY <1>4, <2>1, <3>3, <4>1, <4>2, ImgRigid DEF Img!Overwritten
    <3> QED
      BY <3>1, <3>2, <3>3 DEF ImgInv, Accounted, Img!LossesAreNamed
  <2>9. Accounted'
    <3>1. files' \subseteq files
      BY <2>1
    <3> QED
      BY <1>1, <1>4, <2>8, <3>1, ImgRigid DEF ImgInv, Accounted
  <2>10. Excused'
    BY <1>1, ImgRigid DEF ImgInv, Excused
  <2>11. ASSUME settled' PROVE Settling'
    <3>1. Calm
      BY <1>1, <2>1 DEF Calm
    <3>2. \A g \in files' : Img!Path(g) # f
      BY <2>1
    <3> QED
      BY <1>1, <1>4, <2>5, <2>11, <3>1, <3>2, CalmSettles DEF ImgInv
  <2> QED
    BY <2>5, <2>9, <2>10, <2>11 DEF ImgInv
<1> QED
  BY <1>2, <1>3, <1>4

LEMMA ImgHide == ASSUME ImgInv, NEW d \in left, Img!HideExtraDir(d) PROVE ImgInv'
<1>1. /\ pc = "hide" /\ left' = left \ {d}
      /\ UNCHANGED <<pc, list, extra, before>>
  BY DEF Img!HideExtraDir, Img!Fail, Img!tree
<1>2. \/ UNCHANGED <<dirs, files>> /\ (settled' => settled /\ d \notin dirs)
      \/ /\ d \in dirs /\ settled' = settled
         /\ dirs' = {Img!Moved(p, d, Img!Hidden(d)) : p \in dirs}
         /\ files' = {[f EXCEPT !.dir = Img!Moved(f.dir, d, Img!Hidden(d))] : f \in files}
  BY DEF Img!HideExtraDir, Img!Fail, Img!tree
<1>3. CASE UNCHANGED <<dirs, files>> /\ (settled' => settled /\ d \notin dirs)
  BY <1>1, <1>3, ImgQuiet
<1>4. CASE /\ d \in dirs /\ settled' = settled
           /\ dirs' = {Img!Moved(p, d, Img!Hidden(d)) : p \in dirs}
           /\ files' = {[f EXCEPT !.dir = Img!Moved(f.dir, d, Img!Hidden(d))] : f \in files}
  <2>1. /\ dirs \subseteq DirType /\ IsFiniteSet(dirs) /\ files \subseteq FileType
        /\ d \in extra /\ d \in DirType /\ Img!Visible(d)
    BY <1>1 DEF ImgInv, ImgType
  <2>2. PICK k \in Nat \ {0} : Img!Hidden(d) = Named(d, k)
    BY <2>1, HiddenIsNamed
  <2> DEFINE M(p) == Img!Moved(p, d, Named(d, k))
  <2>3. \A p \in Seq(Step) :
          /\ M(p) \in Seq(Step) /\ Len(M(p)) = Len(p)
          /\ ~Above(d, p) => M(p) = p
          /\ Above(d, p) => M(p)[Len(d)][2] = k /\ Len(d) \in 1 .. Len(p)
          /\ p # <<>> => M(p) # <<>> /\ M(p)[1][1] = p[1][1]
    BY <2>1, MovedIs
  <2> DEFINE N(f) == [f EXCEPT !.dir = M(f.dir)]
  <2>4. dirs' = {M(p) : p \in dirs} /\ files' = {N(f) : f \in files}
    BY <1>4, <2>2
  <2> HIDE DEF M
  <2>5. \A p \in Seq(Step) : Img!Visible(M(p)) => M(p) = p /\ ~Above(d, p)
    BY <2>3 DEF Img!Visible
  <2>6. Above(d, d)
    BY <2>1 DEF Above, DirType
  <2>7. Calm /\ d \notin dirs'
    <3>1. \A q \in dirs' : Img!Visible(q) => q \in dirs /\ q # d
      BY <2>1, <2>4, <2>5, <2>6 DEF DirType
    <3>2. ASSUME NEW g \in files', Img!Visible(g.dir) PROVE g \in files
      <4>1. PICK f \in files : g = [f EXCEPT !.dir = M(f.dir)]
        BY <2>4
      <4>2. f \in FileType /\ f.dir \in Seq(Step)
        BY <2>1 DEF FileType
      <4>3. g.dir = M(f.dir)
        BY <4>1, <4>2, PathIs
      <4>4. M(f.dir) = f.dir
        BY <2>5, <3>2, <4>2, <4>3
      <4> QED
        BY <4>1, <4>2, <4>4, PathIs
    <3> QED
      BY <2>1, <3>1, <3>2 DEF Calm
  <2>8. dirs' \subseteq DirType
    <3> SUFFICES ASSUME NEW p \in dirs PROVE M(p) \in DirType
      BY <2>4
    <3>1. p \in Seq(Step) /\ p # <<>> /\ p[1][1] # "../temp"
      BY <2>1 DEF DirType
    <3>2. M(p) \in Seq(Step) /\ M(p) # <<>> /\ M(p)[1][1] # "../temp"
      BY <2>3, <3>1
    <3> QED
      BY <3>2 DEF DirType
  <2>9. IsFiniteSet(dirs')
    <3> DEFINE h == [p \in dirs |-> M(p)]
    <3>1. h \in [dirs -> dirs'] /\ \A q \in dirs' : \E p \in dirs : h[p] = q
      BY <2>4
    <3> HIDE DEF h
    <3>2. h \in Surjection(dirs, dirs')
      BY <3>1 DEF Surjection
    <3> QED
      BY <2>1, <3>2, FS_Surjection
  <2>10. /\ files' \subseteq FileType
         /\ \A f \in files : N(f).base = f.base /\ N(f).id = f.id /\ N(f).dir = M(f.dir)
    <3> SUFFICES ASSUME NEW f \in files
                 PROVE  /\ N(f) \in FileType /\ N(f).dir = M(f.dir)
                        /\ N(f).base = f.base /\ N(f).id = f.id
      BY <2>4
    <3>1. f \in FileType /\ M(f.dir) \in Seq(Step)
      BY <2>1, <2>3 DEF FileType
    <3> QED
      BY <3>1, PathIs
  <2>11. ImgType'
    BY <1>1, <2>8, <2>9, <2>10, ImgRigid DEF ImgInv, ImgType
  <2>12. ASSUME NEW g \in files
         PROVE  /\ N(g).dir \in dirs' \cup {<<>>, Img!Temp}
                /\ N(g).dir = Img!Temp <=> g.dir = Img!Temp
    <3>1. CASE g.dir \in dirs
      <4>1. M(g.dir) \in dirs'
        BY <2>4, <3>1
      <4> QED
        BY <2>1, <2>8, <2>10, <3>1, <4>1, TempIs
    <3>2. CASE g.dir = <<>> \/ g.dir = Img!Temp
      <4>1. ~Above(d, g.dir)
        <5>1. Len(d) \in Nat \ {0} /\ d[1][1] # "../temp"
          BY <2>1 DEF DirType
        <5>2. ~Above(d, <<>>)
          BY <5>1 DEF Above
        <5>3. ~Above(d, Img!Temp)
          <6> DEFINE c == <<"../temp", 1>>
          <6>1. c[1] = "../temp" /\ Img!Temp = <<c>>
            BY DEF Img!Temp
          <6> HIDE DEF c
          <6>2. 1 \in 1 .. Len(d) /\ <<c>>[1] # d[1]
            BY <5>1, <6>1
          <6> QED
            BY <6>1, <6>2 DEF Above
        <5> QED
          BY <3>2, <5>2, <5>3
      <4>2. g.dir \in Seq(Step)
        BY <2>1 DEF FileType
      <4>3. M(g.dir) = g.dir
        BY <2>3, <4>1, <4>2
      <4> QED
        BY <2>10, <3>2, <4>3
    <3> QED
      BY <3>1, <3>2 DEF ImgInv, Accounted
  <2>13. Img!LossesAreNamed'
    <3> SUFFICES ASSUME NEW i \in before[2]
                 PROVE  \/ Img!Kept(i)' \/ Img!Duplicate(i)'
                        \/ Img!Overwritten(i)' /\ (i.dir = Img!Temp \/ ~settled')
      BY <1>1, ImgRigid DEF Img!LossesAreNamed
    <3>1. Img!Kept(i) => Img!Kept(i)'
      <4> SUFFICES ASSUME NEW g \in files, g.id = i.id, g.base = i.base PROVE Img!Kept(i)'
        BY DEF Img!Kept
      <4> QED
        BY <2>4, <2>10 DEF Img!Kept
    <3>2. Img!Overwritten(i) => Img!Overwritten(i)'
      <4> SUFFICES ASSUME NEW g \in files, g.dir = Img!Temp, g.base = i.base, g.id # i.id
                   PROVE  Img!Overwritten(i)'
        BY DEF Img!Overwritten
      <4> QED
        BY <2>4, <2>10, <2>12, ImgRigid DEF Img!Overwritten
    <3> QED
      BY <1>1, <1>4, <3>1, <3>2, DuplicatesStay DEF ImgInv, Accounted, Img!LossesAreNamed
  <2>14. \A g, h \in files' : g.id = h.id => g = h
    <3>1. ASSUME NEW g \in files, NEW h \in files, N(g).id = N(h).id PROVE N(g) = N(h)
      <4>1. g = h
        BY <2>10, <3>1 DEF ImgInv, Accounted
      <4> QED
        BY <4>1
    <3> HIDE DEF N
    <3> QED
      BY <2>4, <3>1
  <2>15. ASSUME settled', NEW g \in files', g.dir = Img!Temp
         PROVE  \E f \in before[2] : f.id = g.id /\ f.base = g.base /\ f.dir \in {<<>>, Img!Temp}
    <3>1. PICK h \in files : g = N(h)
      BY <2>4
    <3>2. h.dir = Img!Temp /\ h.id = g.id /\ h.base = g.base
      BY <2>10, <2>12, <2>15, <3>1
    <3> QED
      BY <1>4, <2>15, <3>2 DEF ImgInv, Accounted
  <2>16. Accounted'
    <3>1. \A g \in files' : g.dir \in dirs' \cup {<<>>, Img!Temp}
      BY <2>4, <2>12
    <3>2. \A g \in files' : Img!Visible(g.dir) => g \in before[2]
      BY <2>7 DEF Calm, ImgInv, Accounted
    <3>3. \A g, h \in before[2] : g.id = h.id \/ (g.dir = <<>> /\ Img!Path(g) = Img!Path(h)) => g = h
      BY DEF ImgInv, Accounted
    <3> HIDE DEF N
    <3> QED
      BY <1>1, <2>13, <2>14, <2>15, <3>1, <3>2, <3>3, ImgRigid DEF Accounted
  <2>17. Excused'
    <3>1. ASSUME NEW e \in Expected, e \in before[1], e \notin dirs'
          PROVE  \E p \in Img!Parents(e), f \in before[2] : f.dir = p
      <4>1. CASE e \notin dirs
        BY <3>1, <4>1 DEF ImgInv, Excused
      <4>2. CASE e \in dirs
        <5>1. e \in Seq(Step) /\ e # <<>>
          BY <2>1, <4>2 DEF DirType
        <5>2. Above(d, e)
          <6>1. M(e) \in dirs'
            BY <2>4, <4>2
          <6> QED
            BY <2>3, <3>1, <5>1, <6>1
        <5>3. d # e
          BY <2>1 DEF ImgInv, Excused
        <5>4. Img!Under(e, d)
          BY <2>1, <5>1, <5>2, UnderIsAbove
        <5>5. Len(d) <= Len(e) /\ SubSeq(e, 1, Len(d)) = d
          BY <5>4 DEF Img!Under
        <5>6. Len(d) # Len(e)
          <6>1. SubSeq(e, 1, Len(e)) = e
            BY <5>1
          <6> QED
            BY <5>3, <5>5, <6>1
        <5>7. Len(d) \in 1 .. Len(e) - 1
          BY <2>1, <5>1, <5>5, <5>6 DEF DirType
        <5>8. d \in Img!Parents(e)
          BY <5>5, <5>7 DEF Img!Parents
        <5>9. Img!IsParentOfExpected(d)
          BY <5>8 DEF Img!IsParentOfExpected
        <5>10. \E f \in before[2] : f.dir = d
          BY <2>1, <5>9 DEF ImgInv, Excused
        <5> QED
          BY <5>8, <5>10
      <4> QED
        BY <4>1, <4>2
    <3> QED
      BY <1>1, <3>1, ImgRigid DEF ImgInv, Excused
  <2>18. ASSUME settled' PROVE Settling'
    BY <1>1, <1>4, <2>7, <2>11, <2>18, CalmSettles DEF ImgInv
  <2> QED
    BY <2>11, <2>16, <2>17, <2>18 DEF ImgInv
<1> QED
  BY <1>2, <1>3, <1>4

LEMMA ImgMove == ASSUME ImgInv, NEW f \in left, Img!MoveExtraFile(f) PROVE ImgInv'
<1>1. /\ pc = "move" /\ left' = left \ {f}
      /\ UNCHANGED <<dirs, pc, list, extra, before>>
  BY DEF Img!MoveExtraFile, Img!Fail, Img!tree
<1>2. \/ /\ UNCHANGED files
         /\ settled' => settled /\ (f.dir # <<>> \/ ~Img!There(f))
      \/ /\ Img!There(f) /\ f.dir \in extra \cup {<<>>} /\ settled' = settled
         /\ files' = {[g EXCEPT !.dir = IF Img!Path(g) = f THEN Img!Temp ELSE g.dir] :
                        g \in {h \in files : ~(h.dir = Img!Temp /\ h.base = f.base)}}
  BY DEF Img!MoveExtraFile, Img!Fail, Img!tree, Img!Root
<1>3. CASE UNCHANGED files /\ (settled' => settled /\ (f.dir # <<>> \/ ~Img!There(f)))
  BY <1>1, <1>3, ImgQuiet
<1>4. CASE /\ Img!There(f) /\ f.dir \in extra \cup {<<>>} /\ settled' = settled
           /\ files' = {[g EXCEPT !.dir = IF Img!Path(g) = f THEN Img!Temp ELSE g.dir] :
                          g \in {h \in files : ~(h.dir = Img!Temp /\ h.base = f.base)}}
  <2> DEFINE M(g) == [g EXCEPT !.dir = IF Img!Path(g) = f THEN Img!Temp ELSE g.dir]
             Covered(g) == g.dir = Img!Temp /\ g.base = f.base
  <2>1. files' = {M(g) : g \in {h \in files : ~Covered(h)}}
    BY <1>4
  <2>2. Img!Temp \in Seq(Step) /\ ~Img!Visible(Img!Temp) /\ Img!Temp # <<>>
    BY TempIs
  <2>3. f \in PathType /\ Img!Visible(f.dir) /\ files \subseteq FileType
    BY <1>1 DEF ImgInv, ImgType
  <2>4. \A g \in FileType :
          /\ M(g) \in FileType /\ M(g).base = g.base /\ M(g).id = g.id
          /\ Img!Path(g) = f => M(g).dir = Img!Temp
          /\ Img!Path(g) # f => M(g) = g
    <3> SUFFICES ASSUME NEW g \in FileType
                 PROVE  /\ M(g) \in FileType /\ M(g).base = g.base /\ M(g).id = g.id
                        /\ Img!Path(g) = f => M(g).dir = Img!Temp
                        /\ Img!Path(g) # f => M(g) = g
      OBVIOUS
    <3>1. g.dir \in Seq(Step)
      BY DEF FileType
    <3>2. CASE Img!Path(g) = f
      BY <2>2, <3>2, PathIs
    <3>3. CASE Img!Path(g) # f
      BY <3>1, <3>3, PathIs
    <3> QED
      BY <3>2, <3>3
  <2> HIDE DEF M
  <2>5. PICK o \in files : Img!Path(o) = f
    BY <1>4 DEF Img!There
  <2>6. o.dir = f.dir /\ o.base = f.base /\ o \in FileType
    BY <2>3, <2>5, PathIs
  <2>7. /\ M(o) \in files' /\ M(o).base = f.base /\ M(o).id = o.id /\ M(o).dir = Img!Temp
        /\ o \in before[2]
    <3>1. o \in before[2]
      BY <2>3, <2>6 DEF ImgInv, Accounted
    <3>2. o.dir # Img!Temp
      BY <2>2, <2>3, <2>6
    <3> QED
      BY <2>1, <2>3, <2>4, <2>5, <2>6, <3>1, <3>2
  <2>8. \A g \in files' : Img!Visible(g.dir) => g \in files /\ Img!Path(g) # f
    <3> SUFFICES ASSUME NEW h \in files, Img!Visible(M(h).dir)
                 PROVE  M(h) \in files /\ Img!Path(M(h)) # f
      BY <2>1
    <3>1. h \in FileType
      BY <2>3
    <3>2. Img!Path(h) # f
      BY <2>2, <2>4, <3>1
    <3> QED
      BY <2>4, <3>1, <3>2
  <2>9. ImgType'
    <3>1. files' \subseteq FileType
      BY <2>1, <2>3, <2>4
    <3> QED
      BY <1>1, <3>1, ImgRigid DEF ImgInv, ImgType
  <2>10. settled => f.dir = <<>>
    <3>1. f.dir = <<>> \/ f.dir \in extra
      BY <1>4
    <3>2. ASSUME settled, f.dir \in extra PROVE FALSE
      <4>1. f.dir \notin dirs
        BY <1>1, <3>2 DEF ImgInv, Settling
      <4>2. f.dir # <<>> /\ f.dir # Img!Temp
        BY <3>2, TempIs DEF ImgInv, ImgType, DirType
      <4> QED
        BY <2>6, <4>1, <4>2 DEF ImgInv, Accounted
    <3> QED
      BY <3>1, <3>2
  <2>11. ASSUME settled, NEW g \in files, Covered(g), NEW i \in before[2], g.id = i.id, o.id # g.id
         PROVE  i.dir = Img!Temp
    <3>1. PICK x \in before[2] : x.id = g.id /\ x.base = g.base /\ x.dir \in {<<>>, Img!Temp}
      BY <2>11 DEF ImgInv, Accounted
    <3>2. x = i
      BY <2>11, <3>1 DEF ImgInv, Accounted
    <3>3. ASSUME x.dir = <<>> PROVE FALSE
      <4>1. x.dir = o.dir /\ x.base = o.base
        BY <2>6, <2>10, <2>11, <3>1, <3>3
      <4>2. Img!Path(x) = Img!Path(o)
        BY <4>1 DEF Img!Path
      <4>3. x = o
        BY <2>7, <3>1, <3>3, <4>2 DEF ImgInv, Accounted
      <4> QED
        BY <2>11, <3>1, <4>3
    <3> QED
      BY <3>1, <3>2, <3>3
  <2>12. Img!LossesAreNamed'
    <3> SUFFICES ASSUME NEW i \in before[2]
                 PROVE  \/ Img!Kept(i)' \/ Img!Duplicate(i)'
                        \/ Img!Overwritten(i)' /\ (i.dir = Img!Temp \/ ~settled')
      BY <1>1, ImgRigid DEF Img!LossesAreNamed
    <3>1. CASE Img!Kept(i)
      <4>1. PICK g \in files : g.id = i.id /\ g.base = i.base
        BY <3>1 DEF Img!Kept
      <4>2. CASE ~Covered(g)
        BY <2>1, <2>3, <2>4, <4>1, <4>2 DEF Img!Kept
      <4>3. CASE Covered(g) /\ o.id = g.id
        BY <2>7, <4>1, <4>3 DEF Img!Kept
      <4>4. CASE Covered(g) /\ o.id # g.id
        <5>1. Img!Overwritten(i)'
          BY <2>7, <4>1, <4>4, ImgRigid DEF Img!Overwritten
        <5>2. i.dir = Img!Temp \/ ~settled
          BY <2>11, <4>1, <4>4
        <5> QED
          BY <1>4, <5>1, <5>2
      <4> QED
        BY <4>2, <4>3, <4>4
    <3>2. CASE Img!Duplicate(i)
      BY <1>1, <3>2, DuplicatesStay
    <3>3. CASE Img!Overwritten(i) /\ (i.dir = Img!Temp \/ ~settled)
      <4>1. PICK g \in files : g.dir = Img!Temp /\ g.base = i.base /\ g.id # i.id
        BY <3>3 DEF Img!Overwritten
      <4>2. CASE ~Covered(g)
        <5>1. g \in FileType
          BY <2>3
        <5>2. Img!Path(g) # f
          BY <2>2, <2>3, <4>1, <5>1, PathIs
        <5>3. g \in files'
          BY <2>1, <2>4, <4>2, <5>1, <5>2
        <5> QED
          BY <1>4, <3>3, <4>1, <5>3, ImgRigid DEF Img!Overwritten
      <4>3. CASE Covered(g) /\ o.id # i.id
        BY <1>4, <2>7, <3>3, <4>1, <4>3, ImgRigid DEF Img!Overwritten
      <4>4. CASE Covered(g) /\ o.id = i.id
        BY <2>7, <4>1, <4>4 DEF Img!Kept
      <4> QED
        BY <4>2, <4>3, <4>4
    <3> QED
      BY <3>1, <3>2, <3>3 DEF ImgInv, Accounted, Img!LossesAreNamed
  <2>13. ASSUME NEW g \in files, ~Covered(g)
         PROVE  /\ M(g).dir \in dirs \cup {<<>>, Img!Temp}
                /\ settled /\ M(g).dir = Img!Temp =>
                     \E x \in before[2] : x.id = g.id /\ x.base = g.base /\ x.dir \in {<<>>, Img!Temp}
    <3>1. CASE Img!Path(g) # f
      BY <2>3, <2>4, <3>1 DEF ImgInv, Accounted
    <3>2. CASE Img!Path(g) = f
      <4>1. g.dir = f.dir
        BY <2>3, <3>2, PathIs
      <4>2. g \in before[2]
        BY <2>3, <4>1 DEF ImgInv, Accounted
      <4> QED
        BY <2>3, <2>4, <2>10, <3>2, <4>1, <4>2
    <3> QED
      BY <3>1, <3>2
  <2>14. Accounted'
    <3>1. \A g \in files' : g.dir \in dirs \cup {<<>>, Img!Temp}
      BY <2>1, <2>13
    <3>2. \A g \in files' : Img!Visible(g.dir) => g \in before[2]
      BY <2>8 DEF ImgInv, Accounted
    <3>3. \A g, h \in files' : g.id = h.id => g = h
      <4> SUFFICES ASSUME NEW g \in files, NEW h \in files, M(g).id = M(h).id PROVE M(g) = M(h)
        BY <2>1
      <4>1. g.id = h.id
        BY <2>3, <2>4
      <4> QED
        BY <4>1 DEF ImgInv, Accounted
    <3>4. settled => \A g \in files' : g.dir = Img!Temp =>
            \E x \in before[2] : x.id = g.id /\ x.base = g.base /\ x.dir \in {<<>>, Img!Temp}
      <4> SUFFICES ASSUME settled, NEW g \in files, ~Covered(g), M(g).dir = Img!Temp
                   PROVE  \E x \in before[2] : /\ x.id = M(g).id /\ x.base = M(g).base
                                               /\ x.dir \in {<<>>, Img!Temp}
        BY <2>1
      <4>1. M(g).id = g.id /\ M(g).base = g.base
        BY <2>3, <2>4
      <4> QED
        BY <2>13, <4>1
    <3>5. \A g, h \in before[2] : g.id = h.id \/ (g.dir = <<>> /\ Img!Path(g) = Img!Path(h)) => g = h
      BY DEF ImgInv, Accounted
    <3> QED
      BY <1>1, <1>4, <2>12, <3>1, <3>2, <3>3, <3>4, <3>5, ImgRigid DEF Accounted
  <2>15. Excused'
    BY <1>1, ImgRigid DEF ImgInv, Excused
  <2>16. ASSUME settled' PROVE Settling'
    <3>1. Calm
      BY <1>1, <2>8 DEF Calm
    <3>2. \A g \in files' : g.dir = <<>> => Img!Path(g) # f
      BY <2>8, NothingIsVisible
    <3> QED
      BY <1>1, <1>4, <2>9, <2>16, <3>1, <3>2, CalmSettles DEF ImgInv
  <2> QED
    BY <2>9, <2>15, <2>16, <2>14 DEF ImgInv
<1> QED
  BY <1>2, <1>3, <1>4

LEMMA ImgNext == ASSUME ImgInv, [Img!Next]_(Img!vars) PROVE ImgInv'
<1>1. CASE UNCHANGED Img!vars
  <2>1. UNCHANGED <<dirs, files, pc, list, extra, left, before, settled>>
    BY <1>1 DEF Img!vars, Img!tree, Img!run, Img!hist
  <2> QED
    BY <2>1, QuietAccounts, ImgRigid DEF ImgInv, ImgType, Settling, Excused
<1> QED
  BY <1>1, ImgScan, ImgEnds, ImgRemove, ImgHide, ImgMove DEF Img!Next

LEMMA ImgHolds ==
  ImgInv => Img!LossesAreNamed /\ Img!OneApplySettles /\ Img!OnlyStrayFilesHide
<1> SUFFICES ASSUME ImgInv
             PROVE  Img!LossesAreNamed /\ Img!OneApplySettles /\ Img!OnlyStrayFilesHide
  OBVIOUS
<1>1. Img!LossesAreNamed /\ Img!OnlyStrayFilesHide
  BY DEF ImgInv, Accounted, Excused, Img!OnlyStrayFilesHide
<1>2. ASSUME settled, pc = "idle"
      PROVE  /\ Img!ExtraDirs = {}
             /\ \A f \in Img!ActualFiles :
                  f.dir # Img!Root /\ ~(Img!IsCopy(f) /\ Img!There(Img!Original(f)))
  <2>1. Settling
    BY <1>2 DEF ImgInv
  <2>2. ASSUME NEW f \in Img!ActualFiles
        PROVE  f.dir # Img!Root /\ ~(Img!IsCopy(f) /\ Img!There(Img!Original(f)))
    <3>1. PICK g \in files : f = Img!Path(g) /\ Img!Visible(g.dir)
      BY DEF Img!ActualFiles
    <3>2. f.dir = g.dir
      <4>1. g \in FileType
        BY DEF ImgInv, ImgType
      <4> QED
        BY <3>1, <4>1, PathIs
    <3> QED
      BY <1>2, <2>1, <3>1, <3>2 DEF Settling, Img!There, Img!Root
  <2>3. ASSUME NEW d \in Img!ExtraDirs PROVE FALSE
    <3>1. /\ d \in dirs /\ Img!Visible(d) /\ d \notin Expected
          /\ ~(Img!IsParentOfExpected(d) /\ \A f \in Img!ActualFiles : f.dir # d)
      BY DEF Img!ExtraDirs, Img!Existing, Img!DirHasDirectFiles
    <3>2. d \notin extra
      BY <1>2, <2>1, <3>1 DEF Settling
    <3>3. Img!IsParentOfExpected(d) /\ \A f \in list : f.dir # d
      BY <2>1, <3>1, <3>2 DEF Settling
    <3>4. Img!ActualFiles \subseteq list
      BY <2>1 DEF Settling, Img!ActualFiles
    <3> QED
      BY <3>1, <3>3, <3>4
  <2> QED
    BY <2>2, <2>3
<1> QED
  BY <1>1, <1>2 DEF Img!OneApplySettles

-----------------------------------------------------------------------------
(* bills (BillImport).  First, sums over finite sets.                      *)

Pick(s) == CHOOSE x \in s : TRUE

\* g is the sum of w over each subset of S, taken element by element.
Sums(w, S, g) ==
  g = [s \in SUBSET S |-> IF s = {} THEN 0 ELSE w[Pick(s)] + g[s \ {Pick(s)}]]

UpTo(S, n) == {s \in SUBSET S : Cardinality(s) <= n}

\* The same for the subsets that have n elements at most.
SumsUpTo(w, S, n, g) ==
  g = [s \in UpTo(S, n) |-> IF s = {} THEN 0 ELSE w[Pick(s)] + g[s \ {Pick(s)}]]

LEMMA LeastOf ==
  ASSUME NEW T \in SUBSET Nat, T # {}
  PROVE  \E n \in T : \A m \in T : n <= m
<1>1. PICK n \in T : \A m \in T : <<m, n>> \notin OpToRel(<, Nat)
  BY NatLessThanWellFounded, WFMin
<1>2. \A m \in T : ~(m < n)
  BY <1>1 DEF OpToRel
<1> QED
  BY <1>2

LEMMA FirstIn ==
  ASSUME NEW S, IsFiniteSet(S), NEW s \in SUBSET S, s # {}
  PROVE  /\ Pick(s) \in s /\ IsFiniteSet(s) /\ Cardinality(s) \in Nat
         /\ s \ {Pick(s)} \in SUBSET S
         /\ \A x \in s : Cardinality(s \ {x}) = Cardinality(s) - 1
<1>1. IsFiniteSet(s)
  BY FS_Subset
<1>2. Pick(s) \in s
  BY DEF Pick
<1> QED
  BY <1>1, <1>2, FS_CardinalityType, FS_RemoveElement

LEMMA SumsUpToGrow ==
  ASSUME NEW w, NEW S, IsFiniteSet(S), NEW n \in Nat, NEW g, SumsUpTo(w, S, n, g)
  PROVE  \E h : SumsUpTo(w, S, n + 1, h)
<1> DEFINE h == [s \in UpTo(S, n + 1) |->
                   IF s = {} THEN 0 ELSE w[Pick(s)] + g[s \ {Pick(s)}]]
<1>1. ASSUME NEW s \in UpTo(S, n) PROVE s \in UpTo(S, n + 1) /\ h[s] = g[s]
  <2>1. s \in UpTo(S, n + 1)
    <3>1. Cardinality(s) \in Nat
      BY FS_Subset, FS_CardinalityType DEF UpTo
    <3> QED
      BY <3>1 DEF UpTo
  <2> QED
    BY <2>1 DEF SumsUpTo
<1>2. ASSUME NEW s \in UpTo(S, n + 1), s # {}
      PROVE  h[s] = w[Pick(s)] + h[s \ {Pick(s)}]
  <2>1. s \ {Pick(s)} \in UpTo(S, n)
    BY <1>2, FirstIn DEF UpTo
  <2>2. h[s \ {Pick(s)}] = g[s \ {Pick(s)}]
    BY <1>1, <2>1
  <2> QED
    BY <1>2, <2>2
<1>3. \A s \in UpTo(S, n + 1) :
        h[s] = IF s = {} THEN 0 ELSE w[Pick(s)] + h[s \ {Pick(s)}]
  BY <1>2
<1>4. h = [s \in UpTo(S, n + 1) |-> h[s]]
  OBVIOUS
<1> HIDE DEF h
<1>5. h = [s \in UpTo(S, n + 1) |-> IF s = {} THEN 0 ELSE w[Pick(s)] + h[s \ {Pick(s)}]]
  BY <1>3, <1>4
<1> QED
  BY <1>5 DEF SumsUpTo

LEMMA SumsExist ==
  ASSUME NEW w, NEW S, IsFiniteSet(S)
  PROVE  \E g : Sums(w, S, g)
<1> DEFINE Bad == {n \in Nat : ~\E g : SumsUpTo(w, S, n, g)}
<1>1. \E g : SumsUpTo(w, S, 0, g)
  <2> DEFINE g == [s \in UpTo(S, 0) |-> 0]
  <2>1. \A s \in UpTo(S, 0) : s = {}
    BY FirstIn, FS_EmptySet DEF UpTo
  <2>2. g = [s \in UpTo(S, 0) |-> IF s = {} THEN 0 ELSE w[Pick(s)] + g[s \ {Pick(s)}]]
    BY <2>1
  <2> HIDE DEF g
  <2> QED
    BY <2>2 DEF SumsUpTo
<1>2. Bad = {}
  <2> SUFFICES ASSUME Bad # {} PROVE FALSE
    OBVIOUS
  <2>1. PICK n \in Bad : \A m \in Bad : n <= m
    BY LeastOf
  <2>2. n # 0
    BY <1>1, <2>1
  <2>3. n - 1 \in Nat /\ n - 1 \notin Bad
    BY <2>1, <2>2
  <2>4. PICK g : SumsUpTo(w, S, n - 1, g)
    BY <2>3
  <2>5. \E h : SumsUpTo(w, S, (n - 1) + 1, h)
    BY <2>3, <2>4, SumsUpToGrow
  <2>6. (n - 1) + 1 = n
    BY <2>3
  <2> QED
    BY <2>1, <2>5, <2>6
<1>3. Cardinality(S) \in Nat
  BY FS_CardinalityType
<1>4. PICK g : SumsUpTo(w, S, Cardinality(S), g)
  BY <1>2, <1>3
<1>5. UpTo(S, Cardinality(S)) = SUBSET S
  BY FS_Subset DEF UpTo
<1> QED
  BY <1>4, <1>5 DEF SumsUpTo, Sums

LEMMA TotalIs ==
  ASSUME NEW w, NEW S, IsFiniteSet(S)
  PROVE  \E g : Sums(w, S, g) /\ Bill!Total(w, S) = g[S]
<1> DEFINE g == CHOOSE iter : Sums(w, S, iter)
<1>1. Sums(w, S, g)
  BY SumsExist
<1>2. Bill!Total(w, S) = g[S]
  BY DEF Bill!Total, Bill!MapThenSumSet, Bill!MapThenFoldSet, Sums, Pick
<1> QED
  BY <1>1, <1>2

(* A sum does not depend on the element that is taken first.               *)
LEMMA TakeAny ==
  ASSUME NEW S, IsFiniteSet(S), NEW w, \A x \in S : w[x] \in Int, NEW g, Sums(w, S, g)
  PROVE  /\ g[{}] = 0
         /\ \A s \in SUBSET S : g[s] \in Int
         /\ \A s \in SUBSET S : \A x \in s : g[s] = w[x] + g[s \ {x}]
<1> DEFINE Fine(s) == g[s] \in Int /\ \A x \in s : g[s] = w[x] + g[s \ {x}]
           Bad == {Cardinality(s) : s \in {t \in SUBSET S : ~Fine(t)}}
<1>0. /\ g[{}] = 0
      /\ \A s \in SUBSET S : s # {} => g[s] = w[Pick(s)] + g[s \ {Pick(s)}]
  BY DEF Sums
<1>1. Bad = {}
  <2> SUFFICES ASSUME Bad # {} PROVE FALSE
    OBVIOUS
  <2>1. Bad \in SUBSET Nat
    BY FS_Subset, FS_CardinalityType
  <2>2. PICK n \in Bad : \A m \in Bad : n <= m
    BY <2>1, LeastOf
  <2>3. PICK s \in SUBSET S : ~Fine(s) /\ n = Cardinality(s)
    BY <2>2
  <2>4. \A t \in SUBSET S : Cardinality(t) < n => Fine(t)
    <3> SUFFICES ASSUME NEW t \in SUBSET S, Cardinality(t) < n, ~Fine(t) PROVE FALSE
      OBVIOUS
    <3>1. Cardinality(t) \in Bad
      OBVIOUS
    <3> HIDE DEF Bad, Fine
    <3>2. n <= Cardinality(t) /\ n \in Nat /\ Cardinality(t) \in Nat
      BY <2>1, <2>2, <3>1
    <3> QED
      BY <3>2
  <2>5. s # {}
    <3>1. Fine({})
      BY <1>0
    <3> HIDE DEF Fine
    <3> QED
      BY <2>3, <3>1
  <2> DEFINE p == Pick(s)
  <2>6. /\ p \in s /\ Cardinality(s) \in Nat
        /\ \A x \in s : Cardinality(s \ {x}) = Cardinality(s) - 1
    BY <2>5, FirstIn
  <2> HIDE DEF Bad, Fine
  <2>7. \A x \in s : Fine(s \ {x})
    BY <2>3, <2>4, <2>6
  <2>8. g[s] = w[p] + g[s \ {p}]
    BY <1>0, <2>5
  <2> HIDE DEF p
  <2>9. g[s] \in Int
    BY <2>6, <2>7, <2>8 DEF Fine
  <2>10. ASSUME NEW x \in s PROVE g[s] = w[x] + g[s \ {x}]
    <3>1. CASE x = p
      BY <2>8, <3>1
    <3>2. CASE x # p
      <4>1. x \in s \ {p} /\ p \in s \ {x}
        BY <2>6, <3>2
      <4>2. g[s \ {p}] = w[x] + g[(s \ {p}) \ {x}]
        BY <2>6, <2>7, <4>1 DEF Fine
      <4>3. g[s \ {x}] = w[p] + g[(s \ {x}) \ {p}]
        BY <2>7, <4>1 DEF Fine
      <4>4. (s \ {x}) \ {p} = (s \ {p}) \ {x}
        OBVIOUS
      <4>5. w[x] \in Int /\ w[p] \in Int
        BY <2>6
      <4>6. Fine((s \ {p}) \ {x})
        <5>1. Cardinality((s \ {p}) \ {x}) = Cardinality(s \ {p}) - 1
          <6>1. IsFiniteSet(s \ {p})
            BY FS_Subset
          <6> QED
            BY <4>1, <6>1, FS_RemoveElement
        <5>2. (s \ {p}) \ {x} \in SUBSET S
          OBVIOUS
        <5> QED
          BY <2>3, <2>4, <2>6, <5>1, <5>2
      <4>7. g[(s \ {p}) \ {x}] \in Int
        BY <4>6 DEF Fine
      <4>8. \A a, b, c \in Int : a + (b + c) = b + (a + c)
        OBVIOUS
      <4>9. g[s] = w[p] + (w[x] + g[(s \ {p}) \ {x}])
        BY <2>8, <4>2
      <4>10. g[s \ {x}] = w[p] + g[(s \ {p}) \ {x}]
        BY <4>3, <4>4
      <4> QED
        BY <4>5, <4>7, <4>8, <4>9, <4>10
    <3> QED
      BY <3>1, <3>2
  <2> QED
    BY <2>3, <2>9, <2>10 DEF Fine
<1>2. \A s \in SUBSET S : Fine(s)
  BY <1>1
<1> QED
  BY <1>0, <1>2

(* Two sums are equal if their terms are, one by one.                      *)
LEMMA SameTotal ==
  ASSUME NEW S, IsFiniteSet(S), NEW w, \A x \in S : w[x] \in Int,
         NEW R, IsFiniteSet(R), NEW v, \A x \in R : v[x] \in Int,
         NEW h \in Bijection(S, R), \A x \in S : v[h[x]] = w[x]
  PROVE  Bill!Total(w, S) = Bill!Total(v, R)
<1>1. PICK g : Sums(w, S, g) /\ Bill!Total(w, S) = g[S]
  BY TotalIs
<1>2. PICK k : Sums(v, R, k) /\ Bill!Total(v, R) = k[R]
  BY TotalIs
<1>3. h \in [S -> R] /\ (\A x, y \in S : h[x] = h[y] => x = y) /\ {h[x] : x \in S} = R
  BY DEF Bijection, Injection, IsInjective, Surjection
<1>4. /\ g[{}] = 0
      /\ \A s \in SUBSET S : g[s] \in Int
      /\ \A s \in SUBSET S : \A x \in s : g[s] = w[x] + g[s \ {x}]
  BY <1>1, TakeAny
<1>5. /\ k[{}] = 0
      /\ \A s \in SUBSET R : k[s] \in Int
      /\ \A s \in SUBSET R : \A x \in s : k[s] = v[x] + k[s \ {x}]
  BY <1>2, TakeAny
<1> DEFINE Image(s) == {h[x] : x \in s}
           Bad == {Cardinality(s) : s \in {t \in SUBSET S : g[t] # k[Image(t)]}}
<1>6. Bad = {}
  <2> SUFFICES ASSUME Bad # {} PROVE FALSE
    OBVIOUS
  <2>1. Bad \in SUBSET Nat
    <3>1. \A s \in SUBSET S : Cardinality(s) \in Nat
      BY FS_Subset, FS_CardinalityType
    <3> HIDE DEF Image
    <3> QED
      BY <3>1
  <2>2. PICK n \in Bad : \A m \in Bad : n <= m
    BY <2>1, LeastOf
  <2>3. PICK s \in SUBSET S : g[s] # k[Image(s)] /\ n = Cardinality(s)
    BY <2>2
  <2>4. s # {}
    <3>1. Image({}) = {}
      OBVIOUS
    <3> QED
      BY <1>4, <1>5, <2>3, <3>1
  <2>5. PICK x \in s : TRUE
    BY <2>4
  <2>6. IsFiniteSet(s) /\ Cardinality(s \ {x}) = Cardinality(s) - 1 /\ Cardinality(s) \in Nat
    BY <2>4, <2>5, FirstIn
  <2>7. g[s \ {x}] = k[Image(s \ {x})]
    <3> SUFFICES ASSUME g[s \ {x}] # k[Image(s \ {x})] PROVE FALSE
      OBVIOUS
    <3>1. s \ {x} \in SUBSET S
      OBVIOUS
    <3>2. Cardinality(s \ {x}) \in Bad
      BY <3>1
    <3> HIDE DEF Bad
    <3> QED
      BY <2>1, <2>2, <2>3, <2>6, <3>2
  <2>8. Image(s \ {x}) = Image(s) \ {h[x]}
    BY <1>3
  <2>9. Image(s) \in SUBSET R /\ h[x] \in Image(s)
    BY <1>3
  <2> HIDE DEF Image, Bad
  <2>10. g[s] = w[x] + g[s \ {x}]
    BY <1>4
  <2>11. k[Image(s)] = v[h[x]] + k[Image(s) \ {h[x]}]
    BY <1>5, <2>9
  <2>12. v[h[x]] = w[x]
    OBVIOUS
  <2> QED
    BY <2>3, <2>7, <2>8, <2>10, <2>11, <2>12
<1>7. g[S] = k[Image(S)]
  <2> SUFFICES ASSUME g[S] # k[Image(S)] PROVE FALSE
    OBVIOUS
  <2>1. Cardinality(S) \in Bad
    OBVIOUS
  <2> HIDE DEF Bad
  <2> QED
    BY <1>6, <2>1
<1> QED
  BY <1>1, <1>2, <1>3, <1>7

-----------------------------------------------------------------------------
(* The order of an import.                                                 *)

LEMMA InOrderIs ==
  ASSUME NEW S, IsFiniteSet(S), NEW R, Orders(R, S)
  PROVE  /\ Cardinality(S) \in Nat /\ Bill!Cardinality(S) = Cardinality(S)
         /\ Bill!InOrder(S, R) \in [1 .. Cardinality(S) -> S]
         /\ \A m, n \in 1 .. Cardinality(S) :
              Bill!InOrder(S, R)[m] = Bill!InOrder(S, R)[n] => m = n
<1> DEFINE order == Bill!InOrder(S, R)
           N == Cardinality(S)
<1>1. N \in Nat
  BY FS_CardinalityType
<1>2. \A T : Bill!Cardinality(T) = Cardinality(T)
  BY DEF Bill!Cardinality, Cardinality
<1>3. order = [n \in 1 .. Bill!Cardinality(S) |->
                 CHOOSE x \in S : Bill!Cardinality(Below(S, R, x)) = n - 1]
  BY DEF Bill!InOrder, Below
<1> HIDE DEF order
<1>4. ASSUME NEW n \in 1 .. N
      PROVE  order[n] \in S /\ Cardinality(Below(S, R, order[n])) = n - 1
  <2>1. \E x \in S : Bill!Cardinality(Below(S, R, x)) = n - 1
    BY <1>2, EveryRank
  <2>2. order[n] = CHOOSE x \in S : Bill!Cardinality(Below(S, R, x)) = n - 1
    BY <1>2, <1>3
  <2> QED
    BY <1>2, <2>1, <2>2
<1>5. ASSUME NEW m \in 1 .. N, NEW n \in 1 .. N, order[m] = order[n] PROVE m = n
  <2>1. m - 1 = n - 1
    BY <1>4, <1>5
  <2> QED
    BY <1>1, <2>1
<1>6. order \in [1 .. N -> S]
  BY <1>2, <1>3, <1>4
<1> QED
  BY <1>1, <1>2, <1>5, <1>6 DEF order

\* An order by up to three keys, the last of which are all different.
LEMMA LexOrders ==
  ASSUME NEW S, NEW R, NEW a, NEW b, NEW c,
         \A i \in S : a[i] \in Int /\ b[i] \in Int /\ c[i] \in Int,
         \A i, j \in S : i # j => a[i] # a[j] \/ b[i] # b[j] \/ c[i] # c[j],
         \A i, j \in S : <<i, j>> \in R <=>
           \/ a[i] < a[j]
           \/ a[i] = a[j] /\ b[i] < b[j]
           \/ a[i] = a[j] /\ b[i] = b[j] /\ c[i] < c[j]
  PROVE  Orders(R, S)
<1>1. ASSUME NEW i \in S, NEW j \in S, NEW k \in S
      PROVE  /\ <<i, i>> \notin R
             /\ i # j => <<i, j>> \in R \/ <<j, i>> \in R
             /\ <<i, j>> \in R /\ <<j, k>> \in R => <<i, k>> \in R
  OBVIOUS
<1> QED
  BY <1>1 DEF Orders

\* What a record of a bill has, whatever the rules say of it.
Records(s, n) ==
  /\ n \in Nat /\ DOMAIN s = 1 .. n /\ s = [i \in 1 .. n |-> s[i]]
  /\ \A i \in 1 .. n : /\ {"id", "trade", "amount"} \subseteq DOMAIN s[i]
                       /\ s[i].trade \in Int /\ s[i].amount \in Int
Distinct(s) == \A i, j \in DOMAIN s : s[i].id = s[j].id => i = j

\* Records may be taken in any order.
LEMMA Reordered ==
  ASSUME NEW s, NEW n \in Nat, Records(s, n),
         NEW m \in Nat, NEW order \in [1 .. m -> 1 .. n],
         NEW u, u = [i \in 1 .. m |-> s[order[i]]]
  PROVE  Records(u, m)
<1>1. ASSUME NEW i \in 1 .. m
      PROVE  /\ {"id", "trade", "amount"} \subseteq DOMAIN u[i]
             /\ u[i].trade \in Int /\ u[i].amount \in Int
  <2>1. u[i] = s[order[i]] /\ order[i] \in 1 .. n
    OBVIOUS
  <2> DEFINE j == order[i]
  <2>2. /\ {"id", "trade", "amount"} \subseteq DOMAIN s[j]
        /\ s[j].trade \in Int /\ s[j].amount \in Int
    BY <2>1 DEF Records
  <2> HIDE DEF j
  <2> QED
    BY <2>1, <2>2 DEF j
<1>2. DOMAIN u = 1 .. m /\ u = [i \in 1 .. m |-> u[i]]
  OBVIOUS
<1> QED
  BY <1>1, <1>2 DEF Records

\* The bills: each lists trades, and each trade once.
BillsInv ==
  /\ exports \in Seq([source : Bill!Sources, rows : SUBSET [trade : Trades, state : Bill!States]])
  /\ \A f \in DOMAIN exports : \A q, r \in exports[f].rows : q.trade = r.trade => q = r

LEMMA AmountIs ==
  ASSUME Bill!BillImportAssumption, NEW row \in [trade : Trades, state : Bill!States]
  PROVE  Bill!Amount(row) \in Int
<1>1. Trade[row.trade].price \in Nat
  BY DEF Bill!BillImportAssumption
<1> QED
  BY <1>1 DEF Bill!Amount, Bill!NonNegativeNet, Bill!Refund

LEMMA ElementOf ==
  ASSUME NEW R, NEW s \in Seq(R), NEW i \in DOMAIN s
  PROVE  s[i] \in R
OBVIOUS

LEMMA RowsAre ==
  ASSUME BillsInv, NEW f \in DOMAIN exports, NEW row \in exports[f].rows
  PROVE  row \in [trade : Trades, state : Bill!States]
<1>1. exports[f] \in [source : Bill!Sources, rows : SUBSET [trade : Trades, state : Bill!States]]
  <2> DEFINE R == [source : Bill!Sources, rows : SUBSET [trade : Trades, state : Bill!States]]
  <2>1. exports \in Seq(R)
    BY DEF BillsInv
  <2> HIDE DEF R
  <2>2. exports[f] \in R
    BY <2>1, ElementOf
  <2> QED
    BY <2>2 DEF R
<1>2. exports[f].rows \in SUBSET [trade : Trades, state : Bill!States]
  BY <1>1
<1> QED
  BY <1>2

LEMMA InputsAre ==
  ASSUME NEW chosen \in Bill!Inputs
  PROVE  \E m \in Nat : chosen \in [1 .. m -> DOMAIN exports]
<1>1. chosen \in Bill!BoundedSeq(DOMAIN exports, 2)
  BY DEF Bill!Inputs
<1>2. PICK m \in 0 .. 2 : chosen \in [1 .. m -> DOMAIN exports]
  BY <1>1 DEF Bill!BoundedSeq, Bill!SeqOf
<1> QED
  BY <1>2

LEMMA ParseRowsIs ==
  ASSUME Bill!BillImportAssumption, BillsInv, NEW chosen \in Bill!Inputs
  PROVE  \E n \in Nat : Records(Bill!ParseRows(chosen), n)
<1> DEFINE Row  == [trade : Trades, state : Bill!States]
           rows == UNION {{[at |-> i, row |-> row] : row \in exports[chosen[i]].rows} : i \in DOMAIN chosen}
           kept == {r \in rows : ~Bill!Dropped(r.row)}
           Earlier == {x \in kept \X kept : \/ x[1].at < x[2].at
                                            \/ x[1].at = x[2].at /\ x[1].row.trade < x[2].row.trade}
           order == Bill!InOrder(kept, Earlier)
<1>1. PICK m \in Nat : chosen \in [1 .. m -> DOMAIN exports]
  BY InputsAre
<1>2. \A r \in rows : r.at \in 1 .. m /\ r.row \in Row /\ r.row \in exports[chosen[r.at]].rows
                      /\ r = [at |-> r.at, row |-> r.row]
  <2> SUFFICES ASSUME NEW i \in DOMAIN chosen, NEW row \in exports[chosen[i]].rows
               PROVE  i \in 1 .. m /\ row \in Row
    OBVIOUS
  <2>1. i \in 1 .. m /\ chosen[i] \in DOMAIN exports
    BY <1>1
  <2> QED
    BY <2>1, RowsAre
<1>3. IsFiniteSet(kept)
  <2>1. IsFiniteSet(Row)
    <3>1. IsFiniteSet(Trades \X Bill!States)
      <4>1. IsFiniteSet(Bill!States)
        <5>1. Bill!States = ((({} \cup {"future"}) \cup {"paid"}) \cup {"part"}) \cup {"full"}
          BY DEF Bill!States
        <5>2. /\ IsFiniteSet({} \cup {"future"})
              /\ IsFiniteSet(({} \cup {"future"}) \cup {"paid"})
          BY FS_EmptySet, FS_AddElement
        <5>3. IsFiniteSet((({} \cup {"future"}) \cup {"paid"}) \cup {"part"})
          BY <5>2, FS_AddElement
        <5> QED
          BY <5>1, <5>3, FS_AddElement
      <4>2. IsFiniteSet(Trades)
        BY DEF Bill!BillImportAssumption, Bill!IsFiniteSet, IsFiniteSet
      <4> QED
        BY <4>1, <4>2, FS_Product
    <3> DEFINE f == [p \in Trades \X Bill!States |-> [trade |-> p[1], state |-> p[2]]]
    <3>2. f \in Surjection(Trades \X Bill!States, Row)
      <4>1. f \in [Trades \X Bill!States -> Row]
        OBVIOUS
      <4>2. ASSUME NEW r \in Row PROVE \E p \in Trades \X Bill!States : f[p] = r
        <5>1. <<r.trade, r.state>> \in Trades \X Bill!States /\ f[<<r.trade, r.state>>] = r
          OBVIOUS
        <5> QED
          BY <5>1
      <4> HIDE DEF f
      <4> QED
        BY <4>1, <4>2 DEF Surjection
    <3> HIDE DEF f, Row
    <3> QED
      BY <3>1, <3>2, FS_Surjection
  <2>2. IsFiniteSet((1 .. m) \X Row)
    <3>1. IsFiniteSet(1 .. m)
      BY <1>1, FS_Interval
    <3> HIDE DEF Row
    <3> QED
      BY <2>1, <3>1, FS_Product
  <2> DEFINE h == [p \in (1 .. m) \X Row |-> [at |-> p[1], row |-> p[2]]]
             All == {[at |-> p[1], row |-> p[2]] : p \in (1 .. m) \X Row}
  <2>3. h \in Surjection((1 .. m) \X Row, All)
    <3> HIDE DEF Row
    <3>1. h \in [(1 .. m) \X Row -> All]
      OBVIOUS
    <3>2. \A r \in All : \E p \in (1 .. m) \X Row : h[p] = r
      OBVIOUS
    <3> HIDE DEF h, All
    <3> QED
      BY <3>1, <3>2 DEF Surjection
  <2>4. IsFiniteSet(All)
    <3> HIDE DEF h, All, Row
    <3> QED
      BY <2>2, <2>3, FS_Surjection
  <2>5. kept \in SUBSET All
    <3> SUFFICES ASSUME NEW r \in rows PROVE r \in All
      OBVIOUS
    <3>1. <<r.at, r.row>> \in (1 .. m) \X Row /\ r = [at |-> r.at, row |-> r.row]
      BY <1>2
    <3> HIDE DEF rows, Row
    <3> QED
      BY <3>1
  <2> HIDE DEF kept, All
  <2> QED
    BY <2>4, <2>5, FS_Subset
<1>4. Orders(Earlier, kept)
  <2>1. \A r \in kept : r \in rows
    OBVIOUS
  <2> HIDE DEF rows
  <2>2. \A r \in kept : r.at \in Int /\ r.row.trade \in Int
    BY <1>2, <2>1 DEF Bill!BillImportAssumption
  <2>3. ASSUME NEW q \in kept, NEW r \in kept, q # r
        PROVE  q.at # r.at \/ q.row.trade # r.row.trade
    <3>1. /\ q = [at |-> q.at, row |-> q.row] /\ q.row \in exports[chosen[q.at]].rows
          /\ r = [at |-> r.at, row |-> r.row] /\ r.row \in exports[chosen[r.at]].rows
          /\ chosen[q.at] \in DOMAIN exports
      BY <1>1, <1>2, <2>1
    <3> QED
      BY <2>3, <3>1 DEF BillsInv
  <2>4. \A q, r \in kept : <<q, r>> \in Earlier <=>
          q.at < r.at \/ (q.at = r.at /\ q.row.trade < r.row.trade)
    OBVIOUS
  <2> HIDE DEF kept, Earlier
  <2> DEFINE a == [r \in kept |-> r.at]
             b == [r \in kept |-> r.row.trade]
  <2>5. \A i \in kept : a[i] = i.at /\ b[i] = i.row.trade
    OBVIOUS
  <2> HIDE DEF a, b
  <2>6. \A i \in kept : a[i] \in Int /\ b[i] \in Int
    BY <2>2, <2>5
  <2>7. \A i, j \in kept : i # j => a[i] # a[j] \/ b[i] # b[j]
    BY <2>3, <2>5
  <2>8. \A i, j \in kept : <<i, j>> \in Earlier <=>
          \/ a[i] < a[j]
          \/ a[i] = a[j] /\ b[i] < b[j]
          \/ a[i] = a[j] /\ b[i] = b[j] /\ b[i] < b[j]
    <3> SUFFICES ASSUME NEW i \in kept, NEW j \in kept
                 PROVE  <<i, j>> \in Earlier <=>
                          \/ a[i] < a[j]
                          \/ a[i] = a[j] /\ b[i] < b[j]
                          \/ a[i] = a[j] /\ b[i] = b[j] /\ b[i] < b[j]
      OBVIOUS
    <3>1. <<i, j>> \in Earlier <=> a[i] < a[j] \/ (a[i] = a[j] /\ b[i] < b[j])
      BY <2>4, <2>5
    <3> QED
      BY <2>6, <3>1
  <2> HIDE DEF order, Row
  <2>9. \A i \in kept : a[i] \in Int /\ b[i] \in Int /\ b[i] \in Int
    BY <2>6
  <2>10. \A i, j \in kept : i # j => a[i] # a[j] \/ b[i] # b[j] \/ b[i] # b[j]
    BY <2>7
  <2> QED
    BY <2>8, <2>9, <2>10, LexOrders
<1> DEFINE n == Cardinality(kept)
<1>5. n \in Nat /\ order \in [1 .. n -> kept]
  <2> HIDE DEF kept, Earlier
  <2> QED
    BY <1>3, <1>4, InOrderIs
<1>6. Bill!ParseRows(chosen) = [i \in 1 .. n |-> Bill!Normalize(order[i].row, chosen[order[i].at])]
  <2>1. Bill!ParseRows(chosen) = [i \in DOMAIN order |-> Bill!Normalize(order[i].row, chosen[order[i].at])]
    BY DEF Bill!ParseRows
  <2>2. DOMAIN order = 1 .. n
    BY <1>5
  <2> HIDE DEF order, n
  <2> QED
    BY <2>1, <2>2
<1>7. ASSUME NEW i \in 1 .. n
      PROVE  LET t == Bill!Normalize(order[i].row, chosen[order[i].at])
             IN  /\ {"id", "trade", "amount"} \subseteq DOMAIN t
                 /\ t.trade \in Int /\ t.amount \in Int
  <2>1. order[i] \in rows
    BY <1>5
  <2>2. order[i].row \in Row
    BY <1>2, <2>1
  <2> HIDE DEF order, rows
  <2>3. Bill!Amount(order[i].row) \in Int /\ order[i].row.trade \in Int
    <3>1. order[i].row.trade \in Trades
      BY <2>2
    <3> HIDE DEF Row
    <3>2. Trades \subseteq Nat
      BY DEF Bill!BillImportAssumption
    <3>3. order[i].row.trade \in Int
      BY <3>1, <3>2
    <3> QED
      BY <2>2, <3>3, AmountIs DEF Row
  <2> QED
    BY <2>3 DEF Bill!Normalize
<1> HIDE DEF order, n
<1>8. Records(Bill!ParseRows(chosen), n)
  BY <1>5, <1>6, <1>7 DEF Records
<1> QED
  BY <1>5, <1>8

LEMMA CutIs ==
  ASSUME NEW s, NEW n \in Nat, Records(s, n), NEW k \in Nat, Len(s) > k
  PROVE  Records(SubSeq(s, 1, k), k)
<1> DEFINE S == {s[i] : i \in 1 .. n}
           cut == SubSeq(s, 1, k)
<1>1. s \in Seq(S) /\ Len(s) = n /\ k <= n
  BY DEF Records
<1>2. /\ cut \in Seq(S) /\ Len(cut) = IF 1 <= k THEN k - 1 + 1 ELSE 0
      /\ \A i \in 1 .. k - 1 + 1 : cut[i] = s[1 + i - 1]
  BY <1>1, SubSeqProperties
<1> HIDE DEF cut
<1>3. cut \in Seq(S) /\ Len(cut) = k /\ \A i \in 1 .. k : cut[i] = s[i] /\ i \in 1 .. n
  <2>1. \A i \in 1 .. k : 1 + i - 1 = i /\ i \in 1 .. k - 1 + 1 /\ i \in 1 .. n
    BY <1>1
  <2>2. Len(cut) = k
    BY <1>2
  <2> QED
    BY <1>2, <2>1, <2>2
<1> HIDE DEF S
<1> QED
  BY <1>3 DEF Records, cut

LEMMA UniqByIs ==
  ASSUME NEW s, NEW n \in Nat, Records(s, n)
  PROVE  \E m \in Nat : Records(Bill!UniqBy(s), m) /\ Distinct(Bill!UniqBy(s))
<1> DEFINE firsts == {i \in DOMAIN s : \A j \in 1 .. (i - 1) : s[j].id # s[i].id}
           Less == {x \in firsts \X firsts : x[1] < x[2]}
           order == Bill!InOrder(firsts, Less)
           N == Cardinality(firsts)
<1>1. IsFiniteSet(firsts) /\ firsts \in SUBSET (1 .. n)
  <2>1. firsts \in SUBSET (1 .. n)
    BY DEF Records
  <2>2. IsFiniteSet(1 .. n)
    BY FS_Interval
  <2> HIDE DEF firsts
  <2> QED
    BY <2>1, <2>2, FS_Subset
<1>2. Orders(Less, firsts)
  <2>1. \A i, j \in firsts : <<i, j>> \in Less <=> i < j
    OBVIOUS
  <2> HIDE DEF Less, firsts
  <2> DEFINE a == [i \in firsts |-> i]
  <2>2. \A i \in firsts : a[i] \in Int
    BY <1>1
  <2>3. \A i, j \in firsts : i # j => a[i] # a[j]
    OBVIOUS
  <2>4. \A i, j \in firsts : <<i, j>> \in Less <=>
          \/ a[i] < a[j]
          \/ a[i] = a[j] /\ a[i] < a[j]
          \/ a[i] = a[j] /\ a[i] = a[j] /\ a[i] < a[j]
    BY <2>1
  <2> HIDE DEF a
  <2> QED
    BY <2>2, <2>3, <2>4, LexOrders
<1>3. /\ N \in Nat /\ order \in [1 .. N -> firsts]
      /\ \A i, j \in 1 .. N : order[i] = order[j] => i = j
  <2> HIDE DEF firsts, Less
  <2> QED
    BY <1>1, <1>2, InOrderIs
<1>4. \A i, j \in firsts : s[i].id = s[j].id => i = j
  <2> SUFFICES ASSUME NEW i \in firsts, NEW j \in firsts, i < j PROVE s[i].id # s[j].id
    BY <1>1
  <2>1. i \in 1 .. (j - 1)
    BY <1>1
  <2> QED
    BY <2>1
<1>5. Bill!UniqBy(s) = [i \in 1 .. N |-> s[order[i]]]
  <2>1. Bill!UniqBy(s) = [i \in DOMAIN order |-> s[order[i]]]
    BY DEF Bill!UniqBy
  <2>2. DOMAIN order = 1 .. N
    BY <1>3
  <2> HIDE DEF order, N
  <2> QED
    BY <2>1, <2>2
<1> HIDE DEF order, N, firsts
<1>6. Distinct(Bill!UniqBy(s))
  BY <1>3, <1>4, <1>5 DEF Distinct
<1>7. Records(Bill!UniqBy(s), N)
  <2>1. order \in [1 .. N -> 1 .. n]
    BY <1>1, <1>3
  <2> QED
    BY <1>3, <1>5, <2>1, Reordered
<1> QED
  BY <1>3, <1>6, <1>7

LEMMA SortedIs ==
  ASSUME NEW s, NEW n \in Nat, Records(s, n), Distinct(s)
  PROVE  Records(Bill!Sorted(s), n) /\ Distinct(Bill!Sorted(s))
<1> DEFINE D == DOMAIN s
           Before == {x \in D \X D :
                        LET a == s[x[1]]
                            b == s[x[2]]
                        IN  \/ a.trade < b.trade
                            \/ a.trade = b.trade /\ a.amount < b.amount
                            \/ a.trade = b.trade /\ a.amount = b.amount /\ x[1] < x[2]}
           order == Bill!InOrder(D, Before)
<1>1. D = 1 .. n /\ IsFiniteSet(D) /\ Cardinality(D) = n
  <2>1. D = 1 .. n
    BY DEF Records
  <2> HIDE DEF D
  <2> QED
    BY <2>1, FS_Interval
<1>2. Orders(Before, D)
  <2>1. \A i, j \in D : <<i, j>> \in Before <=>
          \/ s[i].trade < s[j].trade
          \/ s[i].trade = s[j].trade /\ s[i].amount < s[j].amount
          \/ s[i].trade = s[j].trade /\ s[i].amount = s[j].amount /\ i < j
    OBVIOUS
  <2>2. \A i \in D : i \in Int /\ s[i].trade \in Int /\ s[i].amount \in Int
    BY <1>1 DEF Records
  <2> HIDE DEF Before, D
  <2> DEFINE a == [i \in D |-> s[i].trade]
             b == [i \in D |-> s[i].amount]
             c == [i \in D |-> i]
  <2>3. \A i \in D : a[i] \in Int /\ b[i] \in Int /\ c[i] \in Int
    BY <2>2
  <2>4. \A i, j \in D : i # j => a[i] # a[j] \/ b[i] # b[j] \/ c[i] # c[j]
    OBVIOUS
  <2>5. \A i, j \in D : <<i, j>> \in Before <=>
          \/ a[i] < a[j]
          \/ a[i] = a[j] /\ b[i] < b[j]
          \/ a[i] = a[j] /\ b[i] = b[j] /\ c[i] < c[j]
    BY <2>1
  <2> HIDE DEF a, b, c
  <2> QED
    BY <2>3, <2>4, <2>5, LexOrders
<1>3. order \in [1 .. n -> D] /\ \A i, j \in 1 .. n : order[i] = order[j] => i = j
  <2> HIDE DEF D, Before
  <2> QED
    BY <1>1, <1>2, InOrderIs
<1>4. Bill!Sorted(s) = [i \in 1 .. n |-> s[order[i]]]
  <2>1. Bill!Sorted(s) = [i \in DOMAIN order |-> s[order[i]]]
    BY DEF Bill!Sorted
  <2>2. DOMAIN order = 1 .. n
    BY <1>3
  <2> HIDE DEF order
  <2> QED
    BY <2>1, <2>2
<1> HIDE DEF order
<1>5. Distinct(Bill!Sorted(s))
  BY <1>3, <1>4 DEF Distinct
<1>6. Records(Bill!Sorted(s), n)
  <2>1. order \in [1 .. n -> 1 .. n]
    BY <1>1, <1>3
  <2> QED
    BY <1>4, <2>1, Reordered
<1> QED
  BY <1>5, <1>6

(* An import has each id once.                                             *)
LEMMA ImportIs ==
  ASSUME Bill!BillImportAssumption, BillsInv, NEW chosen \in Bill!Inputs, NEW limit \in Limits
  PROVE  \E n \in Nat : Records(Bill!Import(chosen, limit), n) /\ Distinct(Bill!Import(chosen, limit))
<1> DEFINE parsed == Bill!ParseRows(chosen)
           kept   == IF limit > 0 /\ Len(parsed) > limit THEN SubSeq(parsed, 1, limit) ELSE parsed
           unique == Bill!UniqBy(kept)
           named  == [i \in DOMAIN unique |-> Bill!Classified(unique[i])]
<1>1. \E n \in Nat : Records(parsed, n)
  BY ParseRowsIs
<1> HIDE DEF parsed
<1>2. \E n \in Nat : Records(kept, n)
  BY <1>1, CutIs DEF Bill!BillImportAssumption
<1> HIDE DEF kept
<1>3. \E n \in Nat : Records(unique, n) /\ Distinct(unique)
  BY <1>2, UniqByIs
<1> HIDE DEF unique
<1>4. \E n \in Nat : Records(named, n) /\ Distinct(named)
  <2>1. ASSUME NEW tx, {"id", "trade", "amount"} \subseteq DOMAIN tx
        PROVE  LET c == Bill!Classified(tx)
               IN  /\ {"id", "trade", "amount"} \subseteq DOMAIN c
                   /\ c.id = tx.id /\ c.trade = tx.trade /\ c.amount = tx.amount
    BY <2>1 DEF Bill!Classified
  <2> QED
    BY <1>3, <2>1 DEF Records, Distinct
<1>5. Bill!Import(chosen, limit) = Bill!Sorted(named)
  BY DEF Bill!Import, parsed, kept, unique
<1> HIDE DEF named
<1> QED
  BY <1>4, <1>5, SortedIs

-----------------------------------------------------------------------------
(* The inductive invariant of the imports. *)

BillTypes ==
  /\ world \in [Trades -> Bill!States]
  /\ pc \in [Syncs -> {"idle", "batch", "rows"}]
  /\ batch \in [Syncs -> Nat]
  /\ todo = [s \in Syncs |-> todo[s]]
  /\ \E S : plan \in Seq(S)

\* What the b-th sync set out to write.
Planned(p, b) ==
  /\ \E n \in Nat : Records(p.txs, n)
  /\ Distinct(p.txs)
  /\ p.budget = Bill!Build(p.txs)
  /\ p.after \subseteq 1 .. b - 1

PlanInv == \A b \in DOMAIN plan : Planned(plan[b], b)

\* The row is there, and no sync that was over before the b-th began wrote it.
Held(b, id) == id \in DOMAIN db /\ db[id].batch \notin plan[b].after

\* A process has upserted k transactions of its batch, and N are left.
Left(s, k, N) ==
  LET txs == plan[batch[s]].txs
  IN  /\ DOMAIN txs = 1 .. k + N
      /\ todo[s] = [n \in 1 .. N |-> txs[n + k]]
      /\ \A n \in 1 .. k : Held(batch[s], txs[n].id)
      /\ pc[s] = "batch" => k = 0
      /\ pc[s] = "rows" => N # 0 /\ batch[s] \in batches

SyncInv ==
  \A s \in Syncs : pc[s] # "idle" =>
    /\ batch[s] \in DOMAIN plan
    /\ \A b \in DOMAIN plan : batch[s] \notin plan[b].after
    /\ \E k, N \in Nat : Left(s, k, N)

\* A row is a transaction of the batch it names.
RowFine(i) ==
  /\ db[i].batch \in batches /\ db[i].created \in batches
  /\ \E n \in DOMAIN plan[db[i].batch].txs :
       db[i].tx = plan[db[i].batch].txs[n] /\ plan[db[i].batch].txs[n].id = i

StoreInv ==
  /\ finished \subseteq DOMAIN plan
  /\ batches \subseteq DOMAIN plan
  /\ \A b \in finished : \A n \in DOMAIN plan[b].txs : Held(b, plan[b].txs[n].id)
  /\ \A i \in DOMAIN db : RowFine(i)

BillInv == BillsInv /\ BillTypes /\ PlanInv /\ SyncInv /\ StoreInv

LEMMA BuildRigid == \A txs : Bill!Build(txs)' = Bill!Build(txs)
BY DEF Bill!Build, Bill!Total, Bill!MapThenSumSet, Bill!MapThenFoldSet

LEMMA BillInit == Bill!Init => BillInv
<1> SUFFICES ASSUME Bill!Init PROVE BillInv
  OBVIOUS
<1>1. exports = <<>> /\ plan = <<>> /\ db = [i \in {} |-> 0] /\ batches = {} /\ finished = {}
  BY DEF Bill!Init
<1>2. BillsInv
  BY <1>1 DEF BillsInv
<1>3. BillTypes
  <2>1. \E S : plan \in Seq(S)
    <3>1. plan \in Seq({})
      BY <1>1
    <3> QED
      BY <3>1
  <2>2. /\ world = [t \in Trades |-> "future"]
        /\ pc = [s \in Syncs |-> "idle"]
        /\ batch = [s \in Syncs |-> 0]
        /\ todo = [s \in Syncs |-> <<>>]
    BY DEF Bill!Init
  <2>3. todo = [s \in Syncs |-> todo[s]]
    BY <2>2
  <2> QED
    BY <2>1, <2>2, <2>3 DEF BillTypes, Bill!States
<1>4. PlanInv
  BY <1>1 DEF PlanInv
<1>5. SyncInv
  BY DEF Bill!Init, SyncInv
<1>6. StoreInv
  BY <1>1 DEF StoreInv
<1> QED
  BY <1>2, <1>3, <1>4, <1>5, <1>6 DEF BillInv

(* The bills and the rules change nothing of what runs.                    *)
LEMMA BillQuiet ==
  ASSUME BillInv, BillsInv', world' \in [Trades -> Bill!States],
         UNCHANGED <<pc, batch, todo, batches, db, plan, finished>>
  PROVE  BillInv'
<1>1. BillTypes'
  BY DEF BillInv, BillTypes, Bill!States
<1>2. PlanInv'
  BY BuildRigid DEF BillInv, PlanInv, Planned
<1>3. SyncInv'
  <2> SUFFICES ASSUME NEW s \in Syncs, pc'[s] # "idle"
               PROVE  /\ batch'[s] \in DOMAIN plan'
                      /\ \A b \in DOMAIN plan' : batch'[s] \notin plan'[b].after
                      /\ \E k, N \in Nat : Left(s, k, N)'
    BY DEF SyncInv
  <2>1. PICK k \in Nat, N \in Nat : Left(s, k, N)
    BY DEF BillInv, SyncInv
  <2>2. Left(s, k, N)'
    BY <2>1 DEF Left, Held
  <2> QED
    BY <2>2 DEF BillInv, SyncInv
<1>4. StoreInv'
  BY DEF BillInv, StoreInv, RowFine, Held
<1> QED
  BY <1>1, <1>2, <1>3, <1>4 DEF BillInv

LEMMA BillChange == ASSUME BillInv, NEW t \in Trades, Bill!Change(t) PROVE BillInv'
<1>1. UNCHANGED <<exports, pc, batch, todo, batches, db, plan, finished>>
  BY DEF Bill!Change, Bill!store
<1>2. world' \in [Trades -> Bill!States]
  BY DEF Bill!Change, BillInv, BillTypes, Bill!States
<1>3. BillsInv'
  BY <1>1 DEF BillInv, BillsInv, Bill!Sources, Bill!States
<1> QED
  BY <1>1, <1>2, <1>3, BillQuiet

LEMMA BillEdit == ASSUME BillInv, Bill!EditRules PROVE BillInv'
<1>1. UNCHANGED <<world, exports, pc, batch, todo, batches, db, plan, finished>>
  BY DEF Bill!EditRules, Bill!store
<1>2. world' \in [Trades -> Bill!States]
  BY <1>1 DEF BillInv, BillTypes
<1>3. BillsInv'
  BY <1>1 DEF BillInv, BillsInv, Bill!Sources, Bill!States
<1> QED
  BY <1>1, <1>2, <1>3, BillQuiet

LEMMA BillExport == ASSUME BillInv, NEW src \in Bill!Sources, Bill!Export(src) PROVE BillInv'
<1> DEFINE Bills  == [source : Bill!Sources, rows : SUBSET [trade : Trades, state : Bill!States]]
           listed == {t \in Trades : Trade[t].source = src /\ world[t] # "future"}
           sheet  == {[trade |-> t, state |-> world[t]] : t \in listed}
           bill   == [source |-> src, rows |-> sheet]
<1>1. UNCHANGED <<world, pc, batch, todo, batches, db, plan, finished>> /\ exports' = Append(exports, bill)
  BY DEF Bill!Export, Bill!store
<1>2. world \in [Trades -> Bill!States] /\ world' \in [Trades -> Bill!States]
  BY <1>1 DEF BillInv, BillTypes
<1>3. bill \in Bills /\ bill.rows = sheet
  <2>1. sheet \in SUBSET [trade : Trades, state : Bill!States]
    BY <1>2
  <2> HIDE DEF sheet
  <2> QED
    BY <2>1
<1>4. \A q, r \in bill.rows : q.trade = r.trade => q = r
  BY <1>3
<1> HIDE DEF bill
<1>5. exports \in Seq(Bills) /\ \A f \in DOMAIN exports : \A q, r \in exports[f].rows : q.trade = r.trade => q = r
  BY DEF BillInv, BillsInv
<1>6. exports' \in Seq(Bills) /\ \A f \in DOMAIN exports' : exports'[f] = bill \/ (f \in DOMAIN exports /\ exports'[f] = exports[f])
  <2> HIDE DEF Bills
  <2> QED
    BY <1>1, <1>3, <1>5
<1>7. \A f \in DOMAIN exports' : \A q, r \in exports'[f].rows : q.trade = r.trade => q = r
  BY <1>4, <1>5, <1>6
<1>8. BillsInv'
  BY <1>6, <1>7 DEF BillsInv, Bill!Sources, Bill!States
<1> QED
  BY <1>1, <1>2, <1>8, BillQuiet


-----------------------------------------------------------------------------
(* The steps of a sync. *)

(* A process that holds a batch writes its own rows only.                  *)
LEMMA BillWrites ==
  ASSUME BillInv, NEW s \in Syncs, pc[s] # "idle",
         UNCHANGED <<world, exports, batch, plan>>,
         NEW step \in {"idle", "batch", "rows"}, pc' = [pc EXCEPT ![s] = step],
         NEW rest, todo' = [todo EXCEPT ![s] = rest],
         batches \subseteq batches', batches' \subseteq batches \cup {batch[s]},
         \A b \in DOMAIN plan : \A i : Held(b, i) => Held(b, i)',
         \A i \in DOMAIN db' : RowFine(i)',
         step # "idle" => \E k, N \in Nat : Left(s, k, N)',
         \/ finished' = finished
         \/ /\ finished' = finished \cup {batch[s]}
            /\ \A n \in DOMAIN plan[batch[s]].txs : Held(batch[s], plan[batch[s]].txs[n].id)'
  PROVE  BillInv'
<1>1. BillsInv'
  BY DEF BillInv, BillsInv, Bill!Sources, Bill!States
<1>2. BillTypes'
  <2>1. todo' = [q \in Syncs |-> todo'[q]]
    BY DEF BillInv, BillTypes
  <2>2. world' \in [Trades -> Bill!States] /\ batch' \in [Syncs -> Nat] /\ \E S : plan' \in Seq(S)
    BY DEF BillInv, BillTypes, Bill!States
  <2>3. pc' \in [Syncs -> {"idle", "batch", "rows"}]
    BY DEF BillInv, BillTypes
  <2> QED
    BY <2>1, <2>2, <2>3 DEF BillTypes, Bill!States
<1>3. PlanInv'
  BY BuildRigid DEF BillInv, PlanInv, Planned
<1>4. batch[s] \in DOMAIN plan
  BY DEF BillInv, SyncInv
<1>5. SyncInv'
  <2> SUFFICES ASSUME NEW q \in Syncs, pc'[q] # "idle"
               PROVE  /\ batch'[q] \in DOMAIN plan'
                      /\ \A b \in DOMAIN plan' : batch'[q] \notin plan'[b].after
                      /\ \E k, N \in Nat : Left(q, k, N)'
    BY DEF SyncInv
  <2>1. pc \in [Syncs -> {"idle", "batch", "rows"}] /\ todo = [r \in Syncs |-> todo[r]]
    BY DEF BillInv, BillTypes
  <2>2. pc[q] # "idle"
    BY <2>1
  <2>3. batch'[q] \in DOMAIN plan' /\ \A b \in DOMAIN plan' : batch'[q] \notin plan'[b].after
    BY <2>2 DEF BillInv, SyncInv
  <2>4. \E k, N \in Nat : Left(q, k, N)'
    <3>1. CASE q = s
      BY <2>1, <3>1
    <3>2. CASE q # s
      <4>1. PICK k \in Nat, N \in Nat : Left(q, k, N)
        BY <2>2 DEF BillInv, SyncInv
      <4>2. pc'[q] = pc[q] /\ todo'[q] = todo[q] /\ batch'[q] = batch[q] /\ plan' = plan
        BY <2>1, <3>2
      <4>3. batch[q] \in DOMAIN plan
        BY <2>2 DEF BillInv, SyncInv
      <4>4. \A i : i \in DOMAIN db /\ db[i].batch \notin plan[batch[q]].after
                    => i \in DOMAIN db' /\ db'[i].batch \notin plan[batch[q]].after
        BY <4>2, <4>3 DEF Held
      <4>5. Left(q, k, N)'
        BY <4>1, <4>2, <4>4 DEF Left, Held
      <4> QED
        BY <4>5
    <3> QED
      BY <3>1, <3>2
  <2> QED
    BY <2>3, <2>4
<1>6. StoreInv'
  <2>1. finished' \subseteq DOMAIN plan' /\ batches' \subseteq DOMAIN plan'
    BY <1>4 DEF BillInv, StoreInv
  <2>2. ASSUME NEW b \in finished', NEW n \in DOMAIN plan'[b].txs
        PROVE  Held(b, plan[b].txs[n].id)'
    BY <1>4, <2>2 DEF BillInv, StoreInv, Held
  <2> QED
    BY <2>1, <2>2 DEF StoreInv
<1> QED
  BY <1>1, <1>2, <1>3, <1>5, <1>6 DEF BillInv

LEMMA BillKill == ASSUME BillInv, NEW s \in Syncs, Bill!Kill(s) PROVE BillInv'
<1>1. /\ pc[s] # "idle" /\ pc' = [pc EXCEPT ![s] = "idle"] /\ todo' = [todo EXCEPT ![s] = <<>>]
      /\ UNCHANGED <<world, exports, batch, plan, finished, batches, db>>
  BY DEF Bill!Kill, Bill!GiveUp, Bill!bills, Bill!store
<1>2. \A b \in DOMAIN plan : \A i : Held(b, i) => Held(b, i)'
  BY <1>1 DEF Held
<1>3. \A i \in DOMAIN db' : RowFine(i)'
  BY <1>1 DEF BillInv, StoreInv, RowFine
<1> QED
  BY <1>1, <1>2, <1>3, BillWrites

(* What is left of a batch after its first k transactions.                 *)
LEMMA Suffix ==
  ASSUME NEW f, NEW k \in Nat, NEW N \in Nat, NEW t, t = [n \in 1 .. N |-> f[n + k]]
  PROVE  /\ t = <<>> <=> N = 0
         /\ N # 0 => /\ Head(t) = f[k + 1]
                     /\ Tail(t) = [n \in 1 .. N - 1 |-> f[n + (k + 1)]]
<1> DEFINE S == {t[n] : n \in 1 .. N}
<1>1. t \in Seq(S) /\ Len(t) = N
  <2>1. DOMAIN t = 1 .. N /\ t = [n \in 1 .. N |-> t[n]]
    OBVIOUS
  <2>2. \A n \in 1 .. N : t[n] \in S
    OBVIOUS
  <2> HIDE DEF S
  <2>3. t \in [1 .. N -> S]
    BY <2>1, <2>2
  <2> QED
    BY <2>3
<1>2. t = <<>> <=> N = 0
  BY <1>1, EmptySeq
<1>3. ASSUME N # 0
      PROVE  /\ Head(t) = f[k + 1]
             /\ Tail(t) = [n \in 1 .. N - 1 |-> f[n + (k + 1)]]
  <2>1. t # <<>>
    BY <1>2, <1>3
  <2>2. Head(t) = t[1]
    BY <1>1, <2>1
  <2>3. 1 \in 1 .. N /\ 1 + k = k + 1
    BY <1>3
  <2>4. t[1] = f[k + 1]
    BY <2>3
  <2> HIDE DEF S
  <2>5. /\ Tail(t) \in Seq(S) /\ Len(Tail(t)) = N - 1
        /\ \A n \in 1 .. N - 1 : Tail(t)[n] = t[n + 1]
    BY <1>1, <2>1, HeadTailProperties
  <2>6. ASSUME NEW n \in 1 .. N - 1 PROVE Tail(t)[n] = f[n + (k + 1)]
    <3>1. n + 1 \in 1 .. N /\ (n + 1) + k = n + (k + 1)
      OBVIOUS
    <3>2. t[n + 1] = f[(n + 1) + k]
      BY <3>1
    <3> QED
      BY <2>5, <3>1, <3>2
  <2>7. Tail(t) = [n \in 1 .. N - 1 |-> Tail(t)[n]]
    BY <2>5
  <2> QED
    BY <2>2, <2>4, <2>6, <2>7
<1> QED
  BY <1>2, <1>3

LEMMA BillInsert ==
  ASSUME BillInv, NEW s \in Syncs, NEW answer \in Bill!Answers, Bill!InsertBatch(s, answer)
  PROVE  BillInv'
<1>1. /\ pc[s] = "batch" /\ pc[s] # "idle"
      /\ UNCHANGED <<world, exports, batch, plan, db>>
      /\ batches' = IF answer = "refused" THEN batches ELSE batches \cup {batch[s]}
      /\ IF answer = "done" THEN Bill!Proceed(s, todo[s]) ELSE Bill!GiveUp(s)
  BY DEF Bill!InsertBatch, Bill!bills
<1>2. \A b \in DOMAIN plan : \A i : Held(b, i) => Held(b, i)'
  BY <1>1 DEF Held
<1>3. \A i \in DOMAIN db' : RowFine(i)'
  <2>1. \A i \in DOMAIN db : RowFine(i)
    BY DEF BillInv, StoreInv
  <2> QED
    BY <1>1, <2>1 DEF RowFine
<1>4. /\ pc \in [Syncs -> {"idle", "batch", "rows"}] /\ todo = [q \in Syncs |-> todo[q]]
      /\ s \in DOMAIN todo
  BY DEF BillInv, BillTypes
<1>5. PICK k \in Nat, N \in Nat : Left(s, k, N)
  BY <1>1 DEF BillInv, SyncInv
<1> DEFINE txs == plan[batch[s]].txs
<1>6. k = 0 /\ DOMAIN txs = 1 .. 0 + N /\ todo[s] = [n \in 1 .. N |-> txs[n + 0]]
  BY <1>1, <1>5 DEF Left
<1> HIDE DEF txs
<1>7. todo[s] = <<>> <=> N = 0
  BY <1>6, Suffix
<1>8. CASE answer = "done" /\ todo[s] = <<>>
  <2>1. /\ pc' = [pc EXCEPT ![s] = "idle"] /\ todo' = [todo EXCEPT ![s] = todo[s]]
        /\ finished' = finished \cup {batch[s]}
    BY <1>1, <1>8 DEF Bill!Proceed
  <2>2. \A n \in DOMAIN plan[batch[s]].txs : Held(batch[s], plan[batch[s]].txs[n].id)'
    BY <1>6, <1>7, <1>8 DEF txs
  <2> QED
    BY <1>1, <1>2, <1>3, <1>8, <2>1, <2>2, BillWrites
<1>9. CASE answer = "done" /\ todo[s] # <<>>
  <2>1. /\ pc' = [pc EXCEPT ![s] = "rows"] /\ todo' = [todo EXCEPT ![s] = todo[s]]
        /\ finished' = finished /\ batches' = batches \cup {batch[s]}
    BY <1>1, <1>9 DEF Bill!Proceed
  <2>2. pc'[s] = "rows" /\ todo'[s] = todo[s] /\ batch'[s] = batch[s] /\ plan' = plan
    BY <1>1, <1>4, <2>1
  <2>3. Left(s, 0, N)'
    BY <1>6, <1>7, <1>9, <2>1, <2>2 DEF Left, txs
  <2>4. \E c, M \in Nat : Left(s, c, M)'
    BY <2>3
  <2> QED
    BY <1>1, <1>2, <1>3, <2>1, <2>4, BillWrites
<1>10. CASE answer # "done"
  <2>1. /\ pc' = [pc EXCEPT ![s] = "idle"] /\ todo' = [todo EXCEPT ![s] = <<>>]
        /\ finished' = finished
    BY <1>1, <1>10 DEF Bill!GiveUp
  <2> QED
    BY <1>1, <1>2, <1>3, <2>1, BillWrites
<1> QED
  BY <1>8, <1>9, <1>10

LEMMA BillUpsert ==
  ASSUME BillInv, NEW s \in Syncs, NEW answer \in Bill!Answers, Bill!Upsert(s, answer)
  PROVE  BillInv'
<1>1. /\ pc[s] = "rows" /\ pc[s] # "idle"
      /\ UNCHANGED <<world, exports, batch, plan, batches>>
      /\ db' = IF answer = "refused" THEN db ELSE Bill!Written(Head(todo[s]), batch[s])
      /\ IF answer = "done" THEN Bill!Proceed(s, Tail(todo[s])) ELSE Bill!GiveUp(s)
  BY DEF Bill!Upsert, Bill!bills
<1>2. /\ pc \in [Syncs -> {"idle", "batch", "rows"}] /\ todo = [q \in Syncs |-> todo[q]]
      /\ s \in DOMAIN todo
  BY DEF BillInv, BillTypes
<1>3. PICK k \in Nat, N \in Nat : Left(s, k, N)
  BY <1>1 DEF BillInv, SyncInv
<1> DEFINE txs == plan[batch[s]].txs
<1>4. /\ N # 0 /\ batch[s] \in batches /\ DOMAIN txs = 1 .. k + N
      /\ todo[s] = [n \in 1 .. N |-> txs[n + k]]
      /\ \A n \in 1 .. k : Held(batch[s], txs[n].id)
  BY <1>1, <1>3 DEF Left
<1>5. batch[s] \in DOMAIN plan /\ \A b \in DOMAIN plan : batch[s] \notin plan[b].after
  BY <1>1 DEF BillInv, SyncInv
<1> DEFINE tx == txs[k + 1]
<1> HIDE DEF txs
<1>6. Head(todo[s]) = tx /\ Tail(todo[s]) = [n \in 1 .. N - 1 |-> txs[n + (k + 1)]]
  BY <1>4, Suffix
<1> HIDE DEF tx
<1>7. \/ db' = db /\ answer = "refused"
      \/ /\ DOMAIN db' = DOMAIN db \cup {tx.id}
         /\ \A i \in DOMAIN db : i # tx.id => db'[i] = db[i]
         /\ db'[tx.id].tx = tx /\ db'[tx.id].batch = batch[s]
         /\ db'[tx.id].created = IF tx.id \in DOMAIN db THEN db[tx.id].created ELSE batch[s]
  <2>1. CASE answer = "refused"
    BY <1>1, <2>1
  <2>2. CASE answer # "refused"
    <3>1. db' = [i \in DOMAIN db \cup {tx.id} |->
                   IF i # tx.id THEN db[i]
                   ELSE [tx |-> tx, batch |-> batch[s],
                         created |-> IF i \in DOMAIN db THEN db[i].created ELSE batch[s]]]
      BY <1>1, <1>6, <2>2 DEF Bill!Written
    <3> QED
      BY <3>1
  <2> QED
    BY <2>1, <2>2
<1>8. \A b \in DOMAIN plan : \A i : Held(b, i) => Held(b, i)'
  BY <1>1, <1>5, <1>7 DEF Held
<1>9. \A i \in DOMAIN db' : RowFine(i)'
  <2> SUFFICES ASSUME NEW i \in DOMAIN db' PROVE RowFine(i)'
    OBVIOUS
  <2>1. \A j \in DOMAIN db : RowFine(j)
    BY DEF BillInv, StoreInv
  <2>2. CASE i \in DOMAIN db /\ db'[i] = db[i]
    BY <1>1, <2>1, <2>2 DEF RowFine
  <2>3. CASE ~(i \in DOMAIN db /\ db'[i] = db[i])
    <3>1. /\ i = tx.id /\ db'[i].tx = tx /\ db'[i].batch = batch[s]
          /\ db'[i].created = IF i \in DOMAIN db THEN db[i].created ELSE batch[s]
      BY <1>7, <2>3
    <3>2. k + 1 \in DOMAIN txs
      BY <1>4
    <3>3. db'[i].created \in batches
      BY <1>4, <2>1, <3>1 DEF RowFine
    <3>4. db'[i].tx = plan[batch[s]].txs[k + 1] /\ plan[batch[s]].txs[k + 1].id = i
      BY <3>1 DEF tx, txs
    <3> QED
      BY <1>1, <1>4, <3>1, <3>2, <3>3, <3>4 DEF RowFine, txs
  <2> QED
    BY <2>2, <2>3
<1>10. CASE answer = "done"
  <2>1. \A n \in 1 .. k + 1 : Held(batch[s], txs[n].id)'
    <3>1. \A n \in 1 .. k : Held(batch[s], txs[n].id)'
      <4>1. \A i : i \in DOMAIN db /\ db[i].batch \notin plan[batch[s]].after
                     => i \in DOMAIN db' /\ db'[i].batch \notin plan[batch[s]].after
        BY <1>1, <1>5, <1>8 DEF Held
      <4>2. \A n \in 1 .. k : plan[batch[s]].txs[n].id \in DOMAIN db
                              /\ db[plan[batch[s]].txs[n].id].batch \notin plan[batch[s]].after
        BY <1>4 DEF Held, txs
      <4> QED
        BY <1>1, <4>1, <4>2 DEF Held, txs
    <3>2. Held(batch[s], txs[k + 1].id)'
      BY <1>1, <1>5, <1>7, <1>10 DEF Held, tx, txs
    <3>3. \A n \in 1 .. k + 1 : n \in 1 .. k \/ n = k + 1
      OBVIOUS
    <3> QED
      BY <3>1, <3>2, <3>3
  <2>2. DOMAIN txs = 1 .. (k + 1) + (N - 1) /\ k + 1 \in Nat /\ N - 1 \in Nat
    BY <1>4
  <2>3. Tail(todo[s]) = <<>> <=> N - 1 = 0
    <3> DEFINE rest == Tail(todo[s])
    <3>1. rest = [n \in 1 .. N - 1 |-> txs[n + (k + 1)]]
      BY <1>6
    <3> HIDE DEF rest
    <3>2. rest = <<>> <=> N - 1 = 0
      BY <2>2, <3>1, Suffix
    <3> QED
      BY <3>2 DEF rest
  <2>4. CASE N - 1 = 0
    <3>1. /\ pc' = [pc EXCEPT ![s] = "idle"] /\ todo' = [todo EXCEPT ![s] = Tail(todo[s])]
          /\ finished' = finished \cup {batch[s]}
      BY <1>1, <1>10, <2>3, <2>4 DEF Bill!Proceed
    <3>2. DOMAIN txs = 1 .. k + 1
      BY <2>2, <2>4
    <3>3. \A n \in DOMAIN plan[batch[s]].txs : Held(batch[s], plan[batch[s]].txs[n].id)'
      BY <1>1, <2>1, <3>2 DEF txs
    <3> QED
      BY <1>1, <1>8, <1>9, <3>1, <3>3, BillWrites
  <2>5. CASE N - 1 # 0
    <3>1. /\ pc' = [pc EXCEPT ![s] = "rows"] /\ todo' = [todo EXCEPT ![s] = Tail(todo[s])]
          /\ finished' = finished
      BY <1>1, <1>10, <2>3, <2>5 DEF Bill!Proceed
    <3>2. /\ pc'[s] = "rows" /\ todo'[s] = Tail(todo[s]) /\ batch'[s] = batch[s] /\ plan' = plan
          /\ batches' = batches
      BY <1>1, <1>2, <3>1
    <3>3. Left(s, k + 1, N - 1)'
      BY <1>4, <1>6, <2>1, <2>2, <2>5, <3>2 DEF Left, txs
    <3>4. \E c, M \in Nat : Left(s, c, M)'
      BY <2>2, <3>3
    <3> QED
      BY <1>1, <1>8, <1>9, <3>1, <3>4, BillWrites
  <2> QED
    BY <2>4, <2>5
<1>11. CASE answer # "done"
  <2>1. /\ pc' = [pc EXCEPT ![s] = "idle"] /\ todo' = [todo EXCEPT ![s] = <<>>]
        /\ finished' = finished
    BY <1>1, <1>11 DEF Bill!GiveUp
  <2> QED
    BY <1>1, <1>8, <1>9, <2>1, BillWrites
<1> QED
  BY <1>10, <1>11

(* A new batch is one that nobody may have replaced yet.                   *)
LEMMA BillStart ==
  ASSUME Bill!BillImportAssumption, BillInv, NEW s \in Syncs,
         NEW chosen \in Bill!Inputs, NEW limit \in Limits, Bill!Start(s, chosen, limit)
  PROVE  BillInv'
<1> DEFINE txs == Bill!Import(chosen, limit)
           p == [txs |-> txs, budget |-> Bill!Build(txs), after |-> Bill!Ended]
           B == Len(plan) + 1
<1>1. /\ pc[s] = "idle" /\ plan' = Append(plan, p)
      /\ todo' = [todo EXCEPT ![s] = txs] /\ batch' = [batch EXCEPT ![s] = B]
      /\ pc' = [pc EXCEPT ![s] = "batch"]
      /\ UNCHANGED <<world, exports, batches, db, finished>>
  BY DEF Bill!Start, Bill!bills, Bill!store
<1>2. PICK n \in Nat : Records(txs, n) /\ Distinct(txs)
  BY ImportIs DEF BillInv
<1>3. p.txs = txs /\ p.budget = Bill!Build(txs) /\ p.after = Bill!Ended
  OBVIOUS
<1> HIDE DEF txs, p
<1>4. PICK S : plan \in Seq(S)
  BY DEF BillInv, BillTypes
<1>5. /\ Len(plan) \in Nat /\ DOMAIN plan = 1 .. Len(plan)
      /\ plan' \in Seq(S \cup {p}) /\ Len(plan') = B
      /\ \A b \in DOMAIN plan : plan'[b] = plan[b]
      /\ plan'[B] = p
  <2>1. plan \in Seq(S \cup {p}) /\ p \in S \cup {p}
    BY <1>4, SeqMonotonic
  <2> QED
    BY <1>1, <2>1, AppendProperties
<1>6. DOMAIN plan' = DOMAIN plan \cup {B} /\ B \notin DOMAIN plan /\ DOMAIN plan = 1 .. B - 1 /\ B \in Nat
  BY <1>5
<1> HIDE DEF B
<1>7. /\ pc \in [Syncs -> {"idle", "batch", "rows"}] /\ todo = [q \in Syncs |-> todo[q]]
      /\ batch \in [Syncs -> Nat]
  BY DEF BillInv, BillTypes
<1>8. Bill!Ended \subseteq DOMAIN plan
      /\ \A q \in Syncs : pc[q] # "idle" => batch[q] \notin Bill!Ended
  BY DEF Bill!Ended
<1>9. BillsInv'
  BY <1>1 DEF BillInv, BillsInv, Bill!Sources, Bill!States
<1>10. BillTypes'
  <2>1. todo' = [q \in Syncs |-> todo'[q]]
    BY <1>1, <1>7
  <2>2. world' \in [Trades -> Bill!States]
    BY <1>1 DEF BillInv, BillTypes, Bill!States
  <2>3. pc' \in [Syncs -> {"idle", "batch", "rows"}] /\ batch' \in [Syncs -> Nat]
    BY <1>1, <1>6, <1>7
  <2>4. \E T : plan' \in Seq(T)
    BY <1>5
  <2> QED
    BY <2>1, <2>2, <2>3, <2>4 DEF BillTypes, Bill!States
<1>11. PlanInv'
  <2> SUFFICES ASSUME NEW b \in DOMAIN plan' PROVE Planned(plan[b], b)'
    BY DEF PlanInv
  <2>1. CASE b \in DOMAIN plan
    <3> DEFINE old == plan[b]
    <3>1. PICK m \in Nat : Records(old.txs, m)
      BY <2>1 DEF BillInv, PlanInv, Planned
    <3>2. Distinct(old.txs) /\ old.budget = Bill!Build(old.txs) /\ old.after \subseteq 1 .. b - 1
      BY <2>1 DEF BillInv, PlanInv, Planned
    <3>3. plan'[b] = old
      BY <1>5, <2>1
    <3> HIDE DEF old
    <3> QED
      BY <3>1, <3>2, <3>3, BuildRigid DEF Planned, Records, Distinct
  <2>2. CASE b = B
    <3>1. plan'[b] = p
      BY <1>5, <2>2
    <3>2. p.after \subseteq 1 .. b - 1
      BY <1>3, <1>6, <1>8, <2>2
    <3> QED
      BY <1>2, <1>3, <3>1, <3>2, BuildRigid DEF Planned, Records, Distinct
  <2> QED
    BY <1>6, <2>1, <2>2
<1>12. \A b \in DOMAIN plan' : B \notin plan'[b].after
  <2> SUFFICES ASSUME NEW b \in DOMAIN plan' PROVE B \notin plan'[b].after
    OBVIOUS
  <2>1. CASE b \in DOMAIN plan
    <3>1. plan[b].after \subseteq 1 .. b - 1 /\ b \in 1 .. B - 1
      BY <1>6, <2>1 DEF BillInv, PlanInv, Planned
    <3> QED
      BY <1>5, <1>6, <2>1, <3>1
  <2>2. CASE b = B
    BY <1>3, <1>5, <1>6, <1>8, <2>2
  <2> QED
    BY <1>6, <2>1, <2>2
<1>13. SyncInv'
  <2> SUFFICES ASSUME NEW q \in Syncs, pc'[q] # "idle"
               PROVE  /\ batch'[q] \in DOMAIN plan'
                      /\ \A b \in DOMAIN plan' : batch'[q] \notin plan'[b].after
                      /\ \E k, N \in Nat : Left(q, k, N)'
    BY DEF SyncInv
  <2>1. CASE q = s
    <3>1. batch'[q] = B /\ todo'[q] = txs /\ pc'[q] = "batch" /\ plan'[B].txs = txs
      BY <1>1, <1>3, <1>5, <1>7, <2>1
    <3>2. DOMAIN txs = 1 .. 0 + n /\ txs = [i \in 1 .. n |-> txs[i + 0]]
      <4>1. DOMAIN txs = 1 .. n /\ txs = [i \in 1 .. n |-> txs[i]]
        BY <1>2 DEF Records
      <4>2. \A i \in 1 .. n : i + 0 = i
        OBVIOUS
      <4> QED
        BY <4>1, <4>2
    <3>3. Left(q, 0, n)'
      BY <3>1, <3>2 DEF Left
    <3>4. \E k, N \in Nat : Left(q, k, N)'
      BY <1>2, <3>3
    <3> QED
      BY <1>6, <1>12, <3>1, <3>4
  <2>2. CASE q # s
    <3>1. pc'[q] = pc[q] /\ batch'[q] = batch[q] /\ todo'[q] = todo[q]
      BY <1>1, <1>7, <2>2
    <3>2. /\ batch[q] \in DOMAIN plan
          /\ \A b \in DOMAIN plan : batch[q] \notin plan[b].after
      BY <3>1 DEF BillInv, SyncInv
    <3>3. PICK k \in Nat, N \in Nat : Left(q, k, N)
      BY <3>1 DEF BillInv, SyncInv
    <3>4. plan'[batch'[q]] = plan[batch[q]] /\ db' = db /\ batches' = batches
      BY <1>1, <1>5, <3>1, <3>2
    <3>5. Left(q, k, N)'
      BY <3>1, <3>3, <3>4 DEF Left, Held
    <3>6. \A b \in DOMAIN plan' : batch[q] \notin plan'[b].after
      BY <1>3, <1>5, <1>6, <1>8, <3>1, <3>2
    <3> QED
      BY <1>6, <3>1, <3>2, <3>5, <3>6
  <2> QED
    BY <2>1, <2>2
<1>14. StoreInv'
  <2>1. finished' \subseteq DOMAIN plan' /\ batches' \subseteq DOMAIN plan'
    BY <1>1, <1>6 DEF BillInv, StoreInv
  <2>2. ASSUME NEW b \in finished', NEW i \in DOMAIN plan'[b].txs
        PROVE  Held(b, plan[b].txs[i].id)'
    <3>1. b \in finished /\ b \in DOMAIN plan /\ plan'[b] = plan[b]
      BY <1>1, <1>5 DEF BillInv, StoreInv
    <3> QED
      BY <1>1, <3>1 DEF BillInv, StoreInv, Held
  <2>3. ASSUME NEW i \in DOMAIN db' PROVE RowFine(i)'
    <3>1. RowFine(i) /\ db[i].batch \in DOMAIN plan
      BY <1>1 DEF BillInv, StoreInv, RowFine
    <3>2. plan'[db[i].batch] = plan[db[i].batch]
      BY <1>5, <3>1
    <3> QED
      BY <1>1, <3>1, <3>2 DEF RowFine
  <2> QED
    BY <2>1, <2>2, <2>3 DEF StoreInv
<1> QED
  BY <1>9, <1>10, <1>11, <1>13, <1>14 DEF BillInv

LEMMA BillNext ==
  ASSUME Bill!BillImportAssumption, BillInv, [Bill!Next]_(Bill!vars)
  PROVE  BillInv'
<1>1. CASE Bill!Next
  <2>1. ASSUME NEW s \in Syncs, NEW chosen \in Bill!Inputs, NEW limit \in Limits,
               Bill!Start(s, chosen, limit)
        PROVE  BillInv'
    BY <2>1, BillStart
  <2>2. ASSUME NEW s \in Syncs, NEW answer \in Bill!Answers,
               Bill!InsertBatch(s, answer) \/ Bill!Upsert(s, answer)
        PROVE  BillInv'
    BY <2>2, BillInsert, BillUpsert
  <2>3. ASSUME NEW s \in Syncs, Bill!Kill(s) PROVE BillInv'
    BY <2>3, BillKill
  <2>4. CASE Bill!EditRules
    BY <2>4, BillEdit
  <2>5. ASSUME NEW t \in Trades, Bill!Change(t) PROVE BillInv'
    BY <2>5, BillChange
  <2>6. ASSUME NEW src \in Bill!Sources, Bill!Export(src) PROVE BillInv'
    BY <2>6, BillExport
  <2> QED
    BY <1>1, <2>1, <2>2, <2>3, <2>4, <2>5, <2>6 DEF Bill!Next
<1>2. CASE UNCHANGED Bill!vars
  <2>1. UNCHANGED <<world, exports, pc, batch, todo, batches, db, plan, finished>>
    BY <1>2 DEF Bill!vars, Bill!bills, Bill!store
  <2>2. world' \in [Trades -> Bill!States]
    BY <2>1 DEF BillInv, BillTypes
  <2>3. BillsInv'
    BY <2>1 DEF BillInv, BillsInv, Bill!Sources, Bill!States
  <2> QED
    BY <2>1, <2>2, <2>3, BillQuiet
<1> QED
  BY <1>1, <1>2

LEMMA BillHolds ==
  ASSUME BillInv
  PROVE  Bill!RowsHaveTheirBatch /\ Bill!LaterImportWins /\ Bill!SummaryMatchesRows
<1>1. Bill!RowsHaveTheirBatch
  BY DEF BillInv, StoreInv, RowFine, Bill!RowsHaveTheirBatch
<1>2. Bill!LaterImportWins
  BY DEF BillInv, StoreInv, Held, Bill!LaterImportWins
<1>3. ASSUME NEW b \in finished,
             \A i \in {plan[b].txs[n].id : n \in DOMAIN plan[b].txs} : db[i].batch = b
      PROVE  LET ids == {plan[b].txs[n].id : n \in DOMAIN plan[b].txs}
             IN  plan[b].budget =
                   Bill!Total([i \in ids |-> db[i].tx.amount],
                              {i \in ids : db[i].tx.inOut = "out" /\ db[i].tx.included})
  <2> DEFINE txs == plan[b].txs
             ids == {txs[n].id : n \in DOMAIN txs}
             counted == {n \in DOMAIN txs : txs[n].inOut = "out" /\ txs[n].included}
             rows == {i \in ids : db[i].tx.inOut = "out" /\ db[i].tx.included}
             w == [n \in DOMAIN txs |-> txs[n].amount]
             v == [i \in ids |-> db[i].tx.amount]
             h == [n \in counted |-> txs[n].id]
  <2>1. b \in DOMAIN plan /\ Planned(plan[b], b)
    BY DEF BillInv, StoreInv, PlanInv
  <2>2. PICK N \in Nat : Records(txs, N)
    BY <2>1 DEF Planned
  <2>3. /\ DOMAIN txs = 1 .. N
        /\ \A n \in 1 .. N : txs[n].amount \in Int
        /\ \A m, n \in 1 .. N : txs[m].id = txs[n].id => m = n
    BY <2>1, <2>2 DEF Planned, Distinct, Records
  <2>4. ASSUME NEW n \in DOMAIN txs PROVE db[txs[n].id].tx = txs[n]
    <3>1. txs[n].id \in DOMAIN db /\ db[txs[n].id].batch = b
      BY <1>3 DEF BillInv, StoreInv, Held
    <3>2. PICK m \in DOMAIN txs : db[txs[n].id].tx = txs[m] /\ txs[m].id = txs[n].id
      BY <3>1 DEF BillInv, StoreInv, RowFine
    <3>3. m = n
      BY <2>3, <3>2
    <3> QED
      BY <3>2, <3>3
  <2>5. plan[b].budget = Bill!Total(w, counted)
    BY <2>1 DEF Planned, Bill!Build
  <2>6. \A n \in counted : n \in DOMAIN txs /\ h[n] = txs[n].id /\ h[n] \in rows
    BY <2>4
  <2>7. \A i \in rows : \E n \in counted : h[n] = i
    BY <2>4
  <2>8. \A n \in counted : w[n] \in Int /\ v[h[n]] = w[n]
    BY <2>3, <2>4
  <2>9. IsFiniteSet(counted)
    <3>1. counted \in SUBSET (1 .. N) /\ IsFiniteSet(1 .. N)
      BY <2>3, FS_Interval
    <3> HIDE DEF counted
    <3> QED
      BY <3>1, FS_Subset
  <2>10. DOMAIN h = counted /\ h = [n \in counted |-> h[n]]
    OBVIOUS
  <2> HIDE DEF txs, ids, counted, rows, w, v, h
  <2>11. h \in Bijection(counted, rows)
    <3>1. h \in [counted -> rows]
      BY <2>6, <2>10
    <3>2. \A m, n \in counted : h[m] = h[n] => m = n
      BY <2>3, <2>6
    <3> QED
      BY <2>7, <3>1, <3>2 DEF Bijection, Injection, IsInjective, Surjection
  <2>12. IsFiniteSet(rows)
    <3>1. h \in Surjection(counted, rows)
      BY <2>11 DEF Bijection
    <3> QED
      BY <2>9, <3>1, FS_Surjection
  <2>13. \A i \in rows : v[i] \in Int
    BY <2>7, <2>8
  <2>14. Bill!Total(w, counted) = Bill!Total(v, rows)
    BY <2>8, <2>9, <2>11, <2>12, <2>13, SameTotal
  <2> QED
    BY <2>5, <2>14 DEF v, ids, rows, txs
<1>4. Bill!SummaryMatchesRows
  BY <1>3 DEF Bill!SummaryMatchesRows
<1> QED
  BY <1>1, <1>2, <1>4

-----------------------------------------------------------------------------
(* The commands. *)

ToolsInv ==
  /\ tool = "bills" => BillInv
  /\ tool = "gh" => GhInv
  /\ tool = "content" => ContentInv
  /\ tool = "issue" => IssueInv
  /\ tool = "audit" => AuditInv
  /\ tool = "data" => DataInv
  /\ tool = "images" => ImgInv

LEMMA Invariant == Spec => []ToolsInv
<1>1. Init => ToolsInv
  BY ToolsAssumption, GhInit, ContentInit, IssueInit, AuditInit, DataInit, ImgInit,
     BillInit
  DEF Init, InitOf, ToolsInv
<1>2. ToolsInv /\ [Next]_vars => ToolsInv'
  <2> SUFFICES ASSUME ToolsInv, [Next]_vars PROVE ToolsInv'
    OBVIOUS
  <2>1. tool' = tool
    BY DEF Next, vars
  <2>2. CASE tool = "gh"
    <3>1. [Gh!Next]_(Gh!vars)
      BY <2>2 DEF Next, vars, common, ofGh, Gh!vars, Gh!origin, Gh!local
    <3> QED
      BY <2>1, <2>2, <3>1, GhNext, ToolsAssumption DEF ToolsInv
  <2>3. CASE tool = "content"
    <3>1. [Content!Next]_(Content!vars)
      BY <2>3 DEF Next, vars, common, ofContent, Content!vars, Content!given, Content!fetching
    <3> QED
      BY <2>1, <2>3, <3>1, ContentNext, ToolsAssumption DEF ToolsInv
  <2>4. CASE tool = "issue"
    <3>1. [Issue!Next]_(Issue!vars)
      BY <2>4 DEF Next, vars, common, ofIssue, Issue!vars, Issue!hist, Issue!github
    <3> QED
      BY <2>1, <2>4, <3>1, IssueNext, ToolsAssumption DEF ToolsInv
  <2>5. CASE tool = "audit"
    <3>1. [Audit!Next]_(Audit!vars)
      BY <2>5 DEF Next, vars, common, ofAudit, Audit!vars, Audit!git, Audit!run
    <3> QED
      BY <2>1, <2>5, <3>1, AuditNext, ToolsAssumption DEF ToolsInv
  <2>6. CASE tool = "data"
    <3>1. [Rules!Next]_(Rules!vars)
      BY <2>6 DEF Next, vars, common, ofData, Rules!vars
    <3> QED
      BY <2>1, <2>6, <3>1, DataNext, ToolsAssumption DEF ToolsInv
  <2>7. CASE tool = "images"
    <3>1. [Img!Next]_(Img!vars)
      BY <2>7 DEF Next, vars, common, ofImg, Img!vars, Img!tree, Img!run, Img!hist
    <3> QED
      BY <2>1, <2>7, <3>1, ImgNext DEF ToolsInv
  <2>8. CASE tool = "bills"
    <3>1. [Bill!Next]_(Bill!vars)
      BY <2>8 DEF Next, vars, common, ofBill, Bill!vars, Bill!bills, Bill!store
    <3> QED
      BY <2>1, <2>8, <3>1, BillNext, ToolsAssumption DEF ToolsInv
  <2>9. CASE tool \notin {"bills", "gh", "content", "issue", "audit", "data", "images"}
    BY <2>1, <2>9 DEF ToolsInv
  <2> QED
    BY <2>2, <2>3, <2>4, <2>5, <2>6, <2>7, <2>8, <2>9
<1> QED
  BY <1>1, <1>2, PTL DEF Spec

-----------------------------------------------------------------------------
(* The theorems. *)

(* The cache, the downloads and the processes keep their types.            *)
THEOREM GhTypeCorrect == Spec => [](tool = "gh" => Gh!TypeOK)
<1>1. ToolsInv => (tool = "gh" => Gh!TypeOK)
  BY GhTypes DEF ToolsInv, GhInv
<1> QED
  BY <1>1, Invariant, PTL

(* LoadWithBackgroundSync and LoadWithCacheTTL (remote.go): a search over  *)
(* a valid cache serves it, whatever the CDN answers and whatever other    *)
(* processes do.                                                           *)
THEOREM SearchesServe == Spec => []ValidCacheServes
<1>1. ToolsInv => ValidCacheServes
  BY DEF ToolsInv, GhInv, IntactInv, ValidCacheServes, Gh!ValidCacheServes
<1> QED
  BY <1>1, Invariant, PTL

(* Manager.Sync validates before it writes (remote.go): a valid cache is   *)
(* never replaced by an invalid one.                                       *)
THEOREM CacheKept ==
  Spec => [][tool = "gh" /\ cache.data # Gh!Broken /\ cache' # Gh!Absent
               => cache'.data # Gh!Broken]_cache
<1> DEFINE Kept == [tool = "gh" /\ cache.data # Gh!Broken /\ cache' # Gh!Absent
                     => cache'.data # Gh!Broken]_cache
<1>1. ASSUME ToolsInv, [Next]_vars
      PROVE  Kept
  <2> SUFFICES ASSUME tool = "gh", cache' # cache, cache.data # Gh!Broken, cache' # Gh!Absent
               PROVE  cache'.data # Gh!Broken
    OBVIOUS
  <2>1. Gh!Next /\ GhInv
    BY <1>1 DEF ToolsInv, Next, vars, common, ofGh
  <2>2. CASE Gh!Age
    <3>1. cache \in [data : GhVersions, state : {"fresh", "stale"}]
      BY <2>1, <2>2 DEF Gh!Age, Caches, Gh!Absent, GhInv
    <3> QED
      BY <2>2, <3>1 DEF Gh!Age
  <2>3. CASE Gh!Remove
    BY <2>3 DEF Gh!Remove
  <2>4. ASSUME NEW p \in Procs, Gh!WriteCache(p)
        PROVE  cache'.data # Gh!Broken
    BY <2>1, <2>4 DEF Gh!WriteCache, GhInv, GotInv
  <2>5. CASE Gh!Edit \/ Gh!Export
    BY <2>5 DEF Gh!Edit, Gh!Export
  <2>6. ASSUME NEW p \in Procs,
               Gh!Search(p) \/ Gh!Sync(p) \/ Gh!Spawn(p) \/ Gh!CheckTTL(p) \/ Gh!TryLoad(p)
                 \/ Gh!Download(p) \/ Gh!LoadFromFile(p) \/ Gh!Kill(p)
        PROVE  cache'.data # Gh!Broken
    BY <2>6 DEF Gh!Search, Gh!Sync, Gh!Spawn, Gh!CheckTTL, Gh!TryLoad, Gh!Download,
                Gh!LoadFromFile, Gh!Kill
  <2> QED
    BY <2>1, <2>2, <2>3, <2>4, <2>5, <2>6 DEF Gh!Next
<1> QED
  BY <1>1, Invariant, PTL DEF Spec

(* The gates of media and of the length, before and after a video is       *)
(* fetched (driver_opencli.go, pipeline.go): whichever calls fail or are   *)
(* late, the AI judges a video by 600 characters at least, of which some   *)
(* are of what is said in it or all are of its page, and never when media  *)
(* are off.                                                                *)
THEOREM VideosHeard == Spec => []HeardOrLong
<1>1. ToolsInv => HeardOrLong
  BY ContentHolds DEF ToolsInv, HeardOrLong
<1> QED
  BY <1>1, Invariant, PTL

(* The order of the candidates (fetcher.go): no item of another episode is *)
(* tried while one of the URL itself is left.                              *)
THEOREM OwnFirstHolds == Spec => []OwnEpisodeFirst
<1>1. ToolsInv => OwnEpisodeFirst
  BY ContentHolds DEF ToolsInv, OwnEpisodeFirst
<1> QED
  BY <1>1, Invariant, PTL

(* The audit (audit.go): when it says ok, nothing it read before it was    *)
(* flawed and is still so.                                                 *)
THEOREM OkIsClean == Spec => []OkMeansClean
<1>1. ToolsInv => OkMeansClean
  BY AuditHolds, ToolsAssumption DEF ToolsInv, OkMeansClean
<1> QED
  BY <1>1, Invariant, PTL

(* fetchComments (review.go): unless a comment is deleted meanwhile, the   *)
(* pages together hold each one that was there at the start.               *)
THEOREM DiscussionRead == Spec => []WholeDiscussion
<1>1. ToolsInv => WholeDiscussion
  BY DEF ToolsInv, IssueInv, Running, WholeDiscussion, Issue!WholeDiscussion
<1> QED
  BY <1>1, Invariant, PTL

(* The field check and the duplicate check (check.go, dedup.go): an item   *)
(* without a name and two items alike are told by one of them.             *)
THEOREM ChecksTell == Spec => []NothingOverlooked
<1>1. ToolsInv => NothingOverlooked
  BY DataHolds DEF ToolsInv, NothingOverlooked
<1> QED
  BY <1>1, Invariant, PTL

(* Sync and the upsert (d1sync), importer.Run and aggregate.Build: however *)
(* bills overlap and statements fail, a row names batches that are there,  *)
(* what an import wrote only a later one replaces, and the summary of a    *)
(* sync is the sum of the rows it wrote.                                   *)
THEOREM ImportsAddUp == Spec => []ImportsHold
<1>1. ToolsInv => ImportsHold
  BY BillHolds DEF ToolsInv, ImportsHold
<1> QED
  BY <1>1, Invariant, PTL

(* applyFixes (check.go), whatever tree it finds, whatever operation fails *)
(* and whenever it is killed: a run deletes copies only of files beside    *)
(* them and overwrites in .temp only what was there or, once an operation  *)
(* has failed, a stray file of the same name; a run that was complete      *)
(* leaves the next nothing to do, and a directory a topic asks for goes    *)
(* only with a container that has files of its own.                        *)
THEOREM FixesHold == Spec => []FixesAreSafe
<1>1. ToolsInv => FixesAreSafe
  BY ImgHolds DEF ToolsInv, FixesAreSafe
<1> QED
  BY <1>1, Invariant, PTL

=============================================================================
