----------------------------- MODULE Transcripts -----------------------------
(***************************************************************************)
(* Transcripts of podcast episodes: `rss2nl trns` and the transcript step  *)
(* of `rss2nl send` (cmd/rss2nl/cmd/trns.go), the router and its providers *)
(* (internal/rss/transcript), the cache directory and the credential file. *)
(*                                                                         *)
(* Several processes share the credential file, and those of the same      *)
(* command the cache.  Every use of Xiaoyuzhou trades the refresh token of *)
(* the file for a new one; the server knows the latest only.  A cache      *)
(* entry is two files, written one after the other.  Writes may fail and a *)
(* process may be killed at any moment.                                    *)
(*                                                                         *)
(* A transcript is a version number; that of JSON may be blank.            *)
(***************************************************************************)
EXTENDS Naturals, Sequences, FiniteSets

CONSTANTS
  Procs,       \* the processes
  Commands,    \* which commands they may run: "send", "trns"
  Episodes,    \* <<...>>: the items of the feeds, each a record [media, audio, eid, links]
  Limit,       \* trns.defaultLimit or --limit, 0 for none
  Refresh,     \* --refresh
  Versions,    \* the transcripts that a fetch may bring
  Faults,      \* which of "kill", "answer", "token", "text", "meta", "upload" may happen
  MaxRuns      \* bound: how many runs of all processes

None  == 0     \* no file
Torn  == 0     \* a credential file without a token
Blank == 1000  \* a transcript of white space

\* What is declared of a transcript, what its extension shows and its data.
Formats == {"plain", "vtt", "srt", "json", "html", "other"}
Links   == [type : Formats, named : BOOLEAN, extension : Formats, data : Formats]

TranscriptsAssumption ==
  /\ Commands \subseteq {"send", "trns"}
  /\ Episodes \in Seq([media : BOOLEAN, audio : BOOLEAN, eid : BOOLEAN, links : Seq(Links)])
  /\ Versions \subseteq 1 .. Blank - 1
  /\ Limit \in Nat /\ MaxRuns \in Nat
  /\ Refresh \in BOOLEAN

VARIABLES
  pc,       \* where a process is
  command,  \* what it runs
  at,       \* the index of the episode it works on; 0 before the first
  token,    \* the refresh token it holds
  got,      \* the transcript it holds
  tally,    \* its NewsletterTrnsReport, or how many entries the index has
  linked,   \* per episode the transcript that the newsletter links to
  live,     \* the refresh token that the server accepts
  file,     \* the refresh token of the credential file
  text,     \* per command and episode, transcript.txt
  meta,     \* per command and episode, the transcript that metadata.json describes
  runs,     \* how many runs have started
  broken,   \* history: an answer with a token was lost, or not saved
  mixed     \* history: per command and episode, an entry was left half written

local == <<pc, command, at, token, got, tally, linked>>
shared == <<live, file, text, meta>>
vars == <<local, shared, runs, broken, mixed>>

Keys == {"send", "trns"} \X DOMAIN Episodes

\* The cache keys of the two commands have nothing in common: one hashes the
\* feed's URL and the GUID, the other its title and the item's hash.
Key(p) == <<command[p], at[p]>>

NoTally == [eligible |-> 0, attempted |-> 0, linked |-> 0, failed |-> 0, noMedia |-> 0, byLimit |-> 0]

Init ==
  /\ pc = [p \in Procs |-> "idle"]
  /\ command \in [Procs -> Commands]
  /\ at = [p \in Procs |-> 0]
  /\ token = [p \in Procs |-> Torn]
  /\ got = [p \in Procs |-> None]
  /\ tally = [p \in Procs |-> NoTally]
  /\ linked = [p \in Procs |-> [i \in DOMAIN Episodes |-> None]]
  /\ live = 1 /\ file = 1
  /\ text = [k \in Keys |-> None] /\ meta = [k \in Keys |-> None]
  /\ runs = 0
  /\ broken = FALSE
  /\ mixed = [k \in Keys |-> FALSE]

Goto(p, where) == pc' = [pc EXCEPT ![p] = where]

Count(p, field) == tally' = [tally EXCEPT ![p][field] = @ + 1]

-----------------------------------------------------------------------------
(* The runs.  send validates the credentials first; without them it skips  *)
(* every transcript, those of RSS too.                                     *)

Start(p) ==
  /\ pc[p] = "idle"
  /\ runs < MaxRuns
  /\ runs' = runs + 1
  /\ Goto(p, IF command[p] = "send" THEN "load" ELSE "next")
  /\ UNCHANGED <<command, at, token, got, tally, linked, shared, broken, mixed>>

Reached(n) == Limit > 0 /\ n >= Limit

\* newsletterItemHasTrnsInput; trns takes every item of a media feed.
HasInput(p, i) == Episodes[i].media /\ (command[p] = "trns" \/ Episodes[i].audio \/ Episodes[i].links # <<>>)

\* The head of the loops processNewsletterTrnsItems and processFeedURL.
NextItem(p) ==
  /\ pc[p] = "next"
  /\ LET i == at[p] + 1
     IN IF i > Len(Episodes)
        THEN Goto(p, "end") /\ UNCHANGED <<at, tally>>
        ELSE /\ at' = [at EXCEPT ![p] = i]
             /\ \/ ~HasInput(p, i) /\ Goto(p, "next") /\ Count(p, "noMedia")
                \/ /\ HasInput(p, i)
                   /\ IF Reached(tally[p].attempted)
                      THEN /\ tally' = [tally EXCEPT ![p].eligible = @ + 1, ![p].byLimit = @ + 1]
                           /\ Goto(p, "next")
                      ELSE /\ tally' = [tally EXCEPT ![p].eligible = @ + 1, ![p].attempted = @ + 1]
                           /\ Goto(p, "cache")
  /\ token' = [token EXCEPT ![p] = Torn]
  /\ got' = [got EXCEPT ![p] = None]
  /\ UNCHANGED <<command, linked, shared, runs, broken, mixed>>

\* Cache.Get: metadata that cannot be read, or whose transcript is gone, are a miss.
Hit(k) == meta[k] # None /\ text[k] # None

\* Where Router.Fetch leads.
Route(i) == IF Episodes[i].eid THEN "load" ELSE IF Episodes[i].links # <<>> THEN "body" ELSE "failed"

\* trns takes a hit as it is; send reads the transcript, and one that is blank is an error.
LookUp(p) ==
  /\ pc[p] = "cache"
  /\ LET k == Key(p)
     IN IF Hit(k) /\ ~(command[p] = "trns" /\ Refresh)
        THEN /\ got' = [got EXCEPT ![p] = text[k]]
             /\ Goto(p, CASE command[p] = "trns" -> "found"
                          [] command[p] = "send" /\ text[k] = Blank -> "failed"
                          [] OTHER -> "page")
        ELSE Goto(p, Route(at[p])) /\ UNCHANGED got
  /\ UNCHANGED <<command, at, token, tally, linked, shared, runs, broken, mixed>>

-----------------------------------------------------------------------------
(* refreshAndGetToken.                                                     *)

\* Without a token: before the first episode send is over, else the episode fails.
Denied(p) == IF at[p] = 0 THEN "end" ELSE "failed"

LoadCredentials(p) ==
  /\ pc[p] = "load"
  /\ token' = [token EXCEPT ![p] = file]
  /\ Goto(p, IF file = Torn THEN Denied(p) ELSE "rotate")
  /\ UNCHANGED <<command, at, got, tally, linked, shared, runs, broken, mixed>>

\* The request.  The server accepts its latest token only and replaces it; its
\* answer may get lost.
Rotate(p) ==
  /\ pc[p] = "rotate"
  /\ \/ /\ token[p] = live
        /\ live' = live + 1
        /\ token' = [token EXCEPT ![p] = live + 1]
        /\ Goto(p, "truncate")
        /\ UNCHANGED broken
     \/ /\ token[p] = live /\ "answer" \in Faults
        /\ live' = live + 1
        /\ broken' = TRUE
        /\ Goto(p, Denied(p))
        /\ UNCHANGED token
     \/ /\ token[p] # live
        /\ Goto(p, Denied(p))
        /\ UNCHANGED <<live, token, broken>>
  /\ UNCHANGED <<command, at, got, tally, linked, file, text, meta, runs, mixed>>

\* saveCredentials is os.WriteFile: the file is emptied, then written.
Truncate(p) ==
  /\ pc[p] = "truncate"
  /\ \/ file' = Torn /\ Goto(p, "save") /\ UNCHANGED broken
     \/ "token" \in Faults /\ broken' = TRUE /\ Goto(p, Denied(p)) /\ UNCHANGED file
  /\ UNCHANGED <<command, at, token, got, tally, linked, live, text, meta, runs, mixed>>

(* Mutant of Save: the old token is kept. *)
SaveOld(p) ==
  /\ pc[p] = "save"
  /\ file' = token[p] - 1
  /\ Goto(p, IF at[p] = 0 THEN "next" ELSE "body")
  /\ UNCHANGED <<command, at, token, got, tally, linked, live, text, meta, runs, broken, mixed>>

Save(p) ==
  /\ pc[p] = "save"
  /\ \/ file' = token[p] /\ Goto(p, IF at[p] = 0 THEN "next" ELSE "body") /\ UNCHANGED broken
     \/ "token" \in Faults /\ broken' = TRUE /\ Goto(p, Denied(p)) /\ UNCHANGED file
  /\ UNCHANGED <<command, at, token, got, tally, linked, live, text, meta, runs, mixed>>

-----------------------------------------------------------------------------
(* What a provider brings.                                                 *)

Rank == [plain |-> 4, vtt |-> 3, srt |-> 2, json |-> 1, html |-> 0, other |-> 0]

LinkScore(link) == Rank[link.type] + IF link.named THEN 1 ELSE 0

\* pickBestTranscriptLink: the first of the highest score.
BestLink(links) ==
  links[CHOOSE i \in DOMAIN links : \A j \in DOMAIN links :
          \/ LinkScore(links[j]) < LinkScore(links[i])
          \/ LinkScore(links[j]) = LinkScore(links[i]) /\ i <= j]

\* detectTranscriptContentType: what is declared, the extension, the data.
ContentType(link) ==
  LET known == SelectSeq(<<link.type, link.extension, link.data>>, LAMBDA t : t # "other")
  IN IF known = <<>> THEN "plain" ELSE Head(known)

\* Everything is trimmed but JSON, and an empty transcript is an error.
Contents(episode) ==
  Versions \cup IF ~episode.eid /\ ContentType(BestLink(episode.links)) = "json" THEN {Blank} ELSE {}

Body(p) ==
  /\ pc[p] = "body"
  /\ \/ /\ \E v \in Contents(Episodes[at[p]]) : got' = [got EXCEPT ![p] = v]
        /\ Goto(p, "text")
     \/ Goto(p, "failed") /\ UNCHANGED got
  /\ UNCHANGED <<command, at, token, tally, linked, shared, runs, broken, mixed>>

-----------------------------------------------------------------------------
(* Cache.Set.  Its errors are only logged.                                 *)

Cached(p) == IF command[p] = "send" THEN "page" ELSE "found"

Writing(p, k) == pc[p] = "meta" /\ Key(p) = k

WriteText(p) ==
  /\ pc[p] = "text"
  /\ LET k == Key(p)
     IN \/ /\ text' = [text EXCEPT ![k] = got[p]]
           /\ mixed' = [mixed EXCEPT ![k] = \E q \in Procs \ {p} : Writing(q, k)]
           /\ Goto(p, "meta")
        \/ "text" \in Faults /\ Goto(p, Cached(p)) /\ UNCHANGED <<text, mixed>>
  /\ UNCHANGED <<command, at, token, got, tally, linked, live, file, meta, runs, broken>>

(* Mutant of WriteMeta: existing metadata are left alone. *)
WriteMetaOnce(p) ==
  /\ pc[p] = "meta"
  /\ LET k == Key(p) IN meta' = [meta EXCEPT ![k] = IF meta[k] = None THEN got[p] ELSE meta[k]]
  /\ Goto(p, Cached(p))
  /\ UNCHANGED <<command, at, token, got, tally, linked, live, file, text, runs, broken, mixed>>

WriteMeta(p) ==
  /\ pc[p] = "meta"
  /\ LET k == Key(p)
     IN \/ meta' = [meta EXCEPT ![k] = got[p]] /\ UNCHANGED mixed
        \/ "meta" \in Faults /\ mixed' = [mixed EXCEPT ![k] = TRUE] /\ UNCHANGED meta
  /\ Goto(p, Cached(p))
  /\ UNCHANGED <<command, at, token, got, tally, linked, live, file, text, runs, broken>>

-----------------------------------------------------------------------------
(* The end of an episode.                                                  *)

\* summarizeItemTrns, which cannot fail, and uploadItemTrns.
Upload(p) ==
  /\ pc[p] = "page"
  /\ \/ /\ linked' = [linked EXCEPT ![p][at[p]] = got[p]]
        /\ Count(p, "linked")
        /\ Goto(p, "next")
     \/ "upload" \in Faults /\ Goto(p, "failed") /\ UNCHANGED <<linked, tally>>
  /\ UNCHANGED <<command, at, token, got, shared, runs, broken, mixed>>

Found(p) ==
  /\ pc[p] = "found"
  /\ Count(p, "linked")
  /\ Goto(p, "next")
  /\ UNCHANGED <<command, at, token, got, linked, shared, runs, broken, mixed>>

(* Mutant of Fail: a failure is not counted. *)
FailUncounted(p) ==
  /\ pc[p] = "failed"
  /\ Goto(p, "next")
  /\ UNCHANGED <<command, at, token, got, tally, linked, shared, runs, broken, mixed>>

Fail(p) ==
  /\ pc[p] = "failed"
  /\ Count(p, "failed")
  /\ Goto(p, "next")
  /\ UNCHANGED <<command, at, token, got, linked, shared, runs, broken, mixed>>

Forgotten(p) ==
  /\ token' = [token EXCEPT ![p] = Torn]
  /\ got' = [got EXCEPT ![p] = None]
  /\ at' = [at EXCEPT ![p] = 0]
  /\ tally' = [tally EXCEPT ![p] = NoTally]
  /\ linked' = [linked EXCEPT ![p] = [i \in DOMAIN Episodes |-> None]]

\* The index is written, or the newsletter goes on.
End(p) ==
  /\ pc[p] = "end"
  /\ Goto(p, "idle")
  /\ Forgotten(p)
  /\ UNCHANGED <<command, shared, runs, broken, mixed>>

Kill(p) ==
  /\ "kill" \in Faults
  /\ pc[p] \notin {"idle", "end"}
  /\ Goto(p, "idle")
  /\ Forgotten(p)
  /\ broken' = (broken \/ pc[p] \in {"truncate", "save"})
  /\ mixed' = IF pc[p] = "meta" THEN [mixed EXCEPT ![Key(p)] = TRUE] ELSE mixed
  /\ UNCHANGED <<command, shared, runs>>

Next ==
  \E p \in Procs :
    \/ Start(p) \/ NextItem(p) \/ LookUp(p)
    \/ LoadCredentials(p) \/ Rotate(p) \/ Truncate(p) \/ Save(p)
    \/ Body(p) \/ WriteText(p) \/ WriteMeta(p)
    \/ Upload(p) \/ Found(p) \/ Fail(p) \/ End(p) \/ Kill(p)

Spec == Init /\ [][Next]_vars

-----------------------------------------------------------------------------
Places == {"idle", "next", "cache", "load", "rotate", "truncate", "save", "body", "text", "meta",
           "page", "found", "failed", "end"}

TypeOK ==
  /\ pc \in [Procs -> Places]
  /\ command \in [Procs -> Commands]
  /\ at \in [Procs -> 0 .. Len(Episodes)]
  /\ token \in [Procs -> Nat] /\ live \in Nat /\ file \in Nat
  /\ got \in [Procs -> Nat]
  /\ text \in [Keys -> Nat] /\ meta \in [Keys -> Nat]
  /\ broken \in BOOLEAN /\ mixed \in [Keys -> BOOLEAN]
  /\ runs \in 0 .. MaxRuns

(* The credential file holds the token that the server accepts, whatever   *)
(* the processes do at the same time, except while one of them saves a new *)
(* one, and as long as no token was lost on its way to the file: to a      *)
(* kill, to a write that failed or with the server's answer.               *)
TokenLive ==
  ~broken => file = live \/ \E p \in Procs : pc[p] \in {"truncate", "save"} /\ token[p] = live

(* The metadata of a cache entry describe its transcript, except while it  *)
(* is being replaced, and unless a replacement has stopped half way or two *)
(* processes have replaced it at the same time.                            *)
CacheCoherent ==
  \A k \in Keys : meta[k] # None /\ ~mixed[k] /\ (\A p \in Procs : ~Writing(p, k)) => meta[k] = text[k]

(* At the end of a run every episode is accounted for once, under what has *)
(* become of it, and send has linked as many pages as it says; a run that  *)
(* found no credentials counts nothing.                                    *)
TallyAddsUp ==
  \A p \in Procs : pc[p] = "end" =>
    LET t == tally[p]
    IN /\ t = NoTally \/ t.eligible + t.noMedia = Len(Episodes)
       /\ t.eligible = t.attempted + t.byLimit
       /\ t.attempted = t.linked + t.failed
       /\ command[p] = "send" => t.linked = Cardinality({i \in DOMAIN Episodes : linked[p][i] # None})
=============================================================================
