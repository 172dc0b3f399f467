---------------------------- MODULE WikiContent ----------------------------
(***************************************************************************)
(* The content of a URL on its way to a summary: FetchContent and its      *)
(* drivers (internal/docs/wiki/fetch), then the two calls of the AI that   *)
(* ClassifyURL makes (internal/docs/wiki/classify), all under the deadline *)
(* that prepareInboxEntry gives the URL.  What becomes of the AI's answer  *)
(* is WikiRoute.                                                           *)
(*                                                                         *)
(* Every request and every command may fail; from the deadline on they all *)
(* do, but nothing stops by itself.  Of a content it is kept whether it is *)
(* long enough for a video (600 characters), whether its page alone is,    *)
(* and what it is made of.                                                 *)
(***************************************************************************)
EXTENDS Naturals, Sequences, FiniteSets

CONSTANTS
  Sites,         \* what a URL may lead to
  Drivers,       \* the drivers the configuration may name,
  MediaEnabled,  \* and the values of its wiki.media.enabled
  Feeds,         \* the feeds a podcast URL may lead to: sequences of [own, says, tag, link]
  AskAttempts,   \* of classifyOnly: 3
  VerifyAttempts \* of runVerify: 2

Videos   == {"bilibili", "youtube"}
Adapters == Videos \cup {"weixin", "zhihu"}
AllSites == Adapters \cup {"invalid", "repo", "audio", "podcast", "tco", "page"}

\* The transcripts of an item's tag and of the link of its description.
Texts == {"none", "short", "long"}
FeedItems == [own : BOOLEAN, says : BOOLEAN, tag : Texts, link : Texts]

WikiContentAssumption ==
  /\ Sites \subseteq AllSites
  /\ Drivers \subseteq {"opencli", "http-readability"}
  /\ MediaEnabled \subseteq BOOLEAN
  /\ Feeds \subseteq Seq(FeedItems)
  /\ AskAttempts \in Nat \ {0} /\ VerifyAttempts \in Nat \ {0}

VARIABLES
  driver, media,  \* the configuration
  entry,     \* what the URL of the inbox leads to, as its text shows
  site,      \* what it leads to after t.co
  pc,        \* where the processing is
  expired,   \* the deadline has passed
  queue,     \* the items of the feed that are still to be tried
  body,      \* the content
  dir,       \* the directory of the download: "none", "made" or "kept"
  attempts,  \* calls of the AI so far
  outcome    \* "none", "fetch", "resolve", "extract", "ai_error", "answered" or "killed"

given    == <<driver, media, entry>>
fetching == <<site, queue, body, dir>>
vars     == <<given, pc, expired, fetching, attempts, outcome>>

Empty == [parts |-> {}, page |-> FALSE, long |-> FALSE]

Init ==
  /\ driver \in Drivers /\ media \in MediaEnabled
  /\ entry \in Sites /\ site = entry
  /\ pc = "start" /\ outcome = "none"
  /\ expired = FALSE
  /\ queue = <<>>
  /\ body = Empty
  /\ dir = "none"
  /\ attempts = 0

Goto(where) == pc' = where /\ UNCHANGED outcome
End(kind)   == pc' = "over" /\ outcome' = kind

\* Only what needs neither network nor command works after the deadline.
InTime == ~expired

\* The content is one or the other length; what is long stays long.
Holds(parts) ==
  \E long \in {body.long, TRUE} :
    body' = [parts |-> body.parts \cup parts, page |-> body.page \/ (long /\ "page" \in parts),
             long |-> long]

\* failureKindForFetchResult of an error without a kind: its text decides, and
\* the text ends with what the command has printed.
Untyped == {"fetch", "extract", "resolve"}

-----------------------------------------------------------------------------
(* FetchContent                                                            *)

\* The driver's FetchContent; the site is the one before t.co is resolved.
Drive ==
  CASE driver = "http-readability"                         -> "http"
    [] driver = "opencli" /\ site \in Videos /\ ~media -> "off"
    [] driver = "opencli" /\ site = "tco"                  -> "tco"
    [] OTHER                                               -> "adapter"

Begin ==
  /\ pc = "start"
  /\ CASE site \in {"invalid", "audio"}          -> End("extract")
       [] site = "repo"                          -> Goto("repo")
       [] site = "podcast" /\ ~media             -> End("extract")
       [] site = "podcast" /\ media              -> Goto("feed")
       [] OTHER -> IF Drive = "off" THEN End("extract") ELSE Goto(Drive)
  /\ UNCHANGED <<given, expired, fetching, attempts>>

(* fetchGitHubRepo *)
FetchRepo ==
  /\ pc = "repo"
  /\ \/ InTime /\ Holds({"repo"}) /\ Goto("fetched")
     \/ \E kind \in Untyped : End(kind) /\ UNCHANGED body
  /\ UNCHANGED <<given, expired, site, queue, dir, attempts>>

-----------------------------------------------------------------------------
(* Podcasts                                                                *)

\* hasTranscriptSignal
Signals(item) == item.tag # "none" \/ item.says

\* Mutant of Candidates: as the feed has them.
CandidatesAsListed(feed) == [i \in DOMAIN feed |-> i]

\* What addExactURLMatches, addTranscriptLikeItems or only addRemainingItems
\* adds: the items of this URL, those that may have a transcript, the others.
Class(item) == IF item.own THEN 1 ELSE IF Signals(item) THEN 2 ELSE 3

\* podcastFeedCandidates: each item once, by class and in the order of the feed.
Candidates(feed) ==
  LET Before(j) == {i \in DOMAIN feed :
                      \/ Class(feed[i]) < Class(feed[j])
                      \/ Class(feed[i]) = Class(feed[j]) /\ i < j}
  IN  [n \in DOMAIN feed |-> CHOOSE j \in DOMAIN feed : Cardinality(Before(j)) = n - 1]

(* fetchPodcastTranscript: a feed with items, or a failure. *)
FetchFeed ==
  /\ pc = "feed"
  /\ \/ /\ InTime
        /\ \E feed \in Feeds :
             /\ feed # <<>>
             /\ queue' = LET order == Candidates(feed) IN [i \in DOMAIN order |-> feed[order[i]]]
        /\ Goto("episode")
     \/ End("extract") /\ UNCHANGED queue
  /\ UNCHANGED <<given, expired, site, body, dir, attempts>>

\* A provider's answer: the transcript, or nothing when there is none or it fails.
Provided(text) == {"none"} \cup IF InTime THEN {text} ELSE {}

\* Pipeline.Fetch: the link is only tried when the tag gives nothing at all.
EpisodeTexts(item) == (Provided(item.tag) \ {"none"}) \cup Provided(item.link)

(* A turn of the loop of fetchPodcastTranscript, fetchTranscriptFromEpisode. *)
TryEpisode ==
  /\ pc = "episode"
  /\ IF queue = <<>> THEN End("extract") /\ UNCHANGED <<queue, body>>
     ELSE \E text \in EpisodeTexts(Head(queue)) :
            IF text = "long"
            THEN /\ body' = [parts |-> {"transcript"}, page |-> FALSE, long |-> TRUE]
                 /\ Goto("fetched")
                 /\ UNCHANGED queue
            ELSE /\ queue' = Tail(queue)
                 /\ UNCHANGED <<pc, outcome, body>>
  /\ UNCHANGED <<given, expired, site, dir, attempts>>

-----------------------------------------------------------------------------
(* The driver http-readability                                             *)

\* assessContentQuality
Pages  == {"empty", "challenge", "login", "brief", "links", "good"}
Good(page) == page = "good"

(* A page that is not good, or not there; without readability's text the   *)
(* whole page is taken.                                                    *)
FetchHTTP ==
  /\ pc = "http"
  /\ \/ /\ InTime
        /\ \E page \in Pages :
             IF Good(page) THEN Holds({"page"}) /\ Goto("fetched")
             ELSE End("extract") /\ UNCHANGED body
     \/ End("fetch") /\ UNCHANGED body
     \/ InTime /\ End("resolve") /\ UNCHANGED body
  /\ UNCHANGED <<given, expired, site, queue, dir, attempts>>

-----------------------------------------------------------------------------
(* The driver opencli                                                      *)

(* resolveTcoURL: where the link leads, or the link itself.  What is no    *)
(* adapter's is read as a page, repositories and podcasts too.             *)
Resolve ==
  /\ pc = "tco"
  /\ \E end \in IF InTime THEN Sites ELSE {"tco"} : site' = end
  /\ Goto("adapter")
  /\ UNCHANGED <<given, expired, queue, body, dir, attempts>>

\* fetchWithAdapter, or fetchWebRead, by runOpenCLI; no quality is asked for.
ReadSite ==
  /\ pc = "adapter" /\ site # "weixin"
  /\ \/ InTime /\ Holds({"page"}) /\ Goto(IF site \in Videos THEN "transcript" ELSE "fetched")
     \/ \E kind \in Untyped : End(kind) /\ UNCHANGED body
  /\ UNCHANGED <<given, expired, site, queue, dir, attempts>>

\* A transcript is added, or dropped because it is too short.
AddTranscript == InTime /\ (Holds({"transcript"}) \/ UNCHANGED body)

(* appendYoutubeTranscript *)
AppendYoutube ==
  /\ pc = "transcript" /\ site = "youtube"
  /\ AddTranscript \/ UNCHANGED body
  /\ Goto("fetched")
  /\ UNCHANGED <<given, expired, site, queue, dir, attempts>>

(* appendBilibiliTranscript: only one that is missing is replaced. *)
AppendBilibili ==
  /\ pc = "transcript" /\ site = "bilibili"
  /\ \/ AddTranscript /\ Goto("fetched")
     \/ UNCHANGED body /\ Goto("official")
  /\ UNCHANGED <<given, expired, site, queue, dir, attempts>>

(* appendBilibiliSummary *)
AppendSummary ==
  /\ pc = "official"
  /\ (InTime /\ Holds({"official"})) \/ UNCHANGED body
  /\ Goto("fetched")
  /\ UNCHANGED <<given, expired, site, queue, dir, attempts>>

(* fetchWeixinArticle: the download goes to a directory of its own. *)
MakeDir ==
  /\ pc = "adapter" /\ site = "weixin"
  /\ \/ dir' = "made" /\ Goto("download")
     \/ End("extract") /\ UNCHANGED dir
  /\ UNCHANGED <<given, expired, site, queue, body, attempts>>

(* The rest of it, from the command to the removal of the directory. *)
Download ==
  /\ pc = "download"
  /\ \/ InTime /\ Holds({"page"}) /\ Goto("fetched")
     \/ End("fetch") /\ UNCHANGED body
     \/ InTime /\ End("extract") /\ UNCHANGED body
  /\ dir' \in {"none", "kept"}
  /\ UNCHANGED <<given, expired, site, queue, attempts>>

-----------------------------------------------------------------------------
(* prepareInboxEntry and ClassifyURL                                       *)

\* Mutant of TooShort: it asks what the text of the URL shows no more.
NeverTooShort == FALSE

\* A video, by the text of its URL, whose content cannot be a transcript.
TooShort == entry \in Videos /\ ~body.long

Judge ==
  /\ pc = "fetched"
  /\ IF TooShort THEN End("extract") ELSE Goto("catalog")
  /\ UNCHANGED <<given, expired, fetching, attempts>>

(* ghTopicCatalog: without any topic nobody is asked. *)
LoadCatalog ==
  /\ pc = "catalog"
  /\ Goto("ask") \/ End("ai_error")
  /\ UNCHANGED <<given, expired, fetching, attempts>>

(* classifyOnly: an attempt fails with the call, no JSON or an invalid one. *)
Ask ==
  /\ pc = "ask"
  /\ \/ InTime /\ Goto("verify") /\ attempts' = 0
     \/ /\ attempts' = attempts + 1
        /\ IF attempts' = AskAttempts THEN End("ai_error") ELSE Goto("ask")
  /\ UNCHANGED <<given, expired, fetching>>

\* maybeVerify after an error.
Unverified == End("answered")

(* maybeVerify: not for repositories, nor after the deadline; an attempt   *)
(* fails with the call or an empty answer.                                 *)
Verify ==
  /\ pc = "verify"
  /\ \/ End("answered") /\ UNCHANGED attempts  \* verified, or skipped
     \/ expired /\ Unverified /\ UNCHANGED attempts
     \/ /\ attempts' = attempts + 1
        /\ IF attempts' = VerifyAttempts THEN Unverified ELSE Goto("verify")
  /\ UNCHANGED <<given, expired, fetching>>

-----------------------------------------------------------------------------
(* The deadline passes. *)
Expire ==
  /\ pc # "over" /\ ~expired
  /\ expired' = TRUE
  /\ UNCHANGED <<given, pc, fetching, attempts, outcome>>

(* The process is killed. *)
Kill ==
  /\ pc # "over"
  /\ End("killed")
  /\ UNCHANGED <<given, expired, fetching, attempts>>

Next ==
  \/ Begin \/ FetchRepo \/ FetchFeed \/ TryEpisode \/ FetchHTTP
  \/ Resolve \/ ReadSite \/ AppendYoutube \/ AppendBilibili \/ AppendSummary \/ MakeDir \/ Download
  \/ Judge \/ LoadCatalog \/ Ask \/ Verify
  \/ Expire \/ Kill

Spec == Init /\ [][Next]_vars

-----------------------------------------------------------------------------
(* The transcript of another episode is taken for this URL only after every *)
(* item of the URL itself has been tried.                                   *)
OwnEpisodeFirst ==
  body.parts = {"transcript"} /\ queue # <<>> /\ ~Head(queue).own =>
    \A i \in DOMAIN queue : ~queue[i].own

\* Parts of what is said in a video.
Said == {"transcript", "official"}

(* The AI is asked about a video never when media are off, and only with   *)
(* 600 characters of which some are of what is said in it, or all are of   *)
(* its page: a short description alone is not judged when the transcript   *)
(* fails or is late, a long one is (pipeline.go:91-93).  A link of t.co    *)
(* does not show that it leads to a video, and escapes all of this.        *)
HeardOrLong ==
  site \in Videos /\ entry # "tco" /\ pc \in {"catalog", "ask", "verify"} =>
    /\ media \/ driver # "opencli"
    /\ body.long
    /\ body.page \/ body.parts \cap Said # {}
=============================================================================
