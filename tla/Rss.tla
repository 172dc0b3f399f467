-------------------------------- MODULE Rss --------------------------------
(***************************************************************************)
(* The three commands of rss2nl that keep state over runs: `send`          *)
(* (Newsletter), `hunt` (SourceHunt) and `trns` with the transcript step   *)
(* of send (Transcripts).  Their state is in files of their own, so a      *)
(* behaviour is one of the command that tool names.  A variable stands for *)
(* that of the same name in each module that has it; those the command     *)
(* does not have are Idle.                                                 *)
(***************************************************************************)
EXTENDS Integers, Sequences, FiniteSets

CONSTANTS
  Faults,                                         \* of all three: what may go wrong
  Urls, UrlOrder, HostOf, EscalateAfter, Suppress, ExampleLimit, Errors, Facts, Stale,
  FeedCategories, FetchLimit, SendRuns,           \* Newsletter's Categories, Limit, MaxRuns
  Sources, DomainOf, Traits, Blocked, Chosen, Except, Seedless, Providers, Keyless, Weight,
  RawScore, PerCat, ProviderMax, Max, NewOnly, DryRuns, Mutes,
  HuntCategories, HuntRuns,                       \* SourceHunt's Categories, MaxRuns
  Procs, Commands, Episodes, Refresh, Versions,
  EpisodeLimit, TrnsRuns                          \* Transcripts' Limit, MaxRuns

VARIABLES
  tool,                                           \* "send", "hunt" or "trns"
  phase, file, report, runs, unread,              \* of Newsletter and SourceHunt, or all three
  stage, outcome, dates, streak, unsaved, raced,
  dry, job, pending, mem, stats, html, link, accepted, cut, shown, wanted, wantedThen, lost,
  edited, clobbered,
  pc, command, at, token, got, tally, linked, live, text, meta, broken, mixed

Nl == INSTANCE Newsletter WITH
  Categories <- FeedCategories, Limit <- FetchLimit, MaxRuns <- SendRuns

Hunt == INSTANCE SourceHunt WITH Categories <- HuntCategories, MaxRuns <- HuntRuns

Trns == INSTANCE Transcripts WITH Limit <- EpisodeLimit, MaxRuns <- TrnsRuns

ASSUME RssAssumption ==
  /\ Nl!FailureReportAssumption /\ Nl!NewsletterAssumption
  /\ Hunt!SourceHuntAssumption /\ Trns!TranscriptsAssumption

-----------------------------------------------------------------------------
ofSend == <<stage, outcome, dates, streak, unsaved, raced>>
ofHunt == <<dry, job, pending, mem, stats, html, link, accepted, cut, shown, wanted, wantedThen,
            lost, edited, clobbered>>
ofTrns == <<pc, command, at, token, got, tally, linked, live, text, meta, broken, mixed>>
common == <<phase, report, unread>>
vars   == <<tool, file, runs, common, ofSend, ofHunt, ofTrns>>

Idle == 0

NoSend ==
  /\ stage = Idle /\ outcome = Idle /\ dates = Idle /\ streak = Idle /\ unsaved = Idle
  /\ raced = Idle

NoHunt ==
  /\ dry = Idle /\ job = Idle /\ pending = Idle /\ mem = Idle /\ stats = Idle /\ html = Idle
  /\ link = Idle /\ accepted = Idle /\ cut = Idle /\ shown = Idle /\ wanted = Idle
  /\ wantedThen = Idle /\ lost = Idle /\ edited = Idle /\ clobbered = Idle

NoTrns ==
  /\ pc = Idle /\ command = Idle /\ at = Idle /\ token = Idle /\ got = Idle /\ tally = Idle
  /\ linked = Idle /\ live = Idle /\ text = Idle /\ meta = Idle /\ broken = Idle /\ mixed = Idle

Init ==
  \/ tool = "send" /\ Nl!Init /\ NoHunt /\ NoTrns
  \/ tool = "hunt" /\ Hunt!Init /\ NoSend /\ NoTrns
  \/ tool = "trns" /\ Trns!Init /\ NoSend /\ NoHunt
       /\ phase = Idle /\ report = Idle /\ unread = Idle

Next ==
  \/ tool = "send" /\ Nl!Next /\ UNCHANGED <<tool, ofHunt, ofTrns>>
  \/ tool = "hunt" /\ Hunt!Next /\ UNCHANGED <<tool, ofSend, ofTrns>>
  \/ tool = "trns" /\ Trns!Next /\ UNCHANGED <<tool, common, ofSend, ofHunt>>

Spec == Init /\ [][Next]_vars

-----------------------------------------------------------------------------
(* The properties of the modules, each of its own command. *)

\* The file never claims more failures in a row than there were (Newsletter).
CountsNeverInvented == tool = "send" => Nl!CountsNeverInvented

\* What a newsletter says is so: failures are escalated when they are due, and
\* the dashboard knows the feeds that answered (Newsletter).
NewsletterTells == tool = "send" => Nl!EscalatedWhenDue /\ Nl!DetailsTrue

\* With newOnly a URL is accepted once (SourceHunt).
NewOnlyOnce == tool = "hunt" => Hunt!NewOnlyOnce

\* What a report and its page show is so: nothing muted, nothing that only an
\* older run has found, and what counts as seen was there (SourceHunt).
ReportsHold == tool = "hunt" => Hunt!MutesHold /\ Hunt!SeenWasOffered /\ Hunt!PublishedIsCurrent

\* The saved token is the one the server accepts (Transcripts).
TokenLive == tool = "trns" => Trns!TokenLive

\* Metadata describe their transcript (Transcripts).
CacheCoherent == tool = "trns" => Trns!CacheCoherent

\* Every episode is accounted for once (Transcripts).
TallyAddsUp == tool = "trns" => Trns!TallyAddsUp
=============================================================================
