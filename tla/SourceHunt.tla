----------------------------- MODULE SourceHunt -----------------------------
(***************************************************************************)
(* `rss2nl hunt`, run after run (cmd/rss2nl/cmd/hunt.go): every provider   *)
(* is asked for every category; what it finds is dropped when its domain   *)
(* is blocked or when the user has muted it, remembered as seen, scored,   *)
(* sorted and cut; the reports are written, the state saved, and the HTML  *)
(* report is published.                                                    *)
(*                                                                         *)
(* A candidate's URL is normalised.  The user mutes URLs and domains by    *)
(* editing the state file, at any time.  A run may be killed, the state    *)
(* may be unreadable, and saving, writing and publishing may fail.         *)
(***************************************************************************)
EXTENDS Integers, Sequences, FiniteSets

CONSTANTS
  Sources,      \* the URLs the providers know
  DomainOf,     \* DomainOf[u]: the domain of a URL
  Traits,       \* Traits[u]: what classifyCandidate can tell of a URL and its title
  Blocked,      \* the blocked domains, subdomains included
  Categories,   \* the categories of the configuration, in order
  Chosen,       \* --category; {} when not given
  Except,       \* hunt.categories.except
  Seedless,     \* the categories without a URL
  Providers,    \* the providers, in order
  Keyless,      \* the providers without an API key
  Weight,       \* Weight[x]: the weight of a provider or type in percent, 0 if not given
  RawScore,     \* RawScore[p][u]: the score that provider p gives u, in percent
  PerCat,       \* --per-category, 0 when not given
  ProviderMax,  \* --provider-max, 0 when not given
  Max,          \* --max
  NewOnly,      \* --new-only
  DryRuns,      \* the values of --dry-run that runs may have
  Mutes,        \* what the user may mute: URLs and domains
  Faults,       \* which of "kill", "read", "save", "html", "upload" may happen
  MaxRuns       \* bound: how many runs

Domains   == {DomainOf[u] : u \in Sources}
Mutable   == Sources \cup Domains
Known     == {"exa", "tavily", "keenable"}
Plain     == {"keenable"}     \* is sent no limit and gives no scores
Types     == {"repo", "newsletter", "author", "source", "unknown"}

SourceHuntAssumption ==
  /\ IsFiniteSet(Sources)
  /\ Mutes \subseteq Mutable
  /\ DryRuns \subseteq BOOLEAN /\ NewOnly \in BOOLEAN
  /\ Providers \in Seq(Known) /\ Providers # <<>>
  /\ \A i \in DOMAIN Providers :
       Weight[Providers[i]] \in Int /\ \A u \in Sources : RawScore[Providers[i]][u] \in Int
  /\ \A type \in Types : Weight[type] \in Int
  /\ PerCat \in Nat /\ ProviderMax \in Nat /\ Max \in Nat /\ MaxRuns \in Nat

VARIABLES
  phase,      \* where the run is
  dry,        \* --dry-run of this run
  job,        \* the next pair of a category and a provider
  pending,    \* what is left to look at of the provider's answer
  mem,        \* the state in memory: the URLs seen, and what is muted
  file,       \* the state file
  report,     \* the candidates of the report, in order
  stats,      \* its statistics
  html,       \* the run whose report the HTML file holds, 0 for none
  link,       \* the run whose report this run has published, 0 for none
  runs,       \* how many runs have started
  accepted,   \* history: how often a URL was accepted
  cut,        \* history: the URLs that Max has cut off a report
  shown,      \* history: the URLs of reports
  wanted,     \* history: what the user has muted
  wantedThen, \* history: what the user had muted when this run read the file
  lost,       \* history: seen URLs were lost: a kill, a failed save or read, a dry run
  unread,     \* history: a run could not read the file
  edited,     \* history: the user has edited the file since this run read it
  clobbered   \* history: a save has undone such an edit, or replaced a file it could not read

run     == <<phase, dry, job, pending, mem, report, stats>>
history == <<accepted, cut, shown, wanted, wantedThen, lost, unread, edited, clobbered>>
vars    == <<run, file, html, link, runs, history>>

Empty == [seen |-> {}, muted |-> {}]
NoStats == [raw |-> 0, accepted |-> 0, filtered |-> 0, calls |-> 0, successful |-> 0]

Init ==
  /\ phase = "idle" /\ dry = FALSE /\ job = 1 /\ pending = <<>>
  /\ mem = Empty /\ file = Empty
  /\ report = <<>> /\ stats = NoStats
  /\ html = 0 /\ link = 0 /\ runs = 0
  /\ accepted = [u \in Sources |-> 0]
  /\ cut = {} /\ shown = {} /\ wanted = {} /\ wantedThen = {}
  /\ lost = FALSE /\ unread = FALSE /\ edited = FALSE /\ clobbered = FALSE

-----------------------------------------------------------------------------
(* What a run is about to do.                                              *)

FilterCategories ==
  SelectSeq(Categories, LAMBDA c : IF Chosen # {} THEN c \in Chosen ELSE c \notin Except)

\* processCategory returns at once when a category has no seeds.
Scanned == SelectSeq(FilterCategories, LAMBDA c : c \notin Seedless)

Jobs == Len(Scanned) * Len(Providers)
ProviderOf(j) == Providers[((j - 1) % Len(Providers)) + 1]
CategoryOf(j) == Scanned[((j - 1) \div Len(Providers)) + 1]

EffectivePerCat      == IF PerCat = 0 THEN 10 ELSE PerCat
EffectiveProviderMax == IF ProviderMax = 0 THEN EffectivePerCat * 2 ELSE ProviderMax

StartRun ==
  /\ phase = "idle"
  /\ runs < MaxRuns
  /\ phase' = "scanning"
  /\ dry' \in DryRuns
  /\ runs' = runs + 1
  /\ \E readable \in IF "read" \in Faults THEN BOOLEAN ELSE {TRUE} :
       /\ mem' = IF readable THEN file ELSE Empty
       /\ lost' = (lost \/ ~readable)
       /\ unread' = ~readable
  /\ wantedThen' = wanted
  /\ edited' = FALSE
  /\ UNCHANGED <<job, pending, report, stats, file, html, link, accepted, cut, shown, wanted, clobbered>>

-----------------------------------------------------------------------------
(* discoverWithProvider.  A provider without a key, an error and an answer *)
(* without results are all the same.  So are answers that differ in URLs   *)
(* given twice only: the loop drops the second (hunt.go:543-545).          *)

Answers(p) ==
  IF p \in Keyless THEN {<<>>}
  ELSE LET most == IF p \in Plain THEN Cardinality(Sources) ELSE EffectiveProviderMax
       IN {<<>>} \cup UNION {{a \in [1 .. n -> Sources] : \A i, j \in 1 .. n : a[i] = a[j] => i = j} :
                               n \in {k \in 1 .. Cardinality(Sources) : k <= most}}

Ask ==
  /\ phase = "scanning"
  /\ pending = <<>>
  /\ job <= Jobs
  /\ \E answer \in Answers(ProviderOf(job)) :
       /\ pending' = answer
       /\ stats' = [stats EXCEPT !.raw = @ + Len(answer), !.calls = @ + 1,
                                 !.successful = IF answer = <<>> THEN @ ELSE @ + 1]
       /\ job' = IF answer = <<>> THEN job + 1 ELSE job
  /\ UNCHANGED <<phase, dry, mem, report, file, html, link, runs, history>>

Fallback == [exa |-> 72, tavily |-> 62, keenable |-> 65]

Least(a, b) == IF a < b THEN a ELSE b

\* normalizeConfidence: a score beyond 1 is taken for one out of ten.
Confidence(p, score) ==
  IF score = 0 \/ p \in Plain THEN Fallback[p]
  ELSE IF score \in 0 .. 100 THEN score
  ELSE IF score < 0 THEN 0 ELSE Least(score \div 10, 100)

\* classifyCandidate.
CandidateType(u) ==
  IF "repository" \in Traits[u] THEN "repo"
  ELSE IF Traits[u] \cap {"substack", "buttondown", "newsletter in title"} # {} THEN "newsletter"
  ELSE IF Traits[u] \cap {"blog in title", "second-level domain"} # {} THEN "author"
  ELSE IF "domain" \in Traits[u] THEN "source" ELSE "unknown"

\* computeCandidateScore, in millionths.
Score(p, u) ==
  LET Given(weight, default) == IF weight = 0 THEN default ELSE weight
  IN Given(Weight[p], 80) * Given(Weight[CandidateType(u)], 50) * Given(Confidence(p, RawScore[p][u]), 50)

Candidate(u, new) ==
  [url |-> u, provider |-> ProviderOf(job), category |-> CategoryOf(job),
   score |-> Score(ProviderOf(job), u), isNew |-> new]

IsMuted(u) == u \in mem.muted \/ DomainOf[u] \in mem.muted

(* Mutant of Acceptable: muted domains are let through. *)
AcceptableUnmuted(u) ==
  /\ DomainOf[u] \notin Blocked
  /\ u \notin mem.muted
  /\ ~(NewOnly /\ u \in mem.seen)

\* processCandidates lets these through.
Acceptable(u) ==
  /\ DomainOf[u] \notin Blocked
  /\ ~IsMuted(u)
  /\ ~(NewOnly /\ u \in mem.seen)

(* Mutant of Remember: nothing is. *)
RememberNot(u, accept) == mem

\* processCandidateSeen: what passes is seen from now on.
Remember(u, accept) == IF accept THEN [mem EXCEPT !.seen = @ \cup {u}] ELSE mem

Counted(accept) ==
  IF accept THEN [stats EXCEPT !.accepted = @ + 1] ELSE [stats EXCEPT !.filtered = @ + 1]

\* One iteration of processCandidates, with the statistics of its provider.
Consider ==
  /\ phase = "scanning"
  /\ pending # <<>>
  /\ LET u      == Head(pending)
         accept == Acceptable(u)
     IN /\ mem' = Remember(u, accept)
        /\ report' = IF accept THEN Append(report, Candidate(u, u \notin mem.seen)) ELSE report
        /\ stats' = Counted(accept)
        /\ accepted' = IF accept THEN [accepted EXCEPT ![u] = @ + 1] ELSE accepted
  /\ pending' = Tail(pending)
  /\ job' = IF Len(pending) = 1 THEN job + 1 ELSE job
  /\ UNCHANGED <<phase, dry, file, html, link, runs,
                 cut, shown, wanted, wantedThen, lost, unread, edited, clobbered>>

-----------------------------------------------------------------------------
(* The end of runHunt.                                                     *)

\* sortCandidatesByScore: highest first, a stable sort.
Sorted(s) ==
  LET Ahead(i, j) == s[i].score > s[j].score \/ (s[i].score = s[j].score /\ i < j)
  IN [k \in DOMAIN s |-> s[CHOOSE j \in DOMAIN s : Cardinality({i \in DOMAIN s : Ahead(i, j)}) = k - 1]]

\* The URLs that a report lists.
UrlsIn(s) == {s[i].url : i \in DOMAIN s}

\* Sorts and cuts the report and writes it.  Only the HTML file is read again.
Report ==
  /\ phase = "scanning"
  /\ pending = <<>>
  /\ job > Jobs
  /\ phase' = "reported"
  /\ LET sorted == Sorted(report)
         kept   == IF Max > 0 /\ Len(sorted) > Max THEN SubSeq(sorted, 1, Max) ELSE sorted
     IN /\ report' = kept
        /\ stats' = [stats EXCEPT !.accepted = Len(kept)]
        /\ cut' = cut \cup (UrlsIn(report) \ UrlsIn(kept))
        /\ shown' = shown \cup UrlsIn(kept)
  /\ \/ html' = runs
     \/ "html" \in Faults /\ html' = html
  /\ UNCHANGED <<dry, job, pending, mem, file, link, runs,
                 accepted, wanted, wantedThen, lost, unread, edited, clobbered>>

\* saveHuntState, unless --dry-run; its error is dropped.
Save ==
  /\ phase = "reported"
  /\ phase' = "saved"
  /\ \/ /\ ~dry
        /\ file' = mem
        /\ clobbered' = (clobbered \/ edited \/ unread)
        /\ lost' = lost
     \/ /\ dry \/ "save" \in Faults
        /\ file' = file
        /\ clobbered' = clobbered
        /\ lost' = TRUE
  /\ UNCHANGED <<dry, job, pending, mem, report, stats, html, link, runs,
                 accepted, cut, shown, wanted, wantedThen, unread, edited>>

Publishable == stats.accepted > 0 /\ html # 0

\* publishHuntReport uploads what the HTML file holds.
Publish ==
  /\ phase = "saved"
  /\ phase' = "published"
  /\ \/ Publishable /\ link' = html
     \/ (~Publishable \/ "upload" \in Faults) /\ link' = link
  /\ UNCHANGED <<dry, job, pending, mem, report, stats, file, html, runs, history>>

\* The process ends; its memory is gone.
Gone ==
  /\ phase' = "idle" /\ dry' = FALSE /\ job' = 1 /\ pending' = <<>>
  /\ mem' = Empty /\ report' = <<>> /\ stats' = NoStats
  /\ link' = 0

EndRun ==
  /\ phase = "published"
  /\ Gone
  /\ UNCHANGED <<file, html, runs, history>>

Kill ==
  /\ "kill" \in Faults
  /\ phase \in {"scanning", "reported"}
  /\ Gone
  /\ lost' = TRUE
  /\ UNCHANGED <<file, html, runs, accepted, cut, shown, wanted, wantedThen, unread, edited, clobbered>>

\* The user mutes a URL or a domain.
UserMutes(x) ==
  /\ x \notin wanted
  /\ file' = [file EXCEPT !.muted = @ \cup {x}]
  /\ wanted' = wanted \cup {x}
  /\ edited' = TRUE
  /\ UNCHANGED <<run, html, link, runs, accepted, cut, shown, wantedThen, lost, unread, clobbered>>

Next ==
  \/ StartRun \/ Ask \/ Consider \/ Report \/ Save \/ Publish \/ EndRun \/ Kill
  \/ \E x \in Mutes : UserMutes(x)

Spec == Init /\ [][Next]_vars

-----------------------------------------------------------------------------
States == [seen : SUBSET Sources, muted : SUBSET Mutable]

TypeOK ==
  /\ phase \in {"idle", "scanning", "reported", "saved", "published"}
  /\ dry \in BOOLEAN
  /\ mem \in States /\ file \in States
  /\ UrlsIn(report) \subseteq Sources
  /\ html \in 0 .. runs /\ link \in 0 .. runs /\ runs \in 0 .. MaxRuns
  /\ accepted \in [Sources -> Nat]
  /\ stats.raw = stats.accepted + stats.filtered + Len(pending) \/ phase # "scanning"
  /\ wanted \subseteq Mutable /\ wantedThen \subseteq wanted

(* With newOnly a URL is accepted once, whatever the providers, categories *)
(* and runs that find it, as long as no seen state was lost: a kill, a     *)
(* dry run, a failed save or an unreadable file brings URLs back.          *)
NewOnlyOnce == NewOnly /\ ~lost => \A u \in Sources : accepted[u] <= 1

(* What the user mutes stays muted in the file, unless a save has replaced *)
(* an edit it had not read, or a file it could not read; and a report      *)
(* shows nothing that was muted when its run read the file.                *)
MutesHold ==
  ~clobbered =>
    /\ wanted \subseteq file.muted
    /\ ~unread /\ phase = "reported" =>
         \A u \in UrlsIn(report) : u \notin wantedThen /\ DomainOf[u] \notin wantedThen

(* A URL that is remembered as seen was in a report, or Max has cut it off *)
(* one: what is blocked or muted now is new once it is not any more.       *)
SeenWasOffered == file.seen \subseteq shown \cup cut

(* The published page shows this run's report and not an older one, unless *)
(* the HTML file could not be written; without candidates nothing is       *)
(* published.                                                              *)
PublishedIsCurrent ==
  link # 0 => /\ html = runs => link = runs
              /\ report # <<>>
=============================================================================
