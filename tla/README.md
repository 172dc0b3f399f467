# docs-alfred in TLA+

docs-alfred is a set of Go command line tools around a personal knowledge base:
`docs-cli` keeps a wiki of Markdown files (its inbox, topics, logs, checks),
`rss2nl` and `linear2nl` build newsletters from RSS feeds, transcripts and
Linear, `gh-alfred`, `xzb`, `ccx`, `data-cli` and others are smaller.  This
directory holds the TLA+ models of the parts in which several goroutines,
processes or runs meet in shared files or shared counters, the TLC configurations
that check them on small instances, and the TLAPS proofs of their invariants for
every instance.

Paths below are relative to the repository; `wiki/...` are the files of the
knowledge base that the program works on.

## 1. Inventory

| component | state it keeps | operations | meets | hard because | correct when |
|---|---|---|---|---|---|
| wiki writer (`internal/docs/wiki/write`) | `wiki/<topic>/summary.md`, `uncat.md`, JSONL logs; a registry of per-file mutexes | WriteSummary, WriteManualReviewEntry, WriteFailureEntry, LogDigestEntry, ParseInbox, FlushInbox | called by digest, add, local digest | nested locks; a registry that is cleaned up while others wait; read-modify-write of files; files that fail | mutual exclusion per file, no lost entry, no leak, no deadlock |
| wiki digest (`internal/docs/ingest`: wiki.go, pipeline.go, write.go) | what it parsed, what each URL became, what was handled | RunDigest, RunAdd, prepareInboxEntry, writePendingURL | fetch, classify, writer; the user's editor; other digests, `wiki add` | pages and inbox read and replaced by several processes; minutes between reading and flushing the inbox; kills; writes that fail | no URL is lost, and no record but where another process writes the same page; none is recorded twice without a cause; it ends |
| feed fetching (`internal/rss/feed`) | per host: permits, time of last fetch, circuit | acquire, release, tripCircuit, fetchURLWithRetry | ProcessAllFeeds starts one batch per category | bounded group × semaphore × interval × retry × deadline | permits balance; an open circuit stops a host; a host rests; every feed ends |
| newsletter (`cmd/rss2nl/cmd/send.go`) | maps shared by the categories; the mail | ProcessAllFeeds, merge, render, send | feed fetching, failure report, transcripts, mail | ten categories write the same maps | one section per category, in order |
| feed failure report (`failure_report.go`) | consecutive failures per feed, over runs | BuildFeedFailureReport, load, save | newsletter | state over runs; unreadable state | a feed is escalated after its number of failures and reset by a success |
| classify, fetch (`internal/docs/wiki/classify`, `.../fetch`) | the catalog of topics | two AI calls with tries; HTTP, feeds and a browser with fallbacks | digest | many error paths, each with its own record; silent failures; a deadline that stops nothing | every URL gets the record its outcome calls for; a video is judged by what was said in it, or by a long page |
| local digest (`ingest_local.go`) | a transcript directory | RunDigestLocal | writer, AI | partial failure | as digest |
| audit, blog (`internal/docs/wiki/audit`, `ingest/git.go`) | none; reads the wiki and git | RunAudit | the user, git | three listings while the user stages | "ok" means clean |
| compact (`internal/docs/wiki/compact`) | a schedule; a report | RunCompact | git's history, AI, mail, Linear | calendar arithmetic; one goroutine per topic; two channels | no commit in two windows; the best are announced; channels are independent |
| transcripts (`internal/rss/transcript`) | a rotating token; a cache of two files per episode | refreshAndGetToken, Cache.Get, Cache.Set | send, trns | token rotated before it is saved; two files replaced one by one | the saved token is the live one; a hit is consistent |
| source hunt (`cmd/rss2nl/cmd/hunt.go`) | candidates seen and muted, over runs | collect, score, mark, report, save, publish | search services, the user | state over runs; cuts after marking; saves over edits | a new candidate is reported once; mutes hold |
| gh index (`internal/gh/index`) | gh.yml; a cached copy and its age | export, LoadWithCacheTTL, LoadWithBackgroundSync, Sync | gh-alfred, its background processes | staleness; several processes over one file | a valid cache serves |
| domain rules (`internal/gh/domrules`, `internal/data/ops`) | none; reads a directory of YAML | check, duplicate | the user | two readers that skip different things | together they overlook nothing |
| workspace images (`internal/docs/workspace/images`) | files of the workspace | Check with fixes | none | several renames, each may fail | what is lost is a duplicate, or is named (section 5); one run settles |
| xzb (`cmd/xzb`) | a D1 database | parse, categorize, Sync | HTTP API, other syncs | upserts without a transaction, lost answers | rows have their batch; later imports win |
| linear (`internal/linear`, `cmd/linear2nl`) | none | morning, evening, review | Linear, GitHub, AI, mail | four queries over a changing server, a shared transport, pages that shift | no completion missed; parts agree; the whole discussion is read |
| dotfiles and docs checks, renderings, ccx, small commands | none | pure | - | - | not modelled |

How they interact: the commands call each other's packages directly; there is no
server and no message queue.  State is shared in three ways, and these are what
the models are about: goroutines of one process share mutexes, semaphores and
maps; commands share files with each other and with the user's editor; a run
shares state files with the runs before and after it.

## 2. Plan

The modules in the order in which they were written, the abstract ones first:

1. `PathLock` with `PathLockProofs`: the lock registry every wiki write uses.
2. `InboxDelivery` (abstract) and `WikiDigest` with `WikiDigestProofs`: the
   digest, that it implements at-least-once delivery, and when it is exactly once.
3. `FeedFetch` with `FeedFetchProofs`: per-host limits of the feed fetches.
4. `TopicPath` and `WikiRoute` with `WikiRouteProofs`: what becomes of one URL, the
   detail behind the `Outcomes` of `WikiDigest`; `WikiContent` is the detail behind
   the results of its fetch.
5. State over runs: `FailureReport` (pure) and `Newsletter`, which uses FeedFetch's
   outcomes and the report; `SourceHunt`; `Transcripts`.  `Rss` composes the three
   commands, with `RssProofs`.
6. `Compact` with `CompactProofs` and `LinearReports` with `LinearReportsProofs`:
   reports on a moving history and a moving server.
7. Protocols with files and services: `BillImport`, `GhIndex`, `Images`, `DataRules`,
   `IssueReview`, `WikiAudit`.  `Tools` composes them with `WikiContent`, with
   `ToolsProofs`.

`MCX` is the instance of module X for TLC.  A module that Rss or Tools instantiates
states its assumption as a plain definition (`GhIndexAssumption` ...), and these two
assume them all (`RssAssumption`, `ToolsAssumption`); the others state an ASSUME.

## 3. Modules

### PathLock

`lockPath(path)` looks a mutex up in a global map (or creates it) under the
map's own mutex, locks it, and returns a closure that unlocks it and removes the
entry "if no other goroutine is waiting", which the code cannot know: it removes
it if the entry is still this object.  A write of a wiki entry locks the Markdown
file ("outer"), reads and replaces it, and appends to a JSONL log under that
log's lock ("inner") before it lets go of the outer one.

| module | code |
|---|---|
| `reg` | `pathLocks.locks` |
| `owner[m]` | whether and by whom the `*sync.Mutex` m is locked |
| `ref[<<c, l>>]` | the local `mu` of call c at level l |
| `Lookup`, `Lock` | write.go:49-63 |
| `Unlock`, `Cleanup` | the closure, write.go:65-73, in its two halves |
| `ReadFile`, `WriteFile` | write.go:110-170 (WriteSummary) and 340-431 (WriteManualReviewEntry) |
| `AppendLine`, `AppendNewline` | digest.go:75-93, two writes |
| `Failed` | every `return ...err` under a lock |

An object is named after the lookup that created it, so that an object removed
from the registry and its successor are told apart.  An entry of a file is the
call that wrote it; a log is the sequence of records and newlines.  The text of
an entry, its place in the file and the front matter are left out: only whether
an entry is in the file matters.  `AtomicWriteFile` is one step (a temporary file
and a rename).  `orphaned` and `misread` are history variables: they say whether
an object was taken from the registry under a waiting call, and which reads
failed, which are the two ways in which the code's promises fail (section 5).

### WikiDigest and InboxDelivery

`RunDigest` parses the inbox, prepares each URL in a goroutine of a bounded
group, writes the results one after the other, and then reads the inbox a second
time to remove what was handled.

| module | code |
|---|---|
| `inbox` | `wiki/inbox.md`; a line is the set of its URLs and `Note` for other text |
| `pages[p]` | the URLs with an entry on a Markdown page: a topic's summary.md, or uncat.md |
| `logged` | the URLs with a line in a failure log |
| `page[c]`, `draft[c]` | the page that a command has read and not yet replaced; what it read |
| `entries`, `prep`, `next`, `handled`, `copy` | the locals of RunDigest, runInboxEntries and FlushInbox |
| `Begin` | wiki.go:84-112, ParseInbox |
| `Launch`, `Prepared`, `AllPrepared` | pipeline.go:41-58 |
| `DryWrite`, `LogWrite`, `PageRead`, `PageReplace` | the loop pipeline.go:60-65 over writePendingURL: nothing, a line of a log, or a page in two steps (write/write.go:110-170, 342-431) |
| `AddRead`, `AddReplace` | the same page written by `wiki add` or `wiki digest-local` |
| `Report` | wiki.go:114-127 |
| `FlushRead`, `FlushWrite` | write.go:579-613, flushInboxLine 619-662 |
| `Crash`, `UserAdds` | outside the program |

Any digest may be started at any time, also beside another (nothing locks the
inbox); the user may insert a line with a new URL anywhere at any time; a process
may be killed at any step.  There is no step for a cancelled context: the
commands pass `context.Background()`.

A failure log is opened to append, so a line in it stays.  A page is read, extended in
memory and replaced as a whole.  The lock that keeps two such writes apart is one of the
process (PathLock), so in WikiDigest, where every command is a process, another one may
put its entry on the page between the read and the replacement, and the entry is gone
again.  A page that cannot be read counts as empty, and the replacement drops all that
was on it.  So the records that there are, `Recorded`, do not only grow.  `contested` names
the URLs this may have happened to: those that a command puts on a page while another
one is between its read and its replacement of it, and those on a page that was misread.

A write is recorded and handled, or failed without a record; a line of a log may also be
there although its write failed (the newline failed); a dry run handles without a
record.  What record a URL gets is the subject of WikiRoute.  A ParseInbox that fails
ends the command before it has any state and has no action.  `count` (how many records
were ever written of a URL), `wanted`, `exposed`, `contested` and `disturbed` are history
variables, for the properties only.

`InboxDelivery` is the abstract promise: a URL leaves the inbox only with a record, and
the record stays, unless it is contested: then it may come and go.  `WikiDigest`
implements it with `pending` the URLs in the inbox and `recorded` those with a record now.

### FeedFetch

Each category of feeds is a `FetchURLsWithMeta`: a group of goroutines of bounded
size and a `hostFetchController` of its own.  A goroutine takes its host's
permit, waits for what is left of the host's interval, tries the feed up to
`maxTries` times, holding its permit, and releases.  An error of the host's risk
control, or a 5xx for hosts with a rule, opens the host's circuit: later feeds
and later attempts are skipped.

| module | code |
|---|---|
| `pc[f]` | where the goroutine of feed f is |
| `taken`, `since`, `circuit` | `hostLimiter.sem`, `.lastDone`, `.circuitOpen` |
| `timer[f]` | the timer of acquire |
| `expired` | the context with its five minutes |
| `Launch` | feed.go:220-236, `g.Go` under `SetLimit` |
| `Acquire`, `SpacingOver`, `GiveUp` | host_policy.go:186-217 |
| `Enter`, `Attempt`, `Send`, `Fetched`, `Refused`, `BackoffOver` | feed.go:45-160 |
| `Finish` | host_policy.go:220-228 and the deferred release |
| `Tick`, `Timeout` | the clock |

Time is counted in ticks up to a host's interval, past which it makes no
difference.  The check of the circuit (`Attempt`) and the request (`Send`) are two
steps, so that the circuit may open in between.  What follows the answer in one
goroutine without touching another's state is one step: dating the host and
returning the permit; opening the circuit and returning.  The classification of
errors is reduced to the four classes that decide the control flow: risk control,
5xx, retriable, final.  `MaxTries` is positive because the configuration replaces
0 by 3 and rejects negative numbers.  The group of categories (at most ten at a
time, send.go:241) is modelled as running all of them.  What is done with the
fetched feeds (the shared maps, the failure report) is Newsletter.

### TopicPath and WikiRoute

`WikiRoute` follows one URL of `wiki digest`, `wiki add` or `wiki digest-local` from
its fetch to its record.  Three layers decide about it one after the other: the
classifier makes a result of the AI's answer, the pipeline decides whether that is
a failure, and the writer chooses between the topic's summary.md and uncat.md,
changing the topic where it is not valid.  `TopicPath` is the pure part: how a
path that the AI made up is mapped to a topic that exists.

| module | code |
|---|---|
| `command`, `dry`, `url` | the command, `--dry-run`, what the URL is |
| `valid` | `dependencies.validTopicPaths`, read when the command starts |
| `catalog` | `Classifier.catalog`, read with the first classification |
| `body`, `expired`, `tries` | the content's length, the URL's timeout, AI calls |
| `pending` | `pendingURLWrite` with its `ClassifyItem` |
| `record`, `handled`, `status` | what is in the wiki; `URLResult` |
| `Begin`, `FetchFailed`, `Fetched`, `ReadLocal` | resolveDependencies; pipeline.go:70-97, 146-174; ingest_local.go:79-141 |
| `Classify`, `AskFailed`, `Answered` | classifier.go:119-165, 534-588 |
| `Classified` and what it uses | buildClassifyResult, classifier.go:173-296, 1123-1201 |
| `IsClassifyFailure`, `Item` | ingest/write.go:156-169, pipeline.go:234-248 |
| `Summary`, `SummaryEntry` | ingest/write.go:43-154, wiki/write/write.go:78-171 |
| `Write`, `Written`, `NotWritten` | writePendingURL and the writers' results |
| `WritableTopic`, `ResolvedAmong` | classifier.go:310-333, 504-518 |

The topics are read twice and their user may edit data/gh in between, so `valid`
and `catalog` are two arbitrary reads; either may fail.  Of a content only its
length is kept (blank, short, full), of an answer what decides where it goes.  A
topic path is the sequence of its segments; which leaves are similar (by a prefix
or a substring of enough letters) is a constant, so the proofs hold for any notion
of similarity.  A segment that differs from another by case, stars or a note in
parentheses only is the same segment; the code compares leaves in this way, and
whole paths exactly, and then reaches the same topic by its leaf.

What one meets reading the model beside the code, as it is in both: an answer of
type inbox goes to uncat.md even if its topic is valid; a rejected answer that has
a summary and a valid topic is filed under it, also when it is unsure or of an
unknown type; a local digest forgets the AI's proposal and the reason of a review,
and a directory it cannot read counts as a failure that was written.


### WikiContent

What WikiRoute takes for granted: how a URL becomes a content or a kind of failure,
and the two calls of the AI, all under the deadline of the URL.

| module | code |
|---|---|
| `entry`, `site` | what the text of the URL leads to; the same after t.co |
| `Begin` | `FetchContent` and `OpenCLI.FetchContent` up to the choice of a way |
| `FetchRepo`, `FetchFeed`, `TryEpisode`, `Candidates` | repositories; podcasts with the items of their feeds |
| `FetchHTTP` | the driver http-readability |
| `Resolve`, `ReadSite`, `AppendYoutube`, `AppendBilibili`, `AppendSummary` | the driver opencli: t.co, adapters, what is added to a video |
| `MakeDir`, `Download` | a WeChat article, downloaded to a directory of its own |
| `Judge` | the check of prepareInboxEntry that a video is long enough: 600 characters, of its page or of what is said in it |
| `LoadCatalog`, `Ask`, `Verify` | classifyOnly and maybeVerify with their attempts |
| `Expire`, `Kill` | the deadline; outside the program |

The driver and whether media are on are chosen at the start and stay.  Nothing stops
at the deadline by itself: requests and commands fail from then on,
and what works on memory goes on.  Of a content only its parts, whether it is
long, and whether its page alone is (`body.page`) are kept.  A failure of a command has no kind; its kind comes from its text, which
ends with the command's output, so it may be any (`Untyped`).

### FailureReport and Newsletter

`rss2nl send` fetches its categories at the same time, each notes the dates of its
feeds in two maps, then the failures update the state file and the newsletter is
mailed.  `FailureReport` is pure: what an error is (the first of a list of tests
that holds), the next state of the file, and the groups per host and kind.

| module | code |
|---|---|
| `stage[c]`, `outcome[c]` | the goroutine of category c, what its feeds brought |
| `dates` | the keys of `feedLastUpdated` and `feedPublishFreq` |
| `file` | the state file of the failure report |
| `Launch`, `Fetched`, `Record` | send.go: ProcessAllFeeds, processSingleFeed |
| `MapWritesCollide` | the runtime's "concurrent map writes" |
| `BuildReport` | BuildFeedFailureReport, with its load and its save |
| `Mail`, `EndRun`, `Kill` | SendNewsletter; outside the program |

The maps are written without a lock.  The outcomes of that race are: nothing
happens, the process dies, or entries are lost; `Record` and `MapWritesCollide`
allow all three.  Of the two maps only the dates are kept: a feed with items and no date
gets a frequency, which is shown with a date only (send.go:301, 734-739).  A file that cannot be read counts as empty and one that cannot be
written stays; both are only logged.  `streak`, `unread`, `unsaved`, `raced` are
history variables.

### SourceHunt

`rss2nl hunt` asks every provider for every category, drops what is blocked, muted or
(with `--new-only`) seen, marks the rest as seen, scores, sorts and cuts it, and
writes its reports and its state.

| module | code |
|---|---|
| `mem`, `file` | the state in memory and on disk: seen and muted |
| `job`, `pending` | the loop over categories and providers, and over an answer |
| `StartRun` | the flags and loadHuntState |
| `Ask`, `Consider` | discoverWithProvider; an iteration of processCandidates |
| `Score`, `Confidence`, `CandidateType`, `Sorted` | the scores and the order |
| `Report`, `Save`, `Publish` | the reports, saveHuntState, publishHuntReport |
| `UserMutes` | the user's edit of the state file |

Markdown and JSON reports are not read again and have no variable.  The queries made
from the seeds are left out: a provider may answer anything within its limit, each URL once,
as the loop drops the others (hunt.go:543-545).

### Transcripts

| module | code |
|---|---|
| `command`, `at`, `tally`, `linked` | trns or send, the item it is at, its statistics, the linked pages |
| `live`, `file`, `token` | the server's refresh token, that of the file, that in memory |
| `text`, `meta` | the two files of a cache entry |
| `Start`, `NextItem`, `LookUp` | trns.go, send.go; Cache.Get |
| `LoadCredentials`, `Rotate`, `Truncate`, `Save` | xiaoyuzhou.go, refreshAndGetToken and saveCredentials |
| `Body` | Router.Fetch, the choice of the best link, trimming |
| `WriteText`, `WriteMeta` | Cache.Set |
| `Upload`, `Found`, `Fail`, `End`, `Kill` | the end of an item and of a run |

`os.WriteFile` empties a file before it fills it, hence `Truncate` and `Save`.  The
two commands compute cache keys that never coincide, so an entry belongs to one of
them; the credential file is everybody's.

### Compact

| module | code |
|---|---|
| `commits`, `blogged`, `now` | git's history of the topic logs, the blogs' dates, the clock |
| `Window`, `Fires` | ScheduleWindow |
| `Start`, `Collect` | the command's checks; CollectLogEdits and the ranking |
| `Dispatch`, `Judge`, `Judged` | judgeTopics, one goroutine per topic |
| `Recommended`, `Notices` | SelectNotices; both are sets of places in the ranking |
| `Mail`, `Resolve`, `Create`, `Exit` | deliverCompact, CreateCompactIssue, the exit status |

A report carries its window, the commits it counts, its channel and its notices.
A commit is its time and the size of its edit per topic.  Topics of equal score and
date come out of a Go map, so `Rankings` allows every order.  Time is a number of
ticks in a zone without summer time, which is what carbon is set to.

### LinearReports

| module | code |
|---|---|
| `type`, `done`, `updated`, `history` | Linear's data about an issue |
| `step[q]`, `transport` | the goroutine of query q; `http.Client.Transport` |
| `Wrap`, `Panic`, `Query` | graphQLClient and the request, without a lock |
| `Joined`, `Plan`, `Send`, `Exit` | collectEveningData, the AI, sendOrWrite |
| `Morning`, `ActiveIssues`, `Evening` | the two commands |

Four goroutines replace the nil transport of one client.  An interface value is two
words, so a reader between the writes sees `torn`: a panic, which the model ends the
run with.  A query answers with what Linear holds at its own moment.  Only the
first page is read, and sub-issues are dropped after that.  `Page` is one number, where the
code asks for 50 issues and for 20 of the state changes (client.go:84, 113).

### IssueReview, WikiAudit, GhIndex, DataRules, Images, BillImport

- `IssueReview` (`linear2nl review`): `ListPage` per page of comments while people
  comment and delete (`Comment`, `Delete`); `Enrich` replaces them by those of a
  Linear issue that is named first; `Ask`; `Post`, whose answer may be lost.
- `WikiAudit` (`docs-cli wiki audit`): `ListStaged`, `ListUnstaged`, `ListUntracked` are the
  three git commands, `Walk` and `Audit` the visit of the files, between them the
  user writes, stages and commits.  Names in `Odd` are those that git quotes; `Ignored` files
  are left out of the third listing (`--exclude-standard`, git.go:64).
- `GhIndex` (`gh-alfred export`, `search`, `sync`): `Search`, `CheckTTL`, `TryLoad`,
  `Spawn`, `Download`, `WriteCache` and `LoadFromFile` are the stretches between two
  looks at the cached file, in any number of processes.
- `DataRules` (`data-cli check` and `duplicate`): the two readings of one directory as
  operators over the user's items (`FileIssues`; `UrlGroups`, `NameAuthorGroups`).
- `Images` (`docs-cli workspace images check --apply`): `Scan` and the three loops
  `RemoveDuplicate`, `HideExtraDir`, `MoveExtraFile`, one operation each, any of which
  may fail; the names are components and suffix numbers.  `.temp` may hold files of
  earlier runs; a move goes over one of the same name, as `os.Rename` does.
- `BillImport` (`xzb sync d1`): `Start` parses, limits, dedups and classifies the bills;
  `InsertBatch` and `Upsert` are the statements, each executed, refused or executed
  with its answer lost; a `Kill` or an error leaves what is written.  A row's `created`
  is the batch that inserted it, where the code keeps the time of that.

### Rss and Tools

Newsletter, SourceHunt and Transcripts share no state, nor do the components of Tools.
`Rss` and `Tools` put them together, so that one specification, one run and one module
of proofs serve them all: the variable `tool` names the component a behaviour is of and
never changes, so the state space is the sum of theirs and not the product.  A variable
stands for that of the same name in each component that has it; those of the others are
`Idle`.  A property is that of its component, under `tool = ...`.

## 4. Runs

| run | instance | shows |
|---|---|---|
| `pathlock` | two calls for one summary.md, a third that only logs, one log, every file operation may fail | RegistrySound, ExclusionUnlessOrphaned, NoLostEntry, AllCallsReturn |
| `pathlock_jsonl` | three calls that log | violates LogLinesIntact |
| `digest` | two digests (one digest twice, or two at once) and a `wiki add`, one page, two URLs on one line with text, one URL the user adds, every failure but that of a newline | TypeOK, NoUrlLost, OnceUnlessDisturbed, DeliversAtLeastOnce |
| `digest_live` | two digests, one dry, three URLs for two goroutines, failures of writes, newlines, reads and flushes | DigestsEnd |
| `digest_twins` | one digest, a URL on two lines | violates HandledUrlsLeave |
| `routing` | one URL of each kind and command, four topics (one too short), three data/gh, five paths of the AI | GoodContentKept, SummariesUnderTopics, HandledMeansRecorded, ReviewHolds |
| `feed` | four feeds, two of a serial spaced host, two of a host with two permits, a group of three, two tries, the deadline | PermitsAccounted, FewLateRequests, RestBetweenFeeds, EveryFeedEnds |
| `compact` | two topics, half days as ticks, a wrong day, the right Saturday and the next one, two commits, two runs of a full or of a dry command, every fault | NothingTwice, NoticesAreTheBest, ChannelsIndependent, RunsEnd |
| `linear` | an issue and a sub-issue, an early morning and the night after, two moves, one run, every fault | NoCompletionMissed, TwiceMeansMoved, TokenSent, EveryRunEnds |
| `linear_zone` | the same with an evening between and no faults | violates TransitionsSince |
| `rss` | Newsletter: three runs, two feeds in two overlapping categories, three errors; SourceHunt: two runs, three sources, two providers, mutes of a URL and of a domain; Transcripts: two processes of either command, three episodes; every fault | CountsNeverInvented, NewsletterTells, NewOnlyOnce, ReportsHold, TokenLive, CacheCoherent, TallyAddsUp |
| `tools` | BillImport: two syncs, two trades, two bills, two rules files; GhIndex: two processes, two versions; Images: seven files, one of them in .temp from an earlier run, five directories; DataRules: two files of two items; IssueReview: three comments, one per page; WikiAudit: two summaries, one of them ignored by git; WikiContent: every kind of site, feeds of three, both drivers, media on and off | ImportsHold, ValidCacheServes, FixesAreSafe, NothingOverlooked, WholeDiscussion, OkMeansClean, OwnEpisodeFirst, HeardOrLong |

**Bounds.**  Three calls are the least in which the clean-up of a lock meets a
waiting call and a newcomer; `MaxActive` limits how many overlap.  Two digests are the
least that overlap or follow each other, and `MaxRuns` counts the starts; two
URLs on one line are the least for a line flushed in part, and the third URL lets
the user shift the lines.  One page is the least on which commands meet, and more would
only keep them apart; one `wiki add` is the least that meets a digest which runs alone.
d1 and d2 are symmetric in `digest`: they differ in nothing, and the run has no liveness
property.  A newline that fails and a dry run add no way to lose a record and are in
`digest_live` only.  `digest_live` has one URL more than `Concurrency`, so
that Launch waits.  In `feed` there are more feeds than places in the group, two
feeds behind one permit, an interval of two ticks so that a wait can be cut in the
middle, and a host with two permits so that one goroutine can open the circuit
while the other is between its check and its request.  In `routing` two topics
share a leaf, so that the fuzzy match must use the tag; the three data/gh (none, all
topics, some) make `valid` and `catalog` equal, disjoint or nested; the five paths of
the AI are a sentinel, a topic, an ambiguous leaf, the title of a topic and a leaf
that is only similar.

In `compact` the two Saturdays are a schedule apart, so that the windows adjoin and a
commit may be in either; two topics with room for one announcement make the ranking
matter, and a commit of both is a bulk edit.  All keys are set, so the early exit for
a missing key is left to the proofs.  In `linear` a page holds as many issues as there
are: NoCompletionMissed is about days with at most a page of issues, as more are cut by
the query (section 5), and is proved under that hypothesis; two moves are the least for an issue that is completed
and reopened.  In `rss` three runs are the least in which a feed recovers after it has
been counted twice, or is escalated after a loss; two sources of one domain let a
mute of either kind meet a provider that finds both; `Max` 1 cuts a report.  Two
processes with two runs suffice for one to overtake the other's token.  In `tools`
every pair of actors that share something has two of its kind, except for Images, which
runs alone; its files are a duplicate of a duplicate, strays of one name in the root and in
a container, a file of that name in .temp, and a directory to hide inside one to hide.
There WikiAudit has no odd names, which only widen an exemption; the proof has them.
In BillImport trades stop changing after the last of the `MaxExports` bills and rules
after the last of the `MaxBatches` batches: later changes are seen by no step.

Everything that is not named here is not bounded: tries are bounded by the code.  The
proofs drop the bounds for the properties they are about.  p1 and p2 are symmetric in
`rss` and `tools`: no module there orders or chooses among its processes, and these
runs have no temporal property.

**Deadlock** is checked in the runs of PathLock, WikiDigest, WikiRoute and FeedFetch:
the end of each of these systems is an explicit `Finished` step, so that waiting for
ever shows as a deadlock.  The other runs say CHECK_DEADLOCK FALSE, because commands
that have used up their bound of runs rest; there EveryRunEnds and RunsEnd say that no
run stops half way.

**Mutants.**  Beside an action or operator there may be a variant of it named after a
plausible mistake (`UnlockRegistered`, `ExtendedByNothing`, `AttemptUnchecked`,
`SaveOld`, ...).  They are used by no specification; put in the place of the
definition each makes the run that is named in `PROJECT.json` fail, which shows that
the property depends on the code it is about.

**Fairness.**  Weak fairness per call, per digest and per feed, and of the run's steps
in Compact and LinearReports: the Go scheduler runs every goroutine that can run, and
the calls of the AI, of git and of HTTP have timeouts of their own, so each ends.  A
step that waits for a mutex or a permit is enabled while it is free; weak fairness is
enough because the instances' calls are finite and nobody takes a lock for ever.  In
`FeedFetch` timers fire (WF of Tick) and the HTTP client's own timeout ends each
request; the deadline gets no fairness, so EveryFeedEnds holds without it.  In
`WikiDigest` the timeout of a URL ends its preparation.  There is no fairness for the
user, for kills, for the calendar, or for the commands of Compact and LinearReports to
be started.

## 5. Where the code and its words disagree

Three properties state what the repository says, and TLC shows them violated:

- `LogLinesIntact`: the release of a lock removes the registry entry although
  another call waits for the mutex; a third call creates a new one, and two hold
  "the" lock.  The digest writes one URL after the other (pipeline.go:60-65), so
  it does not meet this today; the comments promise it to every caller.
  `ExclusionUnlessOrphaned` and `NoLostEntry` say exactly how far the lock can be
  trusted, and are proved.
- `HandledUrlsLeave`: a URL on two lines is parsed once and flushed from the first
  line only, and the next digest records it again.
- `TransitionsSince`: the time of a state change is in UTC and is compared, as text,
  with a local time; the changes of the first hours of a day (eight in Asia/Shanghai)
  are missing from its report.

Others are visible in the models, which follow the code, and have no run of their own:

- A failed read of summary.md or of uncat.md counts as an empty file and is then
  written back with the new entry only (write.go:227, 417; `misread` in PathLock).  The
  URLs of the lost entries have left the inbox long ago.
- The locks of the wiki writer are locks of the process, and nothing keeps two digests,
  or a digest and `wiki add`, from running at once: an entry that one puts on a page
  between the other's read and its replacement is gone (write.go:147-159, 415-430), and
  its URL is flushed as handled all the same.  With the misread page these are the losses
  that NoUrlLost names `contested`.
- A URL that the user adds between the flush's read of the inbox and its write is lost
  (write.go:580-612; `exposed`).
- `images check --apply` moves stray files to .temp under their base name, over whatever
  has that name there (check.go:253-255): a file that an earlier run left, or another
  stray of the same run when the directory of one could not be hidden.  Nothing tells.
  LossesAreNamed says that no other file is lost but duplicates beside their original.
- A video without a transcript reaches the AI if its description alone has 600
  characters (pipeline.go:93), though the comment above asks for "enough content ...
  (i.e., actually got a transcript)" (pipeline.go:91-92).  HeardOrLong names the exception.
- A summary.md that git ignores and has not in its index is not seen by
  `audit --changed-only` (git.go:64).
- Of failures half way some stay in the files without a word: a transcript with the
  metadata of an older one (cache.go:111, `mixed`), a page of an earlier run published
  again (hunt.go:351), a refresh token that was rotated and never saved
  (xiaoyuzhou.go:120, `broken`).  CacheCoherent, PublishedIsCurrent and TokenLive say
  that nothing else goes wrong there.
- Without topics (data/gh empty or unreadable) nobody is asked, yet every URL is
  logged as "AI classify unavailable after retries" and leaves the inbox.
- The limits of a host hold per category: a host in two categories is fetched by both
  at once, also a serial one.
- A group of failures that mixes passing and lasting errors takes the sort of the URL
  it meets first, so that it may be escalated at once (errors.go:17-18 says: only
  after repeated runs).  EscalatedWhenDue leaves these groups out.
- `--per-category`, a "candidate cap per category" (hunt.go:194), only sets the
  default of the cap per provider.
- A commit at the very instant between two windows of compact is in neither
  (history.go, Since and Until both exclude their instant).
- Evening reports query one page: of more completions than a page some are missing.

## 6. Proofs

`tlapm` checks the eight proof modules (of PathLock, WikiDigest, WikiRoute, FeedFetch,
LinearReports, Compact, Rss and Tools) to the last leaf, for any values of the constants
that satisfy the named assumptions.  Every invariant that a passing run checks is also a
theorem (NoCompletionMissed under a hypothesis, see below), and so is the refinement.

**PathLockProofs** (from `PathLockAssumption`: finitely many calls; Markdown files
and logs are different files).  The inductive invariant IInv adds to TypeOK how
the registry, the references and the owners hang together: an object in the
registry was created by a call that still refers to it; a call refers to objects
of its own path; whoever is inside a lock owns its object; and, unless an object
was orphaned, all calls that refer to a file refer to the object in the registry.
Exclusion does not follow from ownership alone: two calls may each own an object
for one file, and the last part is what excludes it.  For NoLostEntry the copy of a
call between its read and its write is the content of the file, and that needs
exclusion.  Theorems: TypeCorrect, OnlyHoldersUnlock, NoRegistryLeak,
RegistryHolds, ExclusionHolds, EntriesSurvive.

**WikiDigestProofs** (from `WikiDigestAssumption`: finitely many URLs and a finite
inbox).  IInv says that what a digest counts as handled has a record or is contested
(unless the digest is dry, and then it never reaches the flush), and that the copy the
flush works on lacks no wanted URL but those and the exposed ones.  `Recorded` alone is
not inductive, as a record may be taken away; `Recorded` together with `contested` (Kept)
only grows.  That needs DraftInv: what is on a page that some command has open is in its
draft, or is contested, because it was put there meanwhile or was misread; so the
replacement drops contested entries only.  The lemmas about FlushedLine
and Numberings say that rewriting the inbox removes handled URLs only.  For
RecordedOnce a second invariant is carried along: MemoryInv, what a digest remembers
of the inbox it read (distinct URLs, handled ones among those written), and, as long as
nothing has disturbed the digests, Calm: one digest at most is running, the inbox is
still the one it has parsed, no URL has two records, and one that has a record and is
in the inbox is among the handled entries that wait for the flush.  `disturbed` is
never reset, so each step only has to keep Calm or disturb.  Theorems: TypeCorrect,
NothingLost, RecordedOnce, and DigestDelivers, the refinement: every step is a step of
InboxDelivery or leaves its variables alone.

**FeedFetchProofs** (from `FeedFetchAssumption`).  PermitsAccounted is the count of
the goroutines between acquire and release, so each step changes both sides of
the equation by the same amount.  For CircuitStopsHost, the late requests plus
those goroutines that have passed the check of the circuit but not sent are
bounded by the permits other than that of the feed that opened the circuit.
RestBetweenFeeds needs that the interval a goroutine still waits and the time since
the last fetch add up to the interval when the host is serial.  Theorems:
TypeCorrect, PermitsReturned, CircuitStopsHost, HostRests.  The proofs also cover
URLs without a host, which the TLC instance does not have.

**WikiRouteProofs** (from `TopicPathAssumption`: finitely many topics, paths that are
sequences of strings; and `WikiRouteAssumption`).  The argument goes layer by layer:
a fuzzy match returns one of the topics it was given or none (FuzzyIn); a result
keeps the answer's summary and proposal, has a topic of the catalog unless the
answer was rejected, and none if the answer is unsure (ClassifiedFits); the writer
files an item under a valid topic or puts it up for review with a reason
(SummaryFits).  IInv ties the pending write to the answer it came from, without
which the last step would know nothing of the answer.  Theorems: TypeCorrect,
SummariesNeverFail, TopicsStayValid, HandledUrlsRecorded, UnsureReviewed,
ReviewsExplained, ReviewsHold.

**RssProofs** (from `RssAssumption`).  RssInv is the invariant of the command that runs:
- SendInv for `send`: until a load or a save fails, the state file is the history of each
  feed's failures (FileIsHistory) and the report of a run is made of it
  (ReportIsHistory); after that it still claims no more failures than there were.  That the newsletter's details are those of the report needs that
  the groups are numbered without a gap, hence the lemma EveryRank: in a finite ordered
  set every rank is taken, by one element.
- HuntInv for `hunt`: what was accepted is remembered (AcceptedIsSeen), the user's mutes
  are in the file and were in memory when the candidates were filtered (MutesKnown), and
  what counts as seen was shown or cut (SeenInReport), each unless a named loss happened.
- TokenInv for `trns`: nobody holds a newer token than the server (Behind), and while none
  was lost at most one process is saving, it holds the server's token, and everybody else
  who is about to ask holds an older one and will be denied (OneSaver).  That is what
  makes the overlap of two processes safe although no lock is shared between them.
- CacheInv: an entry is coherent, or one process is replacing it, or it is marked.
- TallyInv: the counts of a process add up to the place it is at; one episode is being
  tried between the two counts (Accounted), and the linked ones are counted by their
  pages (Linkage).

Theorems: CountsAreReal, NewslettersTell, OncePerUrl, HuntReportsHold, FileKeepsUp,
EntriesCohere, EveryEpisodeCounted.

**CompactProofs** (from `CompactAssumption`).  Every window is that of an instant at
which the schedule fires (Fired); two such windows are equal or a whole schedule
apart, which is arithmetic about weeks (LaterWindow, Disjoint); and a report's commits
lie strictly within its window (Counted).  ChannelInv follows a run through its two
channels: before a channel's turn it has delivered nothing, after it it has or is among
the errors.  BestAnnounced is about the reports of a run in progress,
whose channels deliver at different moments, while commits go on.  NoticeInv says that the
ranking was made of the commits of the window (HotInv), that the commits counted at the
collection are those of the window and stay so (WindowInv, CountInv: the window has ended
when a run starts, so a commit made during the run is after it, lemma OfStays), and that
what was delivered announces what is to be announced (AnnounceInv).  That the announced
are the best is a count: the ranks of the recommended places leave no gap (EveryRank), so
the first so many are as many as there is room for, and nobody who is left out stands
before them.  Theorems:
NothingCountedTwice, EveryChannelAnswers, BestAnnounced.

**LinearReportsProofs** (from `LinearAssumption`).  TokenInv: a goroutine is only about
to send once the transport is wrapped, whatever the others have half written, since
each wraps it itself before it sends.  DoneInv and AnswerInv: what a query has found
is still so, or the issue has been moved since the run began.  Theorems:
TokenAlwaysSent, TwiceOnlyIfMoved, and CompletionsListed with the hypothesis that the
issues fit on one page: then nothing is cut (OnePage), and an issue completed between the
beginning of the day before and that of the report, and still so, is in its answer
(ListInv).

**ToolsProofs** (from `ToolsAssumption`).  ToolsInv is the invariant of the command that
runs:
- GhInv: what is about to be written was validated (GotInv), a process that works has no
  outcome yet (ResultInv), and a search that found a valid cache has one still and falls
  back to it (IntactInv).
- ContentInv: the queue is what is left of an ordered list of candidates, and a video
  that is about to be judged is long, media are on, and what makes it long is
  its page or something that is said in it.
- IssueInv: the pages read so far cover the comments up to a place, which moves only
  when one is deleted.
- AuditInv: a flawed file is caught by the listing that its state calls for, as far as
  the listings have been made.
- DataInv: what either check has found is what its reading of the directory gives.
- ImgInv: of every file of the scan it is known where it is, beside which original it was
  deleted, or what went over it in .temp (Accounted); while nothing has failed, what the loops have passed needs no more work
  (Settling), so a run that was complete leaves the tree as the next would; and a
  directory of a topic is gone only with a parent that has files (Excused).
- BillInv: every plan is a list of distinct transactions with its sum (PlanInv); a
  process has written the first of its plan and holds the rest, and no plan began after
  its batch ended (SyncInv); a row is a transaction of the batch it names (StoreInv).
  That a plan has each id once needs that an import only reorders and drops rows
  (InOrderIs, UniqByIs, SortedIs).  SummaryMatchesRows compares two sums, of the plan
  and of the rows: TotalIs shows that the fold is a sum taken element by element, TakeAny
  that it does not matter which comes first, and SameTotal that a bijection keeps it,
  by taking a smallest counterexample, as induction is not to be had.

Theorems: GhTypeCorrect, SearchesServe, CacheKept, VideosHeard, OwnFirstHolds, OkIsClean,
DiscussionRead, ChecksTell, FixesHold, ImportsAddUp.

**Model-checked only.**  The liveness properties (AllCallsReturn, DigestsEnd,
EveryFeedEnds, RunsEnd, EveryRunEnds): fairness and ENABLED are out of the prover's
reach.  The violated properties are counterexamples found by TLC.

## 7. Not modelled

- **Text and its making**: the prompts, the rendering of entries, reports, newsletters
  and pages, front matter and date sections; the extraction of a text from HTML and the
  parsing of the output of commands.  These are functions of their input.
- **Read-only modes**: `send --check`, `trns --check`, dry runs that write nothing, the
  export of Linear (one query written to one file), `xzb export sql`.
- **Dotfiles and docs checks, the check of data/gh, goods' lifecycle fields,
  renderings of data**: one pass over their input each, a report as output, no state
  that another process or run would meet.
- **ccx, AI sessions, small commands**: the export of one session log to one file,
  flag parsing, presentation.
- **Transcript providers that no command uses** (description, audio, the pipeline as a
  whole), and options of one field.
- **Libraries** appear through what they do to their callers: an atomic replacement
  of a file, the attempts of the AI client, git's history between two instants.
- Of modelled parts: URLs' text (they are values), the wording of errors except where
  it decides, the walk's symlinks, and the number of lines as a second threshold of
  compact.
