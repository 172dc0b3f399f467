------------------------------- MODULE Tools -------------------------------
(***************************************************************************)
(* The commands that work on files and services of their own: `xzb sync    *)
(* d1` (BillImport), the searches and syncs of gh-alfred (GhIndex),        *)
(* `workspace images check` (Images), `data-cli check` and `duplicate`     *)
(* (DataRules), `linear2nl review` (IssueReview), `wiki audit` (WikiAudit) *)
(* and the fetching of `wiki ingest` (WikiContent).  They share nothing,   *)
(* so a behaviour is one of the command that tool names.  A variable       *)
(* stands for that of the same name in each module that has it; those the  *)
(* command does not have are Idle.                                         *)
(***************************************************************************)
EXTENDS Integers, Sequences, FiniteSets

CONSTANTS
  Syncs, Trades, Trade, RuleSets, Limits, MaxExports, MaxBatches, MaxEdits,  \* BillImport
  Procs, MaxVersion,                                                         \* GhIndex
  Expected, Dirs, ImageFiles,                     \* Images' Files
  DataFiles, Items, Domain, MaxItems,             \* DataRules' Files
  Bodies, LinearTexts, PerPage, MaxComments,      \* IssueReview
  WikiFiles, Summaries, Failures, Odd, Ignored, WikiTexts, \* WikiAudit's Files and Texts
  Sites, Drivers, MediaEnabled, Feeds, AskAttempts, VerifyAttempts           \* WikiContent

VARIABLES
  tool,                        \* "bills", "gh", "images", "data", "issue", "audit" or "content"
  pc, left, issues, body, outcome,                \* of more than one of them
  world, exports, rules, edits, batch, todo, batches, db, plan, finished,
  source, versions, artifact, cache, why, got, result, intact,
  dirs, files, list, extra, before, settled,
  data, broken, report,
  comments, made, page, prompt, start, shifted,
  head, index, tree, mode, unseen, still,
  driver, media, entry, site, expired, queue, dir, attempts

Bill    == INSTANCE BillImport
Gh      == INSTANCE GhIndex
Img     == INSTANCE Images WITH Files <- ImageFiles
Rules   == INSTANCE DataRules WITH Files <- DataFiles
Issue   == INSTANCE IssueReview
Audit   == INSTANCE WikiAudit WITH Files <- WikiFiles, Texts <- WikiTexts
Content == INSTANCE WikiContent

ASSUME ToolsAssumption ==
  /\ Bill!BillImportAssumption /\ Gh!GhIndexAssumption /\ Img!ImagesAssumption
  /\ Rules!DataRulesAssumption /\ Issue!IssueReviewAssumption /\ Audit!WikiAuditAssumption
  /\ Content!WikiContentAssumption

-----------------------------------------------------------------------------
ofBill    == <<world, exports, rules, edits, batch, todo, batches, db, plan, finished>>
ofGh      == <<source, versions, artifact, cache, why, got, result, intact>>
ofImg     == <<dirs, files, list, extra, before, settled>>
ofData    == <<data, broken, report>>
ofIssue   == <<comments, made, page, prompt, start, shifted>>
ofAudit   == <<head, index, tree, mode, unseen, still>>
ofContent == <<driver, media, entry, site, expired, queue, dir, attempts>>
common    == <<pc, left, issues, body, outcome>>
vars      == <<tool, common, ofBill, ofGh, ofImg, ofData, ofIssue, ofAudit, ofContent>>

Idle == 0

NoBill ==
  /\ world = Idle /\ exports = Idle /\ rules = Idle /\ edits = Idle /\ batch = Idle
  /\ todo = Idle /\ batches = Idle /\ db = Idle /\ plan = Idle /\ finished = Idle
NoGh ==
  /\ source = Idle /\ versions = Idle /\ artifact = Idle /\ cache = Idle /\ why = Idle
  /\ got = Idle /\ result = Idle /\ intact = Idle
NoImg ==
  /\ dirs = Idle /\ files = Idle /\ list = Idle /\ extra = Idle /\ before = Idle
  /\ settled = Idle
NoData == data = Idle /\ broken = Idle /\ report = Idle
NoIssue ==
  /\ comments = Idle /\ made = Idle /\ page = Idle /\ prompt = Idle /\ start = Idle
  /\ shifted = Idle
NoAudit ==
  /\ head = Idle /\ index = Idle /\ tree = Idle /\ mode = Idle /\ unseen = Idle /\ still = Idle
NoContent ==
  /\ driver = Idle /\ media = Idle /\ entry = Idle /\ site = Idle /\ expired = Idle
  /\ queue = Idle /\ dir = Idle /\ attempts = Idle

InitOf(name) ==
  /\ tool = name
  /\ name \in {"bills", "gh"} => left = Idle /\ issues = Idle /\ body = Idle /\ outcome = Idle
  /\ name = "images"  => issues = Idle /\ body = Idle /\ outcome = Idle
  /\ name = "data"    => pc = Idle /\ left = Idle /\ body = Idle /\ outcome = Idle
  /\ name = "issue"   => left = Idle /\ issues = Idle
  /\ name = "audit"   => body = Idle
  /\ name = "content" => left = Idle /\ issues = Idle
  /\ name # "bills"   => NoBill
  /\ name # "gh"      => NoGh
  /\ name # "images"  => NoImg
  /\ name # "data"    => NoData
  /\ name # "issue"   => NoIssue
  /\ name # "audit"   => NoAudit
  /\ name # "content" => NoContent

Init ==
  \/ InitOf("bills")   /\ Bill!Init
  \/ InitOf("gh")      /\ Gh!Init
  \/ InitOf("images")  /\ Img!Init
  \/ InitOf("data")    /\ Rules!Init
  \/ InitOf("issue")   /\ Issue!Init
  \/ InitOf("audit")   /\ Audit!Init
  \/ InitOf("content") /\ Content!Init

Next ==
  \/ /\ tool = "bills" /\ Bill!Next
     /\ UNCHANGED <<tool, left, issues, body, outcome,
                    ofGh, ofImg, ofData, ofIssue, ofAudit, ofContent>>
  \/ /\ tool = "gh" /\ Gh!Next
     /\ UNCHANGED <<tool, left, issues, body, outcome,
                    ofBill, ofImg, ofData, ofIssue, ofAudit, ofContent>>
  \/ /\ tool = "images" /\ Img!Next
     /\ UNCHANGED <<tool, issues, body, outcome,
                    ofBill, ofGh, ofData, ofIssue, ofAudit, ofContent>>
  \/ /\ tool = "data" /\ Rules!Next
     /\ UNCHANGED <<tool, pc, left, body, outcome,
                    ofBill, ofGh, ofImg, ofIssue, ofAudit, ofContent>>
  \/ /\ tool = "issue" /\ Issue!Next
     /\ UNCHANGED <<tool, left, issues, ofBill, ofGh, ofImg, ofData, ofAudit, ofContent>>
  \/ /\ tool = "audit" /\ Audit!Next
     /\ UNCHANGED <<tool, body, ofBill, ofGh, ofImg, ofData, ofIssue, ofContent>>
  \/ /\ tool = "content" /\ Content!Next
     /\ UNCHANGED <<tool, left, issues, ofBill, ofGh, ofImg, ofData, ofIssue, ofAudit>>

Spec == Init /\ [][Next]_vars

-----------------------------------------------------------------------------
(* The properties of the modules, each of its own command. *)

\* Rows name batches that are there, later imports win, and a summary is the
\* sum of the rows it wrote (BillImport).
ImportsHold ==
  tool = "bills" => Bill!RowsHaveTheirBatch /\ Bill!LaterImportWins /\ Bill!SummaryMatchesRows

\* A search over a valid cache never fails (GhIndex).
ValidCacheServes == tool = "gh" => Gh!ValidCacheServes

\* No image is lost but copies and what is overwritten in .temp, a complete run
\* leaves nothing to do, and only stray files let a directory of a topic
\* disappear (Images).
FixesAreSafe ==
  tool = "images" => Img!LossesAreNamed /\ Img!OneApplySettles /\ Img!OnlyStrayFilesHide

\* The field check and the duplicate check overlook nothing together (DataRules).
NothingOverlooked == tool = "data" => Rules!NamelessReported /\ Rules!EveryTwinIsTold

\* A review has read every comment (IssueReview).
WholeDiscussion == tool = "issue" => Issue!WholeDiscussion

\* An audit that says ok has overlooked no flaw (WikiAudit).
OkMeansClean == tool = "audit" => Audit!OkMeansClean

\* Items of the URL itself are tried before those of other episodes (WikiContent).
OwnEpisodeFirst == tool = "content" => Content!OwnEpisodeFirst

\* The AI judges a video by something that is said in it or by a long page, and
\* never when media are off (WikiContent).
HeardOrLong == tool = "content" => Content!HeardOrLong
=============================================================================
