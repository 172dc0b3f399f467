----------------------------- MODULE WikiRoute -----------------------------
(***************************************************************************)
(* What becomes of one URL: `docs-cli wiki digest`, `wiki add` and         *)
(* `wiki digest-local` fetch it, have an AI summarise it and choose a      *)
(* topic, and leave one record of it: an entry in the topic's summary.md,  *)
(* an entry in uncat.md for review, or a line in the log of a failure      *)
(* (internal/docs/ingest: pipeline.go, write.go, ingest_local.go;          *)
(* internal/docs/wiki: fetch, classify, write).                            *)
(*                                                                         *)
(* The topics are read from data/gh twice: when the command starts, for    *)
(* the write, and with the first classification, for the AI.  Their user   *)
(* edits them at any time, and a read may fail, so the two may differ.     *)
(*                                                                         *)
(* Of a content only its length matters; of the AI's answer, what decides  *)
(* where it goes.  The verify pass, which only adds a section and cannot   *)
(* fail, is left out.                                                      *)
(***************************************************************************)
EXTENDS TopicPath

CONSTANTS
  Nil,           \* topics that cannot be read; no answer
  Catalogs,      \* what data/gh may hold: sets of topics
  AiPaths,       \* the topic paths the AI may answer
  Driver,        \* wiki.driver: "opencli" or "http-readability"
  MediaEnabled   \* wiki.media.enabled

\* retry.Attempts of the AI call
Attempts == 3

\* An answer that parses and is valid.  `sure`: its confidence is at least
\* MinConfidence; `legal`: its content type is empty or known.
Answers ==
  [overview : BOOLEAN, reject : BOOLEAN, review : BOOLEAN, sure : BOOLEAN,
   legal : BOOLEAN, type : {"review", "research", "inbox", "other"}, path : AiPaths]

ASSUME WikiRouteAssumption ==
  /\ Catalogs \subseteq SUBSET Topics
  /\ AiPaths \subseteq Seq(STRING)
  /\ Driver \in {"opencli", "http-readability"}
  /\ MediaEnabled \in BOOLEAN

VARIABLES
  command,     \* "digest", "add" or "local"
  dry,         \* --dry-run
  url,         \* what the URL is: "text", "video", "audio" or "repo"
  pc,          \* where the URL is on its way
  valid,       \* validTopicPaths
  catalog,     \* the classifier's catalog, once loaded
  body,        \* the content: "none", "blank", "short" or "full"
  expired,     \* the digest's timeout for this URL
  tries,       \* AI calls made
  answer,      \* history: the AI's answer
  pending,     \* the pendingURLWrite: its kind and its item
  record,      \* what is written into the wiki
  handled,     \* URLResult.Handled
  status,      \* URLResult.Status, dry or not
  transcript   \* local: the topic directories the transcript was copied to

input == <<command, dry, url>>
vars  == <<input, pc, valid, catalog, body, expired, tries, answer, pending,
           record, handled, status, transcript>>

NoItem == [topic |-> NoPath, type |-> "none", overview |-> FALSE, review |-> FALSE,
           suggested |-> NoPath, reason |-> "none"]

NoRecord == [where |-> "none", topic |-> NoPath, suggested |-> NoPath, reason |-> "none"]

Init ==
  /\ \/ command \in {"digest", "add"} /\ dry \in BOOLEAN
        /\ url \in {"text", "video", "audio", "repo"}
     \/ command = "local" /\ dry = FALSE /\ url = "video"
  /\ pc = "start"
  /\ valid = Nil
  /\ catalog = {}
  /\ body = "none"
  /\ expired = FALSE
  /\ tries = 0
  /\ answer = Nil
  /\ pending = [kind |-> "none", item |-> NoItem]
  /\ record = NoRecord
  /\ handled = FALSE
  /\ status = "none"
  /\ transcript = {}

Pending(kind, item) ==
  /\ pending' = [kind |-> kind, item |-> item]
  /\ pc' = "write"

-----------------------------------------------------------------------------
(* resolveDependencies: LoadValidTopicPaths, nil when data/gh is unreadable *)
Begin ==
  /\ pc = "start"
  /\ \/ valid' = Nil
     \/ \E topics \in Catalogs : valid' = Deep(topics)
  /\ pc' = "fetch"
  /\ UNCHANGED <<input, catalog, body, expired, tries, answer, pending, record,
                 handled, status, transcript>>

\* Video and audio are not fetched at all when media are disabled.
Fetchable ==
  MediaEnabled \/ ~(url = "audio" \/ (url = "video" /\ Driver = "opencli"))

\* failureKindForFetchResult: how a fetch may fail.  Any URL may be invalid.
FetchFailures ==
  {"extract"}
  \cup (IF url = "repo" \/ (url # "audio" /\ Fetchable) THEN {"fetch"} ELSE {})
  \cup (IF url \in {"text", "video"} /\ Driver = "http-readability"
        THEN {"resolve"} ELSE {})

\* How long a fetched content may be; a video's is "short" below 600 runes.
\* opencli's output is taken as it is.
Bodies ==
  IF ~Fetchable THEN {}
  ELSE {"full"}
       \cup (IF url = "video" THEN {"short"} ELSE {})
       \cup (IF url \in {"text", "video"} /\ Driver = "opencli" THEN {"blank"} ELSE {})

\* A video without a transcript is not worth an AI call.
TooShort(length) == url = "video" /\ length # "full"

(* FetchContent fails. *)
FetchFailed(kind) ==
  /\ pc = "fetch" /\ command # "local"
  /\ kind \in FetchFailures
  /\ Pending(kind, NoItem)
  /\ UNCHANGED <<input, valid, catalog, body, expired, tries, answer, record,
                 handled, status, transcript>>

(* FetchContent returns a content, within the URL's timeout. *)
Fetched(length) ==
  /\ pc = "fetch" /\ command # "local" /\ ~expired
  /\ length \in Bodies
  /\ body' = length
  /\ IF TooShort(length) THEN Pending("extract", NoItem)
     ELSE pc' = "classify" /\ UNCHANGED pending
  /\ UNCHANGED <<input, valid, catalog, expired, tries, answer, record, handled,
                 status, transcript>>

(* readLocalInputs: a directory that cannot be used is skipped, and counts *)
(* as a failure that was written.  The transcript has at least 200 runes.  *)
ReadLocal(length) ==
  /\ pc = "fetch" /\ command = "local"
  /\ IF length = "none"
     THEN /\ pc' = "done" /\ handled' = TRUE /\ status' = "failure"
          /\ UNCHANGED <<body, pending>>
     ELSE /\ body' = length
          /\ IF TooShort(length) THEN Pending("extract", NoItem)
             ELSE pc' = "classify" /\ UNCHANGED pending
          /\ UNCHANGED <<handled, status>>
  /\ UNCHANGED <<input, valid, catalog, expired, tries, answer, record, transcript>>

(* The timeout of a URL of a digest. *)
Expire ==
  /\ command = "digest" /\ pc \in {"fetch", "classify", "ask"} /\ ~expired
  /\ expired' = TRUE
  /\ UNCHANGED <<input, pc, valid, catalog, body, tries, answer, pending, record,
                 handled, status, transcript>>

-----------------------------------------------------------------------------
\* ClassifyURL returned nil: a blank content is to blame, or else the AI.
Unclassified ==
  IF body = "blank" THEN Pending("extract", NoItem)
  ELSE IF command = "local" THEN Pending("unhandled", NoItem)
  ELSE Pending("ai", NoItem)

(* ClassifyURL up to the AI call: ghTopicCatalog, loaded when it is needed *)
(* first.  Without a content or without topics there is no call.           *)
Classify ==
  /\ pc = "classify"
  /\ \/ /\ body # "blank"
        /\ \E topics \in Catalogs \ {{}} : catalog' = topics
        /\ pc' = "ask"
        /\ UNCHANGED pending
     \/ Unclassified /\ UNCHANGED catalog
  /\ UNCHANGED <<input, valid, body, expired, tries, answer, record, handled,
                 status, transcript>>

(* The AI call fails, or its answer does not parse or is not valid. *)
AskFailed ==
  /\ pc = "ask"
  /\ tries' = tries + 1
  /\ IF tries + 1 = Attempts THEN Unclassified ELSE UNCHANGED <<pc, pending>>
  /\ UNCHANGED <<input, valid, catalog, body, expired, answer, record, handled,
                 status, transcript>>

-----------------------------------------------------------------------------
\* suggestedTopicFromAI
Suggested(a) == IF a.path \in Sentinels THEN NoPath ELSE a.path

\* What a ClassifyResult makes of the answer a, before it is routed.
Result(a, topic, type, review, reason) ==
  [topic |-> topic, type |-> type, overview |-> a.overview, review |-> review,
   suggested |-> Suggested(a), reason |-> reason]

\* rejectedClassifyResult: the topic as the AI wrote it
Rejected(a) == Result(a, a.path, a.type, a.review, "none")

\* manualReviewRouteResult
ForReview(a, reason) ==
  Result(a, NoPath, IF a.type = "other" THEN "inbox" ELSE a.type, TRUE, reason)

NoTopicReason(a) ==
  IF a.path \in Sentinels THEN "no_topic_match" ELSE "invalid_topic_path"

(* Mutant of Reviewed: a topic is enough. *)
ReviewedUnsure(a, topic) ==
  IF topic = NoPath THEN ForReview(a, NoTopicReason(a))
  ELSE Result(a, topic, IF a.type \in {"review", "research"} THEN a.type ELSE "research",
              FALSE, "none")

\* routeManualReviewWithGoodContent: a sure answer with a topic is promoted.
Reviewed(a, topic) ==
  IF topic = NoPath THEN ForReview(a, NoTopicReason(a))
  ELSE IF ~a.sure THEN ForReview(a, "needs_manual_review")
  ELSE Result(a, topic, IF a.type \in {"review", "research"} THEN a.type ELSE "research",
              FALSE, "none")

\* validateAIClassificationBasics, but for the confidence
Acceptable(a) == a.type # "other" /\ a.legal

\* buildClassifyResult has nothing to return.
Useless(a) == ~a.overview /\ ~a.reject

\* buildClassifyResult
Classified(a) ==
  LET topic == WritableTopic(a.path, catalog)
  IN IF a.reject THEN Rejected(a)
     ELSE IF a.review THEN Reviewed(a, topic)
     ELSE IF ~a.sure THEN ForReview(a, "needs_manual_review")
     ELSE IF ~Acceptable(a) THEN Rejected(a)
     ELSE IF topic = NoPath THEN ForReview(a, NoTopicReason(a))
     ELSE Result(a, topic, a.type, FALSE, "none")

\* classifyItemFromResult, and its shorter form in processLocalDir
Item(result) ==
  IF command # "local" THEN result
  ELSE [result EXCEPT !.suggested = NoPath, !.reason = "none"]

(* Mutant of IsClassifyFailure: a rejection counts whatever the content. *)
IsClassifyFailureAlways(a, result) ==
  a.reject \/ result.review \/ result.type = "inbox" \/ result.topic \in Sentinels \ {NoPath}

\* shouldWriteClassifyFailure
IsClassifyFailure(a, result) ==
  /\ ~a.overview
  /\ a.reject \/ result.review \/ result.type = "inbox" \/ result.topic \in Sentinels \ {NoPath}

(* The AI answers.  A local digest copies the transcript as soon as there  *)
(* is a topic, and goes on if that fails.                                  *)
Answered(a) ==
  /\ pc = "ask" /\ ~expired
  /\ tries' = tries + 1
  /\ answer' = a
  /\ LET result == Classified(a)
     IN IF Useless(a) THEN Unclassified /\ UNCHANGED transcript
        ELSE /\ Pending(IF IsClassifyFailure(a, result) THEN "classify" ELSE "summary",
                        Item(result))
             /\ \/ UNCHANGED transcript
                \/ /\ command = "local" /\ result.topic # NoPath
                   /\ transcript' = transcript \cup {result.topic}
  /\ UNCHANGED <<input, valid, catalog, body, expired, record, handled, status>>

-----------------------------------------------------------------------------
\* isUnclassifiedTopic
IsUnclassified(item) == item.topic \in Sentinels \/ item.type = "inbox"

\* writeSummary: an item without a topic is for review.
Marked(item) ==
  IF ~item.review /\ IsUnclassified(item)
  THEN [item EXCEPT !.review = TRUE,
                    !.reason = IF @ = "none" THEN "no_topic_match" ELSE @]
  ELSE item

\* resolveAndSetItemTopic, and the same in routeInvalidTopicPath
WithTopic(item, topic) ==
  [item EXCEPT !.topic = topic, !.suggested = IF @ = NoPath THEN item.topic ELSE @]

\* The item's topic, or else the valid topic it resolves to.
Writable(item) ==
  IF valid = Nil \/ item.topic \in valid THEN item.topic
  ELSE ResolvedAmong(item.topic, valid)

Entry(where, item) ==
  [where |-> where, topic |-> item.topic, suggested |-> item.suggested,
   reason |-> item.reason]

\* WriteManualReviewEntry
ReviewEntry(item) ==
  Entry("review", [item EXCEPT !.reason = IF @ = "none" THEN "needs_manual_review" ELSE @])

(* Mutant of SummaryEntry: the topic is taken as it is. *)
SummaryEntryUnchecked(item) ==
  IF item.topic = NoPath THEN Entry("classify", item) ELSE Entry("summary", item)

\* WriteSummary with routeInvalidTopicPath
SummaryEntry(item) ==
  LET topic == Writable(item)
  IN IF item.topic = NoPath THEN Entry("classify", item)
     ELSE IF topic = item.topic THEN Entry("summary", item)
     ELSE IF topic # NoPath THEN Entry("summary", WithTopic(item, topic))
     ELSE ReviewEntry([WithTopic(item, NoPath) EXCEPT !.reason = "invalid_topic_path"])

\* writeSummary.  An item for review that has a topic is promoted
\* (canWriteTopicDespiteNMR).
Summary(pendingItem) ==
  LET item == Marked(pendingItem)
      topic == Writable(item)
      promoted == ~IsUnclassified(item) /\ item.overview /\ topic # NoPath
  IN IF ~item.review THEN SummaryEntry(item)
     ELSE IF ~promoted THEN ReviewEntry(item)
     ELSE SummaryEntry(IF topic = item.topic THEN item ELSE WithTopic(item, topic))

\* What writePendingURL is to write: a summary or a line of a failure log.
Destination ==
  IF pending.kind = "summary" THEN Summary(pending.item)
  ELSE Entry(pending.kind, [pending.item EXCEPT !.reason =
                              IF pending.kind = "ai" THEN "ai_classify_unavailable" ELSE @])

(* Mutant of Written: an error of the writer goes unnoticed. *)
WrittenAnyway(entry) ==
  /\ record' \in {entry, NoRecord}
  /\ handled' = TRUE
  /\ status' = IF pending.kind = "summary" THEN "summary" ELSE "failure"

\* The write succeeds, which in a dry run means that nothing is written.
Written(entry) ==
  /\ record' = IF dry THEN NoRecord ELSE entry
  /\ handled' = TRUE
  /\ status' = IF pending.kind = "summary" THEN "summary" ELSE "failure"

\* The write fails: a file that is replaced has not changed, a log may have
\* the line and lack its newline.  A local video that was too short counts
\* as handled all the same.
NotWritten(entry) ==
  /\ ~dry
  /\ \/ record' = NoRecord
     \/ entry.where \notin {"summary", "review"} /\ record' = entry
  /\ handled' = (command = "local" /\ TooShort(body))
  /\ status' = "unhandled"

(* writePendingURL *)
Write ==
  /\ pc = "write"
  /\ pc' = "done"
  /\ IF pending.kind = "unhandled"
     THEN status' = "unhandled" /\ UNCHANGED <<record, handled>>
     ELSE Written(Destination) \/ NotWritten(Destination)
  /\ UNCHANGED <<input, valid, catalog, body, expired, tries, answer, pending,
                 transcript>>

Finished == pc = "done" /\ UNCHANGED vars

Next ==
  \/ Begin \/ Expire \/ Classify \/ AskFailed \/ Write \/ Finished
  \/ \E kind \in {"fetch", "resolve", "extract"} : FetchFailed(kind)
  \/ \E length \in {"blank", "short", "full"} : Fetched(length)
  \/ \E length \in {"none", "short", "full"} : ReadLocal(length)
  \/ \E a \in Answers : Answered(a)

Spec == Init /\ [][Next]_vars

-----------------------------------------------------------------------------
Paths == Topics \cup AiPaths \cup {NoPath}

Items ==
  [topic : Paths, type : {"none", "review", "research", "inbox", "other"},
   overview : BOOLEAN, review : BOOLEAN, suggested : Paths,
   reason : {"none", "needs_manual_review", "no_topic_match", "invalid_topic_path"}]

Failures == {"fetch", "resolve", "extract", "classify", "ai"}

Records ==
  [where : {"none", "summary", "review"} \cup Failures, topic : Paths,
   suggested : Paths,
   reason : {"none", "needs_manual_review", "no_topic_match", "invalid_topic_path",
             "ai_classify_unavailable"}]

(* Type invariant of the command's memory and of the record. *)
TypeOK ==
  /\ command \in {"digest", "add", "local"}
  /\ dry \in BOOLEAN
  /\ url \in {"text", "video", "audio", "repo"}
  /\ pc \in {"start", "fetch", "classify", "ask", "write", "done"}
  /\ valid \in {Nil} \cup SUBSET Topics
  /\ catalog \in SUBSET Topics
  /\ body \in {"none", "blank", "short", "full"}
  /\ expired \in BOOLEAN
  /\ tries \in 0 .. Attempts
  /\ answer \in {Nil} \cup Answers
  /\ pending \in [kind : {"none", "summary", "unhandled"} \cup Failures, item : Items]
  /\ record \in Records
  /\ handled \in BOOLEAN
  /\ status \in {"none", "summary", "failure", "unhandled"}
  /\ transcript \subseteq Paths

(* A content that the AI summarised is never turned into a failure, even   *)
(* if the AI rejects it or finds no topic: it goes to a topic or to review *)
(* (ingest/write.go:156-164, 43-75; write/write.go:108-121).               *)
GoodContentKept ==
  answer # Nil /\ answer.overview => record.where \in {"none", "summary", "review"}

(* A summary goes to a topic that was valid when the command started, or,  *)
(* when these could not be read, to one of the AI's catalog, unless the    *)
(* answer was rejected (write/write.go:77-106; classifier.go:310-333).     *)
SummariesUnderTopics ==
  record.where = "summary" =>
    IF valid # Nil THEN record.topic \in valid
    ELSE record.topic \in catalog \/ answer.reject \/ ~Acceptable(answer)

(* What the digest removes from the inbox has a record, whatever failed on *)
(* its way: the Outcomes that WikiDigest assumes (ingest/write.go:12-354). *)
HandledMeansRecorded ==
  pc = "done" /\ handled /\ ~dry /\ command # "local" => record # NoRecord

(* An answer of low confidence that is not a rejection is never filed      *)
(* under a topic unseen, whatever the layers after the classifier promote  *)
(* (classifier.go:195-198, 234-271; ingest/write.go:56-58, 113-132).       *)
UnsureGoesToReview ==
  answer # Nil /\ ~answer.sure /\ ~answer.reject => record.where # "summary"

(* Who reviews an entry of a digest sees why it is there and which topic   *)
(* the AI had proposed (classifier.go:273-308; write/write.go:84-103).     *)
ReviewSaysWhy ==
  record.where = "review" /\ command # "local" =>
    record.reason # "none" /\ record.suggested = Suggested(answer)

(* Review is where the unsure answers go, and what is there says why       *)
(* (ingest/write.go:56-58, 113-132).                                       *)
ReviewHolds == UnsureGoesToReview /\ ReviewSaysWhy
=============================================================================
