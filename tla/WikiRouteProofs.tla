-------------------------- MODULE WikiRouteProofs --------------------------
(***************************************************************************)
(* The invariants of WikiRoute, for every catalog, every answer and every  *)
(* configuration.                                                          *)
(*                                                                         *)
(* The argument: a topic that the fuzzy match returns is one of the topics *)
(* it was given (FuzzyIn); what the classifier makes of an answer keeps    *)
(* its summary and its proposal, and has a topic only if it may be written *)
(* (ClassifiedFits); what the writer makes of that goes to a topic or to   *)
(* review (SummaryFits).  The inductive invariant ties the pending write   *)
(* to the answer, so that the last step can use these three.               *)
(***************************************************************************)
EXTENDS WikiRoute, FiniteSetTheorems, TLAPS

-----------------------------------------------------------------------------
(* The only member of a finite set, or no path (pickUniqueHit). *)
LEMMA UniqueIn ==
  ASSUME NEW S, IsFiniteSet(S)
  PROVE  Unique(S) \in S \cup {NoPath}
<1>1. CASE Cardinality(S) = 1
  <2>1. S # {}
    BY <1>1, FS_EmptySet
  <2>2. (CHOOSE t \in S : TRUE) \in S
    BY <2>1
  <2> QED
    BY <1>1, <2>2 DEF Unique
<1>2. CASE Cardinality(S) # 1
  BY <1>2 DEF Unique
<1> QED
  BY <1>1, <1>2

(* A fuzzy match finds one of the topics it is given, or none             *)
(* (fuzzyMatchTopicPath).                                                 *)
LEMMA FuzzyIn ==
  ASSUME NEW topics \in SUBSET Topics, NEW path, NEW titled
  PROVE  FuzzyMatch(path, topics, titled) \in topics \cup {NoPath}
<1> DEFINE H == Hits(path, topics, titled)
<1>1. H \subseteq topics
  BY DEF Hits, Deep
<1>2. SameTag(path, H) \subseteq topics /\ SameTagType(path, H) \subseteq topics
  BY <1>1 DEF SameTag, SameTagType
<1>3. IsFiniteSet(topics)
  BY TopicPathAssumption, FS_Subset
<1>4. IsFiniteSet(H) /\ IsFiniteSet(SameTag(path, H)) /\ IsFiniteSet(SameTagType(path, H))
  BY <1>1, <1>2, <1>3, FS_Subset
<1> HIDE DEF H
<1>5. Unique(H) \in topics \cup {NoPath}
  BY <1>1, <1>4, UniqueIn
<1>6. Unique(SameTag(path, H)) \in topics \cup {NoPath}
  BY <1>2, <1>4, UniqueIn
<1>7. Unique(SameTagType(path, H)) \in topics \cup {NoPath}
  BY <1>2, <1>4, UniqueIn
<1>8. Disambiguated(path, H) \in topics \cup {NoPath}
  BY <1>5, <1>6, <1>7, Zenon DEF Disambiguated
<1> QED
  BY <1>8 DEF FuzzyMatch, H

LEMMA WritableIn ==
  ASSUME NEW topics \in SUBSET Topics, NEW path
  PROVE  /\ WritableTopic(path, topics) \in topics \cup {NoPath}
         /\ path \in Sentinels => WritableTopic(path, topics) = NoPath
BY FuzzyIn DEF WritableTopic, Deep

LEMMA ResolvedIn ==
  ASSUME NEW topics \in SUBSET Topics, NEW path
  PROVE  ResolvedAmong(path, topics) \in topics \cup {NoPath}
BY FuzzyIn DEF ResolvedAmong

-----------------------------------------------------------------------------
\* What the classifier promises of the result r of an answer a.
Fits(a, r) ==
  /\ r \in Items
  /\ r.overview = a.overview
  /\ r.suggested = Suggested(a)
  /\ ~a.sure /\ ~a.reject => r.review /\ r.topic = NoPath
  /\ r.topic \in catalog \cup {NoPath} \/ a.reject \/ ~Acceptable(a)
  /\ a.path \in Sentinels => r.topic \in Sentinels

LEMMA SuggestedIn ==
  ASSUME NEW a \in Answers
  PROVE  Suggested(a) \in Paths
BY DEF Suggested, Answers, Paths

LEMMA ResultFits ==
  ASSUME NEW a \in Answers, NEW topic \in Paths,
         NEW type \in {"review", "research", "inbox", "other"}, NEW review \in BOOLEAN,
         NEW reason \in {"none", "needs_manual_review", "no_topic_match", "invalid_topic_path"}
  PROVE  /\ Result(a, topic, type, review, reason) \in Items
         /\ Result(a, topic, type, review, reason).overview = a.overview
         /\ Result(a, topic, type, review, reason).suggested = Suggested(a)
         /\ Result(a, topic, type, review, reason).review = review
         /\ Result(a, topic, type, review, reason).topic = topic
         /\ Result(a, topic, type, review, reason).reason = reason
<1>1. a.overview \in BOOLEAN
  BY DEF Answers
<1> QED
  BY <1>1, SuggestedIn DEF Result, Items

LEMMA ForReviewFits ==
  ASSUME NEW a \in Answers,
         NEW reason \in {"none", "needs_manual_review", "no_topic_match", "invalid_topic_path"}
  PROVE  Fits(a, ForReview(a, reason))
<1> DEFINE type == IF a.type = "other" THEN "inbox" ELSE a.type
<1>1. type \in {"review", "research", "inbox", "other"}
  BY DEF Answers
<1>2. NoPath \in Paths /\ NoPath \in Sentinels
  BY DEF Paths, Sentinels
<1>3. ForReview(a, reason) = Result(a, NoPath, type, TRUE, reason)
  BY DEF ForReview
<1> HIDE DEF type
<1>o. a.overview \in BOOLEAN
  BY DEF Answers
<1> DEFINE r == Result(a, NoPath, type, TRUE, reason)
<1>4. /\ r \in Items /\ r.overview = a.overview /\ r.suggested = Suggested(a)
      /\ r.review = TRUE /\ r.topic = NoPath
  BY <1>1, <1>2, <1>o, SuggestedIn DEF Result, Items
<1> HIDE DEF r
<1>5. Fits(a, r)
  BY <1>2, <1>4 DEF Fits
<1> QED
  BY <1>3, <1>5 DEF r

LEMMA RejectedFits ==
  ASSUME NEW a \in Answers, a.reject \/ (a.sure /\ ~Acceptable(a))
  PROVE  Fits(a, Rejected(a))
<1>1. a.path \in Paths /\ a.type \in {"review", "research", "inbox", "other"} /\ a.review \in BOOLEAN
  BY DEF Answers, Paths
<1>2. Rejected(a) = Result(a, a.path, a.type, a.review, "none")
  BY DEF Rejected
<1> QED
  BY <1>1, <1>2, ResultFits DEF Fits

LEMMA ToTopicFits ==
  ASSUME NEW a \in Answers, a.sure, a.path \notin Sentinels, catalog \in SUBSET Topics,
         NEW topic \in catalog, NEW type \in {"review", "research", "inbox", "other"}
  PROVE  Fits(a, Result(a, topic, type, FALSE, "none"))
<1>1. topic \in Paths
  BY DEF Paths
<1>o. a.overview \in BOOLEAN
  BY DEF Answers
<1> DEFINE r == Result(a, topic, type, FALSE, "none")
<1>2. /\ r \in Items /\ r.overview = a.overview /\ r.suggested = Suggested(a)
      /\ r.topic = topic
  BY <1>1, <1>o, SuggestedIn DEF Result, Items
<1> HIDE DEF r
<1>3. Fits(a, r)
  BY <1>2 DEF Fits
<1> QED
  BY <1>3 DEF r

LEMMA NoTopicReasonIn ==
  ASSUME NEW a
  PROVE  NoTopicReason(a) \in {"no_topic_match", "invalid_topic_path"}
BY DEF NoTopicReason

(* buildClassifyResult, on all of its paths. *)
LEMMA ClassifiedFits ==
  ASSUME NEW a \in Answers, catalog \in SUBSET Topics
  PROVE  Fits(a, Classified(a))
<1> DEFINE topic == WritableTopic(a.path, catalog)
           type == IF a.type \in {"review", "research"} THEN a.type ELSE "research"
<1>0. /\ topic \in catalog \cup {NoPath}
      /\ a.path \in Sentinels => topic = NoPath
      /\ topic # NoPath => topic \in catalog /\ a.path \notin Sentinels
  BY WritableIn
<1>t. a.type \in {"review", "research", "inbox", "other"} /\ type \in {"review", "research"}
  BY DEF Answers
<1> HIDE DEF topic, type
<1>1. CASE a.reject
  BY <1>1, RejectedFits DEF Classified
<1>2. CASE ~a.reject /\ a.review
  <2>1. Classified(a) = Reviewed(a, topic)
    BY <1>2 DEF Classified, topic
  <2>2. CASE topic = NoPath
    BY <2>1, <2>2, ForReviewFits, NoTopicReasonIn DEF Reviewed
  <2>3. CASE topic # NoPath /\ ~a.sure
    BY <2>1, <2>3, ForReviewFits DEF Reviewed
  <2>4. CASE topic # NoPath /\ a.sure
    <3>1. Reviewed(a, topic) = Result(a, topic, type, FALSE, "none")
      BY <2>4 DEF Reviewed, type
    <3> QED
      BY <1>0, <1>t, <2>1, <2>4, <3>1, ToTopicFits
  <2> QED
    BY <2>2, <2>3, <2>4
<1>3. CASE ~a.reject /\ ~a.review /\ ~a.sure
  BY <1>3, ForReviewFits DEF Classified
<1>4. CASE ~a.reject /\ ~a.review /\ a.sure /\ ~Acceptable(a)
  BY <1>4, RejectedFits DEF Classified
<1>5. CASE ~a.reject /\ ~a.review /\ a.sure /\ Acceptable(a) /\ topic = NoPath
  <2>1. Classified(a) = ForReview(a, NoTopicReason(a))
    BY <1>5 DEF Classified, topic
  <2> QED
    BY <2>1, ForReviewFits, NoTopicReasonIn
<1>6. CASE ~a.reject /\ ~a.review /\ a.sure /\ Acceptable(a) /\ topic # NoPath
  <2>1. Classified(a) = Result(a, topic, a.type, FALSE, "none")
    BY <1>6 DEF Classified, topic
  <2> QED
    BY <1>0, <1>t, <1>6, <2>1, ToTopicFits
<1> QED
  BY <1>1, <1>2, <1>3, <1>4, <1>5, <1>6

-----------------------------------------------------------------------------
LEMMA WritableFits ==
  ASSUME NEW item \in Items, valid \in {Nil} \cup SUBSET Topics
  PROVE  /\ Writable(item) \in Paths
         /\ valid # Nil => Writable(item) \in valid \cup {NoPath}
         /\ valid = Nil => Writable(item) = item.topic
<1>1. item.topic \in Paths
  BY DEF Items
<1>2. CASE valid = Nil
  BY <1>1, <1>2 DEF Writable
<1>3. CASE valid # Nil
  <2>1. ResolvedAmong(item.topic, valid) \in valid \cup {NoPath}
    BY <1>3, ResolvedIn
  <2> QED
    BY <1>1, <1>3, <2>1 DEF Writable, Paths
<1> QED
  BY <1>2, <1>3

LEMMA WithTopicFits ==
  ASSUME NEW item \in Items, NEW topic \in Paths
  PROVE  /\ WithTopic(item, topic) \in Items
         /\ WithTopic(item, topic).topic = topic
         /\ WithTopic(item, topic).suggested =
              IF item.suggested = NoPath THEN item.topic ELSE item.suggested
BY DEF WithTopic, Items

LEMMA EntryFits ==
  ASSUME NEW item \in Items, NEW where \in {"summary", "review"} \cup Failures
  PROVE  /\ Entry(where, item) \in Records
         /\ Entry(where, item).where = where
         /\ Entry(where, item).topic = item.topic
         /\ Entry(where, item).suggested = item.suggested
         /\ Entry(where, item).reason = item.reason
BY DEF Entry, Items, Records

LEMMA ReviewEntryFits ==
  ASSUME NEW item \in Items
  PROVE  /\ ReviewEntry(item) \in Records
         /\ ReviewEntry(item).where = "review"
         /\ ReviewEntry(item).suggested = item.suggested
         /\ ReviewEntry(item).reason # "none"
<1> DEFINE why == [item EXCEPT !.reason = IF @ = "none" THEN "needs_manual_review" ELSE @]
<1>1. why \in Items /\ why.suggested = item.suggested /\ why.reason # "none"
  BY DEF Items
<1>2. ReviewEntry(item) = Entry("review", why)
  BY DEF ReviewEntry
<1> HIDE DEF why
<1> QED
  BY <1>1, <1>2, EntryFits

\* What the writer promises of the entry e of an item.
Filed(item, e) ==
  /\ e \in Records
  /\ e.where \in {"summary", "review"}
  /\ e.where = "summary" =>
       /\ item.topic \notin Sentinels
       /\ IF valid # Nil THEN e.topic \in valid ELSE e.topic = item.topic
  /\ e.where = "review" =>
       /\ e.reason # "none"
       /\ \/ e.suggested = item.suggested
          \/ item.suggested = NoPath /\ item.topic \notin Sentinels

(* WriteSummary, of an item with a topic. *)
LEMMA SummaryEntryFits ==
  ASSUME NEW item \in Items, item.topic \notin Sentinels,
         valid \in {Nil} \cup SUBSET Topics
  PROVE  Filed(item, SummaryEntry(item))
<1> DEFINE topic == Writable(item)
<1>1. /\ topic \in Paths
      /\ valid # Nil => topic \in valid \cup {NoPath}
      /\ valid = Nil => topic = item.topic
  BY WritableFits
<1>2. item.topic # NoPath /\ item.topic \in Paths /\ NoPath \in Paths
  BY DEF Sentinels, Items, Paths
<1> HIDE DEF topic
<1>3. CASE topic = item.topic
  <2>1. SummaryEntry(item) = Entry("summary", item)
    BY <1>2, <1>3 DEF SummaryEntry, topic
  <2> QED
    BY <1>1, <1>2, <1>3, <2>1, EntryFits DEF Filed
<1>4. CASE topic # item.topic /\ topic # NoPath
  <2>1. SummaryEntry(item) = Entry("summary", WithTopic(item, topic))
    BY <1>2, <1>4 DEF SummaryEntry, topic
  <2>2. WithTopic(item, topic) \in Items /\ WithTopic(item, topic).topic = topic
    BY <1>1, WithTopicFits
  <2> QED
    BY <1>1, <1>4, <2>1, <2>2, EntryFits DEF Filed
<1>5. CASE topic # item.topic /\ topic = NoPath
  <2> DEFINE without == [WithTopic(item, NoPath) EXCEPT !.reason = "invalid_topic_path"]
  <2>1. SummaryEntry(item) = ReviewEntry(without)
    BY <1>2, <1>5 DEF SummaryEntry, topic
  <2>2. /\ WithTopic(item, NoPath) \in Items
        /\ WithTopic(item, NoPath).suggested =
             IF item.suggested = NoPath THEN item.topic ELSE item.suggested
    BY <1>2, WithTopicFits
  <2>3. without \in Items /\ without.suggested = WithTopic(item, NoPath).suggested
    BY <2>2 DEF Items
  <2> HIDE DEF without
  <2>4. CASE item.suggested = NoPath
    BY <2>1, <2>3, <2>4, ReviewEntryFits DEF Filed
  <2>5. CASE item.suggested # NoPath
    BY <2>1, <2>2, <2>3, <2>5, ReviewEntryFits DEF Filed
  <2> QED
    BY <2>4, <2>5
<1> QED
  BY <1>3, <1>4, <1>5

(* writeSummary, of any item. *)
LEMMA SummaryFits ==
  ASSUME NEW p \in Items, valid \in {Nil} \cup SUBSET Topics
  PROVE  Filed(p, Summary(p))
<1> DEFINE item == Marked(p)
           topic == Writable(item)
           promoted == ~IsUnclassified(item) /\ item.overview /\ topic # NoPath
<1>1. /\ item \in Items
      /\ item.topic = p.topic /\ item.suggested = p.suggested
      /\ ~item.review => item.topic \notin Sentinels
  BY DEF Marked, IsUnclassified, Items
<1>2. /\ topic \in Paths
      /\ valid # Nil => topic \in valid \cup {NoPath}
      /\ valid = Nil => topic = item.topic
  BY <1>1, WritableFits
<1>3. Summary(p) =
        IF ~item.review THEN SummaryEntry(item)
        ELSE IF ~promoted THEN ReviewEntry(item)
        ELSE SummaryEntry(IF topic = item.topic THEN item ELSE WithTopic(item, topic))
  BY DEF Summary
<1>4. promoted => item.topic \notin Sentinels /\ topic # NoPath
  BY DEF IsUnclassified
<1> HIDE DEF item, topic, promoted
<1>5. CASE ~item.review
  BY <1>1, <1>3, <1>5, SummaryEntryFits DEF Filed
<1>6. CASE item.review /\ ~promoted
  <2>1. Summary(p) = ReviewEntry(item)
    BY <1>3, <1>6
  <2> QED
    BY <1>1, <2>1, ReviewEntryFits DEF Filed
<1>7. CASE item.review /\ promoted /\ topic = item.topic
  <2>1. Summary(p) = SummaryEntry(item)
    BY <1>3, <1>7
  <2> QED
    BY <1>1, <1>4, <1>7, <2>1, SummaryEntryFits DEF Filed
<1>8. CASE item.review /\ promoted /\ topic # item.topic
  <2> DEFINE moved == WithTopic(item, topic)
  <2>1. moved \in Items /\ moved.topic = topic
    BY <1>1, <1>2, WithTopicFits
  <2>2. Summary(p) = SummaryEntry(moved)
    BY <1>3, <1>8
  <2> HIDE DEF moved
  <2>3. valid # Nil /\ moved.topic \in valid /\ moved.topic # NoPath
    BY <1>2, <1>4, <1>8, <2>1
  <2>4. Writable(moved) = moved.topic
    BY <2>3 DEF Writable
  <2>5. SummaryEntry(moved) = Entry("summary", moved)
    BY <2>3, <2>4 DEF SummaryEntry
  <2> QED
    BY <1>1, <1>4, <1>8, <2>1, <2>2, <2>3, <2>5, EntryFits DEF Filed
<1> QED
  BY <1>5, <1>6, <1>7, <1>8

-----------------------------------------------------------------------------
\* Nothing is answered or recorded before its step.
Early ==
  /\ pc \notin {"write", "done"} => answer = Nil
  /\ pc # "done" => record = NoRecord /\ handled = FALSE

Tried ==
  /\ pc \in {"start", "fetch", "classify"} => tries = 0
  /\ pc = "ask" => tries < Attempts

\* What is to be written is what the classifier made of the answer.
PendingKept ==
  pc = "write" =>
    /\ pending.kind # "none"
    /\ pending.kind = "summary" =>
         answer \in Answers /\ pending.item = Item(Classified(answer))
    /\ answer # Nil /\ answer.overview => pending.kind = "summary"

RecordGood ==
  /\ GoodContentKept
  /\ SummariesUnderTopics
  /\ HandledMeansRecorded
  /\ UnsureGoesToReview
  /\ ReviewSaysWhy

IInv == TypeOK /\ Early /\ Tried /\ PendingKept /\ RecordGood

Kinds == {"none", "summary", "unhandled"} \cup Failures

Pendings == [kind : Kinds, item : Items]

LEMMA NothingFits == NoItem \in Items /\ NoRecord \in Records
BY DEF NoItem, NoRecord, Items, Records, Paths

LEMMA PendingFits ==
  ASSUME NEW kind \in Kinds, NEW item \in Items, Pending(kind, item)
  PROVE  /\ pending' \in Pendings
         /\ pending'.kind = kind /\ pending'.item = item
         /\ pc' = "write"
BY DEF Pending, Pendings

LEMMA UnclassifiedFits ==
  ASSUME Unclassified
  PROVE  /\ pending' \in Pendings
         /\ pending'.kind \in {"extract", "unhandled", "ai"}
         /\ pc' = "write"
<1>1. \A kind \in {"extract", "unhandled", "ai"} : kind \in Kinds
  BY DEF Kinds, Failures
<1>2. CASE body = "blank"
  BY <1>1, <1>2, NothingFits, PendingFits DEF Unclassified
<1>3. CASE body # "blank" /\ command = "local"
  BY <1>1, <1>3, NothingFits, PendingFits DEF Unclassified
<1>4. CASE body # "blank" /\ command # "local"
  BY <1>1, <1>4, NothingFits, PendingFits DEF Unclassified
<1> QED
  BY <1>2, <1>3, <1>4

\* What the local digest keeps of a result.
LEMMA ItemFits ==
  ASSUME NEW r \in Items
  PROVE  /\ Item(r) \in Items
         /\ Item(r).topic = r.topic
         /\ command # "local" => Item(r) = r
<1> DEFINE plain == [r EXCEPT !.suggested = NoPath, !.reason = "none"]
<1>1. plain \in Items /\ plain.topic = r.topic
  BY DEF Items, Paths
<1>2. Item(r) = IF command # "local" THEN r ELSE plain
  BY DEF Item
<1> HIDE DEF plain
<1> QED
  BY <1>1, <1>2

-----------------------------------------------------------------------------
LEMMA InitInv == Init => IInv
<1> SUFFICES ASSUME Init PROVE IInv
  OBVIOUS
<1>1. [kind |-> "none", item |-> NoItem] \in Pendings
  BY NothingFits DEF Pendings, Kinds
<1>2. TypeOK
  <2>1. /\ command \in {"digest", "add", "local"}
        /\ dry \in BOOLEAN
        /\ url \in {"text", "video", "audio", "repo"}
    BY DEF Init
  <2>2. valid \in {Nil} \cup SUBSET Topics /\ catalog \in SUBSET Topics
    BY DEF Init
  <2>3. pending \in Pendings /\ record \in Records
    BY <1>1, NothingFits DEF Init
  <2>4. tries \in 0 .. Attempts
    BY DEF Init, Attempts
  <2>5. expired \in BOOLEAN /\ handled \in BOOLEAN
    BY DEF Init
  <2> QED
    BY <2>1, <2>2, <2>3, <2>4, <2>5 DEF Init, TypeOK, Pendings, Kinds
<1>3. Early /\ Tried /\ PendingKept
  BY DEF Init, Early, Tried, PendingKept
<1>4. record.where = "none" /\ pc # "done"
  BY DEF Init, NoRecord
<1>5. RecordGood
  BY <1>4 DEF RecordGood, GoodContentKept, SummariesUnderTopics, HandledMeansRecorded,
              UnsureGoesToReview, ReviewSaysWhy
<1> QED
  BY <1>2, <1>3, <1>5 DEF IInv

\* A step after which nothing is recorded yet cannot break a promise about
\* the record.
LEMMA UnwrittenGood ==
  ASSUME record' = NoRecord, handled' = FALSE
  PROVE  RecordGood'
<1>1. record'.where = "none"
  BY DEF NoRecord
<1>2. GoodContentKept' /\ UnsureGoesToReview'
  BY <1>1 DEF GoodContentKept, UnsureGoesToReview
<1>3. SummariesUnderTopics' /\ ReviewSaysWhy'
  BY <1>1 DEF SummariesUnderTopics, ReviewSaysWhy
<1>4. HandledMeansRecorded'
  BY DEF HandledMeansRecorded
<1> QED
  BY <1>2, <1>3, <1>4 DEF RecordGood

LEMMA BeginInv ==
  ASSUME IInv, Begin
  PROVE  IInv'
<1>1. valid' \in {Nil} \cup SUBSET Topics
  BY WikiRouteAssumption DEF Begin, Deep
<1>2. TypeOK'
  BY <1>1 DEF IInv, TypeOK, Begin, input
<1>3. Early' /\ Tried' /\ PendingKept'
  BY DEF IInv, Begin, Early, Tried, PendingKept
<1>4. RecordGood'
  BY UnwrittenGood DEF IInv, Early, Begin
<1> QED
  BY <1>2, <1>3, <1>4 DEF IInv

LEMMA ExpireInv ==
  ASSUME IInv, Expire
  PROVE  IInv'
<1>1. TypeOK'
  BY DEF IInv, TypeOK, Expire, input
<1>2. Early' /\ Tried' /\ PendingKept'
  BY DEF IInv, Expire, Early, Tried, PendingKept
<1>3. RecordGood'
  BY UnwrittenGood DEF IInv, Early, Expire
<1> QED
  BY <1>1, <1>2, <1>3 DEF IInv

LEMMA FetchFailedInv ==
  ASSUME IInv, NEW kind \in {"fetch", "resolve", "extract"}, FetchFailed(kind)
  PROVE  IInv'
<1>1. /\ pending' \in Pendings
      /\ pending'.kind \notin {"none", "summary"}
      /\ pc' = "write"
  <2>1. kind \in Kinds /\ kind \notin {"none", "summary"}
    BY DEF Kinds, Failures
  <2> QED
    BY <2>1, NothingFits, PendingFits DEF FetchFailed
<1>2. TypeOK'
  BY <1>1 DEF IInv, TypeOK, FetchFailed, input, Pendings, Kinds
<1>3. Early' /\ Tried' /\ PendingKept'
  BY <1>1 DEF IInv, FetchFailed, Early, Tried, PendingKept
<1>4. RecordGood'
  BY UnwrittenGood DEF IInv, Early, FetchFailed
<1> QED
  BY <1>2, <1>3, <1>4 DEF IInv

LEMMA FetchedInv ==
  ASSUME IInv, NEW length \in {"blank", "short", "full"}, Fetched(length)
  PROVE  IInv'
<1>1. /\ pending' \in Pendings
      /\ pc' \in {"write", "classify"}
      /\ pc' = "write" => pending'.kind = "extract"
  <2>1. CASE TooShort(length)
    <3>1. "extract" \in Kinds
      BY DEF Kinds, Failures
    <3> QED
      BY <2>1, <3>1, NothingFits, PendingFits DEF Fetched
  <2>2. CASE ~TooShort(length)
    BY <2>2 DEF Fetched, IInv, TypeOK, Pendings, Kinds
  <2> QED
    BY <2>1, <2>2
<1>2. TypeOK'
  BY <1>1 DEF IInv, TypeOK, Fetched, input, Pendings, Kinds
<1>3. Early' /\ Tried' /\ PendingKept'
  BY <1>1 DEF IInv, Fetched, Early, Tried, PendingKept
<1>4. RecordGood'
  BY UnwrittenGood DEF IInv, Early, Fetched
<1> QED
  BY <1>2, <1>3, <1>4 DEF IInv

LEMMA ReadLocalInv ==
  ASSUME IInv, NEW length \in {"none", "short", "full"}, ReadLocal(length)
  PROVE  IInv'
<1>1. CASE length = "none"
  <2>1. /\ pc' = "done" /\ status' = "failure" /\ handled' = TRUE
        /\ UNCHANGED <<body, pending, record, command, answer>>
        /\ command = "local" /\ record.where = "none"
    BY <1>1 DEF ReadLocal, IInv, Early, NoRecord, input
  <2>2. TypeOK'
    BY <2>1 DEF IInv, TypeOK, ReadLocal, input
  <2>3. Early' /\ Tried' /\ PendingKept'
    BY <2>1 DEF Early, Tried, PendingKept
  <2>4. GoodContentKept' /\ UnsureGoesToReview' /\ SummariesUnderTopics'
    BY <2>1 DEF GoodContentKept, UnsureGoesToReview, SummariesUnderTopics
  <2>5. HandledMeansRecorded' /\ ReviewSaysWhy'
    BY <2>1 DEF HandledMeansRecorded, ReviewSaysWhy
  <2> QED
    BY <2>2, <2>3, <2>4, <2>5 DEF IInv, RecordGood
<1>2. CASE length # "none"
  <2>1. /\ pending' \in Pendings
        /\ pc' \in {"write", "classify"}
        /\ pc' = "write" => pending'.kind = "extract"
    <3>1. CASE TooShort(length)
      <4>1. "extract" \in Kinds
        BY DEF Kinds, Failures
      <4> QED
        BY <1>2, <3>1, <4>1, NothingFits, PendingFits DEF ReadLocal
    <3>2. CASE ~TooShort(length)
      BY <1>2, <3>2 DEF ReadLocal, IInv, TypeOK, Pendings, Kinds
    <3> QED
      BY <3>1, <3>2
  <2>2. TypeOK'
    BY <1>2, <2>1 DEF IInv, TypeOK, ReadLocal, input, Pendings, Kinds
  <2>3. Early' /\ Tried' /\ PendingKept'
    BY <1>2, <2>1 DEF IInv, ReadLocal, Early, Tried, PendingKept
  <2>4. RecordGood'
    BY <1>2, UnwrittenGood DEF IInv, Early, ReadLocal
  <2> QED
    BY <2>2, <2>3, <2>4 DEF IInv
<1> QED
  BY <1>1, <1>2

LEMMA ClassifyInv ==
  ASSUME IInv, Classify
  PROVE  IInv'
<1>1. /\ pending' \in Pendings
      /\ pc' \in {"write", "ask"}
      /\ pc' = "write" => pending'.kind \in {"extract", "unhandled", "ai"}
      /\ catalog' \in SUBSET Topics
  <2>1. CASE Unclassified /\ UNCHANGED catalog
    BY <2>1, UnclassifiedFits DEF IInv, TypeOK
  <2>2. CASE \E topics \in Catalogs \ {{}} :
               catalog' = topics /\ pc' = "ask" /\ UNCHANGED pending
    BY <2>2, WikiRouteAssumption DEF IInv, TypeOK, Pendings, Kinds
  <2> QED
    BY <2>1, <2>2 DEF Classify
<1>2. TypeOK'
  BY <1>1 DEF IInv, TypeOK, Classify, input, Pendings, Kinds
<1>3. Early' /\ Tried' /\ PendingKept'
  BY <1>1 DEF IInv, Classify, Early, Tried, PendingKept, Attempts
<1>4. RecordGood'
  BY UnwrittenGood DEF IInv, Early, Classify
<1> QED
  BY <1>2, <1>3, <1>4 DEF IInv

LEMMA AskFailedInv ==
  ASSUME IInv, AskFailed
  PROVE  IInv'
<1>0. tries' = tries + 1 /\ tries \in 0 .. Attempts /\ tries < Attempts /\ pc = "ask"
  BY DEF IInv, TypeOK, Tried, AskFailed
<1>1. /\ pending' \in Pendings
      /\ pc' \in {"write", "ask"}
      /\ pc' = "write" => pending'.kind \in {"extract", "unhandled", "ai"}
      /\ pc' = "ask" => tries + 1 < Attempts
  <2>1. CASE tries + 1 = Attempts
    BY <2>1, UnclassifiedFits DEF AskFailed
  <2>2. CASE tries + 1 # Attempts
    BY <1>0, <2>2 DEF AskFailed, IInv, TypeOK, Pendings, Kinds, Attempts
  <2> QED
    BY <2>1, <2>2
<1>2. tries' \in 0 .. Attempts
  BY <1>0 DEF Attempts
<1>3. TypeOK'
  BY <1>1, <1>2 DEF IInv, TypeOK, AskFailed, input, Pendings, Kinds
<1>4. Early' /\ Tried' /\ PendingKept'
  BY <1>0, <1>1 DEF IInv, AskFailed, Early, Tried, PendingKept
<1>5. RecordGood'
  BY UnwrittenGood DEF IInv, Early, AskFailed
<1> QED
  BY <1>3, <1>4, <1>5 DEF IInv

LEMMA AnsweredInv ==
  ASSUME IInv, NEW a \in Answers, Answered(a)
  PROVE  IInv'
<1> DEFINE result == Classified(a)
<1>0. /\ tries' = tries + 1 /\ tries \in 0 .. Attempts /\ tries < Attempts
      /\ pc = "ask" /\ answer' = a
      /\ UNCHANGED <<command, dry, url, catalog>>
  BY DEF IInv, TypeOK, Tried, Answered, input
<1>1. result \in Items /\ result.topic \in Paths /\ Item(result) \in Items
  <2>1. Fits(a, result)
    BY ClassifiedFits DEF IInv, TypeOK
  <2>2. result \in Items
    BY <2>1 DEF Fits
  <2> QED
    BY <2>2, ItemFits DEF Items
<1>2. Item(Classified(answer))' = Item(Classified(a))
  BY <1>0 DEF Item, Classified, WritableTopic
<1> HIDE DEF result
<1>3. CASE Useless(a)
  <2>1. /\ pending' \in Pendings
        /\ pending'.kind \in {"extract", "unhandled", "ai"}
        /\ pc' = "write" /\ transcript' = transcript
    BY <1>3, UnclassifiedFits DEF Answered
  <2>2. ~answer'.overview
    BY <1>0, <1>3 DEF Useless
  <2>3. PendingKept'
    BY <2>1, <2>2 DEF PendingKept
  <2>4. tries' \in 0 .. Attempts /\ answer' \in {Nil} \cup Answers
    BY <1>0 DEF Attempts
  <2>5. TypeOK'
    BY <2>1, <2>4 DEF IInv, TypeOK, Answered, input, Pendings, Kinds
  <2>6. Early' /\ Tried'
    BY <2>1 DEF IInv, Answered, Early, Tried
  <2>7. RecordGood'
    BY UnwrittenGood, <1>0 DEF IInv, Early, Answered
  <2> QED
    BY <2>3, <2>5, <2>6, <2>7 DEF IInv
<1>4. CASE ~Useless(a)
  <2> DEFINE kind == IF IsClassifyFailure(a, result) THEN "classify" ELSE "summary"
  <2>1. kind \in Kinds /\ kind \in {"classify", "summary"}
    BY DEF Kinds, Failures
  <2>2. a.overview => kind = "summary"
    BY DEF IsClassifyFailure
  <2>3. Pending(kind, Item(result))
    BY <1>4 DEF Answered, result
  <2> HIDE DEF kind
  <2>4. /\ pending' \in Pendings
        /\ pending'.kind = kind /\ pending'.item = Item(result)
        /\ pc' = "write"
    BY <1>1, <2>1, <2>3, PendingFits
  <2>5. transcript' \subseteq Paths
    <3>1. transcript' \in {transcript, transcript \cup {result.topic}}
      BY <1>4 DEF Answered, result
    <3> QED
      BY <1>1, <3>1 DEF IInv, TypeOK
  <2>6. PendingKept'
    BY <1>0, <1>2, <2>1, <2>2, <2>4 DEF PendingKept, result
  <2>7. tries' \in 0 .. Attempts /\ answer' \in {Nil} \cup Answers
    BY <1>0 DEF Attempts
  <2>8. TypeOK'
    BY <2>4, <2>5, <2>7 DEF IInv, TypeOK, Answered, input, Pendings, Kinds
  <2>9. Early' /\ Tried'
    BY <2>4 DEF IInv, Answered, Early, Tried
  <2>10. RecordGood'
    BY UnwrittenGood, <1>0 DEF IInv, Early, Answered
  <2> QED
    BY <2>6, <2>8, <2>9, <2>10 DEF IInv
<1> QED
  BY <1>3, <1>4

\* The entry that a summary becomes keeps every promise about the record.
LEMMA FiledGood ==
  ASSUME IInv, pc = "write", pending.kind = "summary", NEW e, e = Summary(pending.item)
  PROVE  /\ e \in Records
         /\ e.where \in {"summary", "review"}
         /\ e.where = "summary" =>
              /\ IF valid # Nil THEN e.topic \in valid
                 ELSE e.topic \in catalog \/ answer.reject \/ ~Acceptable(answer)
              /\ answer.sure \/ answer.reject
         /\ e.where = "review" /\ command # "local" =>
              e.reason # "none" /\ e.suggested = Suggested(answer)
<1> DEFINE r == Classified(answer)
           p == Item(r)
<1>1. answer \in Answers /\ pending.item = p /\ e = Summary(p)
  BY DEF IInv, PendingKept
<1>2. Fits(answer, r)
  BY <1>1, ClassifiedFits DEF IInv, TypeOK
<1>3. r \in Items
  BY <1>2 DEF Fits
<1> HIDE DEF r
<1>4. p \in Items /\ p.topic = r.topic /\ (command # "local" => p = r)
  BY <1>3, ItemFits
<1> HIDE DEF p
<1>5. Filed(p, e)
  BY <1>1, <1>4, SummaryFits DEF IInv, TypeOK
<1>6. ASSUME e.where = "summary"
      PROVE  /\ IF valid # Nil THEN e.topic \in valid
                ELSE e.topic \in catalog \/ answer.reject \/ ~Acceptable(answer)
             /\ answer.sure \/ answer.reject
  <2>1. r.topic \notin Sentinels /\ NoPath \in Sentinels
    BY <1>4, <1>5, <1>6 DEF Filed, Sentinels
  <2>2. IF valid # Nil THEN e.topic \in valid ELSE e.topic = r.topic
    BY <1>4, <1>5, <1>6 DEF Filed
  <2>3. answer.sure \/ answer.reject
    BY <1>2, <2>1 DEF Fits
  <2>4. r.topic \in catalog \/ answer.reject \/ ~Acceptable(answer)
    BY <1>2, <2>1 DEF Fits
  <2> QED
    BY <2>2, <2>3, <2>4
<1>7. ASSUME e.where = "review", command # "local"
      PROVE  e.reason # "none" /\ e.suggested = Suggested(answer)
  <2>1. p = r /\ r.suggested = Suggested(answer)
    BY <1>2, <1>4, <1>7 DEF Fits
  <2>2. r.suggested = NoPath => r.topic \in Sentinels
    BY <1>2, <2>1 DEF Fits, Suggested, Sentinels
  <2> QED
    BY <1>5, <1>7, <2>1, <2>2 DEF Filed
<1> QED
  BY <1>5, <1>6, <1>7 DEF Filed

\* What Write is to write, of any kind.
LEMMA DestinationGood ==
  ASSUME IInv, pc = "write", pending.kind # "unhandled", NEW e, e = Destination
  PROVE  /\ e \in Records
         /\ e.where # "none"
         /\ answer # Nil /\ answer.overview => e.where \in {"summary", "review"}
         /\ e.where = "summary" =>
              /\ IF valid # Nil THEN e.topic \in valid
                 ELSE e.topic \in catalog \/ answer.reject \/ ~Acceptable(answer)
              /\ answer.sure \/ answer.reject
         /\ e.where = "review" /\ command # "local" =>
              e.reason # "none" /\ e.suggested = Suggested(answer)
<1>1. CASE pending.kind = "summary"
  <2>1. e = Summary(pending.item)
    BY <1>1 DEF Destination
  <2>2. e.where \in {"summary", "review"}
    BY <1>1, <2>1, FiledGood
  <2> QED
    BY <1>1, <2>1, <2>2, FiledGood
<1>2. CASE pending.kind # "summary"
  <2> DEFINE why == IF pending.kind = "ai" THEN "ai_classify_unavailable"
                    ELSE pending.item.reason
             i == [pending.item EXCEPT !.reason = why]
  <2>1. pending.kind \in Failures /\ pending.item \in Items
    BY <1>2 DEF IInv, TypeOK, PendingKept
  <2>2. /\ e = [where |-> pending.kind, topic |-> pending.item.topic,
                suggested |-> pending.item.suggested, reason |-> why]
    BY <1>2, <2>1 DEF Destination, Entry, Items
  <2>3. e \in Records
    BY <2>1, <2>2 DEF Items, Records
  <2>4. e.where \in Failures
    BY <2>1, <2>2
  <2>5. ~(answer # Nil /\ answer.overview)
    BY <1>2 DEF IInv, PendingKept
  <2> QED
    BY <2>3, <2>4, <2>5 DEF Failures
<1> QED
  BY <1>1, <1>2

LEMMA WriteInv ==
  ASSUME IInv, Write
  PROVE  IInv'
<1>0. /\ pc = "write" /\ pc' = "done"
      /\ UNCHANGED <<command, dry, url, valid, catalog, answer, pending>>
      /\ record = NoRecord /\ handled = FALSE
  BY DEF Write, IInv, Early, input
<1>1. Early' /\ Tried' /\ PendingKept'
  BY <1>0 DEF Early, Tried, PendingKept
<1>2. CASE pending.kind = "unhandled"
  <2>1. UNCHANGED <<record, handled>> /\ status' = "unhandled"
    BY <1>2 DEF Write
  <2>2. TypeOK'
    BY <2>1 DEF IInv, TypeOK, Write, input
  <2>3. RecordGood'
    BY <1>0, <2>1, UnwrittenGood
  <2> QED
    BY <1>1, <2>2, <2>3 DEF IInv
<1>3. CASE pending.kind # "unhandled"
  <2> DEFINE e == Destination
  <2>1. /\ e \in Records
        /\ e.where # "none"
        /\ answer # Nil /\ answer.overview => e.where \in {"summary", "review"}
        /\ e.where = "summary" =>
             /\ IF valid # Nil THEN e.topic \in valid
                ELSE e.topic \in catalog \/ answer.reject \/ ~Acceptable(answer)
             /\ answer.sure \/ answer.reject
        /\ e.where = "review" /\ command # "local" =>
             e.reason # "none" /\ e.suggested = Suggested(answer)
    BY <1>0, <1>3, DestinationGood
  <2>2. Written(e) \/ NotWritten(e)
    BY <1>3 DEF Write
  <2> HIDE DEF e
  <2>3. /\ record' \in {e, NoRecord}
        /\ handled' \in BOOLEAN
        /\ status' \in {"summary", "failure", "unhandled"}
        /\ handled' /\ ~dry /\ command # "local" => record' = e
    <3>1. CASE Written(e)
      BY <3>1 DEF Written
    <3>2. CASE NotWritten(e)
      BY <3>2 DEF NotWritten
    <3> QED
      BY <2>2, <3>1, <3>2
  <2>4. NoRecord.where = "none"
    BY DEF NoRecord
  <2>5. TypeOK'
    BY <2>1, <2>3, NothingFits DEF IInv, TypeOK, Write, input
  <2>6. GoodContentKept'
    BY <1>0, <2>1, <2>3, <2>4 DEF GoodContentKept
  <2>7. SummariesUnderTopics'
    BY <1>0, <2>1, <2>3, <2>4 DEF SummariesUnderTopics, Acceptable
  <2>8. HandledMeansRecorded'
    BY <1>0, <2>1, <2>3, <2>4 DEF HandledMeansRecorded
  <2>9. UnsureGoesToReview'
    BY <1>0, <2>1, <2>3, <2>4 DEF UnsureGoesToReview
  <2>10. ReviewSaysWhy'
    BY <1>0, <2>1, <2>3, <2>4 DEF ReviewSaysWhy, Suggested
  <2> QED
    BY <1>1, <2>5, <2>6, <2>7, <2>8, <2>9, <2>10 DEF IInv, RecordGood
<1> QED
  BY <1>2, <1>3

LEMMA StutterInv ==
  ASSUME IInv, UNCHANGED vars
  PROVE  IInv'
<1>1. UNCHANGED <<command, dry, url, pc, valid, catalog, body, expired, tries, answer,
                  pending, record, handled, status, transcript>>
  BY DEF vars, input
<1>2. TypeOK'
  BY <1>1 DEF IInv, TypeOK
<1>3. Early' /\ Tried'
  BY <1>1 DEF IInv, Early, Tried
<1>4. PendingKept'
  BY <1>1 DEF IInv, PendingKept, Item, Classified, WritableTopic
<1>5. GoodContentKept' /\ SummariesUnderTopics' /\ HandledMeansRecorded'
  BY <1>1 DEF IInv, RecordGood, GoodContentKept, SummariesUnderTopics,
              HandledMeansRecorded, Acceptable
<1>6. UnsureGoesToReview' /\ ReviewSaysWhy'
  BY <1>1 DEF IInv, RecordGood, UnsureGoesToReview, ReviewSaysWhy, Suggested
<1> QED
  BY <1>2, <1>3, <1>4, <1>5, <1>6 DEF IInv, RecordGood

LEMMA StepInv == IInv /\ [Next]_vars => IInv'
<1> SUFFICES ASSUME IInv, [Next]_vars
             PROVE  IInv'
  OBVIOUS
<1>1. CASE Begin
  BY <1>1, BeginInv
<1>2. CASE Expire
  BY <1>2, ExpireInv
<1>3. CASE Classify
  BY <1>3, ClassifyInv
<1>4. CASE AskFailed
  BY <1>4, AskFailedInv
<1>5. CASE Write
  BY <1>5, WriteInv
<1>6. CASE Finished \/ UNCHANGED vars
  BY <1>6, StutterInv DEF Finished
<1>7. ASSUME NEW kind \in {"fetch", "resolve", "extract"}, FetchFailed(kind)
      PROVE  IInv'
  BY <1>7, FetchFailedInv
<1>8. ASSUME NEW length \in {"blank", "short", "full"}, Fetched(length)
      PROVE  IInv'
  BY <1>8, FetchedInv
<1>9. ASSUME NEW length \in {"none", "short", "full"}, ReadLocal(length)
      PROVE  IInv'
  BY <1>9, ReadLocalInv
<1>10. ASSUME NEW a \in Answers, Answered(a)
       PROVE  IInv'
  BY <1>10, AnsweredInv
<1> QED
  BY <1>1, <1>2, <1>3, <1>4, <1>5, <1>6, <1>7, <1>8, <1>9, <1>10 DEF Next

-----------------------------------------------------------------------------
LEMMA Invariant == Spec => []IInv
<1>1. Init => IInv
  BY InitInv
<1>2. IInv /\ [Next]_vars => IInv'
  BY StepInv
<1> QED
  BY <1>1, <1>2, PTL DEF Spec

(* The memory of the command and the record are always of their types.     *)
THEOREM TypeCorrect == Spec => []TypeOK
<1>1. IInv => TypeOK
  BY DEF IInv
<1> QED
  BY <1>1, Invariant, PTL

(* A content that the AI summarised goes to a topic or to review, for any  *)
(* topics and any AI (writePendingURL, writeSummary, WriteSummary).        *)
THEOREM SummariesNeverFail == Spec => []GoodContentKept
<1>1. IInv => GoodContentKept
  BY DEF IInv, RecordGood
<1> QED
  BY <1>1, Invariant, PTL

(* A summary is filed under a topic that is valid, whatever fuzzy match    *)
(* the classifier and the writer chose and however data/gh was edited in   *)
(* between (resolveWritableTopicPath, routeInvalidTopicPath).              *)
THEOREM TopicsStayValid == Spec => []SummariesUnderTopics
<1>1. IInv => SummariesUnderTopics
  BY DEF IInv, RecordGood
<1> QED
  BY <1>1, Invariant, PTL

(* A URL that a digest may take from the inbox has a record: on this       *)
(* WikiDigest relies (writePendingURL and the writers it calls).           *)
THEOREM HandledUrlsRecorded == Spec => []HandledMeansRecorded
<1>1. IInv => HandledMeansRecorded
  BY DEF IInv, RecordGood
<1> QED
  BY <1>1, Invariant, PTL

(* No layer files an unsure answer under a topic (buildClassifyResult,     *)
(* writeSummary).                                                          *)
THEOREM UnsureReviewed == Spec => []UnsureGoesToReview
<1>1. IInv => UnsureGoesToReview
  BY DEF IInv, RecordGood
<1> QED
  BY <1>1, Invariant, PTL

(* An entry for review keeps the AI's proposal and has a reason            *)
(* (manualReviewRouteResult, writeSummary, routeInvalidTopicPath).         *)
THEOREM ReviewsExplained == Spec => []ReviewSaysWhy
<1>1. IInv => ReviewSaysWhy
  BY DEF IInv, RecordGood
<1> QED
  BY <1>1, Invariant, PTL

(* Both together: what a run of TLC checks of reviews.                     *)
THEOREM ReviewsHold == Spec => []ReviewHolds
<1>1. UnsureGoesToReview /\ ReviewSaysWhy => ReviewHolds
  BY DEF ReviewHolds
<1> QED
  BY <1>1, UnsureReviewed, ReviewsExplained, PTL
=============================================================================
