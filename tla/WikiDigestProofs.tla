-------------------------- MODULE WikiDigestProofs --------------------------
(***************************************************************************)
(* Proofs about WikiDigest, for any inbox, any number of digests, any      *)
(* limit and any combination of failures: the type invariant, that no URL  *)
(* is lost but those exposed or contested, that an undisturbed URL is      *)
(* recorded once, and that the digests implement InboxDelivery.            *)
(***************************************************************************)
EXTENDS WikiDigest, FiniteSetTheorems, SequenceTheorems, TLAPS

\* What has a record, and what may have lost it to another command.
Kept == Recorded \cup contested

\* A digest counts a URL as handled only when there was a record of it.
HandledInv ==
  \A d \in Digests \ DryRun : \A h \in handled[d] : h[2] \in Kept

\* A dry run opens no page, and ends before the flush.
DryInv ==
  \A d \in DryRun : pc[d] \notin {"flush", "replace"} /\ page[d] = NoPage

\* Nothing in the inbox, on a page, or in a digest's memory of either, was
\* never wanted.
WantedInv ==
  /\ UrlsOf(inbox) \subseteq wanted
  /\ \A d \in Digests : UrlsOf(copy[d]) \subseteq wanted
  /\ \A d \in Digests : \A i \in DOMAIN entries[d] : entries[d][i][2] \in wanted

RecordInv ==
  /\ Recorded \subseteq wanted
  /\ contested \subseteq wanted
  /\ \A c \in Commands : draft[c] \subseteq wanted

\* A page differs from what a command has read of it in contested URLs only.
DraftInv ==
  \A c \in Commands : page[c] \in Pages =>
    draft[c] \ contested = pages[page[c]] \ contested

\* What a flush is about to put back loses nothing either.
CopyInv ==
  \A d \in Digests : pc[d] = "replace" =>
    wanted \subseteq UrlsOf(copy[d]) \cup Kept \cup exposed

IInv == /\ TypeOK /\ HandledInv /\ DryInv /\ WantedInv /\ RecordInv
        /\ DraftInv /\ NoUrlLost /\ CopyInv

-----------------------------------------------------------------------------
LEMMA InitIInv == Init => IInv
<1> SUFFICES ASSUME Init PROVE IInv
  OBVIOUS
<1> USE WikiDigestAssumption DEF Init
<1>1. UrlsOf(Inbox0) \subseteq Urls
  BY DEF UrlsOf, Line
<1>2. TypeOK
  <2>1. inbox \in Seq(Line) /\ wanted \subseteq Urls /\ exposed \subseteq wanted
    BY <1>1
  <2>2. /\ entries \in [Digests -> Seq(Refs)]
        /\ prep \in [Digests -> Seq({"none", "running", "ready"})]
        /\ copy \in [Digests -> Seq(Line)]
        /\ handled \in [Digests -> SUBSET Refs]
    OBVIOUS
  <2>a. /\ count \in [Urls -> Nat]
        /\ pages \in [Pages -> SUBSET Urls]
        /\ logged \subseteq Urls /\ contested \subseteq Urls
        /\ page \in [Commands -> Pages \cup {NoPage}]
        /\ draft \in [Commands -> SUBSET Urls]
    OBVIOUS
  <2>3. /\ pc \in [Digests -> {"idle", "prepare", "write", "flush", "replace"}]
        /\ next \in [Digests -> Nat \ {0}]
        /\ runs \in 0 .. MaxRuns
    OBVIOUS
  <2>4. disturbed \in BOOLEAN
    BY Zenon
  <2> QED
    BY <2>1, <2>2, <2>3, <2>4, <2>a DEF TypeOK
<1>3. HandledInv /\ DryInv /\ CopyInv /\ NoUrlLost
  BY DEF HandledInv, DryInv, CopyInv, NoUrlLost, Commands
<1>5. RecordInv /\ DraftInv
  BY DEF RecordInv, DraftInv, Recorded
<1>4. WantedInv
  BY DEF WantedInv, UrlsOf
<1> QED
  BY <1>2, <1>3, <1>4, <1>5 DEF IInv

(* The URLs of an inbox are URLs. *)
LEMMA UrlsOfType ==
  ASSUME NEW text \in Seq(Line)
  PROVE  UrlsOf(text) \subseteq Urls
  BY DEF UrlsOf, Line

(* What ParseInbox returns is a sequence of line and URL pairs of its text. *)
LEMMA ParsedType ==
  ASSUME NEW text \in Seq(Line), NEW es \in Parsed(text)
  PROVE  /\ es \in Seq(Refs)
         /\ \A i \in DOMAIN es : es[i][2] \in UrlsOf(text)
<1> DEFINE S == FirstRefs(text)
           n == Cardinality(S)
<1>1. IsFiniteSet(UrlsOf(text))
  BY UrlsOfType, FS_Subset, WikiDigestAssumption
<1>2. DOMAIN text = 1 .. Len(text) /\ Len(text) \in Nat
  OBVIOUS
<1>3. IsFiniteSet(DOMAIN text)
  BY <1>2, FS_Interval
<1>4. IsFiniteSet((DOMAIN text) \X UrlsOf(text))
  BY <1>1, <1>3, FS_Product
<1>5. IsFiniteSet(S)
  <2>1. S \subseteq (DOMAIN text) \X UrlsOf(text)
    BY DEF FirstRefs
  <2> QED
    BY <1>4, <2>1, FS_Subset
<1>6. n \in Nat
  BY <1>5, FS_CardinalityType
<1>7. es \in [1 .. n -> S]
  BY DEF Parsed
<1>8. S \subseteq Refs /\ \A r \in S : r[2] \in UrlsOf(text)
  BY <1>2, UrlsOfType DEF FirstRefs, Refs
<1> HIDE DEF S, n
<1>9. es \in [1 .. n -> Refs]
  BY <1>7, <1>8
<1> QED
  BY <1>6, <1>7, <1>8, <1>9, SeqDef

(* A line that is not blank stays. *)
LEMMA LineKept ==
  ASSUME NEW d, NEW i \in DOMAIN FlushedLines(d), i \in Nat, FlushedLines(d)[i] # {}
  PROVE  i \in KeptLines(d)
<1>1. i <= i
  OBVIOUS
<1> QED
  BY <1>1, Zenon DEF KeptLines

(* What a flush makes of the inbox it read: an inbox again, that has no    *)
(* URL more, and lacks only URLs that were handled.                        *)
LEMMA FlushResult ==
  ASSUME NEW d \in Digests, copy[d] \in Seq(Line),
         NEW f \in Numberings(KeptLines(d))
  PROVE  /\ FlushedInbox(d, f) \in Seq(Line)
         /\ UrlsOf(FlushedInbox(d, f)) \subseteq UrlsOf(copy[d])
         /\ \A u \in UrlsOf(copy[d]) :
              \/ u \in UrlsOf(FlushedInbox(d, f))
              \/ \E i \in Nat : <<i, u>> \in handled[d]
<1> DEFINE S == KeptLines(d)
           n == Cardinality(S)
           new == FlushedLines(d)
           text == FlushedInbox(d, f)
<1>1. DOMAIN new = 1 .. Len(copy[d]) /\ Len(copy[d]) \in Nat
  BY DEF FlushedLines
<1>2. S \subseteq DOMAIN new
  BY DEF KeptLines
<1>3. n \in Nat
  <2>1. IsFiniteSet(DOMAIN new)
    BY <1>1, FS_Interval
  <2>2. IsFiniteSet(S)
    BY <1>2, <2>1, FS_Subset
  <2> QED
    BY <2>2, FS_CardinalityType
<1>4. /\ f \in [1 .. n -> S]
      /\ \A s \in S : \E i \in 1 .. n : f[i] = s
  BY DEF Numberings
<1>5. \A i \in DOMAIN new : new[i] \in Line /\ new[i] \subseteq copy[d][i]
  <2> SUFFICES ASSUME NEW i \in DOMAIN new
               PROVE  new[i] \in Line /\ new[i] \subseteq copy[d][i]
    OBVIOUS
  <2>1. copy[d][i] \in Line
    BY <1>1
  <2>2. new[i] = FlushedLine(copy[d][i], HandledAt(d, i))
    BY <1>1 DEF FlushedLines
  <2> QED
    BY <2>1, <2>2 DEF FlushedLine, Line
<1>6. ASSUME NEW i \in DOMAIN new, NEW u \in copy[d][i] \ {Note}
      PROVE  (i \in S /\ u \in new[i]) \/ <<i, u>> \in handled[d]
  <2> SUFFICES ASSUME <<i, u>> \notin handled[d] PROVE i \in S /\ u \in new[i]
    OBVIOUS
  <2>1. u \notin HandledAt(d, i)
    BY DEF HandledAt
  <2>2. u \in FlushedLine(copy[d][i], HandledAt(d, i))
    BY <2>1 DEF FlushedLine
  <2>3. u \in new[i]
    BY <2>2, <1>1 DEF FlushedLines
  <2>4. i \in Nat /\ new[i] # {}
    BY <2>3, <1>1
  <2>5. i \in KeptLines(d)
    BY <2>4, LineKept
  <2> QED
    BY <2>3, <2>5
<1>a. DOMAIN text = 1 .. n /\ \A i \in 1 .. n : text[i] = new[f[i]]
  BY <1>4 DEF FlushedInbox
<1> HIDE DEF S, n, new
<1>7. text \in Seq(Line)
  <2>1. DOMAIN f = 1 .. n /\ \A i \in 1 .. n : f[i] \in DOMAIN new
    BY <1>2, <1>4
  <2>2. text \in [1 .. n -> Line]
    BY <1>5, <2>1 DEF FlushedInbox, new
  <2> QED
    BY <1>3, <2>2, SeqDef
<1>8. UrlsOf(text) \subseteq UrlsOf(copy[d])
  <2> SUFFICES ASSUME NEW u \in UrlsOf(text) PROVE u \in UrlsOf(copy[d])
    OBVIOUS
  <2>1. PICK k \in DOMAIN text : u \in text[k] /\ u # Note
    BY DEF UrlsOf
  <2>2. f[k] \in DOMAIN new /\ text[k] = new[f[k]]
    BY <1>2, <1>4, <1>a, <2>1
  <2>3. u \in copy[d][f[k]] /\ f[k] \in DOMAIN copy[d]
    BY <1>1, <1>5, <2>1, <2>2
  <2> QED
    BY <2>1, <2>3 DEF UrlsOf
<1>9. ASSUME NEW u \in UrlsOf(copy[d])
      PROVE  u \in UrlsOf(text) \/ \E i \in Nat : <<i, u>> \in handled[d]
  <2>1. PICK i \in DOMAIN copy[d] : u \in copy[d][i] /\ u # Note
    BY DEF UrlsOf
  <2>2. i \in Nat /\ i \in DOMAIN new
    BY <1>1, <2>1
  <2>3. CASE i \in S /\ u \in new[i]
    <3>1. PICK k \in 1 .. n : f[k] = i
      BY <1>4, <2>3
    <3>2. k \in DOMAIN text /\ text[k] = new[i]
      BY <1>a, <3>1
    <3> QED
      BY <2>1, <2>3, <3>2 DEF UrlsOf
  <2> QED
    BY <1>6, <2>1, <2>2, <2>3
<1> QED
  BY <1>7, <1>8, <1>9

(* Where the lines of an inbox go when the user adds one. *)
LEMMA InsertedLine ==
  ASSUME NEW text \in Seq(Line), NEW u \in Urls, NEW k \in 0 .. Len(text)
  PROVE  LET new == WithLine(text, u, k)
         IN /\ new \in Seq(Line) /\ Len(new) = Len(text) + 1
            /\ \A i \in 1 .. k : new[i] = text[i]
            /\ new[k + 1] = {u}
            /\ \A i \in k + 1 .. Len(text) : new[i + 1] = text[i]
<1> DEFINE new == WithLine(text, u, k)
<1>1. {u} \in Line /\ u # Note
  BY WikiDigestAssumption DEF Line
<1> DEFINE n == Len(text)
<1>2. /\ n \in Nat /\ DOMAIN text = 1 .. n
      /\ \A i \in 1 .. n : text[i] \in Line
  OBVIOUS
<1> DEFINE top == SubSeq(text, 1, k)
           middle == <<{u}>>
           bottom == SubSeq(text, k + 1, n)
<1>d. n \in Nat /\ k \in Nat /\ k <= n
  BY <1>2
<1>3. /\ top \in Seq(Line) /\ Len(top) = k
      /\ \A i \in 1 .. k : top[i] = text[i]
  <2>1. \A i \in 1 .. k : text[i] \in Line /\ 1 + i - 1 = i
    BY <1>2, <1>d
  <2> QED
    BY <1>d, <2>1, SubSeqProperties
<1>4. /\ bottom \in Seq(Line) /\ Len(bottom) = n - k
      /\ \A i \in 1 .. n - k : bottom[i] = text[k + i]
  <2>1. \A i \in k + 1 .. n : text[i] \in Line
    BY <1>2, <1>d
  <2>2. /\ bottom \in Seq(Line)
        /\ Len(bottom) = IF k + 1 <= n THEN n - (k + 1) + 1 ELSE 0
        /\ \A i \in 1 .. n - (k + 1) + 1 : bottom[i] = text[(k + 1) + i - 1]
    BY <1>d, <2>1, SubSeqProperties
  <2>3. n - (k + 1) + 1 = n - k /\ \A i \in 1 .. n - k : (k + 1) + i - 1 = k + i
    BY <1>d
  <2> QED
    <3> HIDE DEF n, bottom
    <3>1. Len(bottom) = n - k
      BY <1>d, <2>2
    <3>2. ASSUME NEW i \in 1 .. n - k PROVE bottom[i] = text[k + i]
      BY <2>2, <2>3
    <3> QED
      BY <2>2, <3>1, <3>2
<1>5. middle \in Seq(Line) /\ Len(middle) = 1 /\ middle[1] = {u}
  BY <1>1
<1>a. new = (top \o middle) \o bottom
  BY DEF WithLine
<1> HIDE DEF new, n, top, middle, bottom
<1>b. /\ top \o middle \in Seq(Line)
      /\ Len(top \o middle) = k + 1
      /\ \A i \in 1 .. k : (top \o middle)[i] = text[i]
      /\ (top \o middle)[k + 1] = {u}
  <2> DEFINE s == top \o middle
  <2>1. /\ s \in Seq(Line)
        /\ Len(s) = Len(top) + Len(middle)
        /\ \A i \in 1 .. Len(top) + Len(middle) :
             s[i] = IF i <= Len(top) THEN top[i] ELSE middle[i - Len(top)]
    BY <1>3, <1>5, ConcatProperties
  <2> HIDE DEF s
  <2>2. \A i \in 1 .. k + 1 : s[i] = IF i <= k THEN top[i] ELSE middle[i - k]
    BY <1>3, <1>5, <2>1
  <2>3. k + 1 \in 1 .. k + 1 /\ ~(k + 1 <= k) /\ (k + 1) - k = 1
    BY <1>d
  <2>4. s[k + 1] = {u}
    BY <1>5, <2>2, <2>3
  <2>5. ASSUME NEW i \in 1 .. k PROVE s[i] = text[i]
    <3>1. i \in 1 .. k + 1 /\ i <= k
      BY <1>d
    <3> QED
      BY <1>3, <2>2, <3>1
  <2> QED
    BY <1>3, <1>5, <2>1, <2>4, <2>5 DEF s
<1>c. /\ new \in Seq(Line)
      /\ Len(new) = n + 1
      /\ \A i \in 1 .. n + 1 :
           new[i] = IF i <= k + 1 THEN (top \o middle)[i] ELSE bottom[i - (k + 1)]
  <2> DEFINE s == top \o middle
  <2>0. s \in Seq(Line)
    BY <1>b
  <2> HIDE DEF s
  <2>1. /\ s \o bottom \in Seq(Line)
        /\ Len(s \o bottom) = Len(s) + Len(bottom)
        /\ \A i \in 1 .. Len(s) + Len(bottom) :
             (s \o bottom)[i] = IF i <= Len(s) THEN s[i] ELSE bottom[i - Len(s)]
    BY <1>4, <2>0, ConcatProperties
  <2>2. Len(s) = k + 1 /\ Len(s) + Len(bottom) = n + 1
    BY <1>b, <1>d, <1>4 DEF s
  <2>a. new = s \o bottom
    BY <1>a DEF s
  <2>3. /\ Len(new) = n + 1
        /\ \A i \in 1 .. n + 1 :
             new[i] = IF i <= k + 1 THEN s[i] ELSE bottom[i - (k + 1)]
    BY <2>1, <2>2, <2>a
  <2> QED
    BY <2>1, <2>3, <2>a DEF s
<1>e. /\ \A i \in 1 .. k : new[i] = text[i]
      /\ new[k + 1] = {u}
  <2>1. k + 1 \in 1 .. n + 1 /\ k + 1 <= k + 1
    BY <1>d
  <2>2. new[k + 1] = {u}
    BY <1>b, <1>c, <2>1
  <2>3. ASSUME NEW i \in 1 .. k PROVE new[i] = text[i]
    <3>1. i \in 1 .. n + 1 /\ i <= k + 1
      BY <1>d
    <3> QED
      BY <1>b, <1>c, <3>1
  <2> QED
    BY <2>2, <2>3
<1>f. ASSUME NEW i \in k + 1 .. n PROVE new[i + 1] = text[i]
  <2>1. i - k \in 1 .. n - k /\ k + (i - k) = i /\ (i + 1) - (k + 1) = i - k
    BY <1>2, <1>d
  <2>2. bottom[i - k] = text[i]
    BY <1>4, <2>1
  <2>3. i + 1 \in 1 .. n + 1 /\ ~(i + 1 <= k + 1)
    BY <1>2, <1>d
  <2> QED
    BY <1>c, <2>1, <2>2, <2>3
<1> QED
  BY <1>c, <1>e, <1>f DEF n, new

(* An inbox with one more line holds one more URL. *)
LEMMA AddedUrl ==
  ASSUME NEW text \in Seq(Line), NEW new \in Seq(Line),
         NEW u \in Urls, NEW k \in 0 .. Len(text),
         Len(new) = Len(text) + 1,
         \A i \in 1 .. k : new[i] = text[i],
         new[k + 1] = {u},
         \A i \in k + 1 .. Len(text) : new[i + 1] = text[i]
  PROVE  UrlsOf(new) = UrlsOf(text) \cup {u}
<1> DEFINE n == Len(text)
<1>d. n \in Nat /\ k \in Nat /\ k <= n /\ k + 1 \in 1 .. n + 1
  OBVIOUS
<1>1. u # Note
  BY WikiDigestAssumption
<1>2. DOMAIN text = 1 .. n
  OBVIOUS
<1>g. DOMAIN new = 1 .. n + 1
  OBVIOUS
<1>e. /\ \A i \in 1 .. k : new[i] = text[i]
      /\ new[k + 1] = {u}
  OBVIOUS
<1>f. \A i \in k + 1 .. n : new[i + 1] = text[i]
  OBVIOUS
<1> HIDE DEF n
<1>6. UrlsOf(new) \subseteq UrlsOf(text) \cup {u}
  <2> SUFFICES ASSUME NEW v \in UrlsOf(new), v # u PROVE v \in UrlsOf(text)
    OBVIOUS
  <2>1. PICK i \in 1 .. n + 1 : v \in new[i] /\ v # Note
    BY <1>g DEF UrlsOf
  <2>2. \E j \in 1 .. n : v \in text[j]
    <3>1. CASE i <= k
      BY <1>2, <1>d, <1>e, <2>1, <3>1
    <3>2. CASE i = k + 1
      BY <1>e, <2>1, <3>2
    <3>3. CASE i > k + 1
      <4>1. i - 1 \in k + 1 .. n /\ i - 1 \in 1 .. n /\ (i - 1) + 1 = i
        BY <1>2, <1>d, <2>1, <3>3
      <4>2. new[i] = text[i - 1]
        BY <1>f, <4>1
      <4> QED
        BY <2>1, <4>1, <4>2
    <3> QED
      BY <2>1, <3>1, <3>2, <3>3
  <2> QED
    BY <1>2, <2>1, <2>2 DEF UrlsOf
<1>7. UrlsOf(text) \cup {u} \subseteq UrlsOf(new)
  <2> SUFFICES ASSUME NEW v \in UrlsOf(text) \cup {u} PROVE v \in UrlsOf(new)
    OBVIOUS
  <2>1. v # Note
    BY <1>1 DEF UrlsOf
  <2>2. \E j \in 1 .. n + 1 : v \in new[j]
    <3>1. CASE v = u
      BY <1>2, <1>d, <1>e, <3>1
    <3>2. CASE v \in UrlsOf(text)
      <4>1. PICK i \in 1 .. n : v \in text[i]
        BY <1>2, <3>2 DEF UrlsOf
      <4>2. i \in 1 .. k \/ i \in k + 1 .. n
        BY <1>2, <1>d
      <4> QED
        BY <1>2, <1>d, <1>e, <1>f, <4>1, <4>2
    <3> QED
      BY <3>1, <3>2
  <2> QED
    BY <1>g, <2>1, <2>2 DEF UrlsOf
<1> QED
  BY <1>6, <1>7

LEMMA WithLineUrls ==
  ASSUME NEW text \in Seq(Line), NEW u \in Urls, NEW k \in 0 .. Len(text)
  PROVE  UrlsOf(WithLine(text, u, k)) = UrlsOf(text) \cup {u}
<1> SUFFICES ASSUME NEW s, s = WithLine(text, u, k)
             PROVE  UrlsOf(s) = UrlsOf(text) \cup {u}
  OBVIOUS
<1>1. /\ s \in Seq(Line) /\ Len(s) = Len(text) + 1
      /\ \A i \in 1 .. k : s[i] = text[i]
      /\ s[k + 1] = {u}
      /\ \A i \in k + 1 .. Len(text) : s[i + 1] = text[i]
  BY InsertedLine
<1> QED
  BY <1>1, AddedUrl

(* The end of a digest. *)
LEMMA ForgetType ==
  ASSUME TypeOK, NEW d \in Digests, Forget(d)
  PROVE  /\ pc' \in [Digests -> {"idle", "prepare", "write", "flush", "replace"}]
         /\ entries' \in [Digests -> Seq(Refs)]
         /\ prep' \in [Digests -> Seq({"none", "running", "ready"})]
         /\ next' \in [Digests -> Nat \ {0}]
         /\ page' \in [Commands -> Pages \cup {NoPage}]
         /\ draft' \in [Commands -> SUBSET Urls]
         /\ handled' \in [Digests -> SUBSET Refs]
         /\ copy' \in [Digests -> Seq(Line)]
<1> USE DEF TypeOK, Forget, Goto
<1>1. pc' \in [Digests -> {"idle", "prepare", "write", "flush", "replace"}]
  OBVIOUS
<1>2. entries' \in [Digests -> Seq(Refs)]
  OBVIOUS
<1>3. prep' \in [Digests -> Seq({"none", "running", "ready"})]
  OBVIOUS
<1>4. next' \in [Digests -> Nat \ {0}]
  OBVIOUS
<1>5. handled' \in [Digests -> SUBSET Refs]
  OBVIOUS
<1>6. copy' \in [Digests -> Seq(Line)]
  OBVIOUS
<1>7. page' \in [Commands -> Pages \cup {NoPage}]
  OBVIOUS
<1>8. draft' \in [Commands -> SUBSET Urls]
  OBVIOUS
<1> QED
  BY <1>1, <1>2, <1>3, <1>4, <1>5, <1>6, <1>7, <1>8

(* The types of the goroutines of an entry. *)
LEMMA PrepType ==
  ASSUME TypeOK, NEW d \in Digests, NEW i \in DOMAIN prep[d],
         NEW s \in {"none", "running", "ready"},
         prep' = [prep EXCEPT ![d][i] = s]
  PROVE  prep' \in [Digests -> Seq({"none", "running", "ready"})]
<1>1. prep[d] \in Seq({"none", "running", "ready"})
  BY DEF TypeOK
<1>2. [prep[d] EXCEPT ![i] = s] \in Seq({"none", "running", "ready"})
  BY <1>1
<1> QED
  BY <1>2 DEF TypeOK

(* What counts as handled has a record. *)
LEMMA OutcomeRecords ==
  ASSUME NEW o \in Outcomes, o.handled
  PROVE  o.record
<1>1. \/ o = [record |-> TRUE, handled |-> TRUE]
      \/ o = [record |-> FALSE, handled |-> FALSE]
      \/ o = [record |-> TRUE, handled |-> FALSE]
  BY DEF Outcomes
<1>2. CASE o = [record |-> FALSE, handled |-> FALSE]
  BY <1>2
<1>3. CASE o = [record |-> TRUE, handled |-> TRUE]
  BY <1>3
<1>4. CASE o = [record |-> TRUE, handled |-> FALSE]
  BY <1>4
<1> QED
  BY <1>1, <1>2, <1>3, <1>4

(* What a write changes in the memory of the digest and in the histories. *)
LEMMA WrittenType ==
  ASSUME TypeOK, NEW d \in Digests, Writing(d), NEW o, Written(d, o)
  PROVE  /\ NextUrl(d) \in Urls /\ entries[d][next[d]] \in Refs
         /\ count' \in [Urls -> Nat]
         /\ handled' \in [Digests -> SUBSET Refs]
         /\ disturbed' \in BOOLEAN
         /\ next' \in [Digests -> Nat \ {0}]
<1> DEFINE e == entries[d][next[d]]
<1>1. e \in Refs /\ e[2] \in Urls /\ NextUrl(d) = e[2]
  BY DEF Writing, TypeOK, Refs, NextUrl
<1>2. /\ count' = IF o.record THEN [count EXCEPT ![NextUrl(d)] = @ + 1] ELSE count
      /\ handled' = IF o.handled THEN [handled EXCEPT ![d] = @ \cup {e}] ELSE handled
      /\ disturbed' = (disturbed \/ (o.record /\ ~o.handled))
      /\ next' = [next EXCEPT ![d] = @ + 1]
  BY DEF Written
<1> HIDE DEF e
<1>3. count' \in [Urls -> Nat]
  BY <1>1, <1>2 DEF TypeOK
<1>4. handled' \in [Digests -> SUBSET Refs]
  BY <1>1, <1>2 DEF TypeOK
<1>5. disturbed' \in BOOLEAN
  BY <1>2, Zenon
<1>6. next' \in [Digests -> Nat \ {0}]
  BY <1>2 DEF TypeOK
<1> QED
  BY <1>1, <1>3, <1>4, <1>5, <1>6 DEF e

LEMMA OpenType ==
  ASSUME TypeOK, NEW c \in Commands, OpenPage(c)
  PROVE  TypeOK'
<1>1. PICK p \in Pages :
        /\ page' = [page EXCEPT ![c] = p]
        /\ \/ draft' = [draft EXCEPT ![c] = pages[p]] /\ UNCHANGED contested
           \/ draft' = [draft EXCEPT ![c] = {}] /\ contested' = contested \cup pages[p]
  BY DEF OpenPage
<1>2. /\ page' \in [Commands -> Pages \cup {NoPage}]
      /\ draft' \in [Commands -> SUBSET Urls]
      /\ contested' \subseteq Urls
  BY <1>1 DEF TypeOK
<1> QED
  BY <1>2 DEF OpenPage, TypeOK, wiki

LEMMA CloseType ==
  ASSUME TypeOK, NEW c \in Commands, ClosePage(c)
  PROVE  /\ page' \in [Commands -> Pages \cup {NoPage}]
         /\ draft' \in [Commands -> SUBSET Urls]
  BY DEF TypeOK, ClosePage

(* Every step keeps the types. *)
LEMMA StepType ==
  ASSUME TypeOK, [Next]_vars
  PROVE  TypeOK'
<1> USE DEF TypeOK, wiki, open, local, hist
<1>1. ASSUME NEW d \in Digests, Begin(d) PROVE TypeOK'
  <2> USE <1>1 DEF Begin, Goto
  <2>1. runs' \in 0 .. MaxRuns
    BY WikiDigestAssumption
  <2>2. disturbed' \in BOOLEAN
    BY Zenon
  <2>3. CASE UrlsOf(inbox) = {}
    BY <2>1, <2>2, <2>3
  <2>4. CASE UrlsOf(inbox) # {}
    <3>1. PICK es \in Parsed(inbox) :
            /\ entries' = [entries EXCEPT ![d] = es]
            /\ prep' = [prep EXCEPT ![d] = [i \in DOMAIN es |-> "none"]]
            /\ pc' = [pc EXCEPT ![d] = "prepare"]
      BY <2>4
    <3>2. es \in Seq(Refs)
      BY ParsedType
    <3>3. [i \in DOMAIN es |-> "none"] \in Seq({"none", "running", "ready"})
      BY <3>2
    <3>4. entries' \in [Digests -> Seq(Refs)]
      BY <3>1, <3>2
    <3>5. prep' \in [Digests -> Seq({"none", "running", "ready"})]
      BY <3>1, <3>3
    <3>6. pc' \in [Digests -> {"idle", "prepare", "write", "flush", "replace"}]
      BY <3>1
    <3> QED
      BY <2>1, <2>2, <3>4, <3>5, <3>6
  <2> QED
    BY <2>3, <2>4
<1>2. ASSUME NEW d \in Digests, Launch(d) PROVE TypeOK'
  <2>1. PICK i \in DOMAIN prep[d] : prep' = [prep EXCEPT ![d][i] = "running"]
    BY <1>2 DEF Launch, InState
  <2>2. prep' \in [Digests -> Seq({"none", "running", "ready"})]
    BY <2>1, PrepType
  <2> QED
    BY <1>2, <2>2 DEF Launch
<1>3. ASSUME NEW d \in Digests, NEW i \in DOMAIN prep[d], Prepared(d, i) PROVE TypeOK'
  <2>1. prep' \in [Digests -> Seq({"none", "running", "ready"})]
    BY <1>3, PrepType DEF Prepared
  <2> QED
    BY <1>3, <2>1 DEF Prepared
<1>4. ASSUME NEW d \in Digests, AllPrepared(d) PROVE TypeOK'
  BY <1>4 DEF AllPrepared, Goto, local
<1>5. ASSUME NEW d \in Digests, DryWrite(d) PROVE TypeOK'
  <2>1. Writing(d) /\ Written(d, [record |-> FALSE, handled |-> TRUE])
    BY <1>5 DEF DryWrite
  <2> QED
    BY <1>5, <2>1, WrittenType DEF DryWrite, Written, wiki, open
<1>12. ASSUME NEW d \in Digests, LogWrite(d) PROVE TypeOK'
  <2>1. PICK o \in Outcomes :
          /\ Writing(d) /\ Written(d, o)
          /\ logged' = IF o.record THEN logged \cup {NextUrl(d)} ELSE logged
    BY <1>12 DEF LogWrite
  <2>2. NextUrl(d) \in Urls
    BY <2>1, WrittenType
  <2>3. logged' \subseteq Urls
    BY <2>1, <2>2
  <2> QED
    BY <1>12, <2>1, <2>3, WrittenType DEF LogWrite, Written, open
<1>13. ASSUME NEW c \in Commands, OpenPage(c) PROVE TypeOK'
  BY <1>13, OpenType
<1>14. ASSUME NEW d \in Digests, PageReplace(d) PROVE TypeOK'
  <2>1. PICK o \in Outcomes :
          /\ Writing(d) /\ Written(d, o)
          /\ pages' = IF o.record THEN [pages EXCEPT ![page[d]] = Extended(d)] ELSE pages
          /\ \/ contested' = contested \cup {NextUrl(d)}
             \/ contested' = contested
    BY <1>14 DEF PageReplace
  <2>2. NextUrl(d) \in Urls /\ d \in Commands
    BY <2>1, WrittenType DEF Commands
  <2>3. Extended(d) \subseteq Urls
    BY <2>2 DEF Extended
  <2>4. pages' \in [Pages -> SUBSET Urls]
    BY <2>1, <2>3
  <2>5. contested' \subseteq Urls
    BY <2>1, <2>2
  <2>6. ClosePage(d) /\ UNCHANGED logged
    BY <1>14 DEF PageReplace
  <2> QED
    BY <2>1, <2>2, <2>4, <2>5, <2>6, WrittenType, CloseType DEF Written
<1>15. ASSUME NEW a \in Adds, AddReplace(a) PROVE TypeOK'
  <2>1. a \in Commands
    BY DEF Commands
  <2>2. pages' \in [Pages -> SUBSET Urls]
    BY <1>15, <2>1 DEF AddReplace
  <2>3. ClosePage(a) /\ UNCHANGED <<inbox, logged, pc, entries, prep, next, handled, copy, runs,
                                   hist, disturbed>>
    BY <1>15 DEF AddReplace
  <2> QED
    BY <2>1, <2>2, <2>3, CloseType DEF hist
<1>6. ASSUME NEW d \in Digests, Report(d) PROVE TypeOK'
  <2>1. CASE Forget(d)
    BY <1>6, <2>1, ForgetType DEF Report
  <2>2. CASE Goto(d, "flush") /\ UNCHANGED local
    BY <1>6, <2>2 DEF Report, Goto, local
  <2> QED
    BY <1>6, <2>1, <2>2 DEF Report
<1>7. ASSUME NEW d \in Digests, FlushRead(d) PROVE TypeOK'
  <2>1. CASE Forget(d) /\ disturbed' = TRUE
    BY <1>7, <2>1, ForgetType DEF FlushRead
  <2>2. CASE /\ copy' = [copy EXCEPT ![d] = inbox]
             /\ Goto(d, "replace")
             /\ UNCHANGED <<entries, prep, next, open, handled, disturbed>>
    BY <1>7, <2>2 DEF FlushRead, Goto
  <2> QED
    BY <1>7, <2>1, <2>2 DEF FlushRead
<1>8. ASSUME NEW d \in Digests, FlushWrite(d) PROVE TypeOK'
  <2>1. inbox' \in Seq(Line)
    <3>1. CASE inbox' = inbox
      BY <3>1
    <3>2. CASE \E f \in Numberings(KeptLines(d)) : inbox' = FlushedInbox(d, f)
      BY <3>2, FlushResult
    <3> QED
      BY <1>8, <3>1, <3>2 DEF FlushWrite
  <2>2. disturbed' \in BOOLEAN
    BY <1>8, Zenon DEF FlushWrite
  <2>3. Forget(d) /\ UNCHANGED <<wiki, runs, hist>>
    BY <1>8 DEF FlushWrite
  <2> QED
    BY <2>1, <2>2, <2>3, ForgetType
<1>9. ASSUME NEW d \in Digests, Crash(d) PROVE TypeOK'
  <2>1. disturbed' \in BOOLEAN
    BY <1>9, Zenon DEF Crash
  <2> QED
    BY <1>9, <2>1, ForgetType DEF Crash
<1>10. ASSUME NEW u \in Urls, NEW k \in 0 .. Len(inbox), UserAdds(u, k) PROVE TypeOK'
  <2>1. inbox' \in Seq(Line)
    BY <1>10, InsertedLine DEF UserAdds
  <2>2. disturbed' \in BOOLEAN
    BY <1>10, Zenon DEF UserAdds
  <2> QED
    BY <1>10, <2>1, <2>2 DEF UserAdds, local
<1>11. CASE UNCHANGED vars
  BY <1>11 DEF vars, local
<1> QED
  BY <1>1, <1>2, <1>3, <1>4, <1>5, <1>6, <1>7, <1>8, <1>9, <1>10, <1>11
     , <1>12, <1>13, <1>14, <1>15
     DEF Next, Step, Finished, PageRead, AddRead, Commands

-----------------------------------------------------------------------------
(* What the commands do to the records. *)
LEMMA RecordsStay ==
  ASSUME UNCHANGED <<wiki, contested>>
  PROVE  Recorded' = Recorded /\ Kept' = Kept
  BY DEF Recorded, Kept, wiki

(* The page a digest puts in the place of another has the new entry, and   *)
(* misses at most what was contested.                                      *)
LEMMA PageReplaced ==
  ASSUME IInv, NEW d \in Digests, NEW o, page[d] \in Pages, o.record,
         NextUrl(d) \in wanted,
         pages' = [pages EXCEPT ![page[d]] = Extended(d)],
         contested' = IF OpenElsewhere(d, page[d])
                      THEN contested \cup {NextUrl(d)} ELSE contested,
         ClosePage(d), UNCHANGED <<logged, wanted>>
  PROVE  /\ NextUrl(d) \in Recorded'
         /\ Recorded' \ contested' = (Recorded \cup {NextUrl(d)}) \ contested'
         /\ RecordInv' /\ DraftInv'
<1> USE DEF IInv
<1> DEFINE u == NextUrl(d)
           p == page[d]
<1>1. d \in Commands /\ u \in wanted /\ p \in Pages
  BY DEF Commands
<1>2. /\ pages' = [pages EXCEPT ![p] = draft[d] \cup {u}]
      /\ page' = [page EXCEPT ![d] = NoPage]
      /\ draft' = [draft EXCEPT ![d] = {}]
      /\ contested \subseteq contested' /\ contested' \subseteq contested \cup {u}
      /\ OpenElsewhere(d, p) => u \in contested'
  BY DEF Extended, ClosePage
<1>3. draft[d] \ contested = pages[p] \ contested
  BY <1>1 DEF DraftInv
<1> HIDE DEF u, p
<1>4. /\ pages'[p] = draft[d] \cup {u}
      /\ \A q \in Pages : q # p => pages'[q] = pages[q]
  BY <1>1, <1>2 DEF TypeOK
<1>5. u \in Recorded'
  BY <1>1, <1>4 DEF Recorded
<1>6. ASSUME NEW v, v \notin contested' PROVE v \in Recorded' <=> v \in Recorded \/ v = u
  <2>1. ASSUME NEW q \in Pages PROVE v \in pages'[q] <=> v \in pages[q] \/ (q = p /\ v = u)
    BY <1>2, <1>3, <1>4, <1>6
  <2>2. logged' = logged
    OBVIOUS
  <2>3. v \in Recorded' <=> v \in logged \/ \E q \in Pages : v \in pages'[q]
    BY <2>2 DEF Recorded
  <2>4. v \in Recorded <=> v \in logged \/ \E q \in Pages : v \in pages[q]
    BY DEF Recorded
  <2> QED
    BY <1>1, <2>1, <2>3, <2>4
<1>7. Recorded' \ contested' = (Recorded \cup {u}) \ contested'
  BY <1>6
<1>8. RecordInv'
  <2>1. draft[d] \subseteq wanted
    BY <1>1 DEF RecordInv
  <2>2. \A q \in Pages : pages[q] \subseteq wanted
    BY DEF RecordInv, Recorded
  <2>3. \A q \in Pages : pages'[q] \subseteq wanted
    BY <1>1, <1>4, <2>1, <2>2
  <2>4. logged' \subseteq wanted
    BY DEF RecordInv, Recorded
  <2>5. Recorded' \subseteq wanted
    BY <2>3, <2>4 DEF Recorded
  <2>6. contested' \subseteq wanted
    BY <1>1, <1>2 DEF RecordInv
  <2>7. \A c \in Commands : draft'[c] \subseteq wanted
    BY <1>2 DEF RecordInv, TypeOK
  <2> QED
    BY <2>5, <2>6, <2>7 DEF RecordInv
<1>9. DraftInv'
  <2> SUFFICES ASSUME NEW c \in Commands, page'[c] \in Pages
               PROVE  draft'[c] \ contested' = pages'[page'[c]] \ contested'
    BY DEF DraftInv
  <2>1. c # d /\ page'[c] = page[c] /\ draft'[c] = draft[c]
    BY <1>2, WikiDigestAssumption DEF TypeOK
  <2>2. draft[c] \ contested = pages[page[c]] \ contested
    BY <2>1 DEF DraftInv
  <2>3. CASE page[c] = p
    <3>1. u \in contested'
      BY <1>2, <2>1, <2>3 DEF OpenElsewhere
    <3> QED
      BY <1>2, <1>3, <1>4, <2>1, <2>2, <2>3, <3>1
  <2>4. CASE page[c] # p
    BY <1>2, <1>4, <2>1, <2>2, <2>4
  <2> QED
    BY <2>3, <2>4
<1> QED
  BY <1>5, <1>7, <1>8, <1>9 DEF u

LEMMA PageOpened ==
  ASSUME IInv, NEW c \in Commands, OpenPage(c)
  PROVE  /\ Recorded' = Recorded
         /\ contested \subseteq contested' /\ contested' \subseteq contested \cup Recorded
         /\ RecordInv' /\ DraftInv'
<1> USE DEF IInv
<1>1. PICK p \in Pages :
        /\ page' = [page EXCEPT ![c] = p]
        /\ \/ draft' = [draft EXCEPT ![c] = pages[p]] /\ UNCHANGED contested
           \/ draft' = [draft EXCEPT ![c] = {}] /\ contested' = contested \cup pages[p]
  BY DEF OpenPage
<1>2. UNCHANGED <<logged, pages, wanted>>
  BY DEF OpenPage, wiki
<1>3. Recorded' = Recorded
  BY <1>2 DEF Recorded
<1>4. pages[p] \subseteq Recorded
  BY DEF Recorded
<1>5. contested \subseteq contested' /\ contested' \subseteq contested \cup Recorded
  BY <1>1, <1>4
<1>6. RecordInv'
  <2>1. draft'[c] \subseteq wanted /\ \A b \in Commands : b # c => draft'[b] = draft[b]
    BY <1>1, <1>4 DEF RecordInv, TypeOK
  <2>2. \A b \in Commands : draft'[b] \subseteq wanted
    BY <2>1 DEF RecordInv
  <2> QED
    BY <1>2, <1>3, <1>5, <2>2 DEF RecordInv
<1>7. DraftInv'
  <2> SUFFICES ASSUME NEW b \in Commands, page'[b] \in Pages
               PROVE  draft'[b] \ contested' = pages[page'[b]] \ contested'
    BY <1>2 DEF DraftInv
  <2>1. CASE b = c
    <3>1. page'[b] = p /\ (draft'[b] = pages[p] \/ (draft'[b] = {} /\ pages[p] \subseteq contested'))
      BY <1>1, <2>1 DEF TypeOK
    <3> QED
      BY <3>1
  <2>2. CASE b # c
    <3>1. page'[b] = page[b] /\ draft'[b] = draft[b]
      BY <1>1, <2>2 DEF TypeOK
    <3>2. draft[b] \ contested = pages[page[b]] \ contested
      BY <3>1 DEF DraftInv
    <3> QED
      BY <1>5, <3>1, <3>2
  <2> QED
    BY <2>1, <2>2
<1> QED
  BY <1>3, <1>5, <1>6, <1>7

(* What a `wiki add` puts in the place of a page, or leaves there.         *)
LEMMA PageAdded ==
  ASSUME IInv, NEW a \in Adds, AddReplace(a)
  PROVE  /\ Recorded' \ contested = Recorded \ contested
         /\ UNCHANGED contested
         /\ RecordInv' /\ DraftInv'
<1> USE DEF IInv
<1> DEFINE p == page[a]
<1>1. a \in Commands /\ p \in Pages
  BY DEF Commands, AddReplace
<1>2. /\ pages' \in {pages, [pages EXCEPT ![p] = draft[a]]}
      /\ page' = [page EXCEPT ![a] = NoPage]
      /\ draft' = [draft EXCEPT ![a] = {}]
      /\ UNCHANGED <<logged, contested, wanted>>
  BY DEF AddReplace, ClosePage, hist
<1>3. draft[a] \ contested = pages[p] \ contested
  BY <1>1 DEF DraftInv
<1> HIDE DEF p
<1>4. /\ pages'[p] \in {pages[p], draft[a]}
      /\ \A q \in Pages : q # p => pages'[q] = pages[q]
  BY <1>1, <1>2 DEF TypeOK
<1>5. \A q \in Pages : pages'[q] \ contested = pages[q] \ contested
  BY <1>1, <1>3, <1>4
<1>6. Recorded' \ contested = Recorded \ contested
  <2> SUFFICES ASSUME NEW v, v \notin contested PROVE v \in Recorded' <=> v \in Recorded
    OBVIOUS
  <2>1. v \in Recorded' <=> v \in logged \/ \E q \in Pages : v \in pages'[q]
    BY <1>2 DEF Recorded
  <2>2. v \in Recorded <=> v \in logged \/ \E q \in Pages : v \in pages[q]
    BY DEF Recorded
  <2>3. \A q \in Pages : v \in pages'[q] <=> v \in pages[q]
    BY <1>5
  <2> QED
    BY <2>1, <2>2, <2>3
<1>7. RecordInv'
  <2>1. draft[a] \subseteq wanted
    BY <1>1 DEF RecordInv
  <2>2. \A q \in Pages : pages[q] \subseteq wanted
    BY DEF RecordInv, Recorded
  <2>3. \A q \in Pages : pages'[q] \subseteq wanted
    BY <1>4, <2>1, <2>2
  <2>4. Recorded' \subseteq wanted
    BY <1>2, <2>3 DEF Recorded, RecordInv
  <2>5. \A c \in Commands : draft'[c] \subseteq wanted
    BY <1>2 DEF RecordInv, TypeOK
  <2> QED
    BY <1>2, <2>4, <2>5 DEF RecordInv
<1>8. DraftInv'
  <2> SUFFICES ASSUME NEW c \in Commands, page'[c] \in Pages
               PROVE  draft'[c] \ contested = pages'[page'[c]] \ contested
    BY <1>2 DEF DraftInv
  <2>1. page'[c] = page[c] /\ draft'[c] = draft[c]
    BY <1>2, WikiDigestAssumption DEF TypeOK
  <2>2. draft[c] \ contested = pages[page[c]] \ contested
    BY <2>1 DEF DraftInv
  <2> QED
    BY <1>5, <2>1, <2>2
<1> QED
  BY <1>2, <1>6, <1>7, <1>8

\* One of the writes of the next entry.
WriteNext(d) == DryWrite(d) \/ LogWrite(d) \/ PageReplace(d)

(* A write is of the next entry.  What it records has a record, which only *)
(* a contested entry of another URL may have made room for; what counts as *)
(* handled is recorded, or dry.                                            *)
LEMMA WriteShape ==
  ASSUME IInv, NEW d \in Digests, WriteNext(d)
  PROVE  \E o : /\ Writing(d) /\ Written(d, o)
                /\ o.handled /\ d \notin DryRun => o.record
                /\ o.record => /\ d \notin DryRun /\ NextUrl(d) \in Recorded'
                               /\ contested' \in {contested, contested \cup {NextUrl(d)}}
                               /\ Recorded' \ contested' = (Recorded \cup {NextUrl(d)}) \ contested'
                /\ ~o.record => UNCHANGED <<wiki, contested>>
<1> USE DEF IInv
<1>1. CASE DryWrite(d)
  <2> DEFINE o == [record |-> FALSE, handled |-> TRUE]
  <2>1. Writing(d) /\ Written(d, o) /\ d \in DryRun /\ UNCHANGED <<wiki, contested>>
    BY <1>1 DEF DryWrite
  <2>2. ~o.record
    OBVIOUS
  <2> HIDE DEF o
  <2> QED
    BY <2>1, <2>2
<1>2. CASE LogWrite(d)
  <2>1. PICK o \in Outcomes :
          /\ Writing(d) /\ Written(d, o)
          /\ logged' = IF o.record THEN logged \cup {NextUrl(d)} ELSE logged
    BY <1>2 DEF LogWrite
  <2>2. d \notin DryRun /\ UNCHANGED <<pages, contested>>
    BY <1>2 DEF LogWrite
  <2>3. o.handled => o.record
    BY OutcomeRecords
  <2>4. o.record => Recorded' = Recorded \cup {NextUrl(d)}
    BY <2>1, <2>2 DEF Recorded
  <2>5. ~o.record => UNCHANGED <<wiki, contested>>
    BY <2>1, <2>2 DEF wiki
  <2> QED
    BY <2>1, <2>2, <2>3, <2>4, <2>5
<1>3. CASE PageReplace(d)
  <2>1. PICK o \in Outcomes :
          /\ Written(d, o)
          /\ pages' = IF o.record THEN [pages EXCEPT ![page[d]] = Extended(d)] ELSE pages
          /\ contested' = IF o.record /\ OpenElsewhere(d, page[d])
                          THEN contested \cup {NextUrl(d)} ELSE contested
    BY <1>3 DEF PageReplace
  <2>2. /\ Writing(d) /\ page[d] \in Pages /\ ClosePage(d) /\ UNCHANGED logged
        /\ UNCHANGED wanted
    BY <1>3, <2>1 DEF PageReplace, Written
  <2>3. d \notin DryRun
    BY <2>2, WikiDigestAssumption DEF DryInv
  <2>4. o.handled => o.record
    BY OutcomeRecords
  <2>5. NextUrl(d) \in wanted
    BY <2>2 DEF Writing, NextUrl, WantedInv
  <2>6. ASSUME o.record
        PROVE  /\ NextUrl(d) \in Recorded'
               /\ Recorded' \ contested' = (Recorded \cup {NextUrl(d)}) \ contested'
    <3>1. /\ pages' = [pages EXCEPT ![page[d]] = Extended(d)]
          /\ contested' = IF OpenElsewhere(d, page[d])
                          THEN contested \cup {NextUrl(d)} ELSE contested
      BY <2>1, <2>6
    <3> QED
      BY <2>2, <2>5, <2>6, <3>1, PageReplaced
  <2>7. contested' \in {contested, contested \cup {NextUrl(d)}}
    BY <2>1
  <2>8. ~o.record => UNCHANGED <<wiki, contested>>
    BY <2>1, <2>2 DEF wiki
  <2> QED
    BY <2>1, <2>2, <2>3, <2>4, <2>6, <2>7, <2>8
<1> QED
  BY <1>1, <1>2, <1>3 DEF WriteNext

LEMMA WriteRecords ==
  ASSUME IInv, NEW d \in Digests, WriteNext(d)
  PROVE  RecordInv' /\ DraftInv'
<1> USE DEF IInv
<1>1. CASE DryWrite(d)
  <2>1. UNCHANGED <<wiki, open, contested, wanted>>
    BY <1>1 DEF DryWrite, Written
  <2> QED
    BY <2>1, RecordsStay DEF RecordInv, DraftInv, wiki, open
<1>2. CASE LogWrite(d)
  <2>1. UNCHANGED <<pages, page, draft, contested, wanted>>
    BY <1>2 DEF LogWrite, Written, open
  <2>2. logged' \in {logged, logged \cup {NextUrl(d)}} /\ NextUrl(d) \in wanted
    BY <1>2 DEF LogWrite, Writing, NextUrl, WantedInv
  <2> QED
    BY <2>1, <2>2 DEF RecordInv, DraftInv, Recorded
<1>3. CASE PageReplace(d)
  <2>1. PICK o \in Outcomes :
          /\ pages' = IF o.record THEN [pages EXCEPT ![page[d]] = Extended(d)] ELSE pages
          /\ contested' = IF o.record /\ OpenElsewhere(d, page[d])
                          THEN contested \cup {NextUrl(d)} ELSE contested
    BY <1>3 DEF PageReplace
  <2>2. /\ Writing(d) /\ page[d] \in Pages /\ ClosePage(d) /\ UNCHANGED <<logged, wanted>>
    BY <1>3 DEF PageReplace, Written
  <2>3. NextUrl(d) \in wanted
    BY <2>2 DEF Writing, NextUrl, WantedInv
  <2>4. CASE o.record
    <3>1. /\ pages' = [pages EXCEPT ![page[d]] = Extended(d)]
          /\ contested' = IF OpenElsewhere(d, page[d])
                          THEN contested \cup {NextUrl(d)} ELSE contested
      BY <2>1, <2>4
    <3> QED
      BY <2>2, <2>3, <2>4, <3>1, PageReplaced
  <2>5. CASE ~o.record
    <3>1. UNCHANGED <<pages, contested, logged, wanted>>
      BY <2>1, <2>2, <2>5
    <3>2. /\ page' = [page EXCEPT ![d] = NoPage]
          /\ draft' = [draft EXCEPT ![d] = {}]
      BY <2>2 DEF ClosePage
    <3>3. \A c \in Commands : draft'[c] \subseteq wanted
      BY <3>2 DEF RecordInv, TypeOK
    <3>4. \A c \in Commands : page'[c] \in Pages => page'[c] = page[c] /\ draft'[c] = draft[c]
      BY <3>2, WikiDigestAssumption DEF TypeOK
    <3> QED
      BY <3>1, <3>3, <3>4 DEF RecordInv, DraftInv, Recorded
  <2> QED
    BY <2>4, <2>5
<1> QED
  BY <1>1, <1>2, <1>3 DEF WriteNext

(* What had a record and lost it is contested.                             *)
LEMMA KeptGrows ==
  ASSUME IInv, NEW d \in Digests, WriteNext(d)
  PROVE  Kept \subseteq Kept'
<1>1. PICK o : /\ o.record => /\ contested' \in {contested, contested \cup {NextUrl(d)}}
                              /\ Recorded' \ contested' = (Recorded \cup {NextUrl(d)}) \ contested'
               /\ ~o.record => UNCHANGED <<wiki, contested>>
  BY WriteShape
<1>2. CASE o.record
  BY <1>1, <1>2 DEF Kept
<1>3. CASE ~o.record
  BY <1>1, <1>3, RecordsStay
<1> QED
  BY <1>2, <1>3

(* The end of a digest leaves nothing of it to be wrong about. *)
LEMMA ForgetInv ==
  ASSUME IInv, NEW d \in Digests, Forget(d), UNCHANGED <<wiki, hist>>
  PROVE  /\ HandledInv' /\ DryInv' /\ CopyInv' /\ RecordInv' /\ DraftInv'
         /\ \A c \in Digests : UrlsOf(copy[c])' \subseteq wanted'
         /\ \A c \in Digests : \A i \in DOMAIN entries'[c] : entries'[c][i][2] \in wanted'
<1> USE DEF IInv
<1>0. /\ pc' = [pc EXCEPT ![d] = "idle"]
      /\ entries' = [entries EXCEPT ![d] = <<>>]
      /\ page' = [page EXCEPT ![d] = NoPage]
      /\ draft' = [draft EXCEPT ![d] = {}]
      /\ handled' = [handled EXCEPT ![d] = {}]
      /\ copy' = [copy EXCEPT ![d] = <<>>]
      /\ UNCHANGED <<pages, logged, contested, wanted, exposed>>
      /\ d \in Commands
  BY DEF Forget, Goto, wiki, hist, Commands
<1>a. Recorded' = Recorded /\ Kept' = Kept
  BY RecordsStay DEF wiki, hist
<1>1. HandledInv'
  BY <1>0, <1>a DEF HandledInv, TypeOK
<1>2. DryInv'
  BY <1>0, WikiDigestAssumption DEF DryInv, TypeOK, Commands
<1>3. CopyInv'
  <2> SUFFICES ASSUME NEW c \in Digests, pc'[c] = "replace"
               PROVE  wanted' \subseteq UrlsOf(copy'[c]) \cup Kept' \cup exposed'
    BY DEF CopyInv
  <2>1. c # d /\ pc[c] = "replace" /\ copy'[c] = copy[c]
    BY <1>0 DEF TypeOK
  <2> QED
    BY <1>0, <1>a, <2>1 DEF CopyInv
<1>4. ASSUME NEW c \in Digests PROVE UrlsOf(copy[c])' \subseteq wanted'
  <2>1. UrlsOf(<<>>) = {}
    BY DEF UrlsOf
  <2>2. copy'[c] = <<>> \/ copy'[c] = copy[c]
    BY <1>0 DEF TypeOK
  <2> QED
    BY <1>0, <2>1, <2>2 DEF WantedInv
<1>5. ASSUME NEW c \in Digests, NEW i \in DOMAIN entries'[c]
      PROVE  entries'[c][i][2] \in wanted'
  BY <1>0 DEF WantedInv, TypeOK
<1>6. RecordInv'
  <2>1. \A c \in Commands : draft'[c] \subseteq wanted
    BY <1>0 DEF RecordInv, TypeOK
  <2> QED
    BY <1>0, <1>a, <2>1 DEF RecordInv
<1>7. DraftInv'
  <2>1. \A c \in Commands : page'[c] \in Pages => page'[c] = page[c] /\ draft'[c] = draft[c]
    BY <1>0, WikiDigestAssumption DEF TypeOK
  <2> QED
    BY <1>0, <2>1 DEF DraftInv
<1> QED
  BY <1>1, <1>2, <1>3, <1>4, <1>5, <1>6, <1>7

(* A flush that replaces the inbox: it loses nothing and adds nothing. *)
LEMMA FlushKeeps ==
  ASSUME IInv, NEW d \in Digests, FlushWrite(d)
  PROVE  UrlsOf(inbox)' \subseteq wanted' /\ NoUrlLost'
<1> USE DEF IInv
<1>0. UNCHANGED <<wanted, exposed>> /\ Recorded' = Recorded /\ Kept' = Kept /\ UNCHANGED contested
  BY RecordsStay DEF FlushWrite, hist, wiki
<1>1. CASE inbox' = inbox
  <2>1. UrlsOf(inbox)' = UrlsOf(inbox)
    BY <1>1
  <2> QED
    BY <1>0, <2>1 DEF WantedInv, NoUrlLost
<1>2. ASSUME NEW f \in Numberings(KeptLines(d)), inbox' = FlushedInbox(d, f)
      PROVE  UrlsOf(inbox)' \subseteq wanted' /\ NoUrlLost'
  <2>1. copy[d] \in Seq(Line)
    BY DEF TypeOK
  <2>2. /\ UrlsOf(FlushedInbox(d, f)) \subseteq UrlsOf(copy[d])
        /\ \A u \in UrlsOf(copy[d]) :
             \/ u \in UrlsOf(FlushedInbox(d, f))
             \/ \E i \in Nat : <<i, u>> \in handled[d]
    BY <2>1, FlushResult
  <2>3. UrlsOf(inbox)' = UrlsOf(FlushedInbox(d, f))
    BY <1>2
  <2>4. d \notin DryRun /\ pc[d] = "replace"
    BY DEF FlushWrite, DryInv
  <2>5. \A h \in handled[d] : h[2] \in Kept
    BY <2>4 DEF HandledInv
  <2>6. \A u \in UrlsOf(copy[d]) : u \in UrlsOf(FlushedInbox(d, f)) \/ u \in Kept
    <3> SUFFICES ASSUME NEW u \in UrlsOf(copy[d]), NEW i \in Nat, <<i, u>> \in handled[d]
                 PROVE  u \in Kept
      BY <2>2
    <3> QED
      BY <2>5
  <2>7. wanted \subseteq UrlsOf(copy[d]) \cup Kept \cup exposed
    BY <2>4 DEF CopyInv
  <2>8. NoUrlLost'
    BY <1>0, <2>3, <2>6, <2>7 DEF NoUrlLost, Kept
  <2>9. UrlsOf(inbox)' \subseteq wanted'
    BY <1>0, <2>2, <2>3 DEF WantedInv
  <2> QED
    BY <2>8, <2>9
<1> QED
  BY <1>1, <1>2 DEF FlushWrite

(* A command opens or closes a page: what is kept stays so.                *)
LEMMA PageKeeps ==
  ASSUME IInv, Kept \subseteq Kept', RecordInv', DraftInv',
         UNCHANGED <<inbox, pc, entries, handled, copy, wanted, exposed>>,
         \A d \in DryRun : page'[d] = page[d]
  PROVE  /\ HandledInv' /\ DryInv' /\ WantedInv' /\ RecordInv' /\ DraftInv'
         /\ NoUrlLost' /\ CopyInv'
<1> USE DEF IInv
<1>1. HandledInv' /\ DryInv'
  BY DEF HandledInv, DryInv
<1>2. WantedInv' /\ CopyInv'
  BY DEF WantedInv, CopyInv, UrlsOf
<1>3. NoUrlLost'
  <2>1. UrlsOf(inbox)' = UrlsOf(inbox)
    BY DEF UrlsOf
  <2>2. wanted \subseteq UrlsOf(inbox) \cup Kept \cup exposed
    BY DEF NoUrlLost, Kept
  <2>3. wanted' \subseteq UrlsOf(inbox)' \cup Kept' \cup exposed'
    BY <2>1, <2>2
  <2> QED
    BY <2>3 DEF NoUrlLost, Kept
<1> QED
  BY <1>1, <1>2, <1>3

LEMMA StepIInv ==
  ASSUME IInv, [Next]_vars
  PROVE  IInv'
<1> USE DEF IInv
<1>0. TypeOK'
  BY StepType
<1>n. DryRun \subseteq Digests
  BY WikiDigestAssumption
<1> DEFINE Others == /\ HandledInv' /\ DryInv' /\ WantedInv' /\ RecordInv'
                     /\ DraftInv' /\ NoUrlLost' /\ CopyInv'
<1>s. ASSUME UNCHANGED <<wiki, open, contested, wanted>>
      PROVE  RecordInv' /\ DraftInv' /\ Recorded' = Recorded /\ Kept' = Kept
  BY <1>s, RecordsStay DEF RecordInv, DraftInv, wiki, open
<1>1. ASSUME NEW d \in Digests, Begin(d) PROVE Others
  <2>0. UNCHANGED <<inbox, wiki, open, handled, copy, contested, wanted, exposed>>
    BY <1>1 DEF Begin, hist
  <2>a. RecordInv' /\ DraftInv' /\ Recorded' = Recorded /\ Kept' = Kept /\ page' = page
    BY <1>s, <2>0 DEF open
  <2>1. \/ UNCHANGED <<pc, entries>>
        \/ /\ pc' = [pc EXCEPT ![d] = "prepare"]
           /\ \E es \in Parsed(inbox) : entries' = [entries EXCEPT ![d] = es]
    BY <1>1 DEF Begin, Goto
  <2>2. HandledInv' /\ NoUrlLost'
    BY <2>0, <2>a DEF HandledInv, NoUrlLost, UrlsOf
  <2>3. DryInv'
    BY <2>1, <2>a, WikiDigestAssumption DEF DryInv, TypeOK
  <2>4. CopyInv'
    BY <2>0, <2>1, <2>a DEF CopyInv, TypeOK
  <2>5. WantedInv'
    <3>1. \A es \in Parsed(inbox) : \A i \in DOMAIN es : es[i][2] \in wanted
      BY ParsedType DEF TypeOK, WantedInv
    <3>2. \A c \in Digests : \A i \in DOMAIN entries'[c] : entries'[c][i][2] \in wanted
      BY <2>1, <3>1 DEF WantedInv, TypeOK
    <3> QED
      BY <2>0, <3>2 DEF WantedInv
  <2> QED
    BY <2>2, <2>3, <2>4, <2>5, <2>a
<1>2. ASSUME NEW d \in Digests,
             Launch(d) \/ AllPrepared(d) \/ \E i \in DOMAIN prep[d] : Prepared(d, i)
      PROVE  Others
  <2>0. UNCHANGED <<inbox, wiki, open, entries, handled, copy, contested, wanted, exposed>>
    BY <1>2 DEF Launch, AllPrepared, Prepared, local, hist
  <2>a. RecordInv' /\ DraftInv' /\ Recorded' = Recorded /\ Kept' = Kept /\ page' = page
    BY <1>s, <2>0 DEF open
  <2>1. pc' = pc \/ pc' = [pc EXCEPT ![d] = "write"]
    BY <1>2 DEF Launch, AllPrepared, Prepared, Goto
  <2>2. HandledInv' /\ NoUrlLost' /\ WantedInv'
    BY <2>0, <2>a DEF HandledInv, NoUrlLost, WantedInv, UrlsOf
  <2>3. DryInv'
    BY <2>1, <2>a, WikiDigestAssumption DEF DryInv, TypeOK
  <2>4. CopyInv'
    BY <2>0, <2>1, <2>a DEF CopyInv, TypeOK
  <2> QED
    BY <2>2, <2>3, <2>4, <2>a
<1>3. ASSUME NEW d \in Digests, WriteNext(d) PROVE Others
  <2>0. PICK o : /\ Writing(d) /\ Written(d, o)
                 /\ o.handled /\ d \notin DryRun => o.record
                 /\ o.record => NextUrl(d) \in Recorded'
    BY <1>3, WriteShape
  <2>1. UNCHANGED <<inbox, pc, entries, copy, wanted, exposed>>
    BY <2>0 DEF Written
  <2>2. Kept \subseteq Kept' /\ RecordInv' /\ DraftInv'
    BY <1>3, KeptGrows, WriteRecords
  <2>3. HandledInv'
    <3> DEFINE e == entries[d][next[d]]
    <3>1. handled' = IF o.handled THEN [handled EXCEPT ![d] = @ \cup {e}] ELSE handled
      BY <2>0 DEF Written
    <3>2. d \notin DryRun /\ o.handled => e[2] \in Kept'
      BY <2>0 DEF NextUrl, Kept
    <3> HIDE DEF e
    <3> SUFFICES ASSUME NEW c \in Digests \ DryRun, NEW h \in handled'[c]
                 PROVE  h[2] \in Kept'
      BY DEF HandledInv
    <3>3. h \in handled[c] \/ (c = d /\ o.handled /\ h = e)
      BY <3>1 DEF TypeOK
    <3>4. CASE h \in handled[c]
      BY <2>2, <3>4 DEF HandledInv
    <3>5. CASE c = d /\ o.handled /\ h = e
      BY <3>2, <3>5
    <3> QED
      BY <3>3, <3>4, <3>5
  <2>4. DryInv'
    <3>1. \A c \in Commands : page'[c] \in {page[c], NoPage}
      BY <1>3 DEF WriteNext, DryWrite, LogWrite, PageReplace, ClosePage, open, TypeOK
    <3> QED
      BY <1>n, <2>1, <3>1 DEF DryInv, Commands
  <2>5. WantedInv' /\ CopyInv'
    BY <2>1, <2>2 DEF WantedInv, CopyInv, UrlsOf
  <2>6. NoUrlLost'
    <3>1. wanted \subseteq UrlsOf(inbox) \cup Kept \cup exposed
      BY DEF NoUrlLost, Kept
    <3>2. wanted' \subseteq UrlsOf(inbox)' \cup Kept' \cup exposed'
      BY <2>1, <2>2, <3>1 DEF UrlsOf
    <3> QED
      BY <3>2 DEF NoUrlLost, Kept
  <2> QED
    BY <2>2, <2>3, <2>4, <2>5, <2>6
<1>11. ASSUME NEW c \in Commands, OpenPage(c), c \notin DryRun PROVE Others
  <2>1. Kept \subseteq Kept' /\ RecordInv' /\ DraftInv'
    BY <1>11, PageOpened DEF Kept
  <2>2. UNCHANGED <<inbox, pc, entries, handled, copy, wanted, exposed>>
    BY <1>11 DEF OpenPage
  <2>3. \A d \in DryRun : page'[d] = page[d]
    BY <1>11, <1>n DEF OpenPage, TypeOK, Commands
  <2> QED
    BY <2>1, <2>2, <2>3, PageKeeps
<1>12. ASSUME NEW a \in Adds, AddReplace(a) PROVE Others
  <2>1. /\ Recorded' \ contested = Recorded \ contested
        /\ UNCHANGED contested /\ RecordInv' /\ DraftInv'
    BY <1>12, PageAdded
  <2>2. Kept \subseteq Kept'
    BY <2>1 DEF Kept
  <2>3. UNCHANGED <<inbox, pc, entries, handled, copy, wanted, exposed>>
    BY <1>12 DEF AddReplace, hist
  <2>4. \A d \in DryRun : page'[d] = page[d]
    BY <1>12, <1>n, WikiDigestAssumption DEF AddReplace, ClosePage, TypeOK, Commands
  <2> QED
    BY <2>1, <2>2, <2>3, <2>4, PageKeeps
<1>4. ASSUME NEW d \in Digests, Forget(d), UNCHANGED <<inbox, wiki, hist>>
      PROVE  Others
  <2>1. UNCHANGED <<UrlsOf(inbox), Recorded, contested, wanted, exposed>>
    BY <1>4, RecordsStay DEF UrlsOf, hist
  <2>2. WantedInv' /\ NoUrlLost'
    BY <1>4, <2>1, ForgetInv DEF WantedInv, NoUrlLost
  <2> QED
    BY <1>4, <2>2, ForgetInv
<1>5. ASSUME NEW d \in Digests, Report(d) PROVE Others
  <2>1. CASE Forget(d)
    BY <1>4, <1>5, <2>1 DEF Report
  <2>2. CASE d \notin DryRun /\ Goto(d, "flush") /\ UNCHANGED local
    <3>0. /\ pc' = [pc EXCEPT ![d] = "flush"]
          /\ UNCHANGED <<inbox, wiki, open, entries, handled, copy, contested, wanted, exposed>>
      BY <1>5, <2>2 DEF Report, Goto, local, hist
    <3>a. RecordInv' /\ DraftInv' /\ Recorded' = Recorded /\ Kept' = Kept /\ page' = page
      BY <1>s, <3>0 DEF open
    <3>1. HandledInv' /\ NoUrlLost' /\ WantedInv'
      BY <3>0, <3>a DEF HandledInv, NoUrlLost, WantedInv, UrlsOf
    <3>2. DryInv'
      BY <2>2, <3>0, <3>a DEF DryInv, TypeOK
    <3>3. CopyInv'
      BY <3>0, <3>a DEF CopyInv, TypeOK
    <3> QED
      BY <3>1, <3>2, <3>3, <3>a
  <2> QED
    BY <1>5, <2>1, <2>2 DEF Report
<1>6. ASSUME NEW d \in Digests, FlushRead(d) PROVE Others
  <2>1. CASE Forget(d)
    BY <1>4, <1>6, <2>1 DEF FlushRead
  <2>2. CASE copy' = [copy EXCEPT ![d] = inbox] /\ Goto(d, "replace")
             /\ UNCHANGED <<entries, open, handled>>
    <3>0. /\ pc' = [pc EXCEPT ![d] = "replace"] /\ pc[d] = "flush"
          /\ UNCHANGED <<inbox, wiki, open, entries, handled, contested, wanted, exposed>>
      BY <1>6, <2>2 DEF FlushRead, Goto, hist
    <3>a. RecordInv' /\ DraftInv' /\ Recorded' = Recorded /\ Kept' = Kept /\ page' = page
      BY <1>s, <3>0 DEF open
    <3>1. HandledInv' /\ NoUrlLost'
      BY <3>0, <3>a DEF HandledInv, NoUrlLost, UrlsOf
    <3>2. DryInv'
      BY <3>0, <3>a DEF DryInv, TypeOK
    <3>3. WantedInv' /\ CopyInv'
      <4>1. /\ UrlsOf(inbox)' = UrlsOf(inbox) /\ Kept' = Kept
            /\ copy'[d] = inbox
            /\ \A c \in Digests : c # d => copy'[c] = copy[c] /\ pc'[c] = pc[c]
        BY <2>2, <3>0, <3>a DEF TypeOK, UrlsOf
      <4>2. ASSUME NEW c \in Digests PROVE UrlsOf(copy[c])' \subseteq wanted'
        <5>1. CASE c = d
          BY <3>0, <4>1, <5>1 DEF WantedInv
        <5>2. CASE c # d
          BY <3>0, <4>1, <5>2 DEF WantedInv
        <5> QED
          BY <5>1, <5>2
      <4>3. WantedInv'
        BY <3>0, <4>1, <4>2 DEF WantedInv
      <4>4. ASSUME NEW c \in Digests, pc'[c] = "replace"
            PROVE  wanted' \subseteq UrlsOf(copy'[c]) \cup Kept' \cup exposed'
        <5>1. CASE c = d
          BY <3>0, <4>1, <5>1 DEF NoUrlLost, Kept
        <5>2. CASE c # d
          BY <3>0, <4>1, <4>4, <5>2 DEF CopyInv
        <5> QED
          BY <5>1, <5>2
      <4>5. CopyInv'
        BY <4>4 DEF CopyInv
      <4> QED
        BY <4>3, <4>5
    <3> QED
      BY <3>1, <3>2, <3>3, <3>a
  <2> QED
    BY <1>6, <2>1, <2>2 DEF FlushRead
<1>7. ASSUME NEW d \in Digests, FlushWrite(d) PROVE Others
  <2>1. Forget(d) /\ UNCHANGED <<wiki, hist>>
    BY <1>7 DEF FlushWrite
  <2>2. UrlsOf(inbox)' \subseteq wanted' /\ NoUrlLost'
    BY <1>7, FlushKeeps
  <2> QED
    BY <2>1, <2>2, ForgetInv DEF WantedInv
<1>8. ASSUME NEW d \in Digests, Crash(d) PROVE Others
  BY <1>4, <1>8 DEF Crash
<1>9. ASSUME NEW u \in Urls, NEW k \in 0 .. Len(inbox), UserAdds(u, k) PROVE Others
  <2>0. /\ UNCHANGED <<wiki, open, contested, pc, entries, handled, copy>>
        /\ wanted' = wanted \cup {u}
        /\ exposed' = IF \E d \in Digests : pc[d] = "replace"
                      THEN exposed \cup {u} ELSE exposed
    BY <1>9 DEF UserAdds, local
  <2>1. UrlsOf(inbox') = UrlsOf(inbox) \cup {u}
    <3>1. inbox \in Seq(Line)
      BY DEF TypeOK
    <3>2. inbox' = WithLine(inbox, u, k)
      BY <1>9 DEF UserAdds
    <3> QED
      BY <3>1, <3>2, WithLineUrls
  <2>2. /\ Recorded' = Recorded /\ Kept' = Kept
        /\ UrlsOf(inbox)' = UrlsOf(inbox) \cup {u}
    BY <2>0, <2>1, RecordsStay
  <2>3. HandledInv' /\ DryInv'
    BY <2>0, <2>2 DEF HandledInv, DryInv, open
  <2>7. RecordInv' /\ DraftInv'
    BY <2>0, <2>2 DEF RecordInv, DraftInv, open, wiki
  <2>4. NoUrlLost'
    BY <2>0, <2>2 DEF NoUrlLost
  <2>5. WantedInv'
    BY <2>0, <2>2 DEF WantedInv, UrlsOf
  <2>6. CopyInv'
    BY <2>0, <2>2 DEF CopyInv
  <2> QED
    BY <2>3, <2>4, <2>5, <2>6, <2>7
<1>10. ASSUME UNCHANGED vars PROVE Others
  <2>1. UNCHANGED <<inbox, wiki, open, contested, pc, entries, handled, copy, wanted, exposed>>
    BY <1>10 DEF vars, local, hist
  <2>a. RecordInv' /\ DraftInv' /\ Recorded' = Recorded /\ Kept' = Kept /\ page' = page
    BY <1>s, <2>1 DEF open
  <2>2. HandledInv' /\ DryInv'
    BY <2>1, <2>a DEF HandledInv, DryInv
  <2>3. WantedInv' /\ NoUrlLost' /\ CopyInv'
    BY <2>1, <2>a DEF WantedInv, NoUrlLost, CopyInv, UrlsOf
  <2> QED
    BY <2>2, <2>3, <2>a
<1>13. ASSUME NEW d \in Digests, PageRead(d) PROVE Others
  BY <1>11, <1>13 DEF PageRead, Commands
<1>14. ASSUME NEW a \in Adds, AddRead(a) PROVE Others
  BY <1>11, <1>14, <1>n, WikiDigestAssumption DEF AddRead, Commands
<1>15. Others
  BY <1>1, <1>2, <1>3, <1>5, <1>6, <1>7, <1>8, <1>9, <1>10, <1>12, <1>13, <1>14
     DEF Next, Step, Finished, WriteNext
<1> QED
  BY <1>0, <1>15

-----------------------------------------------------------------------------
LEMMA InvariantHolds == Spec => []IInv
  BY InitIInv, StepIInv, PTL DEF Spec

(* The type invariant. *)
THEOREM TypeCorrect == Spec => []TypeOK
<1>1. IInv => TypeOK
  BY DEF IInv
<1> QED
  BY <1>1, InvariantHolds, PTL

(* Whatever fails and however the digests, `wiki add`, the user and the    *)
(* crashes interleave, a URL is in the inbox, has a record, or is exposed  *)
(* or contested: RunDigest, ParseInbox, WriteSummary, FlushInbox.          *)
THEOREM NothingLost == Spec => []NoUrlLost
<1>1. IInv => NoUrlLost
  BY DEF IInv
<1> QED
  BY <1>1, InvariantHolds, PTL

-----------------------------------------------------------------------------
LEMMA InitDelivers == Init => Delivery!Init
<1> SUFFICES ASSUME Init PROVE Delivery!Init
  OBVIOUS
<1>1. Recorded = {}
  BY DEF Init, Recorded
<1>2. UrlsOf(Inbox0) \subseteq Urls
  BY WikiDigestAssumption, UrlsOfType
<1> QED
  BY <1>1, <1>2 DEF Init, Delivery!Init

(* A step that touches neither the inbox nor the records is a stutter.     *)
LEMMA Stutters ==
  ASSUME UNCHANGED <<inbox, wiki, wanted, exposed, contested>>
  PROVE  UNCHANGED Delivery!vars
  BY RecordsStay DEF Delivery!vars, UrlsOf

LEMMA StepDelivers ==
  ASSUME IInv, IInv', [Next]_vars
  PROVE  [Delivery!Next]_(Delivery!vars)
<1>1. ASSUME NEW d \in Digests,
             \/ Begin(d) \/ Launch(d) \/ AllPrepared(d) \/ Report(d) \/ FlushRead(d)
             \/ Crash(d) \/ \E i \in DOMAIN prep[d] : Prepared(d, i)
      PROVE  UNCHANGED Delivery!vars
  <2>1. UNCHANGED <<inbox, wiki, wanted, exposed, contested>>
    BY <1>1 DEF Begin, Launch, AllPrepared, Report, FlushRead, Crash, Prepared, hist
  <2> QED
    BY <2>1, Stutters
<1>2. ASSUME NEW d \in Digests, WriteNext(d)
      PROVE  Delivery!Next \/ UNCHANGED Delivery!vars
  <2> DEFINE u == NextUrl(d)
  <2>1. PICK o : /\ Writing(d) /\ Written(d, o)
                 /\ o.record => /\ u \in Recorded'
                                /\ contested' \in {contested, contested \cup {u}}
                                /\ Recorded' \ contested' = (Recorded \cup {u}) \ contested'
                 /\ ~o.record => UNCHANGED <<wiki, contested>>
    BY <1>2, WriteShape
  <2>2. UNCHANGED <<inbox, wanted, exposed>> /\ UrlsOf(inbox)' = UrlsOf(inbox)
    BY <2>1 DEF Written, UrlsOf
  <2>3. u \in wanted /\ u \in Urls
    BY <2>1 DEF Writing, NextUrl, IInv, WantedInv, TypeOK
  <2>4. Recorded' \subseteq wanted
    BY <2>2 DEF IInv, RecordInv
  <2> HIDE DEF u
  <2>5. CASE ~o.record
    BY <2>1, <2>2, <2>5, Stutters
  <2>6. CASE o.record
    <3>1. Delivery!Record(u)
      BY <2>1, <2>2, <2>3, <2>4, <2>6 DEF Delivery!Record
    <3> QED
      BY <2>3, <3>1 DEF Delivery!Next
  <2> QED
    BY <2>5, <2>6
<1>6. ASSUME NEW c \in Commands, OpenPage(c) PROVE Delivery!Next
  <2>1. /\ Recorded' = Recorded
        /\ contested \subseteq contested' /\ contested' \subseteq contested \cup Recorded
    BY <1>6, PageOpened
  <2>2. UNCHANGED <<inbox, wanted, exposed>> /\ UrlsOf(inbox)' = UrlsOf(inbox)
    BY <1>6 DEF OpenPage, UrlsOf
  <2>3. Delivery!Contest
    BY <2>1, <2>2 DEF Delivery!Contest
  <2> QED
    BY <2>3 DEF Delivery!Next
<1>7. ASSUME NEW a \in Adds, AddReplace(a) PROVE Delivery!Next
  <2>1. Recorded' \ contested = Recorded \ contested /\ UNCHANGED contested
    BY <1>7, PageAdded
  <2>2. UNCHANGED <<inbox, wanted, exposed>> /\ UrlsOf(inbox)' = UrlsOf(inbox)
    BY <1>7 DEF AddReplace, UrlsOf, hist
  <2>3. Recorded' \subseteq wanted
    BY <2>2 DEF IInv, RecordInv
  <2>4. Delivery!Sway
    BY <2>1, <2>2, <2>3 DEF Delivery!Sway
  <2> QED
    BY <2>4 DEF Delivery!Next
<1>3. ASSUME NEW d \in Digests, FlushWrite(d) PROVE Delivery!Next
  <2>1. UNCHANGED <<wanted, exposed, contested>> /\ Recorded' = Recorded
    BY <1>3, RecordsStay DEF FlushWrite, hist
  <2>2. /\ UrlsOf(inbox)' \subseteq wanted
        /\ wanted \subseteq UrlsOf(inbox)' \cup Recorded \cup exposed \cup contested
    BY <2>1 DEF IInv, WantedInv, NoUrlLost
  <2>3. Delivery!Rewrite
    BY <2>1, <2>2 DEF Delivery!Rewrite
  <2> QED
    BY <2>3 DEF Delivery!Next
<1>4. ASSUME NEW u \in Urls, NEW k \in 0 .. Len(inbox), UserAdds(u, k)
      PROVE  Delivery!Next
  <2>1. UrlsOf(inbox)' = UrlsOf(inbox) \cup {u}
    <3>1. inbox \in Seq(Line)
      BY DEF IInv, TypeOK
    <3>2. inbox' = WithLine(inbox, u, k)
      BY <1>4 DEF UserAdds
    <3> QED
      BY <3>1, <3>2, WithLineUrls
  <2>2. /\ wanted' = wanted \cup {u} /\ Recorded' = Recorded
        /\ exposed' \in {exposed, exposed \cup {u}} /\ contested' = contested
    BY <1>4, RecordsStay DEF UserAdds
  <2>3. Delivery!Ask(u)
    BY <2>1, <2>2 DEF Delivery!Ask
  <2> QED
    BY <2>3 DEF Delivery!Next
<1>5. CASE UNCHANGED vars
  <2>1. UNCHANGED <<inbox, wiki, wanted, exposed, contested>>
    BY <1>5 DEF vars, hist
  <2> QED
    BY <2>1, Stutters
<1> QED
  BY <1>1, <1>2, <1>3, <1>4, <1>5, <1>6, <1>7
     DEF Next, Step, Finished, WriteNext, PageRead, AddRead, Commands

(* The digests implement at least once delivery of the inbox, but for what *)
(* is exposed or contested.                                                *)
THEOREM DigestDelivers == Spec => DeliversAtLeastOnce
<1>1. IInv /\ IInv' /\ [Next]_vars => [Delivery!Next]_(Delivery!vars)
  BY StepDelivers
<1>2. Init => Delivery!Init
  BY InitDelivers
<1> QED
  BY <1>1, <1>2, InvariantHolds, PTL DEF Spec, DeliversAtLeastOnce, Delivery!Spec

-----------------------------------------------------------------------------
(* One record per URL.  As long as nothing has disturbed the digests, one  *)
(* of them runs at a time, the inbox is the one it has parsed, and what it *)
(* has recorded and not yet flushed is among its handled entries.          *)

\* What a digest has in its memory, disturbed or not.
MemoryInv ==
  /\ \A d \in Digests : pc[d] = "idle" => entries[d] = <<>> /\ handled[d] = {}
  /\ \A d \in Digests : \A i, j \in DOMAIN entries[d] : entries[d][i] = entries[d][j] => i = j
  /\ \A d \in Digests : \A h \in handled[d] : \E i \in DOMAIN entries[d] : i < next[d] /\ entries[d][i] = h
  /\ \A u \in Urls : count[u] > 0 => u \in wanted

Alone == \A c, d \in Digests : pc[c] # "idle" /\ pc[d] # "idle" => c = d

ParsedNow == \A d \in Digests : \A i \in DOMAIN entries[d] : entries[d][i] \in FirstRefs(inbox)

CopiedNow == \A d \in Digests : pc[d] = "replace" => copy[d] = inbox

Single(text) ==
  \A u \in Urls \ Twins : \A i, j \in DOMAIN text : u \in text[i] /\ u \in text[j] => i = j

ToFlush(u) == \E d \in Digests \ DryRun : \E i \in Nat : <<i, u>> \in handled[d]

CountedOnce ==
  \A u \in Urls \ Twins :
    count[u] <= 1 /\ (count[u] > 0 => u \notin UrlsOf(inbox) \/ ToFlush(u))

Calm == Alone /\ ParsedNow /\ CopiedNow /\ Single(inbox) /\ CountedOnce

LEMMA InitOnce == Init => MemoryInv /\ Calm
<1> SUFFICES ASSUME Init PROVE MemoryInv /\ Calm
  OBVIOUS
<1>1. MemoryInv
  BY DEF Init, MemoryInv
<1>2. Alone /\ ParsedNow /\ CopiedNow
  BY DEF Init, Alone, ParsedNow, CopiedNow
<1>3. Single(inbox)
  BY DEF Init, Single, Twins
<1>4. CountedOnce
  BY DEF Init, CountedOnce
<1> QED
  BY <1>1, <1>2, <1>3, <1>4 DEF Calm

(* ParseInbox returns references of the first line of a URL, each once.    *)
LEMMA ParsedDistinct ==
  ASSUME NEW text \in Seq(Line), NEW es \in Parsed(text)
  PROVE  /\ \A i \in DOMAIN es : es[i] \in FirstRefs(text)
         /\ \A i, j \in DOMAIN es : es[i] = es[j] => i = j
<1> DEFINE n == Cardinality(FirstRefs(text))
<1>1. /\ es \in [1 .. n -> FirstRefs(text)]
      /\ \A i, j \in 1 .. n : i < j => es[i] # es[j]
  BY DEF Parsed
<1>2. DOMAIN es = 1 .. Len(es) /\ Len(es) \in Nat
  BY ParsedType
<1>3. DOMAIN es = 1 .. n
  BY <1>1
<1> HIDE DEF n
<1>4. \A i, j \in DOMAIN es : i \in Nat /\ j \in Nat /\ (i < j \/ j < i \/ i = j)
  BY <1>2
<1> QED
  BY <1>1, <1>3, <1>4

LEMMA FirstLine ==
  ASSUME NEW text \in Seq(Line), NEW i, NEW j, NEW u,
         <<i, u>> \in FirstRefs(text), <<j, u>> \in FirstRefs(text)
  PROVE  i = j
<1>1. /\ i \in DOMAIN text /\ u \in text[i] /\ \A k \in 1 .. i - 1 : u \notin text[k]
      /\ j \in DOMAIN text /\ u \in text[j] /\ \A k \in 1 .. j - 1 : u \notin text[k]
  BY DEF FirstRefs
<1>2. i \in Nat /\ j \in Nat /\ i >= 1 /\ j >= 1
  BY <1>1
<1>3. ~(i < j)
  <2> SUFFICES ASSUME i < j PROVE FALSE
    OBVIOUS
  <2>1. i \in 1 .. j - 1
    BY <1>2
  <2> QED
    BY <1>1, <2>1
<1>4. ~(j < i)
  <2> SUFFICES ASSUME j < i PROVE FALSE
    OBVIOUS
  <2>1. j \in 1 .. i - 1
    BY <1>2
  <2> QED
    BY <1>1, <2>1
<1> QED
  BY <1>2, <1>3, <1>4

(* Each line of a flushed inbox comes from a line of its own.              *)
LEMMA FlushedFrom ==
  ASSUME NEW d \in Digests, copy[d] \in Seq(Line), NEW f \in Numberings(KeptLines(d))
  PROVE  /\ \A i \in DOMAIN FlushedInbox(d, f) :
              /\ f[i] \in DOMAIN copy[d]
              /\ FlushedInbox(d, f)[i] = FlushedLine(copy[d][f[i]], HandledAt(d, f[i]))
         /\ \A i, j \in DOMAIN FlushedInbox(d, f) : f[i] = f[j] => i = j
<1> DEFINE S == KeptLines(d)
           n == Cardinality(S)
<1>1. DOMAIN FlushedLines(d) = DOMAIN copy[d] /\ DOMAIN copy[d] = 1 .. Len(copy[d]) /\ Len(copy[d]) \in Nat
  BY DEF FlushedLines
<1>2. S \subseteq DOMAIN copy[d]
  BY <1>1 DEF KeptLines
<1>3. n \in Nat
  <2>1. IsFiniteSet(DOMAIN copy[d])
    BY <1>1, FS_Interval
  <2>2. IsFiniteSet(S)
    BY <1>2, <2>1, FS_Subset
  <2> QED
    BY <2>2, FS_CardinalityType
<1>4. f \in [1 .. n -> S] /\ \A i, j \in 1 .. n : i < j => f[i] < f[j]
  BY DEF Numberings
<1>5. DOMAIN FlushedInbox(d, f) = 1 .. n
  BY <1>4 DEF FlushedInbox
<1>6. \A i \in DOMAIN FlushedInbox(d, f) : FlushedInbox(d, f)[i] = FlushedLines(d)[f[i]]
  BY DEF FlushedInbox
<1>7. \A i \in DOMAIN copy[d] : FlushedLines(d)[i] = FlushedLine(copy[d][i], HandledAt(d, i))
  BY DEF FlushedLines
<1> HIDE DEF S, n
<1>8. ASSUME NEW i \in 1 .. n, NEW j \in 1 .. n, f[i] = f[j] PROVE i = j
  <2>1. f[i] \in Nat /\ f[j] \in Nat /\ ~(i < j) /\ ~(j < i)
    BY <1>1, <1>2, <1>4, <1>8
  <2> QED
    BY <1>3, <2>1
<1>9. \A i \in 1 .. n : f[i] \in DOMAIN copy[d]
  BY <1>2, <1>4
<1> QED
  BY <1>5, <1>6, <1>7, <1>8, <1>9

LEMMA FlushedLineSub ==
  ASSUME NEW line, NEW hs
  PROVE  FlushedLine(line, hs) \subseteq line /\ \A u \in hs : u \notin FlushedLine(line, hs)
  BY DEF FlushedLine

(* A flush of the parsed inbox leaves nothing that was handled in it.      *)
LEMMA FlushOnce ==
  ASSUME NEW d \in Digests, copy[d] \in Seq(Line), Single(copy[d]),
         NEW f \in Numberings(KeptLines(d)),
         \A h \in handled[d] : h \in FirstRefs(copy[d])
  PROVE  /\ Single(FlushedInbox(d, f))
         /\ \A u \in Urls \ Twins : \A i : <<i, u>> \in handled[d] => u \notin UrlsOf(FlushedInbox(d, f))
<1> DEFINE new == FlushedInbox(d, f)
<1>1. /\ \A i \in DOMAIN new : /\ f[i] \in DOMAIN copy[d]
                               /\ new[i] = FlushedLine(copy[d][f[i]], HandledAt(d, f[i]))
      /\ \A i, j \in DOMAIN new : f[i] = f[j] => i = j
  BY FlushedFrom
<1> HIDE DEF new
<1>2. \A i \in DOMAIN new : new[i] \subseteq copy[d][f[i]]
  BY <1>1, FlushedLineSub
<1>3. Single(new)
  BY <1>1, <1>2 DEF Single
<1>4. ASSUME NEW u \in Urls \ Twins, NEW i, <<i, u>> \in handled[d], u \in UrlsOf(new)
      PROVE  FALSE
  <2>1. PICK k \in DOMAIN new : u \in new[k]
    BY <1>4 DEF UrlsOf
  <2>2. i \in DOMAIN copy[d] /\ u \in copy[d][i]
    BY <1>4 DEF FirstRefs
  <2>3. f[k] = i
    BY <1>1, <1>2, <2>1, <2>2 DEF Single
  <2>4. u \in HandledAt(d, f[k])
    BY <1>4, <2>3 DEF HandledAt
  <2> QED
    BY <1>1, <2>1, <2>4, FlushedLineSub
<1> QED
  BY <1>3, <1>4 DEF new

(* A URL that is new is on the new line only.                              *)
LEMMA AddedSingle ==
  ASSUME NEW text \in Seq(Line), Single(text), NEW u \in Urls, u \notin UrlsOf(text),
         NEW k \in 0 .. Len(text)
  PROVE  Single(WithLine(text, u, k))
<1> SUFFICES ASSUME NEW new, new = WithLine(text, u, k) PROVE Single(new)
  OBVIOUS
<1> DEFINE n == Len(text)
<1>1. /\ new \in Seq(Line) /\ Len(new) = n + 1
      /\ \A i \in 1 .. k : new[i] = text[i]
      /\ new[k + 1] = {u}
      /\ \A i \in k + 1 .. n : new[i + 1] = text[i]
  BY InsertedLine
<1>2. n \in Nat /\ k \in Nat /\ k <= n /\ DOMAIN text = 1 .. n
  OBVIOUS
<1>3. DOMAIN new = 1 .. n + 1
  BY <1>1
<1>4. \A i \in DOMAIN text : u \notin text[i]
  BY WikiDigestAssumption DEF UrlsOf
<1> HIDE DEF n
<1> DEFINE old(i) == IF i <= k THEN i ELSE i - 1
<1>5. ASSUME NEW i \in 1 .. n + 1, i # k + 1
      PROVE  old(i) \in 1 .. n /\ new[i] = text[old(i)]
  <2>1. CASE i <= k
    <3>1. i \in 1 .. k /\ i \in 1 .. n
      BY <1>2, <2>1
    <3> QED
      BY <1>1, <2>1, <3>1
  <2>2. CASE ~(i <= k)
    <3>1. i - 1 \in k + 1 .. n /\ i - 1 \in 1 .. n /\ (i - 1) + 1 = i
      BY <1>2, <1>5, <2>2
    <3>2. new[(i - 1) + 1] = text[i - 1]
      BY <1>1, <3>1
    <3> QED
      BY <2>2, <3>1, <3>2
  <2> QED
    BY <2>1, <2>2
<1>6. ASSUME NEW i \in 1 .. n + 1, NEW j \in 1 .. n + 1, i # k + 1, j # k + 1, old(i) = old(j)
      PROVE  i = j
  BY <1>2, <1>6
<1> HIDE DEF old
<1> SUFFICES ASSUME NEW v \in Urls \ Twins, NEW i \in 1 .. n + 1, NEW j \in 1 .. n + 1,
                    v \in new[i], v \in new[j]
             PROVE  i = j
  BY <1>3 DEF Single
<1>7. CASE v = u
  BY <1>2, <1>4, <1>5, <1>7
<1>8. CASE v # u
  <2>1. i # k + 1 /\ j # k + 1
    BY <1>1, <1>8
  <2>2. old(i) = old(j)
    BY <1>2, <1>5, <2>1 DEF Single
  <2> QED
    BY <1>6, <2>1, <2>2
<1> QED
  BY <1>7, <1>8

(* What the steps do to the memory of the digests.                         *)
LEMMA StayMemory ==
  ASSUME MemoryInv, UNCHANGED <<entries, handled, next, count>>, wanted \subseteq wanted',
         \A c \in Digests : pc'[c] = "idle" => pc[c] = "idle"
  PROVE  MemoryInv'
  BY DEF MemoryInv

LEMMA ForgetMemory ==
  ASSUME TypeOK, MemoryInv, NEW d \in Digests, Forget(d), UNCHANGED <<count, wanted>>
  PROVE  MemoryInv'
<1>1. /\ entries' = [entries EXCEPT ![d] = <<>>]
      /\ handled' = [handled EXCEPT ![d] = {}]
      /\ next' = [next EXCEPT ![d] = 1]
      /\ pc' = [pc EXCEPT ![d] = "idle"]
  BY DEF Forget, Goto
<1>2. entries'[d] = <<>> /\ handled'[d] = {}
  BY <1>1 DEF TypeOK
<1>3. ASSUME NEW c \in Digests, c # d
      PROVE  /\ entries'[c] = entries[c] /\ handled'[c] = handled[c]
             /\ next'[c] = next[c] /\ pc'[c] = pc[c]
  BY <1>1, <1>3 DEF TypeOK
<1>4. \A c \in Digests : pc'[c] = "idle" => entries'[c] = <<>> /\ handled'[c] = {}
  BY <1>2, <1>3 DEF MemoryInv
<1>5. \A c \in Digests : \A i, j \in DOMAIN entries'[c] :
        entries'[c][i] = entries'[c][j] => i = j
  BY <1>2, <1>3 DEF MemoryInv
<1>6. \A c \in Digests : \A h \in handled'[c] :
        \E i \in DOMAIN entries'[c] : i < next'[c] /\ entries'[c][i] = h
  BY <1>2, <1>3 DEF MemoryInv
<1>7. \A u \in Urls : count'[u] > 0 => u \in wanted'
  BY DEF MemoryInv
<1> QED
  BY <1>4, <1>5, <1>6, <1>7 DEF MemoryInv

LEMMA BeginMemory ==
  ASSUME TypeOK, MemoryInv, NEW d \in Digests, Begin(d)
  PROVE  MemoryInv'
<1>0. pc[d] = "idle" /\ UNCHANGED <<inbox, count, next, handled, copy, wanted>>
  BY DEF Begin, hist
<1>1. CASE UrlsOf(inbox) = {}
  BY <1>0, <1>1, StayMemory DEF Begin
<1>2. CASE UrlsOf(inbox) # {}
  <2>1. PICK es \in Parsed(inbox) :
          /\ entries' = [entries EXCEPT ![d] = es]
          /\ pc' = [pc EXCEPT ![d] = "prepare"]
    BY <1>2 DEF Begin, Goto
  <2>2. \A i, j \in DOMAIN es : es[i] = es[j] => i = j
    BY ParsedDistinct DEF TypeOK
  <2>3. entries'[d] = es /\ pc'[d] = "prepare" /\ handled'[d] = {}
    BY <1>0, <2>1 DEF TypeOK, MemoryInv
  <2>4. ASSUME NEW c \in Digests, c # d
        PROVE  /\ entries'[c] = entries[c] /\ handled'[c] = handled[c]
               /\ next'[c] = next[c] /\ pc'[c] = pc[c]
    BY <1>0, <2>1, <2>4 DEF TypeOK
  <2>5. \A c \in Digests : pc'[c] = "idle" => entries'[c] = <<>> /\ handled'[c] = {}
    BY <2>3, <2>4 DEF MemoryInv
  <2>6. \A c \in Digests : \A i, j \in DOMAIN entries'[c] :
          entries'[c][i] = entries'[c][j] => i = j
    BY <2>2, <2>3, <2>4 DEF MemoryInv
  <2>7. \A c \in Digests : \A h \in handled'[c] :
          \E i \in DOMAIN entries'[c] : i < next'[c] /\ entries'[c][i] = h
    BY <2>3, <2>4 DEF MemoryInv
  <2>8. \A u \in Urls : count'[u] > 0 => u \in wanted'
    BY <1>0 DEF MemoryInv
  <2> QED
    BY <2>5, <2>6, <2>7, <2>8 DEF MemoryInv
<1> QED
  BY <1>1, <1>2

LEMMA WriteMemory ==
  ASSUME IInv, MemoryInv, NEW d \in Digests, WriteNext(d)
  PROVE  MemoryInv'
<1> DEFINE k == next[d]
           e == entries[d][k]
<1>1. PICK o : Writing(d) /\ Written(d, o) /\ NextUrl(d) = e[2]
  BY WriteShape DEF NextUrl
<1>0. /\ pc[d] = "write" /\ k \in DOMAIN entries[d] /\ k \in Nat
      /\ next' = [next EXCEPT ![d] = @ + 1]
      /\ UNCHANGED <<pc, entries, wanted>>
  BY <1>1 DEF Writing, Written, IInv, TypeOK
<1>w. /\ count' = IF o.record THEN [count EXCEPT ![e[2]] = @ + 1] ELSE count
      /\ handled' = IF o.handled THEN [handled EXCEPT ![d] = @ \cup {e}] ELSE handled
  BY <1>1 DEF Written
<1>2. e[2] \in wanted
  BY <1>0 DEF IInv, WantedInv
<1>3. \A u \in Urls : count'[u] > 0 => u \in wanted'
  <2> HIDE DEF e, k
  <2> QED
    BY <1>0, <1>w, <1>2 DEF MemoryInv, IInv, TypeOK
<1>4. next'[d] = k + 1 /\ \A c \in Digests : c # d => next'[c] = next[c]
  BY <1>0 DEF IInv, TypeOK
<1>5. /\ \A h \in handled'[d] : h \in handled[d] \/ h = e
      /\ \A c \in Digests : c # d => handled'[c] = handled[c]
  <2> HIDE DEF e, k
  <2> QED
    BY <1>w DEF IInv, TypeOK
<1>6. ASSUME NEW h \in handled'[d]
      PROVE  \E i \in DOMAIN entries'[d] : i < next'[d] /\ entries'[d][i] = h
  <2>1. CASE h \in handled[d]
    <3>1. PICK i \in DOMAIN entries[d] : i < k /\ entries[d][i] = h
      BY <2>1 DEF MemoryInv
    <3>2. i \in Nat
      BY <3>1 DEF IInv, TypeOK
    <3>3. i < k + 1
      BY <1>0, <3>1, <3>2
    <3> HIDE DEF k
    <3> QED
      BY <1>0, <1>4, <3>1, <3>3
  <2>2. CASE h = e
    <3>1. k < k + 1
      BY <1>0
    <3> QED
      BY <1>0, <1>4, <2>2, <3>1
  <2> QED
    BY <1>5, <2>1, <2>2
<1> HIDE DEF e, k
<1>7. \A c \in Digests : \A h \in handled'[c] :
        \E i \in DOMAIN entries'[c] : i < next'[c] /\ entries'[c][i] = h
  <2> SUFFICES ASSUME NEW c \in Digests, NEW h \in handled'[c]
               PROVE  \E i \in DOMAIN entries'[c] : i < next'[c] /\ entries'[c][i] = h
    OBVIOUS
  <2>1. CASE c = d
    BY <1>6, <2>1
  <2>2. CASE c # d
    <3>1. h \in handled[c] /\ next'[c] = next[c] /\ entries'[c] = entries[c]
      BY <1>0, <1>4, <1>5, <2>2
    <3> QED
      BY <3>1 DEF MemoryInv
  <2> QED
    BY <2>1, <2>2
<1>8. \A c \in Digests : pc'[c] = "idle" => entries'[c] = <<>> /\ handled'[c] = {}
  BY <1>0, <1>5 DEF MemoryInv
<1>9. \A c \in Digests : \A i, j \in DOMAIN entries'[c] :
        entries'[c][i] = entries'[c][j] => i = j
  BY <1>0 DEF MemoryInv
<1> QED
  BY <1>3, <1>7, <1>8, <1>9 DEF MemoryInv

LEMMA MemoryStep ==
  ASSUME IInv, MemoryInv, [Next]_vars
  PROVE  MemoryInv'
<1> USE DEF IInv
<1>1. ASSUME NEW d \in Digests, Begin(d) PROVE MemoryInv'
  BY <1>1, BeginMemory
<1>2. ASSUME NEW d \in Digests, WriteNext(d) PROVE MemoryInv'
  BY <1>2, WriteMemory
<1>3. ASSUME NEW d \in Digests, Forget(d), UNCHANGED <<count, wanted>> PROVE MemoryInv'
  BY <1>3, ForgetMemory
<1>4. ASSUME NEW d \in Digests, NEW where \in {"write", "flush", "replace"}, Goto(d, where),
             UNCHANGED <<entries, handled, next, count, wanted>>
      PROVE  MemoryInv'
  <2>1. \A c \in Digests : pc'[c] = "idle" => pc[c] = "idle"
    BY <1>4 DEF Goto, TypeOK
  <2> QED
    BY <1>4, <2>1, StayMemory
<1>5. ASSUME NEW d \in Digests, Launch(d) \/ \E i \in DOMAIN prep[d] : Prepared(d, i)
      PROVE  MemoryInv'
  <2>1. UNCHANGED <<pc, entries, handled, next, count, wanted>>
    BY <1>5 DEF Launch, Prepared, hist
  <2> QED
    BY <2>1, StayMemory
<1>6. ASSUME NEW d \in Digests, AllPrepared(d) PROVE MemoryInv'
  BY <1>4, <1>6 DEF AllPrepared, local, hist
<1>7. ASSUME NEW d \in Digests, Report(d) PROVE MemoryInv'
  BY <1>3, <1>4, <1>7 DEF Report, local, hist
<1>8. ASSUME NEW d \in Digests, FlushRead(d) PROVE MemoryInv'
  BY <1>3, <1>4, <1>8 DEF FlushRead, hist
<1>9. ASSUME NEW d \in Digests, FlushWrite(d) PROVE MemoryInv'
  BY <1>3, <1>9 DEF FlushWrite, hist
<1>10. ASSUME NEW d \in Digests, Crash(d) PROVE MemoryInv'
  BY <1>3, <1>10 DEF Crash, hist
<1>13. ASSUME NEW c \in Commands, OpenPage(c) PROVE MemoryInv'
  BY <1>13, StayMemory DEF OpenPage
<1>14. ASSUME NEW a \in Adds, AddReplace(a) PROVE MemoryInv'
  BY <1>14, StayMemory DEF AddReplace, hist
<1>11. ASSUME NEW u \in Urls, NEW k \in 0 .. Len(inbox), UserAdds(u, k) PROVE MemoryInv'
  <2>1. UNCHANGED <<pc, entries, handled, next, count>> /\ wanted \subseteq wanted'
    BY <1>11 DEF UserAdds, local
  <2> QED
    BY <2>1, StayMemory
<1>12. CASE UNCHANGED vars
  <2>1. UNCHANGED <<pc, entries, handled, next, count, wanted>>
    BY <1>12 DEF vars, local, hist
  <2> QED
    BY <2>1, StayMemory
<1> QED
  BY <1>1, <1>2, <1>5, <1>6, <1>7, <1>8, <1>9, <1>10, <1>11, <1>12, <1>13, <1>14
     DEF Next, Step, Finished, WriteNext, PageRead, AddRead, Commands

(* What the steps do to the calm.                                          *)
LEMMA StayCalm ==
  ASSUME Calm, UNCHANGED <<inbox, count, entries, handled>>,
         \A c \in Digests : pc[c] = "idle" => pc'[c] = "idle",
         \A c \in Digests : pc'[c] = "replace" => copy'[c] = inbox
  PROVE  Calm'
<1> USE DEF Calm
<1>1. Alone' /\ CopiedNow'
  BY DEF Alone, CopiedNow
<1>2. FirstRefs(inbox)' = FirstRefs(inbox) /\ UrlsOf(inbox)' = UrlsOf(inbox)
  BY DEF FirstRefs, UrlsOf
<1>3. ParsedNow'
  BY <1>2 DEF ParsedNow
<1>4. Single(inbox)'
  BY DEF Single, Twins
<1>5. \A u : ToFlush(u) => ToFlush(u)'
  BY DEF ToFlush
<1>6. CountedOnce'
  BY <1>2, <1>5 DEF CountedOnce, Twins
<1> QED
  BY <1>1, <1>3, <1>4, <1>6

LEMMA ForgetCalm ==
  ASSUME TypeOK, Calm, NEW d \in Digests, Forget(d), UNCHANGED <<inbox, count>>,
         handled[d] = {} \/ d \in DryRun
  PROVE  Calm'
<1> USE DEF Calm
<1>1. /\ entries'[d] = <<>> /\ handled'[d] = {} /\ pc'[d] = "idle"
      /\ \A c \in Digests : c # d => /\ entries'[c] = entries[c] /\ handled'[c] = handled[c]
                                     /\ pc'[c] = pc[c] /\ copy'[c] = copy[c]
  BY DEF Forget, Goto, TypeOK
<1>2. Alone'
  <2> SUFFICES ASSUME NEW b \in Digests, NEW c \in Digests, pc'[b] # "idle", pc'[c] # "idle"
               PROVE  b = c
    BY DEF Alone
  <2> QED
    BY <1>1 DEF Alone
<1>3. CopiedNow'
  BY <1>1 DEF CopiedNow
<1>4. FirstRefs(inbox)' = FirstRefs(inbox) /\ UrlsOf(inbox)' = UrlsOf(inbox)
  BY DEF FirstRefs, UrlsOf
<1>5. ParsedNow'
  BY <1>1, <1>4 DEF ParsedNow
<1>6. Single(inbox)'
  BY DEF Single, Twins
<1>7. ASSUME NEW u, ToFlush(u) PROVE ToFlush(u)'
  <2>1. PICK c \in Digests \ DryRun, i \in Nat : <<i, u>> \in handled[c]
    BY <1>7 DEF ToFlush
  <2>2. handled'[c] = handled[c]
    BY <1>1, <2>1
  <2> QED
    BY <2>1, <2>2 DEF ToFlush
<1>8. CountedOnce'
  BY <1>4, <1>7 DEF CountedOnce, Twins
<1> QED
  BY <1>2, <1>3, <1>5, <1>6, <1>8

LEMMA BeginCalm ==
  ASSUME TypeOK, MemoryInv, Calm, NEW d \in Digests, Begin(d), Running = {}
  PROVE  Calm'
<1> USE DEF Calm
<1>0. /\ UNCHANGED <<inbox, count, handled, copy>>
      /\ \A c \in Digests : pc[c] = "idle"
  BY DEF Begin, Running, hist
<1>1. CASE UrlsOf(inbox) = {}
  <2>1. UNCHANGED <<pc, entries>>
    BY <1>1 DEF Begin
  <2>2. \A c \in Digests : pc'[c] = "replace" => copy'[c] = inbox
    BY <1>0, <2>1
  <2> QED
    BY <1>0, <2>1, <2>2, StayCalm
<1>2. CASE UrlsOf(inbox) # {}
  <2>1. PICK es \in Parsed(inbox) :
          /\ entries' = [entries EXCEPT ![d] = es]
          /\ pc' = [pc EXCEPT ![d] = "prepare"]
    BY <1>2 DEF Begin, Goto
  <2>2. \A i \in DOMAIN es : es[i] \in FirstRefs(inbox)
    BY ParsedDistinct DEF TypeOK
  <2>3. /\ entries'[d] = es /\ pc'[d] = "prepare"
        /\ \A c \in Digests : c # d => entries'[c] = entries[c] /\ pc'[c] = "idle"
    BY <1>0, <2>1 DEF TypeOK
  <2>4. Alone' /\ CopiedNow'
    BY <2>3 DEF Alone, CopiedNow
  <2>5. FirstRefs(inbox)' = FirstRefs(inbox) /\ UrlsOf(inbox)' = UrlsOf(inbox)
    BY <1>0 DEF FirstRefs, UrlsOf
  <2>6. ParsedNow'
    <3> SUFFICES ASSUME NEW c \in Digests, NEW i \in DOMAIN entries'[c]
                 PROVE  entries'[c][i] \in FirstRefs(inbox)
      BY <2>5 DEF ParsedNow
    <3> QED
      BY <2>2, <2>3 DEF ParsedNow
  <2>7. Single(inbox)'
    BY <1>0 DEF Single, Twins
  <2>8. \A u : ToFlush(u) => ToFlush(u)'
    BY <1>0 DEF ToFlush
  <2>9. CountedOnce'
    BY <1>0, <2>5, <2>8 DEF CountedOnce, Twins
  <2> QED
    BY <2>4, <2>6, <2>7, <2>9
<1> QED
  BY <1>1, <1>2

(* The URL a digest is about to record has no record yet.                  *)
LEMMA NextIsNew ==
  ASSUME TypeOK, MemoryInv, Calm, NEW d \in Digests, pc[d] = "write",
         next[d] \in DOMAIN entries[d], entries[d][next[d]][2] \notin Twins
  PROVE  count[entries[d][next[d]][2]] = 0
<1> USE DEF Calm
<1> DEFINE k == next[d]
           u == entries[d][k][2]
<1>1. entries[d][k] \in Refs /\ k \in Nat /\ u \in Urls
  BY DEF TypeOK, Refs
<1>2. entries[d][k] = <<entries[d][k][1], u>>
  BY <1>1 DEF Refs
<1>3. <<entries[d][k][1], u>> \in FirstRefs(inbox)
  BY <1>2 DEF ParsedNow
<1>4. u \in UrlsOf(inbox)
  BY <1>3 DEF FirstRefs
<1>5. count[u] \in Nat
  BY <1>1 DEF TypeOK
<1> SUFFICES ASSUME count[u] > 0 PROVE FALSE
  BY <1>5
<1>6. u \in Urls \ Twins
  BY <1>1
<1> HIDE DEF u, k
<1>7. ToFlush(u)
  BY <1>4, <1>6 DEF CountedOnce
<1>8. PICK c \in Digests \ DryRun, i \in Nat : <<i, u>> \in handled[c]
  BY <1>7 DEF ToFlush
<1>9. pc[c] # "idle"
  BY <1>8 DEF MemoryInv
<1>10. c = d
  BY <1>9 DEF Alone
<1>11. PICK j \in DOMAIN entries[d] : j < next[d] /\ entries[d][j] = <<i, u>>
  BY <1>8, <1>10 DEF MemoryInv
<1>12. <<i, u>> \in FirstRefs(inbox)
  BY <1>11 DEF ParsedNow
<1>13. i = entries[d][k][1]
  BY <1>3, <1>12, FirstLine DEF TypeOK
<1>14. entries[d][j] = entries[d][k]
  BY <1>2, <1>11, <1>13
<1>15. j = k
  BY <1>11, <1>14 DEF MemoryInv, k
<1> QED
  BY <1>1, <1>11, <1>15 DEF k

LEMMA WriteCalm ==
  ASSUME IInv, MemoryInv, Calm, NEW d \in Digests, WriteNext(d), ~disturbed'
  PROVE  Calm'
<1> USE DEF Calm, IInv
<1>a. PICK o : Writing(d) /\ Written(d, o) /\ (o.record => d \notin DryRun)
  BY WriteShape
<1>0. /\ pc[d] = "write" /\ next[d] \in DOMAIN entries[d]
      /\ UNCHANGED <<pc, entries, copy, inbox>>
  BY <1>a DEF Writing, Written
<1>e. PICK e \in Refs : e = entries[d][next[d]]
  BY <1>0 DEF TypeOK
<1>1. /\ count' = IF o.record THEN [count EXCEPT ![e[2]] = @ + 1] ELSE count
      /\ handled' = IF o.handled THEN [handled EXCEPT ![d] = @ \cup {e}] ELSE handled
      /\ disturbed' = (disturbed \/ (o.record /\ ~o.handled))
  BY <1>a, <1>e DEF Written, NextUrl
<1>2. e[1] \in Nat /\ e[2] \in Urls /\ e = <<e[1], e[2]>>
  BY DEF Refs
<1>3. e[2] \in Twins \/ count[e[2]] = 0
  BY <1>0, <1>e, NextIsNew
<1>4. ~(o.record /\ ~o.handled)
  BY <1>1, Zenon
<1>5. Alone' /\ CopiedNow'
  BY <1>0 DEF Alone, CopiedNow
<1>6. FirstRefs(inbox)' = FirstRefs(inbox) /\ UrlsOf(inbox)' = UrlsOf(inbox)
  BY <1>0 DEF FirstRefs, UrlsOf
<1>7. ParsedNow'
  BY <1>0, <1>6 DEF ParsedNow
<1>8. Single(inbox)'
  BY <1>0 DEF Single, Twins
<1>9. \A c \in Digests : handled[c] \subseteq handled'[c]
  BY <1>1 DEF TypeOK
<1>10. \A u : ToFlush(u) => ToFlush(u)'
  BY <1>9 DEF ToFlush
<1>11. CASE ~o.record
  <2>1. count' = count
    BY <1>1, <1>11
  <2>2. CountedOnce'
    BY <1>6, <1>10, <2>1 DEF CountedOnce, Twins
  <2> QED
    BY <1>5, <1>7, <1>8, <2>2
<1>12. CASE o.record
  <2>1. count' = [count EXCEPT ![e[2]] = @ + 1]
    BY <1>1, <1>12
  <2>2. o.handled
    BY <1>4, <1>12
  <2>3. d \notin DryRun
    BY <1>a, <1>12
  <2>4. e \in handled'[d]
    BY <1>1, <2>2 DEF TypeOK
  <2>5. ToFlush(e[2])'
    <3>1. <<e[1], e[2]>> \in handled'[d]
      BY <1>2, <2>4
    <3> QED
      BY <1>2, <2>3, <3>1 DEF ToFlush
  <2>6. ASSUME NEW u \in Urls \ Twins
        PROVE  count'[u] <= 1 /\ (count'[u] > 0 => u \notin UrlsOf(inbox)' \/ ToFlush(u)')
    <3>1. CASE u = e[2]
      <4>1. count[u] = 0
        BY <1>3, <3>1
      <4>2. count'[u] = 1
        BY <1>2, <2>1, <3>1, <4>1 DEF TypeOK
      <4> QED
        BY <2>5, <3>1, <4>2
    <3>2. CASE u # e[2]
      <4>1. count'[u] = count[u]
        BY <2>1, <3>2 DEF TypeOK
      <4> QED
        BY <1>6, <1>10, <4>1 DEF CountedOnce
    <3> QED
      BY <3>1, <3>2
  <2>7. CountedOnce'
    BY <2>6 DEF CountedOnce, Twins
  <2> QED
    BY <1>5, <1>7, <1>8, <2>7
<1> QED
  BY <1>11, <1>12

LEMMA FlushCalm ==
  ASSUME IInv, MemoryInv, Calm, NEW d \in Digests, pc[d] = "replace",
         NEW f \in Numberings(KeptLines(d)), inbox' = FlushedInbox(d, f),
         Forget(d), UNCHANGED count
  PROVE  Calm'
<1> USE DEF Calm, IInv
<1>1. copy[d] = inbox /\ copy[d] \in Seq(Line) /\ d \notin DryRun
  BY DEF CopiedNow, TypeOK, DryInv
<1>2. \A h \in handled[d] : h \in FirstRefs(inbox)
  BY DEF MemoryInv, ParsedNow
<1>3. /\ Single(FlushedInbox(d, f))
      /\ \A u \in Urls \ Twins : \A i : <<i, u>> \in handled[d] => u \notin UrlsOf(FlushedInbox(d, f))
  BY <1>1, <1>2, FlushOnce
<1>4. UrlsOf(FlushedInbox(d, f)) \subseteq UrlsOf(inbox)
  BY <1>1, FlushResult
<1>5. \A c \in Digests : c # d => pc[c] = "idle"
  BY DEF Alone
<1>6. \A c \in Digests : pc'[c] = "idle" /\ entries'[c] = <<>>
  BY <1>5 DEF Forget, Goto, TypeOK, MemoryInv
<1>7. Alone' /\ CopiedNow' /\ ParsedNow'
  BY <1>6 DEF Alone, CopiedNow, ParsedNow
<1>8. Single(inbox)'
  BY <1>3 DEF Single, Twins
<1>9. UrlsOf(inbox)' = UrlsOf(FlushedInbox(d, f))
  OBVIOUS
<1>10. ASSUME NEW u \in Urls \ Twins
       PROVE  count[u] <= 1 /\ (count[u] > 0 => u \notin UrlsOf(FlushedInbox(d, f)))
  <2>1. count[u] <= 1 /\ (count[u] > 0 => u \notin UrlsOf(inbox) \/ ToFlush(u))
    BY DEF CountedOnce
  <2>2. ASSUME ToFlush(u) PROVE u \notin UrlsOf(FlushedInbox(d, f))
    <3>1. PICK c \in Digests \ DryRun, i \in Nat : <<i, u>> \in handled[c]
      BY <2>2 DEF ToFlush
    <3>2. pc[c] # "idle"
      BY <3>1 DEF MemoryInv
    <3>3. c = d
      BY <1>5, <3>2
    <3> QED
      BY <1>3, <3>1, <3>3
  <2> QED
    BY <1>4, <2>1, <2>2
<1>11. CountedOnce'
  BY <1>9, <1>10 DEF CountedOnce, Twins
<1> QED
  BY <1>7, <1>8, <1>11

LEMMA AddCalm ==
  ASSUME IInv, MemoryInv, Calm, NEW u \in Urls, NEW k \in 0 .. Len(inbox),
         UserAdds(u, k), Running = {}
  PROVE  Calm'
<1> USE DEF Calm, IInv
<1>0. /\ u \notin wanted /\ inbox' = WithLine(inbox, u, k)
      /\ UNCHANGED <<count, pc, entries, handled, copy>>
      /\ \A c \in Digests : pc[c] = "idle"
  BY DEF UserAdds, local, Running
<1>1. inbox \in Seq(Line) /\ u \notin UrlsOf(inbox)
  BY <1>0 DEF TypeOK, WantedInv
<1>2. Alone' /\ CopiedNow' /\ ParsedNow'
  BY <1>0 DEF Alone, CopiedNow, ParsedNow, MemoryInv
<1>3. Single(WithLine(inbox, u, k))
  BY <1>1, AddedSingle
<1>4. Single(inbox)'
  BY <1>0, <1>3 DEF Single, Twins
<1>5. UrlsOf(WithLine(inbox, u, k)) = UrlsOf(inbox) \cup {u}
  BY <1>1, WithLineUrls
<1>6. UrlsOf(inbox)' = UrlsOf(inbox) \cup {u}
  BY <1>0, <1>5
<1>7. count[u] = 0
  <2>1. ~(count[u] > 0) /\ count[u] \in Nat
    BY <1>0 DEF MemoryInv, TypeOK
  <2> QED
    BY <2>1
<1>8. \A v : ToFlush(v) => ToFlush(v)'
  BY <1>0 DEF ToFlush
<1>9. CountedOnce'
  <2> SUFFICES ASSUME NEW v \in Urls \ Twins
               PROVE  count'[v] <= 1 /\ (count'[v] > 0 => v \notin UrlsOf(inbox)' \/ ToFlush(v)')
    BY DEF CountedOnce, Twins
  <2>1. CASE v = u
    BY <1>0, <1>7, <2>1
  <2>2. CASE v # u
    BY <1>0, <1>6, <1>8, <2>2 DEF CountedOnce
  <2> QED
    BY <2>1, <2>2
<1> QED
  BY <1>2, <1>4, <1>9

LEMMA CalmStep ==
  ASSUME IInv, MemoryInv, Calm, ~disturbed', [Next]_vars
  PROVE  Calm'
<1> USE DEF IInv
<1>1. ASSUME NEW d \in Digests, Begin(d) PROVE Calm'
  <2>1. Running = {}
    <3>1. disturbed' = (disturbed \/ Running # {})
      BY <1>1 DEF Begin
    <3> QED
      BY <3>1, Zenon
  <2> QED
    BY <1>1, <2>1, BeginCalm
<1>2. ASSUME NEW d \in Digests, WriteNext(d) PROVE Calm'
  BY <1>2, WriteCalm
<1>3. ASSUME NEW d \in Digests, NEW where \in {"write", "flush"}, pc[d] # "idle",
             Goto(d, where), UNCHANGED <<inbox, count, entries, handled, copy>>
      PROVE  Calm'
  <2>1. \A c \in Digests : pc[c] = "idle" => pc'[c] = "idle"
    BY <1>3 DEF Goto, TypeOK
  <2>2. \A c \in Digests : pc'[c] = "replace" => copy'[c] = inbox
    BY <1>3 DEF Goto, TypeOK, Calm, CopiedNow
  <2> QED
    BY <1>3, <2>1, <2>2, StayCalm
<1>4. ASSUME UNCHANGED <<inbox, count, pc, entries, handled, copy>> PROVE Calm'
  <2>1. \A c \in Digests : pc'[c] = "replace" => copy'[c] = inbox
    BY <1>4 DEF Calm, CopiedNow
  <2> QED
    BY <1>4, <2>1, StayCalm
<1>5. ASSUME NEW d \in Digests, Launch(d) \/ \E i \in DOMAIN prep[d] : Prepared(d, i)
      PROVE  Calm'
  BY <1>4, <1>5 DEF Launch, Prepared, hist
<1>6. ASSUME NEW d \in Digests, AllPrepared(d) PROVE Calm'
  BY <1>3, <1>6 DEF AllPrepared, local, hist
<1>7. ASSUME NEW d \in Digests, Report(d) PROVE Calm'
  <2>1. CASE handled[d] = {} \/ d \in DryRun
    BY <1>7, <2>1, ForgetCalm DEF Report, hist
  <2>2. CASE ~(handled[d] = {} \/ d \in DryRun)
    BY <1>3, <1>7, <2>2 DEF Report, local, hist
  <2> QED
    BY <2>1, <2>2
<1>8. ASSUME NEW d \in Digests, FlushRead(d) PROVE Calm'
  <2>1. /\ copy' = [copy EXCEPT ![d] = inbox]
        /\ pc' = [pc EXCEPT ![d] = "replace"] /\ pc[d] = "flush"
        /\ UNCHANGED <<inbox, count, entries, handled>>
    BY <1>8 DEF FlushRead, Goto, hist
  <2>2. \A c \in Digests : pc[c] = "idle" => pc'[c] = "idle"
    BY <2>1 DEF TypeOK
  <2>3. \A c \in Digests : pc'[c] = "replace" => copy'[c] = inbox
    BY <2>1 DEF TypeOK, Calm, CopiedNow
  <2> QED
    BY <2>1, <2>2, <2>3, StayCalm
<1>9. ASSUME NEW d \in Digests, FlushWrite(d) PROVE Calm'
  <2>1. PICK f \in Numberings(KeptLines(d)) : inbox' = FlushedInbox(d, f)
    BY <1>9 DEF FlushWrite
  <2> QED
    BY <1>9, <2>1, FlushCalm DEF FlushWrite, hist
<1>10. ASSUME NEW d \in Digests, Crash(d) PROVE Calm'
  <2>1. handled[d] = {}
    <3>1. disturbed' = (disturbed \/ handled[d] # {})
      BY <1>10 DEF Crash
    <3> QED
      BY <3>1, Zenon
  <2> QED
    BY <1>10, <2>1, ForgetCalm DEF Crash, hist
<1>11. ASSUME NEW u \in Urls, NEW k \in 0 .. Len(inbox), UserAdds(u, k) PROVE Calm'
  <2>1. Running = {}
    <3>1. disturbed' = (disturbed \/ Running # {})
      BY <1>11 DEF UserAdds
    <3> QED
      BY <3>1, Zenon
  <2> QED
    BY <1>11, <2>1, AddCalm
<1>12. CASE UNCHANGED vars
  BY <1>4, <1>12 DEF vars, local, hist
<1>13. ASSUME NEW c \in Commands, OpenPage(c) PROVE Calm'
  BY <1>4, <1>13 DEF OpenPage
<1>14. ASSUME NEW a \in Adds, AddReplace(a) PROVE Calm'
  BY <1>4, <1>14 DEF AddReplace, hist
<1> QED
  BY <1>1, <1>2, <1>5, <1>6, <1>7, <1>8, <1>9, <1>10, <1>11, <1>12, <1>13, <1>14
     DEF Next, Step, Finished, WriteNext, PageRead, AddRead, Commands

(* What was disturbed stays so.                                            *)
LEMMA DisturbedStays ==
  ASSUME [Next]_vars, disturbed
  PROVE  disturbed'
<1>1. ASSUME NEW d \in Digests, Begin(d) PROVE disturbed'
  BY <1>1, Zenon DEF Begin
<1>2. ASSUME NEW d \in Digests, WriteNext(d) PROVE disturbed'
  <2>1. PICK o : disturbed' = (disturbed \/ (o.record /\ ~o.handled))
    BY <1>2, Zenon DEF WriteNext, DryWrite, LogWrite, PageReplace, Written
  <2> QED
    BY <2>1, Zenon
<1>3. ASSUME NEW d \in Digests,
             \/ Launch(d) \/ AllPrepared(d) \/ Report(d)
             \/ \E i \in DOMAIN prep[d] : Prepared(d, i)
      PROVE  disturbed'
  BY <1>3, Zenon DEF Launch, AllPrepared, Report, Prepared
<1>4. ASSUME NEW d \in Digests, FlushRead(d) PROVE disturbed'
  BY <1>4, Zenon DEF FlushRead
<1>5. ASSUME NEW d \in Digests, FlushWrite(d) PROVE disturbed'
  BY <1>5, Zenon DEF FlushWrite
<1>6. ASSUME NEW d \in Digests, Crash(d) PROVE disturbed'
  BY <1>6, Zenon DEF Crash
<1>7. ASSUME NEW u \in Urls, NEW k \in 0 .. Len(inbox), UserAdds(u, k) PROVE disturbed'
  BY <1>7, Zenon DEF UserAdds
<1>8. CASE UNCHANGED vars
  BY <1>8, Zenon DEF vars
<1>9. ASSUME NEW c \in Commands, OpenPage(c) PROVE disturbed'
  BY <1>9, Zenon DEF OpenPage
<1>10. ASSUME NEW a \in Adds, AddReplace(a) PROVE disturbed'
  BY <1>10, Zenon DEF AddReplace
<1> QED
  BY <1>1, <1>2, <1>3, <1>4, <1>5, <1>6, <1>7, <1>8, <1>9, <1>10
     DEF Next, Step, Finished, WriteNext, PageRead, AddRead, Commands

(* As long as nothing goes wrong between a record and its flush, and no    *)
(* edit and no other digest shifts the lines meanwhile, a URL on one line  *)
(* gets one record: ParseInbox, writePendingURL, FlushInbox.               *)
THEOREM RecordedOnce == Spec => []OnceUnlessDisturbed
<1> DEFINE OInv == MemoryInv /\ (disturbed \/ Calm)
<1>1. Init => OInv
  BY InitOnce
<1>2. IInv /\ OInv /\ [Next]_vars => OInv'
  <2> SUFFICES ASSUME IInv, MemoryInv, disturbed \/ Calm, [Next]_vars
               PROVE  MemoryInv' /\ (disturbed' \/ Calm')
    OBVIOUS
  <2>1. MemoryInv'
    BY MemoryStep
  <2>2. CASE disturbed
    BY <2>1, <2>2, DisturbedStays
  <2>3. CASE Calm
    BY <2>1, <2>3, CalmStep
  <2> QED
    BY <2>2, <2>3
<1>3. OInv => OnceUnlessDisturbed
  BY DEF OnceUnlessDisturbed, Calm, CountedOnce
<1>4. Spec => []OInv
  <2> HIDE DEF OInv
  <2> QED
    BY <1>1, <1>2, InvariantHolds, PTL DEF Spec
<1> QED
  BY <1>3, <1>4, PTL
=============================================================================
