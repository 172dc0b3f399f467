------------------------- MODULE LinearReportsProofs -------------------------
(***************************************************************************)
(* Proofs about LinearReports, for any number of issues, moves, runs and   *)
(* any page size: the token of the shared client, and what the two lists   *)
(* of an evening report have in common.                                    *)
(***************************************************************************)
EXTENDS LinearReports, FiniteSetTheorems, TLAPS

ServerOK ==
  /\ now \in Nat /\ now >= 24
  /\ type \in [All -> Types]
  /\ done \in [All -> Int]
  /\ updated \in [All -> Int]

ProcessOK ==
  /\ begun \in Nat /\ begun <= now
  /\ since \in Nat
  /\ step \in [Queries -> {"off", "client", "wrap", "send"}]
  /\ answer = [q \in Queries |-> answer[q]]

\* A request is only about to be sent once the transport is wrapped.
TokenInv ==
  /\ \A q \in Queries : step[q] = "send" => pc = "query" /\ transport = "auth"
  /\ ~bare

\* completedAt is that of the state completed.
DoneInv == \A i \in All : done[i] >= 0 => type[i] = "completed"

\* What a query has found is still so, or the issue has moved since.
AnswerInv ==
  /\ pc = "idle" => answer["completed"] = {} /\ answer["progress"] = {}
  /\ answer["completed"] \subseteq All
  /\ \A i \in answer["completed"] : type[i] = "completed" \/ updated[i] >= begun
  /\ \A i \in answer["progress"] \cap All : type[i] = "started" \/ updated[i] >= begun

IInv == ServerOK /\ ProcessOK /\ TokenInv /\ DoneInv /\ AnswerInv

-----------------------------------------------------------------------------
LEMMA HoursLate ==
  ASSUME NEW t \in Hours
  PROVE  t \in Nat /\ t >= 24
  BY LinearAssumption DEF LinearAssumption

(* The report is on a day: it begins at a midnight.                        *)
LEMMA DayStart ==
  ASSUME now \in Nat, now >= 24
  PROVE  StartOfYesterday \in Nat
  BY DEF StartOfYesterday

LEMMA CompletedFound ==
  ASSUME NEW i \in Result("completed")
  PROVE  i \in All /\ done[i] >= since
<1>1. i \in FirstPage(CompletedSince)
  BY DEF Result, Top
<1> QED
  BY <1>1 DEF FirstPage, All, CompletedSince

LEMMA ProgressFound ==
  ASSUME NEW i \in Result("progress")
  PROVE  i \in All /\ type[i] = "started"
<1>1. i \in FirstPage(Started)
  BY DEF Result, Top
<1> QED
  BY <1>1 DEF FirstPage, All, Started

-----------------------------------------------------------------------------
LEMMA InitInv == Init => IInv
<1> SUFFICES ASSUME Init PROVE IInv
  OBVIOUS
<1>1. now \in Nat /\ now >= 24
  BY HoursLate DEF Init
<1>2. ServerOK
  BY <1>1 DEF Init, ServerOK, Types
<1>3. ProcessOK
  BY <1>1 DEF Init, ProcessOK, Quiet, NoAnswer
<1>4. TokenInv
  BY DEF Init, TokenInv, Quiet
<1>5. DoneInv
  BY DEF Init, DoneInv
<1>6. AnswerInv
  BY DEF Init, AnswerInv, NoAnswer, Queries
<1> QED
  BY <1>2, <1>3, <1>4, <1>5, <1>6 DEF IInv

(* Time passes, and the user works.                                        *)
LEMMA ServerStep ==
  ASSUME IInv, Tick \/ Move
  PROVE  IInv'
<1> USE DEF IInv
<1>1. CASE Tick
  <2>1. now' \in Nat /\ now' >= now
    BY <1>1, HoursLate DEF Tick, ServerOK
  <2> QED
    BY <1>1, <2>1 DEF Tick, server, process, ServerOK, ProcessOK, TokenInv, DoneInv, AnswerInv
<1>2. CASE Move
  <2> PICK i \in All, t \in Types :
         /\ type' = [type EXCEPT ![i] = t]
         /\ done' = [done EXCEPT ![i] = IF t = "completed" THEN now ELSE -1]
         /\ updated' = [updated EXCEPT ![i] = now]
    BY <1>2 DEF Move
  <2>0. UNCHANGED <<now, process>>
    BY <1>2 DEF Move
  <2>1. ServerOK'
    BY <2>0 DEF ServerOK
  <2>2. ProcessOK' /\ TokenInv'
    BY <2>0 DEF process, ProcessOK, TokenInv
  <2>3. DoneInv'
    BY DEF DoneInv, ServerOK
  <2>4. \A j \in All : \/ type'[j] = type[j] /\ updated'[j] = updated[j]
                       \/ updated'[j] >= begun
    BY DEF ServerOK, ProcessOK
  <2>5. AnswerInv'
    BY <2>0, <2>4 DEF AnswerInv, process
  <2> QED
    BY <2>1, <2>2, <2>3, <2>5
<1> QED
  BY <1>1, <1>2

(* A run begins.                                                           *)
LEMMA BeginStep ==
  ASSUME IInv, Morning \/ Evening
  PROVE  IInv'
<1> USE DEF IInv
<1>0. /\ pc = "idle" /\ begun' = now /\ UNCHANGED <<now, server, bare, answer>>
      /\ pc' \in {"active", "query"}
  BY DEF Morning, Evening, Begin
<1>1. \A q \in Queries : step[q] # "send"
  BY <1>0 DEF TokenInv
<1>2. since' \in Nat /\ step' \in [Queries -> {"off", "client", "wrap", "send"}]
      /\ \A q \in Queries : step'[q] # "send"
  <2>1. CASE Morning
    BY <1>1, <2>1 DEF Morning, ProcessOK
  <2>2. CASE Evening
    BY <2>2, DayStart DEF Evening, ServerOK
  <2> QED
    BY <2>1, <2>2
<1>3. ServerOK' /\ DoneInv'
  BY <1>0 DEF ServerOK, DoneInv, server
<1>4. ProcessOK'
  BY <1>0, <1>2 DEF ProcessOK, ServerOK
<1>5. TokenInv'
  BY <1>0, <1>2 DEF TokenInv
<1>6. AnswerInv'
  BY <1>0 DEF AnswerInv, server
<1> QED
  BY <1>3, <1>4, <1>5, <1>6

(* Four goroutines wrap the transport and send.                            *)
LEMMA WrapStep ==
  ASSUME IInv, NEW q \in Queries, Wrap(q)
  PROVE  IInv'
<1> USE DEF IInv
<1>0. /\ pc = "query" /\ UNCHANGED <<now, server, pc, begun, since, bare, answer>>
  BY DEF Wrap
<1>1. ServerOK' /\ DoneInv' /\ AnswerInv'
  BY <1>0 DEF ServerOK, DoneInv, AnswerInv, server
<1>2. \/ /\ step[q] = "client" /\ step' = [step EXCEPT ![q] = "wrap"]
         /\ transport = "auth" => transport' = "auth"
      \/ step' = [step EXCEPT ![q] = "send"] /\ transport' = "auth"
  BY DEF Wrap
<1>3. ProcessOK'
  BY <1>0, <1>2 DEF ProcessOK
<1>4. TokenInv'
  BY <1>0, <1>2 DEF TokenInv, ProcessOK
<1> QED
  BY <1>1, <1>3, <1>4

LEMMA QueryStep ==
  ASSUME IInv, NEW q \in Queries, Query(q)
  PROVE  IInv'
<1> USE DEF IInv
<1>0. /\ pc = "query" /\ step[q] = "send"
      /\ step' = [step EXCEPT ![q] = "off"]
      /\ UNCHANGED <<now, server, pc, begun, since, transport>>
      /\ answer' = [answer EXCEPT ![q] = Result(q)] \/ answer' = answer
  BY DEF Query
<1>1. ServerOK' /\ DoneInv'
  BY <1>0 DEF ServerOK, DoneInv, server
<1>2. ~bare'
  BY <1>0 DEF Query, TokenInv
<1>3. TokenInv'
  BY <1>0, <1>2 DEF TokenInv, ProcessOK
<1>4. ProcessOK'
  BY <1>0 DEF ProcessOK
<1>5. \A i \in answer'["completed"] : i \in answer["completed"] \/ i \in Result("completed")
  <2>1. CASE q = "completed"
    BY <1>0, <2>1 DEF ProcessOK
  <2>2. CASE q # "completed"
    BY <1>0, <2>2 DEF ProcessOK, Queries
  <2> QED
    BY <2>1, <2>2
<1>6. \A i \in answer'["progress"] : i \in answer["progress"] \/ i \in Result("progress")
  <2>1. CASE q = "progress"
    BY <1>0, <2>1 DEF ProcessOK
  <2>2. CASE q # "progress"
    BY <1>0, <2>2 DEF ProcessOK, Queries
  <2> QED
    BY <2>1, <2>2
<1>7. \A i \in Result("completed") : i \in All /\ type[i] = "completed"
  <2> TAKE i \in Result("completed")
  <2>1. i \in All /\ done[i] >= since
    BY CompletedFound
  <2> QED
    BY <2>1 DEF DoneInv, ProcessOK, ServerOK
<1>8. AnswerInv'
  BY <1>0, <1>5, <1>6, <1>7, ProgressFound DEF AnswerInv, server
<1> QED
  BY <1>1, <1>3, <1>4, <1>8

(* The other steps of a run leave no query about to be sent, and the two   *)
(* lists as they are or empty.                                             *)
LEMMA OtherStep ==
  ASSUME IInv, ActiveIssues \/ Panic \/ Joined \/ Plan \/ Send \/ Exit
  PROVE  IInv'
<1> USE DEF IInv
<1>1. UNCHANGED <<now, server, bare>>
  BY DEF ActiveIssues, Panic, Joined, Plan, Send, Exit
<1>2. ServerOK' /\ DoneInv'
  BY <1>1 DEF ServerOK, DoneInv, server
<1>3. CASE ActiveIssues
  <2>1. /\ pc = "active" /\ pc' \in {"empty", "plan", "over"}
        /\ UNCHANGED <<begun, since, step, transport>>
    BY <1>3 DEF ActiveIssues
  <2>2. answer' = answer \/ \E S : answer' = [answer EXCEPT !["details"] = S]
    BY <1>3 DEF ActiveIssues
  <2>3. answer'["completed"] = answer["completed"] /\ answer'["progress"] = answer["progress"]
    BY <2>2 DEF ProcessOK, Queries
  <2>4. ProcessOK'
    BY <1>1, <2>1, <2>2 DEF ProcessOK
  <2>5. TokenInv'
    BY <1>1, <2>1 DEF TokenInv
  <2>6. AnswerInv'
    BY <1>1, <2>1, <2>3 DEF AnswerInv, server
  <2> QED
    BY <1>2, <2>4, <2>5, <2>6
<1>4. CASE Panic \/ Joined
  <2>1. /\ pc' \in {"empty", "plan", "over"} /\ step' = Quiet
        /\ UNCHANGED <<begun, since, transport, answer>>
    BY <1>4 DEF Panic, Joined
  <2>2. ProcessOK'
    BY <1>1, <2>1 DEF ProcessOK, Quiet
  <2>3. TokenInv' /\ AnswerInv'
    BY <1>1, <2>1 DEF TokenInv, AnswerInv, Quiet, server
  <2> QED
    BY <1>2, <2>2, <2>3
<1>5. CASE Plan \/ Send
  <2>1. /\ pc # "query" /\ pc' \in {"send", "over"}
        /\ UNCHANGED <<begun, since, step, transport, answer>>
    BY <1>5 DEF Plan, Send
  <2>2. ProcessOK' /\ TokenInv' /\ AnswerInv'
    BY <1>1, <2>1 DEF ProcessOK, TokenInv, AnswerInv, server
  <2> QED
    BY <1>2, <2>2
<1>6. CASE Exit
  <2>1. begun' = 0 /\ since' = 0 /\ step' = Quiet /\ answer' = NoAnswer
    BY <1>6 DEF Exit
  <2>2. ProcessOK'
    BY <1>1, <2>1 DEF ProcessOK, ServerOK, Quiet, NoAnswer
  <2>3. TokenInv' /\ AnswerInv'
    BY <1>1, <2>1 DEF TokenInv, AnswerInv, Quiet, NoAnswer, Queries
  <2> QED
    BY <1>2, <2>2, <2>3
<1> QED
  BY <1>3, <1>4, <1>5, <1>6

LEMMA NextInv == IInv /\ [Next]_vars => IInv'
<1> SUFFICES ASSUME IInv, [Next]_vars PROVE IInv'
  OBVIOUS
<1>1. CASE UNCHANGED vars
  BY <1>1 DEF vars, server, process, IInv, ServerOK, ProcessOK, TokenInv, DoneInv, AnswerInv
<1>2. CASE Next
  BY <1>2, ServerStep, BeginStep, WrapStep, QueryStep, OtherStep DEF Next, Step
<1> QED
  BY <1>1, <1>2

LEMMA Invariant == Spec => []IInv
  BY InitInv, NextInv, PTL DEF Spec

-----------------------------------------------------------------------------
(* What was completed and is still so is in the answer, if a page holds    *)
(* all issues.                                                             *)
Listed ==
  \A i \in All \ Sub :
    type[i] = "completed" /\ since <= done[i] /\ done[i] < begun => i \in answer["completed"]

ListInv ==
  /\ pc = "active" => kind = "morning"
  /\ kind = "evening" /\ pc \in {"query", "plan", "send", "empty"} =>
       /\ since = DayBefore
       /\ (pc = "query" => step["completed"] = "off" /\ ~failed) => Listed

LEMMA OnePage ==
  ASSUME Len(Issues) <= Page, NEW S \in SUBSET All
  PROVE  S \subseteq FirstPage(S)
<1> DEFINE found == {n \in DOMAIN Issues : Issues[n] \in S}
           upTo(m) == {k \in found : k <= m}
<1>1. DOMAIN Issues = 1 .. Len(Issues) /\ Len(Issues) \in Nat /\ Page \in Nat
  BY LinearAssumption DEF LinearAssumption
<1>2. ASSUME NEW m \in found PROVE Cardinality(upTo(m)) <= Page
  <2>1. upTo(m) \in SUBSET (1 .. Len(Issues))
    BY <1>1
  <2>2. IsFiniteSet(1 .. Len(Issues)) /\ Cardinality(1 .. Len(Issues)) = Len(Issues)
    <3> DEFINE n == Len(Issues)
    <3>1. n \in Nat /\ 1 \in Int /\ n \in Int
      BY <1>1
    <3> HIDE DEF n
    <3>2. IsFiniteSet(1 .. n) /\ Cardinality(1 .. n) = IF 1 > n THEN 0 ELSE n - 1 + 1
      BY <3>1, FS_Interval
    <3>3. Cardinality(1 .. n) = n
      BY <3>1, <3>2
    <3> QED
      BY <3>2, <3>3 DEF n
  <2> HIDE DEF upTo
  <2>3. Cardinality(upTo(m)) <= Cardinality(1 .. Len(Issues)) /\ IsFiniteSet(upTo(m))
    BY <2>1, <2>2, FS_Subset
  <2>4. Cardinality(upTo(m)) \in Nat
    BY <2>3, FS_CardinalityType
  <2> QED
    BY <1>1, <2>2, <2>3, <2>4
<1>3. \A i \in S : \E n \in found : i = Issues[n]
  BY DEF All
<1> QED
  BY <1>2, <1>3 DEF FirstPage

LEMMA ListServer ==
  ASSUME IInv, ListInv, Tick \/ Move
  PROVE  ListInv'
<1>1. UNCHANGED <<kind, pc, begun, since, step, answer, failed>>
  BY DEF Tick, Move, server, process
<1>2. \A i \in All : \/ type'[i] = type[i] /\ done'[i] = done[i]
                     \/ type'[i] # "completed" \/ ~(done'[i] < begun)
  <2>1. CASE Tick
    BY <2>1 DEF Tick, server
  <2>2. CASE Move
    <3> PICK i \in All, t \in Types :
           /\ type' = [type EXCEPT ![i] = t]
           /\ done' = [done EXCEPT ![i] = IF t = "completed" THEN now ELSE -1]
      BY <2>2 DEF Move
    <3>1. ~(now < begun)
      BY DEF IInv, ServerOK, ProcessOK
    <3>2. type'[i] = t /\ done'[i] = IF t = "completed" THEN now ELSE -1
      BY DEF IInv, ServerOK
    <3>3. \A j \in All \ {i} : type'[j] = type[j] /\ done'[j] = done[j]
      BY DEF IInv, ServerOK
    <3> QED
      BY <3>1, <3>2, <3>3
  <2> QED
    BY <2>1, <2>2
<1>3. Listed => Listed'
  BY <1>1, <1>2 DEF Listed
<1> QED
  BY <1>1, <1>3 DEF ListInv, DayBefore

LEMMA ListQuery ==
  ASSUME IInv, ListInv, Len(Issues) <= Page, NEW q \in Queries, Query(q)
  PROVE  ListInv'
<1>1. /\ pc = "query" /\ step[q] = "send" /\ step' = [step EXCEPT ![q] = "off"]
      /\ UNCHANGED <<type, done, kind, pc, begun, since>>
  BY DEF Query, server
<1>2. CASE q # "completed"
  <2>1. step'["completed"] = step["completed"]
    BY <1>1, <1>2 DEF IInv, ProcessOK, Queries
  <2>2. answer'["completed"] = answer["completed"]
    BY <1>2 DEF Query, IInv, ProcessOK, Queries
  <2>3. failed' => failed \/ failed'
    OBVIOUS
  <2>4. failed => failed'
    BY DEF Query
  <2> QED
    BY <1>1, <2>1, <2>2, <2>4 DEF ListInv, Listed, DayBefore
<1>3. CASE q = "completed"
  <2>1. CASE answer' = [answer EXCEPT !["completed"] = Result("completed")]
    <3>1. answer'["completed"] = Result("completed")
      BY <2>1 DEF IInv, ProcessOK, Queries
    <3>2. Result("completed") = Top(FirstPage(CompletedSince))
      BY DEF Result
    <3>3. CompletedSince \ Sub \subseteq Result("completed")
      BY <3>2, OnePage DEF Top, CompletedSince
    <3>4. \A i \in All : since <= done[i] => i \in CompletedSince
      BY DEF CompletedSince, IInv, ServerOK, ProcessOK
    <3>5. Listed'
      BY <1>1, <3>1, <3>3, <3>4 DEF Listed
    <3> QED
      BY <1>1, <3>5 DEF ListInv, DayBefore
  <2>2. CASE failed'
    BY <1>1, <2>2 DEF ListInv, DayBefore
  <2> QED
    BY <1>3, <2>1, <2>2 DEF Query
<1> QED
  BY <1>2, <1>3

LEMMA ListNext ==
  ASSUME IInv, ListInv, Len(Issues) <= Page, [Next]_vars
  PROVE  ListInv'
<1>1. CASE Morning
  BY <1>1 DEF Morning, Begin, ListInv
<1>2. CASE Evening
  <2>1. pc' = "query" /\ step'["completed"] = "client" /\ since' = DayBefore'
    BY <1>2 DEF Evening, Begin, Queries, DayBefore, StartOfYesterday
  <2> QED
    BY <2>1 DEF ListInv
<1>3. ASSUME NEW q \in Queries, Wrap(q) PROVE ListInv'
  <2>1. /\ pc = "query" /\ UNCHANGED <<type, done, kind, pc, begun, since, answer, failed>>
        /\ step'["completed"] = "off" => step["completed"] = "off"
    BY <1>3 DEF Wrap, server, IInv, ProcessOK, Queries
  <2> QED
    BY <2>1 DEF ListInv, Listed, DayBefore
<1>4. CASE ActiveIssues \/ Panic \/ Exit
  <2>1. CASE ActiveIssues
    <3>1. pc = "active" /\ UNCHANGED kind
      BY <2>1 DEF ActiveIssues
    <3>2. kind = "morning"
      BY <3>1 DEF ListInv
    <3> QED
      BY <3>1, <3>2 DEF ListInv
  <2> QED
    BY <1>4, <2>1 DEF Panic, Exit, ListInv
<1>5. CASE Joined
  <2>1. /\ pc = "query" /\ step["completed"] = "off"
        /\ UNCHANGED <<type, done, kind, begun, since, answer>>
        /\ pc' = "over" \/ (pc' \in {"plan", "empty"} /\ ~failed)
    BY <1>5 DEF Joined, server, Quiet, Queries
  <2> QED
    BY <2>1 DEF ListInv, Listed, DayBefore
<1>6. CASE Plan \/ Send
  <2>1. /\ pc \in {"plan", "send", "empty"} /\ pc' \in {"send", "over"}
        /\ UNCHANGED <<type, done, kind, begun, since, answer>>
    BY <1>6 DEF Plan, Send, server
  <2> QED
    BY <2>1 DEF ListInv, Listed, DayBefore
<1>7. CASE UNCHANGED vars
  BY <1>7 DEF vars, server, process, ListInv, Listed, DayBefore
<1> QED
  BY <1>1, <1>2, <1>3, <1>4, <1>5, <1>6, <1>7, ListServer, ListQuery DEF Next, Step

-----------------------------------------------------------------------------
(* No query of a report is sent without the API key, though the goroutines *)
(* write the shared transport without a lock (client.go, graphQLClient):   *)
(* a goroutine sends after its own write, and nothing takes it back.       *)
THEOREM TokenAlwaysSent == Spec => []TokenSent
<1>1. IInv => TokenSent
  BY DEF IInv, TokenInv, TokenSent
<1> QED
  BY <1>1, Invariant, PTL

(* An issue that an evening report counts as completed and as in progress  *)
(* has moved since the report began (evening.go, the four queries): the    *)
(* filters exclude each other on one picture of the server, and completed  *)
(* since a midnight implies completed.                                     *)
THEOREM TwiceOnlyIfMoved == Spec => []TwiceMeansMoved
<1>1. IInv => TwiceMeansMoved
  BY DEF IInv, AnswerInv, TwiceMeansMoved
<1> QED
  BY <1>1, Invariant, PTL

(* If the page of the query of the completed issues holds all issues, an   *)
(* evening report lists each that has been completed since the beginning   *)
(* of the day before (evening.go): one that is not in the answer was       *)
(* completed, or moved, after the run began.                               *)
THEOREM CompletionsListed ==
  ASSUME Len(Issues) <= Page
  PROVE  Spec => []NoCompletionMissed
<1>1. Init => ListInv
  BY DEF Init, ListInv
<1>2. ListInv => NoCompletionMissed
  BY DEF ListInv, Listed, Ready, NoCompletionMissed
<1>3. IInv /\ ListInv /\ [Next]_vars => ListInv'
  BY ListNext
<1> QED
  BY <1>1, <1>2, <1>3, Invariant, PTL DEF Spec
=============================================================================
