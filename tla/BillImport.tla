----------------------------- MODULE BillImport -----------------------------
(***************************************************************************)
(* `xzb sync d1`: the bills exported from WeChat and Alipay become rows of *)
(* a D1 database (cmd/xzb: cmd/root.go and internal/importer, parser,      *)
(* rules, aggregate, d1sync).                                              *)
(*                                                                         *)
(* A trade changes after it was paid: part or all of it is refunded.  An   *)
(* export is what a bill says at one moment, so exports overlap and        *)
(* disagree.  The database executes each statement on its own, and an      *)
(* answer may be lost after its statement was executed.                    *)
(*                                                                         *)
(* A dry run and a run without --confirm-real-write change nothing, and    *)
(* `xzb export sql` writes the statements of a sync to a file: none of     *)
(* them is an action.                                                      *)
(***************************************************************************)
EXTENDS Integers, Sequences, FiniteSets, SequencesExt

CONSTANTS
  Syncs,        \* processes that may run `xzb sync d1` at the same time
  Trades,       \* numbers of the trades, in the order they occurred
  Trade,        \* what each of them is
  RuleSets,     \* what the rules file may say
  Limits,       \* values of --limit; 0 is no limit
  MaxExports, MaxBatches, MaxEdits

Sources == {"wechat", "alipay"}
States  == {"future", "paid", "part", "full"}

BillImportAssumption ==
  /\ Trades \subseteq Nat /\ IsFiniteSet(Trades)
  /\ \A t \in Trades :
       /\ Trade[t].source \in Sources
       /\ Trade[t].numbered \in BOOLEAN
       /\ Trade[t].inOut \in {"out", "in", "neutral"}
       /\ Trade[t].remark \in {"none", "fee", "text"}
       /\ Trade[t].price \in Nat
  /\ Limits \subseteq Nat
  /\ MaxExports \in Nat /\ MaxBatches \in Nat /\ MaxEdits \in Nat

VARIABLES
  world,     \* the state of each trade
  exports,   \* the bills exported so far
  rules,     \* the rules file
  edits,     \* how often it was edited
  pc,        \* per process: "idle", "batch" or "rows"
  batch,     \* the id of its batch
  todo,      \* the transactions it has not upserted yet
  batches,   \* finance_import_batches
  db,        \* finance_transactions, by id
  plan,      \* history: what each sync set out to write, and when
  finished   \* history: the syncs that returned without an error

bills == <<world, exports, rules, edits>>
store == <<batches, db>>
vars  == <<bills, pc, batch, todo, store, plan, finished>>

Init ==
  /\ world = [t \in Trades |-> "future"]
  /\ exports = <<>>
  /\ rules \in RuleSets
  /\ edits = 0
  /\ pc = [s \in Syncs |-> "idle"]
  /\ batch = [s \in Syncs |-> 0]
  /\ todo = [s \in Syncs |-> <<>>]
  /\ batches = {}
  /\ db = [i \in {} |-> 0]
  /\ plan = <<>>
  /\ finished = {}

-----------------------------------------------------------------------------
(* A trade is made, or refunded.  What changes after the last export shows *)
(* in no bill and is left out.                                             *)
Change(t) ==
  /\ Len(exports) < MaxExports
  /\ \/ world[t] = "future" /\ world' = [world EXCEPT ![t] = "paid"]
     \/ world[t] = "paid" /\ world' = [world EXCEPT ![t] = "part"]
     \/ world[t] \in {"paid", "part"} /\ world' = [world EXCEPT ![t] = "full"]
  /\ UNCHANGED <<exports, rules, edits, pc, batch, todo, store, plan, finished>>

(* The user downloads a bill: the trades of one source, as they are. *)
Export(source) ==
  /\ Len(exports) < MaxExports
  /\ LET listed == {t \in Trades : Trade[t].source = source /\ world[t] # "future"}
     IN  /\ listed # {}
         /\ exports' = Append(exports,
              [source |-> source,
               rows   |-> {[trade |-> t, state |-> world[t]] : t \in listed}])
  /\ UNCHANGED <<world, rules, edits, pc, batch, todo, store, plan, finished>>

(* The user edits the rules, while there is a batch left to apply them.    *)
EditRules ==
  /\ edits < MaxEdits /\ Len(plan) < MaxBatches
  /\ edits' = edits + 1
  /\ rules' \in RuleSets \ {rules}
  /\ UNCHANGED <<world, exports, pc, batch, todo, store, plan, finished>>

-----------------------------------------------------------------------------
\* NonNegativeNetAmount
NonNegativeNet(amount, refund) == IF amount < refund THEN 0 ELSE amount - refund

\* The refund column of Alipay.
Refund(row) ==
  CASE row.state = "full" -> Trade[row.trade].price
    [] row.state = "part" -> 1
    [] OTHER -> 0

\* Only Alipay's amount is net of the refund.
Amount(row) ==
  LET trade == Trade[row.trade]
  IN  IF trade.source = "wechat" THEN trade.price
      ELSE NonNegativeNet(trade.price, Refund(row))

\* shouldSkipWechatTransaction
SkipWechat(row) ==
  LET trade == Trade[row.trade]
  IN  \/ row.state = "full"
      \/ trade.inOut = "neutral" /\ trade.remark \in {"none", "fee"}

\* shouldSkipAlipayTransaction
SkipAlipay(row) == Trade[row.trade].inOut = "neutral"

\* parseWechatTransaction and parseAlipayTransaction: the rows they drop
Dropped(row) ==
  \/ IF Trade[row.trade].source = "wechat" THEN SkipWechat(row) ELSE SkipAlipay(row)
  \/ Amount(row) = 0

\* StableID: without a number, a hash of what the row says, its status included.
StableID(row) ==
  LET trade == Trade[row.trade]
  IN  IF trade.numbered THEN <<trade.source, row.trade, "number", 0>>
      ELSE <<trade.source, row.trade, row.state, Amount(row)>>

\* Normalize and StableID; the rules fill in the rest.
Normalize(row, file) ==
  [id |-> StableID(row), trade |-> row.trade, file |-> file, state |-> row.state,
   amount |-> Amount(row), inOut |-> Trade[row.trade].inOut,
   category |-> "none", budgetRule |-> "none", included |-> FALSE]

\* The elements of S in the order R.
InOrder(S, R) ==
  [n \in 1..Cardinality(S) |-> CHOOSE x \in S : Cardinality({y \in S : <<y, x>> \in R}) = n - 1]

\* parseRows: the records of the bills, bill by bill, in the order of the bill
ParseRows(files) ==
  LET rows  == UNION {{[at |-> i, row |-> row] : row \in exports[files[i]].rows} : i \in DOMAIN files}
      kept  == {r \in rows : ~Dropped(r.row)}
      Above == {x \in kept \X kept : \/ x[1].at < x[2].at
                                     \/ x[1].at = x[2].at /\ x[1].row.trade < x[2].row.trade}
      order == InOrder(kept, Above)
  IN  [n \in DOMAIN order |-> Normalize(order[n].row, files[order[n].at])]

\* A rule matches when any, or without `any` when all, of its conditions do.
\* A condition names a field, and the values that satisfy it.
Matches(rule, tx) ==
  LET Holds(c) == tx[c.field] \in c.values
  IN  IF rule.any # {} THEN \E c \in rule.any : Holds(c)
      ELSE \A c \in rule.all : Holds(c)

\* The first rule that matches, or the default.
FirstMatch(list, tx, default) ==
  LET hits == {i \in DOMAIN list : Matches(list[i], tx)}
  IN  IF hits = {} THEN default ELSE list[Min(hits)]

(* rules.Apply: categories see the transaction without its category, the  *)
(* budget rules with it.                                                   *)
Classified(tx) ==
  LET named == [tx EXCEPT !.category = FirstMatch(rules.categories, tx, rules.default).name]
      rule  == FirstMatch(rules.budget, named, rules.default)
  IN  [named EXCEPT !.budgetRule = rule.name, !.included = rule.included]

\* lo.UniqBy: the first record with an id is kept.
UniqBy(records) ==
  LET firsts == {i \in DOMAIN records :
                   \A j \in 1..(i - 1) : records[j].id # records[i].id}
      order  == InOrder(firsts, {x \in firsts \X firsts : x[1] < x[2]})
  IN  [n \in DOMAIN order |-> records[order[n]]]

\* sort.Slice by time and id; of ids with the same time and amount, which are
\* hashes, the one that was parsed first stands for the smaller one.
Sorted(txs) ==
  LET Before == {x \in (DOMAIN txs) \X (DOMAIN txs) :
                   LET a == txs[x[1]]
                       b == txs[x[2]]
                   IN  \/ a.trade < b.trade
                       \/ a.trade = b.trade /\ a.amount < b.amount
                       \/ a.trade = b.trade /\ a.amount = b.amount /\ x[1] < x[2]}
      order  == InOrder(DOMAIN txs, Before)
  IN  [n \in DOMAIN order |-> txs[order[n]]]

(* importer.Run: WeChat before Alipay, the limit before duplicates go, and *)
(* in the end by time.                                                     *)
Import(files, limit) ==
  LET parsed == ParseRows(files)
      kept   == IF limit > 0 /\ Len(parsed) > limit
                THEN SubSeq(parsed, 1, limit) ELSE parsed
      unique == UniqBy(kept)
  IN  Sorted([i \in DOMAIN unique |-> Classified(unique[i])])

\* The sum of the amounts over S.
Total(amount, S) == MapThenSumSet(LAMBDA i : amount[i], S)

\* aggregate.Build, of which BudgetCents stands for all sums
Build(txs) ==
  LET counted == {i \in DOMAIN txs : txs[i].inOut = "out" /\ txs[i].included}
  IN  Total([i \in DOMAIN txs |-> txs[i].amount], counted)

-----------------------------------------------------------------------------
\* --wechat and --alipay: each bill at most once, WeChat's first
Inputs ==
  {files \in BoundedSeq(DOMAIN exports, 2) :
     /\ files # <<>>
     /\ IsInjective(files)
     /\ \A i, j \in DOMAIN files : i < j =>
          ~(exports[files[i]].source = "alipay" /\ exports[files[j]].source = "wechat")}

\* The batches no process writes any more.
Ended == DOMAIN plan \ {batch[s] : s \in {q \in Syncs : pc[q] # "idle"}}

(* runSyncD1: parse the bills; the id of the batch is the time. *)
Start(s, files, limit) ==
  /\ pc[s] = "idle"
  /\ Len(plan) < MaxBatches
  /\ LET txs == Import(files, limit)
     IN  /\ plan' = Append(plan, [txs |-> txs, budget |-> Build(txs), after |-> Ended])
         /\ todo' = [todo EXCEPT ![s] = txs]
  /\ batch' = [batch EXCEPT ![s] = Len(plan) + 1]
  /\ pc' = [pc EXCEPT ![s] = "batch"]
  /\ UNCHANGED <<bills, store, finished>>

\* What may become of a statement: it is executed, it is not, or only its
\* answer is lost.
Answers == {"done", "refused", "lost"}

\* Sync returns once everything is written.
Proceed(s, rest) ==
  /\ todo' = [todo EXCEPT ![s] = rest]
  /\ IF rest = <<>>
     THEN pc' = [pc EXCEPT ![s] = "idle"] /\ finished' = finished \cup {batch[s]}
     ELSE pc' = [pc EXCEPT ![s] = "rows"] /\ UNCHANGED finished

\* An error ends Sync where it is; what is written stays.
GiveUp(s) ==
  /\ pc' = [pc EXCEPT ![s] = "idle"]
  /\ todo' = [todo EXCEPT ![s] = <<>>]
  /\ UNCHANGED finished

(* insertBatchSQL *)
InsertBatch(s, answer) ==
  /\ pc[s] = "batch"
  /\ batches' = IF answer = "refused" THEN batches ELSE batches \cup {batch[s]}
  /\ IF answer = "done" THEN Proceed(s, todo[s]) ELSE GiveUp(s)
  /\ UNCHANGED <<bills, batch, db, plan>>

(* Mutant of Written: ON CONFLICT DO NOTHING. *)
WrittenOnce(tx, b) ==
  IF tx.id \in DOMAIN db THEN db
  ELSE [i \in DOMAIN db \cup {tx.id} |->
          IF i = tx.id THEN [tx |-> tx, batch |-> b, created |-> b] ELSE db[i]]

\* upsertTransactionSQL: on a conflict everything but created_at is updated.
Written(tx, b) ==
  [i \in DOMAIN db \cup {tx.id} |->
     IF i # tx.id THEN db[i]
     ELSE [tx |-> tx, batch |-> b,
           created |-> IF i \in DOMAIN db THEN db[i].created ELSE b]]

(* One turn of the loop of Sync. *)
Upsert(s, answer) ==
  /\ pc[s] = "rows"
  /\ db' = IF answer = "refused" THEN db ELSE Written(Head(todo[s]), batch[s])
  /\ IF answer = "done" THEN Proceed(s, Tail(todo[s])) ELSE GiveUp(s)
  /\ UNCHANGED <<bills, batch, batches, plan>>

(* The process is killed. *)
Kill(s) ==
  /\ pc[s] # "idle"
  /\ GiveUp(s)
  /\ UNCHANGED <<bills, batch, store, plan>>

Next ==
  \/ \E t \in Trades : Change(t)
  \/ \E source \in Sources : Export(source)
  \/ EditRules
  \/ \E s \in Syncs :
       \/ \E files \in Inputs, limit \in Limits : Start(s, files, limit)
       \/ \E answer \in Answers : InsertBatch(s, answer) \/ Upsert(s, answer)
       \/ Kill(s)

Spec == Init /\ [][Next]_vars

-----------------------------------------------------------------------------
(* A row names the batch that wrote it last and the one that created it,   *)
(* and both are in the table of the batches, whatever statement failed.    *)
RowsHaveTheirBatch ==
  \A i \in DOMAIN db : {db[i].batch, db[i].created} \subseteq batches

(* What an import has written is there as long as no later import replaces *)
(* it: a row of a finished sync is never what a sync had written that was  *)
(* over before it began, not even when a retry runs into its rows.         *)
LaterImportWins ==
  \A b \in finished : \A n \in DOMAIN plan[b].txs :
    LET id == plan[b].txs[n].id
    IN  id \in DOMAIN db /\ db[id].batch \notin plan[b].after

(* The summary of a sync tells what is in the database: while its rows are *)
(* its own, their sum is the one it reported, however its bills overlap.   *)
SummaryMatchesRows ==
  \A b \in finished :
    LET ids == {plan[b].txs[n].id : n \in DOMAIN plan[b].txs}
    IN  (\A i \in ids : db[i].batch = b)
          => plan[b].budget =
               Total([i \in ids |-> db[i].tx.amount],
                     {i \in ids : db[i].tx.inOut = "out" /\ db[i].tx.included})
=============================================================================
