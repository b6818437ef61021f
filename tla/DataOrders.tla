------------------------------ MODULE DataOrders ------------------------------
(***************************************************************************)
(* Selling the numbers of the public pool. A customer's purchase is one    *)
(* database transaction: it picks public numbers, takes those that are     *)
(* still public when it locks them, pays and records the order. A purchase *)
(* that also sends hands the order to a Celery task once it is committed;  *)
(* the task writes a row per number, commits, and enqueues the rows.       *)
(* Administrators cancel and refund orders, a nightly task and a request   *)
(* return numbers nobody has used for 90 days to the pool.                 *)
(*                                                                         *)
(* A transaction reads a snapshot (REPEATABLE READ), its UPDATEs wait for  *)
(* the rows others have locked and see what is committed. Every price is 1 *)
(* per order, a refund pays what the administrator says; time passes where *)
(* Age says so.                                                            *)
(***************************************************************************)
EXTENDS Integers, FiniteSets, FiniteSetsExt, Functions

CONSTANTS
  Number,
  Loose,               \* numbers that carry no import batch
  Account, Purchase,
  By, Kind, Quantity,  \* of a purchase: its customer, its endpoint, its size
  Admin,
  Amount,              \* what a refund may pay: the price, or a refund_amount
  Balance,             \* what each account starts with
  MaxTries,            \* _deadlock_attempts
  MaxOps,              \* cancellations, refunds and recyclings
  FaultKinds, MaxFaults

ASSUME PurchaseAssumption ==
  /\ By \in [Purchase -> Account]
  /\ Kind \in [Purchase -> {"stock", "combo", "send"}]
  /\ Quantity \in [Purchase -> Nat \ {0}]
ASSUME BoundAssumption ==
  /\ IsFiniteSet(Number) /\ Loose \subseteq Number /\ IsFiniteSet(Admin) /\ Amount \subseteq Nat
  /\ {Balance, MaxTries, MaxOps, MaxFaults} \subseteq Nat

VARIABLES
  owner,    \* data_numbers.account_id
  used,     \* numbers with a last_used_at of the last 90 days
  stock,    \* data_stock_summaries.total_count, all dimensions as one
  balance,
  order,    \* data_orders.status, "none" before the commit
  nums,     \* data_order_numbers of each order
  refunded, \* how often an order was refunded
  paid,     \* what these refunds paid
  txn,      \* the transaction of each purchase
  job,      \* its data_buy_send_async task
  copies,   \* sms_logs rows an order has for a number
  desk,     \* what each administrator's request has read
  sweep,    \* numbers the recycling has read
  ops, faults,
  replays,  \* history: deadlocks of an order that struck after its commit
  raced     \* history: orders two administrators were about to refund at once

money == <<refunded, paid, raced>>
vars == <<owner, used, stock, balance, order, nums, money, txn, job, copies,
          desk, sweep, ops, faults, replays>>

None == "none"
Idle == [op |-> "idle"]
OrderStatus == {None, "processing", "completed", "cancelled"}

Fault(kind) ==
  kind \in FaultKinds /\ faults < MaxFaults /\ faults' = faults + 1
Op == ops < MaxOps /\ ops' = ops + 1

Public == {n \in Number : owner[n] = None}

NoJob == [at |-> None, try |-> 0, left |-> {}, rows |-> 0, queued |-> 0]

Init ==
  /\ owner = [n \in Number |-> None] /\ used = {}
  /\ stock = Cardinality(Number)
  /\ balance = [a \in Account |-> Balance]
  /\ order = [p \in Purchase |-> None] /\ nums = [p \in Purchase |-> {}]
  /\ refunded = [p \in Purchase |-> 0] /\ paid = [p \in Purchase |-> 0] /\ raced = {}
  /\ txn = [p \in Purchase |-> [at |-> "new", ids |-> {}, stock |-> 0]]
  /\ job = [p \in Purchase |-> NoJob]
  /\ copies = [p \in Purchase |-> [n \in Number |-> 0]]
  /\ desk = [m \in Admin |-> Idle] /\ sweep = {}
  /\ ops = 0 /\ faults = 0 /\ replays = [p \in Purchase |-> 0]

-----------------------------------------------------------------------------
(* A purchase *)

\* The ids come from the snapshot, no row is locked. Two endpoints first look
\* at the summary of the stock.
Pick(p) ==
  /\ txn[p].at = "new"
  /\ Kind[p] \in {"combo", "send"} => stock >= Quantity[p]
  /\ \E ids \in kSubset(Quantity[p], Public) :
       txn' = [txn EXCEPT ![p] = [at |-> "picked", ids |-> ids, stock |-> stock]]
  /\ UNCHANGED <<owner, used, stock, balance, order, nums, money, job, copies,
                 desk, sweep, ops, faults, replays>>

LockedBy(q) == IF txn[q].at = "locked" THEN txn[q].ids ELSE {}

\* UPDATE ... WHERE id IN ids AND account_id IS NULL waits for the rows that
\* another purchase has locked and fails unless all of them are still public.
LockBy(p, checked) ==
  /\ txn[p].at = "picked"
  /\ \A q \in Purchase : LockedBy(q) \cap txn[p].ids = {}
  /\ txn' = [txn EXCEPT ![p].at =
               IF checked /\ ~(txn[p].ids \subseteq Public) THEN "failed" ELSE "locked"]
  /\ UNCHANGED <<owner, used, stock, balance, order, nums, money, job, copies,
                 desk, sweep, ops, faults, replays>>
\* What must not happen: the lock takes what the snapshot promised.
LockUnchecked(p) == LockBy(p, FALSE)
Lock(p) == LockBy(p, TRUE)

\* What the purchase takes off the summary: combo nothing, stock only the
\* bucket without a batch, which most numbers are not in.
Deducted(p) ==
  CASE Kind[p] = "send"  -> txn[p].ids
    [] Kind[p] = "stock" -> txn[p].ids \cap Loose
    [] Kind[p] = "combo" -> {}

\* The price is taken if the account still has it, then all is committed; the
\* summary is written from what the snapshot showed.
CommitBy(p, checked) ==
  LET a == By[p]
      d == Cardinality(Deducted(p))
  IN
  /\ txn[p].at = "locked"
  /\ IF checked /\ balance[a] = 0
     THEN /\ txn' = [txn EXCEPT ![p].at = "failed"]
          /\ UNCHANGED <<owner, used, stock, balance, order, nums, job>>
     ELSE /\ txn' = [txn EXCEPT ![p].at = "done"]
          /\ balance' = [balance EXCEPT ![a] = @ - 1]
          /\ owner' = [n \in Number |-> IF n \in txn[p].ids THEN a ELSE owner[n]]
          /\ used' = IF Kind[p] = "send" THEN used \cup txn[p].ids ELSE used
          /\ stock' = IF d = 0 THEN stock
                      ELSE IF txn[p].stock > d THEN txn[p].stock - d ELSE 0
          /\ nums' = [nums EXCEPT ![p] = txn[p].ids]
          /\ order' = [order EXCEPT ![p] =
                         IF Kind[p] = "send" THEN "processing" ELSE "completed"]
          /\ job' = IF Kind[p] = "send"
                    THEN [job EXCEPT ![p].at = "unpublished"] ELSE job
  /\ UNCHANGED <<money, copies, desk, sweep, ops, faults, replays>>
\* What must not happen: the balance is not part of the UPDATE's condition.
CommitUnchecked(p) == CommitBy(p, FALSE)
Commit(p) == CommitBy(p, TRUE)

\* The API process dies: before the commit all is rolled back, after it the
\* task is never published.
Crash(p) ==
  /\ Fault("crash")
  /\ \/ /\ txn[p].at \in {"picked", "locked"}
        /\ txn' = [txn EXCEPT ![p].at = "failed"] /\ UNCHANGED job
     \/ /\ job[p].at = "unpublished"
        /\ job' = [job EXCEPT ![p].at = "lost"] /\ UNCHANGED txn
  /\ UNCHANGED <<owner, used, stock, balance, order, nums, money, copies, desk,
                 sweep, ops, replays>>

Publish(p) ==
  /\ job[p].at = "unpublished"
  /\ job' = [job EXCEPT ![p].at = "waiting"]
  /\ UNCHANGED <<owner, used, stock, balance, order, nums, money, txn, copies,
                 desk, sweep, ops, faults, replays>>

-----------------------------------------------------------------------------
(* data_buy_send_async: acknowledged when it starts *)

Start(p) ==
  /\ job[p].at = "waiting"
  /\ job' = [job EXCEPT ![p].at = "insert"]
  /\ UNCHANGED <<owner, used, stock, balance, order, nums, money, txn, copies,
                 desk, sweep, ops, faults, replays>>

\* One row per number of the order whose country has a channel, whoever owns
\* the number now; one commit.
Insert(p) ==
  /\ job[p].at = "insert"
  /\ \/ /\ copies' = [copies EXCEPT ![p] = [n \in Number |->
                        IF n \in nums[p] THEN @[n] + 1 ELSE @[n]]]
        /\ job' = [job EXCEPT ![p].at = "page", ![p].left = nums[p],
                              ![p].rows = Cardinality(nums[p]), ![p].queued = 0]
        /\ UNCHANGED faults
     \/ /\ Fault("route")
        /\ job' = [job EXCEPT ![p].at = "page", ![p].rows = 0, ![p].queued = 0,
                              ![p].left = {n \in nums[p] : copies[p][n] > 0}]
        /\ UNCHANGED copies
  /\ UNCHANGED <<owner, used, stock, balance, order, nums, money, txn, desk,
                 sweep, ops, replays>>

\* All rows of the batch are paged again and pushed, a refusal is skipped.
Page(p) ==
  /\ job[p].at = "page" /\ job[p].left # {}
  /\ \E n \in job[p].left :
       \/ /\ job' = [job EXCEPT ![p].left = @ \ {n}, ![p].queued = @ + copies[p][n]]
          /\ UNCHANGED faults
       \/ /\ Fault("broker")
          /\ job' = [job EXCEPT ![p].left = @ \ {n}]
  /\ UNCHANGED <<owner, used, stock, balance, order, nums, money, txn, copies,
                 desk, sweep, ops, replays>>

\* The order follows the count, whatever became of it meanwhile.
Finish(p) ==
  LET j == job[p] IN
  /\ j.at = "page" /\ j.left = {}
  /\ order' = [order EXCEPT ![p] = CASE j.rows = 0        -> @
                                     [] j.queued = 0      -> "cancelled"
                                     [] j.queued < j.rows -> "processing"
                                     [] OTHER             -> "completed"]
  /\ job' = [job EXCEPT ![p].at = "ended"]
  /\ UNCHANGED <<owner, used, stock, balance, nums, money, txn, copies, desk,
                 sweep, ops, faults, replays>>

\* A deadlock rolls the transaction back and the whole attempt is repeated:
\* before the commit nothing was written, after it the rows stay.
DeadlockBy(p, rollsBack) ==
  /\ job[p].at \in {"insert", "page"} /\ Fault("deadlock")
  /\ IF job[p].try + 1 < MaxTries
     THEN job' = [job EXCEPT ![p].at = "insert", ![p].try = @ + 1, ![p].left = {}]
     ELSE job' = [job EXCEPT ![p].at = "failing"]
  /\ replays' = IF job[p].at = "page" THEN [replays EXCEPT ![p] = @ + 1] ELSE replays
  /\ copies' = IF rollsBack \/ job[p].at = "page" THEN copies
               ELSE [copies EXCEPT ![p] = [n \in Number |->
                       IF n \in nums[p] THEN @[n] + 1 ELSE @[n]]]
  /\ UNCHANGED <<owner, used, stock, balance, order, nums, money, txn, desk, sweep, ops>>
\* What must not happen: chunks are committed one by one and stay.
DeadlockKeepsRows(p) == DeadlockBy(p, FALSE)
Deadlock(p) == DeadlockBy(p, TRUE)

\* Any other error, or the inner timeout of 580 s: the attempt is given up. The
\* timeout cancels the coroutine, so the task itself writes the outcome.
GiveUpBy(p, writes) ==
  /\ job[p].at \in {"insert", "page"} /\ Fault("timeout")
  /\ job' = [job EXCEPT ![p].at = IF writes THEN "failing" ELSE "ended"]
  /\ UNCHANGED <<owner, used, stock, balance, order, nums, money, txn, copies, desk,
                 sweep, ops, replays>>
\* What must not happen: the cancelled coroutine takes the handler with it.
GiveUpSilently(p) == GiveUpBy(p, FALSE)
GiveUp(p) == GiveUpBy(p, TRUE)

\* _finalize_buy_send_failure_state: a transaction of its own cancels the order,
\* whatever became of it meanwhile. If that fails the error is logged.
Abandon(p) ==
  /\ job[p].at = "failing"
  /\ \/ /\ order' = [order EXCEPT ![p] = "cancelled"]
        /\ job' = [job EXCEPT ![p].at = "ended"] /\ UNCHANGED faults
     \/ /\ Fault("write") /\ job' = [job EXCEPT ![p].at = "unwritten"]
        /\ UNCHANGED order
  /\ UNCHANGED <<owner, used, stock, balance, nums, money, txn, copies, desk, sweep,
                 ops, replays>>

\* The worker dies; the task was acknowledged and is not delivered again.
Kill(p) ==
  /\ job[p].at \in {"insert", "page", "failing"} /\ Fault("kill")
  /\ job' = [job EXCEPT ![p].at = "lost"]
  /\ UNCHANGED <<owner, used, stock, balance, order, nums, money, txn, copies,
                 desk, sweep, ops, replays>>

-----------------------------------------------------------------------------
(* Administrators and the recycling *)

Released(S) == owner' = [n \in Number |-> IF n \in S THEN None ELSE owner[n]]

\* Who is about to refund an order.
Refunding(p) == {m \in Admin : desk[m].op = "refund" /\ desk[m].order = p}

\* An administrator's request reads the order; it cancels a completed order
\* ("pending" is a status no endpoint creates) and refunds one neither
\* cancelled nor refunded. Nothing is locked: two requests may read the same.
DeskReadBy(m, p, byDate) ==
  /\ desk[m] = Idle /\ Op
  /\ \/ /\ order[p] = "completed"
        /\ desk' = [desk EXCEPT ![m] =
                      [op |-> "cancel", order |-> p, owned |-> nums[p] \ Public]]
        /\ UNCHANGED raced
     \/ /\ order[p] \notin {None, "cancelled"} /\ (byDate => refunded[p] = 0)
        /\ desk' = [desk EXCEPT ![m] = [op |-> "refund", order |-> p, owned |-> nums[p]]]
        /\ raced' = IF Refunding(p) = {} THEN raced ELSE raced \cup {p}
  /\ UNCHANGED <<owner, used, stock, balance, order, nums, refunded, paid, txn, job,
                 copies, sweep, faults, replays>>
\* What must not happen: only the status says whether money went back.
DeskReadByStatus(m, p) == DeskReadBy(m, p, FALSE)
DeskRead(m, p) == DeskReadBy(m, p, TRUE)

\* Its numbers are released, those the snapshot saw owned, without money.
CancelOrder(m) ==
  /\ desk[m].op = "cancel"
  /\ Released(desk[m].owned)
  /\ order' = [order EXCEPT ![desk[m].order] = "cancelled"]
  /\ desk' = [desk EXCEPT ![m] = Idle]
  /\ UNCHANGED <<used, stock, balance, nums, money, txn, job, copies, sweep,
                 ops, faults, replays>>

\* The price goes back, or any other amount the request names, and every number
\* of the order is released, whoever owns it by now.
RefundBy(m, releases) ==
  LET p == desk[m].order IN
  /\ desk[m].op = "refund"
  /\ \E amount \in Amount :
       /\ balance' = [balance EXCEPT ![By[p]] = @ + amount]
       /\ paid' = [paid EXCEPT ![p] = @ + amount]
  /\ refunded' = [refunded EXCEPT ![p] = @ + 1]
  /\ IF releases THEN Released(nums[p]) ELSE UNCHANGED owner
  /\ order' = [order EXCEPT ![p] = "cancelled"]
  /\ desk' = [desk EXCEPT ![m] = Idle]
  /\ UNCHANGED <<used, stock, nums, raced, txn, job, copies, sweep, ops, faults, replays>>
\* What must not happen: the customer keeps the numbers and has the money.
RefundKeepsNumbers(m) == RefundBy(m, FALSE)
Refund(m) == RefundBy(m, TRUE)

\* Owned numbers never used, or not for 90 days, go back to the pool: read
\* first, written at the end.
RecycleRead ==
  /\ sweep = {} /\ Op
  /\ sweep' = Number \ (Public \cup used) /\ sweep' # {}
  /\ UNCHANGED <<owner, used, stock, balance, order, nums, money, txn, job,
                 copies, desk, faults, replays>>
RecycleWrite ==
  /\ sweep # {} /\ Released(sweep) /\ sweep' = {}
  /\ UNCHANGED <<used, stock, balance, order, nums, money, txn, job, copies,
                 desk, ops, faults, replays>>

Age ==
  /\ used # {} /\ used' = {}
  /\ UNCHANGED <<owner, stock, balance, order, nums, money, txn, job, copies,
                 desk, sweep, ops, faults, replays>>

-----------------------------------------------------------------------------

Handle(p) == Lock(p) \/ Commit(p) \/ Publish(p)
Work(p) == Start(p) \/ Insert(p) \/ Page(p) \/ Finish(p) \/ Abandon(p)

Next ==
  \/ \E p \in Purchase : Pick(p) \/ Handle(p) \/ Crash(p)
  \/ \E p \in Purchase : Work(p) \/ Deadlock(p) \/ GiveUp(p) \/ Kill(p)
  \/ \E m \in Admin : (\E p \in Purchase : DeskRead(m, p)) \/ CancelOrder(m) \/ Refund(m)
  \/ RecycleRead \/ RecycleWrite \/ Age

Spec == Init /\ [][Next]_vars

\* Requests and tasks that run go on running; nobody has to buy, cancel or
\* refund, and nothing has to fail.
FairSpec ==
  /\ Spec
  /\ \A p \in Purchase : WF_vars(Handle(p)) /\ WF_vars(Work(p))

-----------------------------------------------------------------------------

\* Types and ranges; no account is overdrawn (the condition of the UPDATE).
TypeOK ==
  /\ owner \in [Number -> Account \cup {None}] /\ used \subseteq Number
  /\ stock \in Nat /\ balance \in [Account -> Nat]
  /\ order \in [Purchase -> OrderStatus] /\ nums \in [Purchase -> SUBSET Number]
  /\ \A p \in Purchase : txn[p].at \in {"new", "picked", "locked", "done", "failed"}
  /\ copies \in [Purchase -> [Number -> Nat]] /\ refunded \in [Purchase -> Nat]
  /\ paid \in [Purchase -> Nat] /\ raced \subseteq Purchase /\ sweep \subseteq Number

\* A number is sold from the pool only: no purchase takes it from another
\* customer, however their transactions interleave (buy_to_stock, buy_combo and
\* buy_and_send lock by UPDATE ... AND account_id IS NULL).
SoldFromPool ==
  [][\A n \in Number : owner[n] = None \/ owner'[n] \in {None, owner[n]}]_vars

\* Whoever owns a number has an order with it that was not refunded, through
\* recyclings, resales, cancellations and a task that completes what was
\* refunded under it (refund_order).
NobodyOwnsForFree ==
  \A n \in Number \ Public :
    \E p \in Purchase : By[p] = owner[n] /\ n \in nums[p] /\ refunded[p] = 0

\* An order is refunded at most once, although the task that sends it may
\* complete it after the refund and open it to the next one: refund_order refuses
\* by refunded_at. It reads that without a lock, so two requests that overlap
\* may both pay; nothing else may.
RefundedOnce == \A p \in Purchase : refunded[p] <= 1 \/ p \in raced

\* A number gets a second row of its order only when a deadlock struck after
\* the rows were committed (_do_buy_send_async repeats the whole attempt).
CopiesExplained ==
  \A p \in Purchase, n \in Number : copies[p][n] <= 1 + replays[p]

\* A committed purchase with a message does not stay processing: it completes
\* or is cancelled, unless its task was lost, no channel was found, the broker
\* refused some of its rows, or the task failed and so did the write of its
\* failure (data_buy_send_async, _finalize_buy_send_failure_state).
EventuallyConcluded ==
  <>[](\A p \in Purchase :
         \/ order[p] # "processing"
         \/ job[p].at \in {"lost", "unwritten"}
         \/ job[p].at = "ended" /\ (job[p].rows = 0 \/ job[p].queued < job[p].rows))

\* The summary is the number of public numbers whenever no purchase is under
\* way (helpers.py: total_count is defined as their number and every sale and
\* recycling must update it).
StockIsPublic ==
  (\A p \in Purchase : txn[p].at \notin {"picked", "locked"}) =>
    stock = Cardinality(Public)
=============================================================================
