--------------------------- MODULE DataOrdersProofs ---------------------------
(***************************************************************************)
(* Theorems about DataOrders, for every set of numbers, accounts,          *)
(* purchases, administrators and refund amounts and every bound: the       *)
(* variables keep their types, a number is sold from the pool only, nobody *)
(* owns a number for free, an order is refunded once unless two requests   *)
(* overlap and never more often than there are administrators, every       *)
(* further row of a number is explained by a deadlock, and the books of    *)
(* every account balance. From PurchaseAssumption (each purchase has a     *)
(* customer, an endpoint and a size) and BoundAssumption (finitely many    *)
(* numbers and administrators, bounds are numbers).                        *)
(***************************************************************************)
EXTENDS DataOrders, FiniteSetTheorems, TLAPS

-----------------------------------------------------------------------------
(* The invariants *)

TxnStep == {"new", "picked", "locked", "done", "failed"}
Tried == {"page", "ended", "lost", "failing", "unwritten"}
JobStep == {None, "unpublished", "waiting", "insert"} \cup Tried

Txn == [at : TxnStep, ids : SUBSET Number, stock : Nat]
Job == [at : JobStep, try : Nat, left : SUBSET Number, rows : Nat, queued : Nat]
Request == [op : {"cancel", "refund"}, order : Purchase, owned : SUBSET Number]

(* What a transaction, a task and an administrator's request remember.      *)
Remembered ==
  /\ txn \in [Purchase -> Txn] /\ job \in [Purchase -> Job]
  /\ desk \in [Admin -> {Idle} \cup Request]
  /\ replays \in [Purchase -> Nat]

Typed == TypeOK /\ Remembered

(* What a purchase has locked is public, and locked by it alone.            *)
LocksHold ==
  /\ \A p \in Purchase : txn[p].at = "locked" => txn[p].ids \subseteq Public
  /\ \A p, q \in Purchase : p # q => LockedBy(p) \cap LockedBy(q) = {}

(* Before the commit there is no order: no numbers, no refund, no task, and *)
(* no administrator deals with it.                                          *)
Uncommitted ==
  /\ \A p \in Purchase : order[p] = None =>
       nums[p] = {} /\ refunded[p] = 0 /\ job[p].at = None
  /\ \A p \in Purchase : txn[p].at # "done" => order[p] = None
  /\ \A m \in Admin : desk[m] # Idle => order[desk[m].order] # None

Sold == LocksHold /\ Uncommitted /\ NobodyOwnsForFree

(* Every refund was a request of another administrator.                     *)
RefundsCounted ==
  \A p \in Purchase : refunded[p] + Cardinality(Refunding(p)) <= Cardinality(Admin)

(* Unless two requests overlapped, there is one refund or one request that  *)
(* is about to make it.                                                     *)
RefundsAlone ==
  \A p \in Purchase : p \notin raced =>
    /\ refunded[p] <= 1 /\ (refunded[p] = 1 => Refunding(p) = {})
    /\ \A m, k \in Refunding(p) : m = k

(* Before an attempt inserts the rows, those that are there are the rows of *)
(* attempts that were repeated after their commit.                          *)
CopiesCounted ==
  \A p \in Purchase, n \in Number :
    copies[p][n] <= IF job[p].at \in Tried THEN 1 + replays[p]
                    ELSE replays[p]

USE DEF money, Tried

-----------------------------------------------------------------------------
(* The steps, by who takes them *)

PurchaseStep == \E p \in Purchase : Pick(p) \/ Handle(p) \/ Crash(p)
WorkStep == \E p \in Purchase : Work(p) \/ Deadlock(p) \/ GiveUp(p) \/ Kill(p)
DeskStep ==
  \E m \in Admin : (\E p \in Purchase : DeskRead(m, p)) \/ CancelOrder(m) \/ Refund(m)
PoolStep == RecycleRead \/ RecycleWrite \/ Age

(* Every step is one of these.                                              *)
LEMMA NextSteps ==
  ASSUME Next
  PROVE  PurchaseStep \/ WorkStep \/ DeskStep \/ PoolStep
BY DEF Next, PurchaseStep, WorkStep, DeskStep, PoolStep

-----------------------------------------------------------------------------
(* Types *)

(* A set of numbers is finite, so what is counted of it is a number.        *)
LEMMA CountOfNumbers ==
  ASSUME NEW S \in SUBSET Number
  PROVE  Cardinality(S) \in Nat
<1>1. IsFiniteSet(S)
  BY BoundAssumption, FS_Subset
<1> QED BY <1>1, FS_CardinalityType

(* A transaction goes on to another step.                                   *)
LEMMA TxnSet ==
  ASSUME txn \in [Purchase -> Txn], NEW p \in Purchase, NEW at \in TxnStep,
         txn' = txn \/ txn' = [txn EXCEPT ![p].at = at]
  PROVE  txn' \in [Purchase -> Txn]
<1>1. [txn[p] EXCEPT !.at = at] \in Txn
  BY DEF Txn
<1> QED BY <1>1

(* A task goes on to another step.                                          *)
LEMMA JobSet ==
  ASSUME job \in [Purchase -> Job], NEW p \in Purchase, NEW at \in JobStep,
         job' = job \/ job' = [job EXCEPT ![p].at = at]
  PROVE  job' \in [Purchase -> Job]
<1>1. [job[p] EXCEPT !.at = at] \in Job
  BY DEF Job
<1> QED BY <1>1

(* What an attempt of the task changes of its record.                       *)
LEMMA JobFields ==
  ASSUME NEW j \in Job, NEW at \in JobStep, NEW k \in Nat, NEW S \in SUBSET Number,
         NEW r \in Nat, NEW q \in Nat
  PROVE  /\ [j EXCEPT !.at = at, !.left = S, !.rows = r, !.queued = q] \in Job
         /\ [j EXCEPT !.at = at, !.rows = r, !.queued = q, !.left = S] \in Job
         /\ [j EXCEPT !.left = S, !.queued = q] \in Job
         /\ [j EXCEPT !.left = S] \in Job
         /\ [j EXCEPT !.at = at, !.try = k, !.left = S] \in Job
<1>1. [j EXCEPT !.at = at, !.left = S, !.rows = r, !.queued = q] \in Job
  BY DEF Job
<1>2. [j EXCEPT !.at = at, !.rows = r, !.queued = q, !.left = S] \in Job
  BY DEF Job
<1>3. [j EXCEPT !.left = S, !.queued = q] \in Job
  BY DEF Job
<1>4. [j EXCEPT !.left = S] \in Job
  BY DEF Job
<1>5. [j EXCEPT !.at = at, !.try = k, !.left = S] \in Job
  BY DEF Job
<1> QED BY <1>1, <1>2, <1>3, <1>4, <1>5

(* A purchase (buy_to_stock, buy_combo, buy_and_send): the types stay. The  *)
(* price is taken only if the account has it, the summary stops at zero.    *)
LEMMA PurchaseTyped ==
  ASSUME Typed, PurchaseStep
  PROVE  Typed'
<1> USE DEF Typed, TypeOK, Remembered
<1>0. \A t \in Txn : t.at \in TxnStep
  BY DEF Txn
<1>1. ASSUME NEW p \in Purchase, Pick(p) PROVE Typed'
  <2>1. txn' \in [Purchase -> Txn]
    BY <1>1 DEF Pick, kSubset, Public, Txn, TxnStep
  <2> QED BY <1>0, <1>1, <2>1 DEF Pick, TxnStep
<1>2. ASSUME NEW p \in Purchase, Lock(p) PROVE Typed'
  <2>1. txn' \in [Purchase -> Txn]
    BY <1>2, TxnSet DEF Lock, LockBy, TxnStep
  <2> QED BY <1>0, <1>2, <2>1 DEF Lock, LockBy, TxnStep
<1>3. ASSUME NEW p \in Purchase, Commit(p) PROVE Typed'
  <2> DEFINE a == By[p]  d == Cardinality(Deducted(p))
  <2>1. a \in Account /\ Kind[p] \in {"stock", "combo", "send"}
        /\ txn[p].ids \in SUBSET Number /\ txn[p].stock \in Nat
    BY PurchaseAssumption DEF Txn
  <2>2. d \in Nat
    <3>1. Deducted(p) \in SUBSET Number
      BY <2>1 DEF Deducted
    <3> QED BY <3>1, CountOfNumbers
  <2>3. /\ txn' \in [Purchase -> Txn] /\ job' \in [Purchase -> Job]
    BY <1>3, TxnSet, JobSet DEF Commit, CommitBy, TxnStep, JobStep
  <2>4. balance' \in [Account -> Nat]
    <3>1. balance' = balance \/ (balance[a] # 0 /\ balance' = [balance EXCEPT ![a] = @ - 1])
      BY <1>3 DEF Commit, CommitBy
    <3>2. balance[a] # 0 => balance[a] - 1 \in Nat
      BY <2>1
    <3> QED BY <3>1, <3>2
  <2>5. stock' \in Nat
    <3>1. stock' = stock \/ stock' = 0 \/ (txn[p].stock > d /\ stock' = txn[p].stock - d)
      BY <1>3 DEF Commit, CommitBy
    <3> HIDE DEF d
    <3> QED BY <2>1, <2>2, <3>1
  <2>6. /\ owner' \in [Number -> Account \cup {None}] /\ used' \subseteq Number
    <3>1. \/ owner' = owner
          \/ owner' = [n \in Number |-> IF n \in txn[p].ids THEN a ELSE owner[n]]
      BY <1>3 DEF Commit, CommitBy
    <3>2. used' = used \/ used' = used \cup txn[p].ids
      BY <1>3 DEF Commit, CommitBy
    <3>3. owner' \in [Number -> Account \cup {None}]
      BY <2>1, <3>1
    <3> QED BY <2>1, <3>2, <3>3
  <2>7. /\ nums' \in [Purchase -> SUBSET Number] /\ order' \in [Purchase -> OrderStatus]
    BY <1>3, <2>1 DEF Commit, CommitBy, OrderStatus
  <2>8. UNCHANGED <<copies, refunded, paid, raced, desk, sweep, replays>>
    BY <1>3 DEF Commit, CommitBy
  <2> QED BY <1>0, <2>3, <2>4, <2>5, <2>6, <2>7, <2>8 DEF TxnStep
<1>4. ASSUME NEW p \in Purchase, Publish(p) PROVE Typed'
  <2>1. job' \in [Purchase -> Job]
    BY <1>4, JobSet DEF Publish, JobStep
  <2> QED BY <1>4, <2>1 DEF Publish
<1>5. ASSUME NEW p \in Purchase, Crash(p) PROVE Typed'
  <2>0. \/ txn' = txn /\ job' = [job EXCEPT ![p].at = "lost"]
        \/ job' = job /\ txn' = [txn EXCEPT ![p].at = "failed"]
    BY <1>5 DEF Crash
  <2>1. txn' \in [Purchase -> Txn] /\ job' \in [Purchase -> Job]
    BY <2>0, TxnSet, JobSet DEF TxnStep, JobStep
  <2> QED BY <1>0, <1>5, <2>1 DEF Crash, TxnStep
<1> QED BY <1>1, <1>2, <1>3, <1>4, <1>5 DEF PurchaseStep, Handle

(* The task that sends (data_buy_send_async): the types stay.               *)
LEMMA WorkTyped ==
  ASSUME Typed, WorkStep
  PROVE  Typed'
<1> USE DEF Typed, TypeOK, Remembered
<1>1. ASSUME NEW p \in Purchase, Start(p) PROVE Typed'
  <2>1. job' \in [Purchase -> Job]
    BY <1>1, JobSet DEF Start, JobStep
  <2> QED BY <1>1, <2>1 DEF Start
<1>2. ASSUME NEW p \in Purchase, Insert(p) PROVE Typed'
  <2>1. Cardinality(nums[p]) \in Nat /\ nums[p] \in SUBSET Number
    BY CountOfNumbers
  <2>2. copies' \in [Purchase -> [Number -> Nat]]
    <3>1. [n \in Number |-> IF n \in nums[p] THEN copies[p][n] + 1 ELSE copies[p][n]]
            \in [Number -> Nat]
      OBVIOUS
    <3>2. copies' = copies \/ copies' = [copies EXCEPT ![p] = [n \in Number |->
            IF n \in nums[p] THEN copies[p][n] + 1 ELSE copies[p][n]]]
      BY <1>2 DEF Insert
    <3> QED BY <3>1, <3>2
  <2>3. job' \in [Purchase -> Job]
    <3>1. ASSUME NEW S \in SUBSET Number, NEW k \in Nat
          PROVE  /\ [job[p] EXCEPT !.at = "page", !.left = S, !.rows = k, !.queued = 0] \in Job
                 /\ [job[p] EXCEPT !.at = "page", !.rows = 0, !.queued = 0, !.left = S] \in Job
      <4>1. job[p] \in Job /\ "page" \in JobStep /\ 0 \in Nat
        BY DEF JobStep
      <4> QED BY <4>1, <3>1, JobFields
    <3>2. {n \in nums[p] : copies[p][n] > 0} \in SUBSET Number
      BY <2>1
    <3>3. CASE job' = [job EXCEPT ![p].at = "page", ![p].left = nums[p],
                                  ![p].rows = Cardinality(nums[p]), ![p].queued = 0]
      BY <2>1, <3>1, <3>3
    <3>4. CASE job' = [job EXCEPT ![p].at = "page", ![p].rows = 0, ![p].queued = 0,
                                  ![p].left = {n \in nums[p] : copies[p][n] > 0}]
      BY <3>1, <3>2, <3>4
    <3> QED BY <1>2, <3>3, <3>4 DEF Insert
  <2> QED BY <1>2, <2>2, <2>3 DEF Insert
<1>3. ASSUME NEW p \in Purchase, Page(p) PROVE Typed'
  <2>1. \A n \in Number : job[p].queued + copies[p][n] \in Nat
    BY DEF Job
  <2>2. job' \in [Purchase -> Job]
    <3>1. PICK n \in job[p].left :
            \/ job' = [job EXCEPT ![p].left = @ \ {n}, ![p].queued = @ + copies[p][n]]
            \/ job' = [job EXCEPT ![p].left = @ \ {n}]
      BY <1>3 DEF Page
    <3>2. PICK k \in Nat : k = job[p].queued + copies[p][n]
      BY <2>1, <3>1 DEF Job
    <3>3. job[p] \in Job /\ job[p].left \ {n} \in SUBSET Number
      BY DEF Job
    <3>4. /\ [job[p] EXCEPT !.left = job[p].left \ {n}, !.queued = k] \in Job
          /\ [job[p] EXCEPT !.left = job[p].left \ {n}] \in Job
      BY <3>3, JobFields DEF JobStep
    <3> QED BY <3>1, <3>2, <3>4
  <2> QED BY <1>3, <2>2 DEF Page
<1>4. ASSUME NEW p \in Purchase, Finish(p) PROVE Typed'
  <2>1. job' \in [Purchase -> Job]
    BY <1>4, JobSet DEF Finish, JobStep
  <2>2. order' \in [Purchase -> OrderStatus]
    BY <1>4 DEF Finish, OrderStatus
  <2> QED BY <1>4, <2>1, <2>2 DEF Finish
<1>5. ASSUME NEW p \in Purchase, Deadlock(p) PROVE Typed'
  <2>1. job[p].try + 1 \in Nat
    BY DEF Job
  <2>2. job' \in [Purchase -> Job]
    <3>0. PICK k \in Nat : k = job[p].try + 1
      BY <2>1
    <3>1. [job[p] EXCEPT !.at = "insert", !.try = k, !.left = {}] \in Job
      <4>1. job[p] \in Job /\ "insert" \in JobStep /\ {} \in SUBSET Number /\ 0 \in Nat
        BY DEF JobStep
      <4> QED BY <4>1, JobFields
    <3>2. \/ job' = [job EXCEPT ![p].at = "failing"]
          \/ job' = [job EXCEPT ![p].at = "insert", ![p].try = @ + 1, ![p].left = {}]
      BY <1>5 DEF Deadlock, DeadlockBy
    <3>3. CASE job' = [job EXCEPT ![p].at = "failing"]
      BY <3>3, JobSet DEF JobStep
    <3>4. CASE job' = [job EXCEPT ![p].at = "insert", ![p].try = @ + 1, ![p].left = {}]
      BY <3>0, <3>1, <3>4
    <3> QED BY <3>2, <3>3, <3>4
  <2>3. replays' \in [Purchase -> Nat] /\ copies' = copies
    BY <1>5 DEF Deadlock, DeadlockBy
  <2> QED BY <1>5, <2>2, <2>3 DEF Deadlock, DeadlockBy
<1>6. ASSUME NEW p \in Purchase, GiveUp(p) PROVE Typed'
  <2>1. job' \in [Purchase -> Job]
    BY <1>6, JobSet DEF GiveUp, GiveUpBy, JobStep
  <2> QED BY <1>6, <2>1 DEF GiveUp, GiveUpBy
<1>7. ASSUME NEW p \in Purchase, Kill(p) PROVE Typed'
  <2>1. job' \in [Purchase -> Job]
    BY <1>7, JobSet DEF Kill, JobStep
  <2> QED BY <1>7, <2>1 DEF Kill
<1>8. ASSUME NEW p \in Purchase, Abandon(p) PROVE Typed'
  <2>0. \/ job' = [job EXCEPT ![p].at = "ended"]
        \/ job' = [job EXCEPT ![p].at = "unwritten"]
    BY <1>8 DEF Abandon
  <2>1. job' \in [Purchase -> Job]
    BY <2>0, JobSet DEF JobStep
  <2>2. order' \in [Purchase -> OrderStatus]
    BY <1>8 DEF Abandon, OrderStatus
  <2> QED BY <1>8, <2>1, <2>2 DEF Abandon
<1> QED BY <1>1, <1>2, <1>3, <1>4, <1>5, <1>6, <1>7, <1>8 DEF WorkStep, Work

(* Administrators and the recycling: the types stay.                        *)
LEMMA DeskTyped ==
  ASSUME Typed, DeskStep \/ PoolStep
  PROVE  Typed'
<1> USE DEF Typed, TypeOK, Remembered, Released
<1>1. ASSUME NEW m \in Admin, NEW p \in Purchase, DeskRead(m, p) PROVE Typed'
  <2>1. \E r \in Request : desk' = [desk EXCEPT ![m] = r]
    BY <1>1 DEF DeskRead, DeskReadBy, Request
  <2>2. raced' \subseteq Purchase
    BY <1>1 DEF DeskRead, DeskReadBy
  <2> QED BY <1>1, <2>1, <2>2 DEF DeskRead, DeskReadBy
<1>2. ASSUME NEW m \in Admin, CancelOrder(m) PROVE Typed'
  BY <1>2 DEF CancelOrder, OrderStatus
<1>3. ASSUME NEW m \in Admin, Refund(m) PROVE Typed'
  <2>0. desk[m] \in Request
    BY <1>3 DEF Refund, RefundBy, Idle
  <2>1. desk[m].order \in Purchase /\ By[desk[m].order] \in Account
    BY <2>0, PurchaseAssumption DEF Request
  <2>2. /\ balance' \in [Account -> Nat] /\ paid' \in [Purchase -> Nat]
        /\ refunded' \in [Purchase -> Nat]
    <3>1. PICK amount \in Nat :
            /\ balance' = [balance EXCEPT ![By[desk[m].order]] = @ + amount]
            /\ paid' = [paid EXCEPT ![desk[m].order] = @ + amount]
      BY <1>3, BoundAssumption DEF Refund, RefundBy
    <3>2. refunded' \in [Purchase -> Nat]
      BY <1>3, <2>1 DEF Refund, RefundBy
    <3>3. /\ balance[By[desk[m].order]] + amount \in Nat
          /\ paid[desk[m].order] + amount \in Nat
      BY <2>1
    <3>4. balance' \in [Account -> Nat]
      BY <3>1, <3>3
    <3>5. paid' \in [Purchase -> Nat]
      BY <3>1, <3>3
    <3> QED BY <3>2, <3>4, <3>5
  <2>3. order' \in [Purchase -> OrderStatus] /\ owner' \in [Number -> Account \cup {None}]
    BY <1>3, <2>1 DEF Refund, RefundBy, OrderStatus
  <2> QED BY <1>3, <2>2, <2>3 DEF Refund, RefundBy
<1>4. CASE PoolStep
  BY <1>4 DEF PoolStep, RecycleRead, RecycleWrite, Age
<1> QED BY <1>1, <1>2, <1>3, <1>4 DEF DeskStep

(* The types and what is remembered, always.                                *)
LEMMA AlwaysTyped == Spec => []Typed
<1>1. Init => Typed
  <2>1. Cardinality(Number) \in Nat
    BY CountOfNumbers
  <2>2. NoJob \in Job /\ [at |-> "new", ids |-> {}, stock |-> 0] \in Txn
    BY DEF NoJob, Job, JobStep, Txn, TxnStep
  <2> QED BY <2>1, <2>2, BoundAssumption DEF Init, Typed, TypeOK, Remembered, OrderStatus
<1>2. Typed /\ [Next]_vars => Typed'
  <2>1. Typed /\ UNCHANGED vars => Typed'
    BY DEF vars, Typed, TypeOK, Remembered
  <2> QED BY <2>1, NextSteps, PurchaseTyped, WorkTyped, DeskTyped
<1> QED BY <1>1, <1>2, PTL DEF Spec

(* TypeOK: no account is overdrawn, whatever is bought at the same time.    *)
THEOREM TypeCorrect == Spec => []TypeOK
<1>1. Typed => TypeOK
  BY DEF Typed
<1> QED BY <1>1, AlwaysTyped, PTL

-----------------------------------------------------------------------------
(* Numbers are sold from the pool and paid for *)

(* A step that touches no transaction and takes no number out of the pool   *)
(* leaves the locks what they are.                                          *)
LEMMA LocksStay ==
  ASSUME LocksHold, txn' = txn, Public \subseteq Public'
  PROVE  LocksHold'
BY DEF LocksHold, LockedBy

(* A purchase locks what is public and what nobody else has locked; what it *)
(* then owns is in its order, and the order was not paid back.              *)
LEMMA PurchaseSold ==
  ASSUME Typed, Sold, PurchaseStep
  PROVE  Sold'
<1> USE DEF Typed, TypeOK, Remembered
<1>1. ASSUME NEW p \in Purchase, Pick(p) \/ Lock(p) PROVE Sold'
  <2>1. UNCHANGED <<owner, order, nums, refunded, job, desk>>
    BY <1>1 DEF Pick, Lock, LockBy
  <2>2. /\ \A q \in Purchase \ {p} : txn'[q] = txn[q]
        /\ txn[p].at # "done" /\ txn'[p].at # "done"
        /\ txn'[p].at = "locked" =>
             /\ txn'[p].ids \subseteq Public
             /\ \A q \in Purchase : LockedBy(q) \cap txn'[p].ids = {}
    <3>1. CASE Pick(p)
      BY <3>1 DEF Pick, Txn
    <3>2. CASE Lock(p)
      <4>1. txn'[p].ids = txn[p].ids /\ txn'[p].at \in {"failed", "locked"}
            /\ (txn'[p].at = "locked" => txn[p].ids \subseteq Public)
        BY <3>2 DEF Lock, LockBy, Txn
      <4> QED BY <3>2, <4>1 DEF Lock, LockBy
    <3> QED BY <1>1, <3>1, <3>2
  <2>3. LocksHold'
    BY <2>1, <2>2 DEF Sold, LocksHold, LockedBy, Public
  <2>4. Uncommitted'
    BY <2>1, <2>2 DEF Sold, Uncommitted
  <2> QED BY <2>1, <2>3, <2>4 DEF Sold, NobodyOwnsForFree, Public
<1>2. ASSUME NEW p \in Purchase, Publish(p) \/ Crash(p) PROVE Sold'
  <2>1. UNCHANGED <<owner, order, nums, refunded, desk>>
    BY <1>2 DEF Publish, Crash
  <2>2. \A q \in Purchase : /\ txn'[q] = txn[q] \/ (txn[q].at # "done" /\ txn'[q].at = "failed")
                            /\ job'[q].at = None => job[q].at = None
                            /\ job[q].at = None => job'[q].at = None
    <3>1. CASE Publish(p)
      BY <3>1 DEF Publish, None, Job
    <3>2. CASE txn[p].at \in {"picked", "locked"} /\ job' = job
               /\ txn' = [txn EXCEPT ![p].at = "failed"]
      BY <3>2 DEF Txn
    <3>3. CASE job[p].at = "unpublished" /\ txn' = txn
               /\ job' = [job EXCEPT ![p].at = "lost"]
      BY <3>3 DEF Job, None
    <3> QED BY <1>2, <3>1, <3>2, <3>3 DEF Crash
  <2>3. LocksHold'
    BY <2>1, <2>2 DEF Sold, LocksHold, LockedBy, Public
  <2>4. Uncommitted'
    BY <2>1, <2>2 DEF Sold, Uncommitted
  <2> QED BY <2>1, <2>3, <2>4 DEF Sold, NobodyOwnsForFree, Public
<1>3. ASSUME NEW p \in Purchase, Commit(p) PROVE Sold'
  <2>1. CASE txn'[p].at = "failed"
    <3>1. /\ UNCHANGED <<owner, order, nums, refunded, job, desk>>
          /\ txn[p].at = "locked" /\ \A q \in Purchase \ {p} : txn'[q] = txn[q]
      BY <1>3, <2>1 DEF Commit, CommitBy, Txn
    <3>2. LocksHold'
      BY <2>1, <3>1 DEF Sold, LocksHold, LockedBy, Public
    <3>3. Uncommitted'
      BY <2>1, <3>1 DEF Sold, Uncommitted
    <3> QED BY <3>1, <3>2, <3>3 DEF Sold, NobodyOwnsForFree, Public
  <2>2. CASE txn'[p].at # "failed"
    <3>1. /\ UNCHANGED <<refunded, desk>> /\ txn[p].at = "locked" /\ txn'[p].at = "done"
          /\ \A q \in Purchase \ {p} : txn'[q] = txn[q] /\ nums'[q] = nums[q]
                                       /\ order'[q] = order[q] /\ job'[q] = job[q]
          /\ nums'[p] = txn[p].ids /\ order'[p] # None
          /\ owner' = [n \in Number |-> IF n \in txn[p].ids THEN By[p] ELSE owner[n]]
      BY <1>3, <2>2 DEF Commit, CommitBy, Txn, None
    <3>2. nums[p] = {} /\ refunded[p] = 0 /\ txn[p].ids \subseteq Public
      BY <3>1 DEF Sold, Uncommitted, LocksHold
    <3>3. LocksHold'
      <4>1. \A q \in Purchase : LockedBy(q)' = IF q = p THEN {} ELSE LockedBy(q)
        BY <3>1 DEF LockedBy
      <4>2. \A q \in Purchase \ {p} : LockedBy(q) \cap txn[p].ids = {}
        BY <3>1 DEF Sold, LocksHold, LockedBy
      <4>3. \A q \in Purchase : txn'[q].at = "locked" =>
              q # p /\ txn'[q].ids \subseteq Public /\ txn'[q].ids \cap txn[p].ids = {}
        BY <3>1, <4>2 DEF Sold, LocksHold, LockedBy
      <4>4. \A n \in Public : n \notin txn[p].ids => n \in Public'
        BY <3>1 DEF Public
      <4>5. \A q, r \in Purchase : q # r => LockedBy(q)' \cap LockedBy(r)' = {}
        BY <4>1 DEF Sold, LocksHold
      <4> QED BY <4>3, <4>4, <4>5 DEF LocksHold
    <3>4. Uncommitted'
      <4>1. \A q \in Purchase : order'[q] = None =>
              nums'[q] = {} /\ refunded'[q] = 0 /\ job'[q].at = None
        BY <3>1 DEF Sold, Uncommitted
      <4>2. \A q \in Purchase : txn'[q].at # "done" => order'[q] = None
        BY <3>1 DEF Sold, Uncommitted
      <4>3. ASSUME NEW m \in Admin, desk[m] # Idle PROVE order'[desk[m].order] # None
        <5>1. desk[m].order \in Purchase /\ order[desk[m].order] # None
          BY <4>3 DEF Sold, Uncommitted, Request
        <5> QED BY <3>1, <5>1
      <4> QED BY <3>1, <4>1, <4>2, <4>3 DEF Uncommitted
    <3>5. NobodyOwnsForFree'
      <4> SUFFICES ASSUME NEW n \in Number, owner'[n] # None
                   PROVE  \E q \in Purchase :
                            By[q] = owner'[n] /\ n \in nums'[q] /\ refunded'[q] = 0
        BY DEF NobodyOwnsForFree, Public
      <4>1. CASE n \in txn[p].ids
        BY <3>1, <3>2, <4>1
      <4>2. CASE n \notin txn[p].ids
        <5>1. owner'[n] = owner[n]
          BY <3>1, <4>2
        <5>2. PICK q \in Purchase : By[q] = owner[n] /\ n \in nums[q] /\ refunded[q] = 0
          BY <5>1 DEF Sold, NobodyOwnsForFree, Public
        <5> QED BY <3>1, <3>2, <5>1, <5>2
      <4> QED BY <4>1, <4>2
    <3> QED BY <3>3, <3>4, <3>5 DEF Sold
  <2> QED BY <2>1, <2>2
<1> QED BY <1>1, <1>2, <1>3 DEF PurchaseStep, Handle

(* The task of an order sells nothing and pays nothing back.                *)
LEMMA WorkSold ==
  ASSUME Typed, Sold, WorkStep
  PROVE  Sold'
<1>1. UNCHANGED <<owner, nums, refunded, txn, desk>>
  BY DEF WorkStep, Work, Start, Insert, Page, Finish, Abandon, Deadlock, DeadlockBy, GiveUp, GiveUpBy,
     Kill
<1>2. PICK p \in Purchase :
        /\ job[p].at \in {"waiting", "insert", "page", "failing"}
        /\ \A q \in Purchase \ {p} : job'[q] = job[q] /\ order'[q] = order[q]
        /\ order'[p] = order[p] \/ order'[p] # None
  <2>1. PICK p \in Purchase : Work(p) \/ Deadlock(p) \/ GiveUp(p) \/ Kill(p)
    BY DEF WorkStep
  <2>2. job[p].at \in {"waiting", "insert", "page", "failing"}
    BY <2>1 DEF Work, Start, Insert, Page, Finish, Abandon, Deadlock, DeadlockBy, GiveUp, GiveUpBy, Kill
  <2>3. \A q \in Purchase \ {p} : job'[q] = job[q]
    BY <2>1 DEF Work, Start, Insert, Page, Finish, Abandon, Deadlock, DeadlockBy, GiveUp, GiveUpBy,
       Kill, Typed, Remembered
  <2>4. order' = order \/ \E o \in OrderStatus : order' = [order EXCEPT ![p] = o]
                            /\ (o = order[p] \/ o # None)
    BY <2>1 DEF Work, Start, Insert, Page, Finish, Abandon, Deadlock, DeadlockBy, GiveUp, GiveUpBy,
       Kill, Typed, TypeOK, OrderStatus, None
  <2> QED BY <2>2, <2>3, <2>4 DEF Typed, TypeOK
<1>3. order[p] # None
  BY <1>2 DEF Sold, Uncommitted, None
<1>4. Uncommitted'
  BY <1>1, <1>2, <1>3 DEF Sold, Uncommitted, Typed, Remembered, Request, Idle
<1> QED BY <1>1, <1>4, LocksStay DEF Sold, NobodyOwnsForFree, Public

(* Administrators and the recycling only return numbers to the pool; a      *)
(* refund returns every number of its order.                                *)
LEMMA DeskSold ==
  ASSUME Typed, Sold, DeskStep \/ PoolStep
  PROVE  Sold'
<1> USE DEF Typed, TypeOK, Remembered
<1>1. txn' = txn /\ job' = job /\ nums' = nums
  BY DEF DeskStep, DeskRead, DeskReadBy, CancelOrder, Refund, RefundBy, PoolStep, RecycleRead,
     RecycleWrite, Age
<1>2. \A n \in Number : owner'[n] \in {None, owner[n]}
  BY DEF DeskStep, DeskRead, DeskReadBy, CancelOrder, Refund, RefundBy, PoolStep, RecycleRead,
     RecycleWrite, Age, Released
<1>3. LocksHold'
  BY <1>1, <1>2, LocksStay DEF Sold, Public
<1>4. ASSUME NEW m \in Admin, NEW p \in Purchase, DeskRead(m, p) PROVE Sold'
  <2>1. /\ UNCHANGED <<owner, order, refunded>> /\ order[p] # None
        /\ \A k \in Admin \ {m} : desk'[k] = desk[k]
        /\ desk'[m].order = p
    BY <1>4 DEF DeskRead, DeskReadBy, None
  <2>2. Uncommitted'
    BY <1>1, <2>1 DEF Sold, Uncommitted
  <2> QED BY <1>1, <1>3, <2>1, <2>2 DEF Sold, NobodyOwnsForFree, Public
<1>5. ASSUME NEW m \in Admin, CancelOrder(m) \/ Refund(m) PROVE Sold'
  <2>1. desk[m] \in Request /\ desk[m].order \in Purchase
    <3>1. desk[m] # Idle
      BY <1>5 DEF CancelOrder, Refund, RefundBy, Idle
    <3> QED BY <3>1 DEF Request
  <2>2. PICK p \in Purchase : p = desk[m].order
    BY <2>1
  <2>3. /\ order' = [order EXCEPT ![p] = "cancelled"] /\ desk' = [desk EXCEPT ![m] = Idle]
        /\ \A q \in Purchase \ {p} : refunded'[q] = refunded[q]
        /\ refunded'[p] = refunded[p] \/ \A n \in nums[p] : owner'[n] = None
    BY <1>5, <2>2 DEF CancelOrder, Refund, RefundBy, Released
  <2>4. order[p] # None
    BY <2>1, <2>2 DEF Sold, Uncommitted, Request, Idle
  <2>5. Uncommitted'
    BY <1>1, <2>3, <2>4 DEF Sold, Uncommitted, None
  <2>6. NobodyOwnsForFree'
    <3> SUFFICES ASSUME NEW n \in Number, owner'[n] # None
                 PROVE  \E q \in Purchase :
                          By[q] = owner'[n] /\ n \in nums'[q] /\ refunded'[q] = 0
      BY DEF NobodyOwnsForFree, Public
    <3>1. owner'[n] = owner[n]
      BY <1>2
    <3>2. PICK q \in Purchase : By[q] = owner[n] /\ n \in nums[q] /\ refunded[q] = 0
      BY <3>1 DEF Sold, NobodyOwnsForFree, Public
    <3>3. refunded'[q] = refunded[q]
      BY <2>3, <3>2
    <3> QED BY <1>1, <3>1, <3>2, <3>3
  <2> QED BY <1>3, <2>5, <2>6 DEF Sold
<1>6. CASE PoolStep
  <2>1. UNCHANGED <<order, refunded, desk>>
    BY <1>6 DEF PoolStep, RecycleRead, RecycleWrite, Age
  <2>2. Uncommitted'
    BY <1>1, <2>1 DEF Sold, Uncommitted
  <2>3. NobodyOwnsForFree'
    BY <1>1, <1>2, <2>1 DEF Sold, NobodyOwnsForFree, Public
  <2> QED BY <1>3, <2>2, <2>3 DEF Sold
<1> QED BY <1>4, <1>5, <1>6 DEF DeskStep

(* Sold holds of every state.                                               *)
LEMMA AlwaysSold == Spec => []Sold
<1>1. Init => Sold
  BY DEF Init, Sold, LocksHold, LockedBy, Uncommitted, NobodyOwnsForFree, Public, NoJob, Idle,
     None
<1>2. Typed /\ Sold /\ [Next]_vars => Sold'
  <2>1. Sold /\ UNCHANGED vars => Sold'
    BY DEF vars, Sold, LocksHold, LockedBy, Uncommitted, NobodyOwnsForFree, Public
  <2> QED BY <2>1, NextSteps, PurchaseSold, WorkSold, DeskSold
<1> QED BY <1>1, <1>2, AlwaysTyped, PTL DEF Spec

(* NobodyOwnsForFree: whoever owns a number has an order with it that was   *)
(* not paid back, through recyclings, resales and refunds.                  *)
THEOREM PaidFor == Spec => []NobodyOwnsForFree
<1>1. Sold => NobodyOwnsForFree
  BY DEF Sold
<1> QED BY <1>1, AlwaysSold, PTL

(* SoldFromPool: no step takes a number from one customer for another; the  *)
(* UPDATE ... AND account_id IS NULL holds the rows until the commit.       *)
THEOREM FromPool == Spec => SoldFromPool
<1>1. Typed /\ Sold /\ [Next]_vars =>
        [\A n \in Number : owner[n] = None \/ owner'[n] \in {None, owner[n]}]_vars
  <2> SUFFICES ASSUME Typed, Sold, Next, NEW n \in Number
               PROVE  owner[n] = None \/ owner'[n] \in {None, owner[n]}
    OBVIOUS
  <2>1. CASE PurchaseStep
    <3>1. owner' = owner \/ \E p \in Purchase :
            txn[p].at = "locked" /\ owner'[n] = IF n \in txn[p].ids THEN By[p] ELSE owner[n]
      BY <2>1 DEF PurchaseStep, Handle, Pick, Lock, LockBy, Commit, CommitBy, Publish, Crash
    <3> QED BY <3>1 DEF Sold, LocksHold, Public
  <2>2. CASE WorkStep
    BY <2>2 DEF WorkStep, Work, Start, Insert, Page, Finish, Abandon, Deadlock, DeadlockBy,
       GiveUp, GiveUpBy, Kill
  <2>3. CASE DeskStep \/ PoolStep
    BY <2>3 DEF DeskStep, DeskRead, DeskReadBy, CancelOrder, Refund, RefundBy, PoolStep,
       RecycleRead, RecycleWrite, Age, Released
  <2> QED BY <2>1, <2>2, <2>3, NextSteps
<1> QED BY <1>1, AlwaysTyped, AlwaysSold, PTL DEF Spec, SoldFromPool

-----------------------------------------------------------------------------
(* Every further row is explained by a deadlock after the commit            *)

(* A task moves between an attempt that has not inserted its rows and one   *)
(* that has; only an insertion adds rows, only a deadlock after it goes     *)
(* back, and that one is counted.                                           *)
LEMMA WorkCounted ==
  ASSUME Typed, CopiesCounted, WorkStep
  PROVE  CopiesCounted'
<1> USE DEF Typed, TypeOK, Remembered
<1>1. ASSUME NEW p \in Purchase,
             \A q \in Purchase \ {p} : /\ copies'[q] = copies[q] /\ job'[q].at = job[q].at
                                       /\ replays'[q] = replays[q],
             \A n \in Number :
               copies'[p][n] <= IF job'[p].at \in Tried THEN 1 + replays'[p] ELSE replays'[p]
      PROVE  CopiesCounted'
  BY <1>1 DEF CopiesCounted
<1>2. ASSUME NEW p \in Purchase,
             Start(p) \/ Page(p) \/ Finish(p) \/ Abandon(p) \/ GiveUp(p) \/ Kill(p)
      PROVE  CopiesCounted'
  <2>1. copies' = copies /\ replays' = replays
    BY <1>2 DEF Start, Page, Finish, Abandon, GiveUp, GiveUpBy, Kill
  <2>2. \A q \in Purchase \ {p} : job'[q].at = job[q].at
    BY <1>2 DEF Start, Page, Finish, Abandon, GiveUp, GiveUpBy, Kill
  <2>3. \/ job'[p].at \in Tried
        \/ job'[p].at = "insert" /\ job[p].at = "waiting"
        \/ job'[p].at = job[p].at
    <3>1. CASE Page(p)
      <4>1. PICK n \in job[p].left :
              \/ job' = [job EXCEPT ![p].left = @ \ {n}, ![p].queued = @ + copies[p][n]]
              \/ job' = [job EXCEPT ![p].left = @ \ {n}]
        BY <3>1 DEF Page
      <4> QED BY <4>1 DEF Job
    <3>2. CASE ~Page(p)
      BY <1>2, <3>2 DEF Start, Finish, Abandon, GiveUp, GiveUpBy, Kill, Job
    <3> QED BY <3>1, <3>2
  <2>4. \A n \in Number :
          copies[p][n] <= IF job'[p].at \in Tried
                          THEN 1 + replays[p] ELSE replays[p]
    <3> SUFFICES ASSUME NEW n \in Number
                 PROVE  copies[p][n] <= IF job'[p].at \in Tried
                                        THEN 1 + replays[p] ELSE replays[p]
      OBVIOUS
    <3>1. copies[p][n] \in Nat /\ replays[p] \in Nat
      OBVIOUS
    <3>2. copies[p][n] <= IF job[p].at \in Tried
                          THEN 1 + replays[p] ELSE replays[p]
      BY DEF CopiesCounted
    <3> HIDE DEF Typed, TypeOK, Remembered
    <3> QED BY <2>3, <3>1, <3>2
  <2> QED BY <1>1, <2>1, <2>2, <2>4
<1>3. ASSUME NEW p \in Purchase, Insert(p) PROVE CopiesCounted'
  <2>1. replays' = replays /\ job[p].at = "insert" /\ job'[p].at = "page"
    BY <1>3 DEF Insert, Job
  <2>2. \A q \in Purchase \ {p} : copies'[q] = copies[q] /\ job'[q].at = job[q].at
    BY <1>3 DEF Insert
  <2>3. \A n \in Number : copies'[p][n] \in {copies[p][n], copies[p][n] + 1}
    BY <1>3 DEF Insert
  <2>4. \A n \in Number : copies'[p][n] <= 1 + replays[p]
    <3> SUFFICES ASSUME NEW n \in Number PROVE copies'[p][n] <= 1 + replays[p]
      OBVIOUS
    <3>1. copies[p][n] \in Nat /\ replays[p] \in Nat /\ copies[p][n] <= replays[p]
      BY <2>1 DEF CopiesCounted
    <3> HIDE DEF Typed, TypeOK, Remembered
    <3> QED BY <2>3, <3>1
  <2> QED BY <1>1, <2>1, <2>2, <2>4
<1>4. ASSUME NEW p \in Purchase, Deadlock(p) PROVE CopiesCounted'
  <2>1. copies' = copies /\ job[p].at \in {"insert", "page"}
        /\ job'[p].at \in {"insert", "failing"}
    BY <1>4 DEF Deadlock, DeadlockBy, Job
  <2>2. \A q \in Purchase \ {p} : job'[q].at = job[q].at /\ replays'[q] = replays[q]
    BY <1>4 DEF Deadlock, DeadlockBy
  <2>3. replays'[p] = IF job[p].at = "page" THEN replays[p] + 1 ELSE replays[p]
    BY <1>4 DEF Deadlock, DeadlockBy
  <2>4. \A n \in Number :
          copies[p][n] <= IF job'[p].at \in Tried
                          THEN 1 + replays'[p] ELSE replays'[p]
    BY <2>1, <2>3 DEF CopiesCounted
  <2> QED BY <1>1, <2>1, <2>2, <2>4
<1> QED BY <1>2, <1>3, <1>4 DEF WorkStep, Work

(* CopiesExplained: no number has more rows of its order than one and the   *)
(* deadlocks that struck after the rows were committed.                     *)
THEOREM CopiesCorrect == Spec => []CopiesExplained
<1>1. Init => CopiesCounted
  BY DEF Init, CopiesCounted, NoJob, None
<1>2. Typed /\ Sold /\ CopiesCounted /\ [Next]_vars => CopiesCounted'
  <2> SUFFICES ASSUME Typed, Sold, CopiesCounted, [Next]_vars PROVE CopiesCounted'
    OBVIOUS
  <2>1. CASE PurchaseStep
    <3>1. copies' = copies /\ replays' = replays
      BY <2>1 DEF PurchaseStep, Handle, Pick, Lock, LockBy, Commit, CommitBy, Publish, Crash
    <3>2. \A p \in Purchase : \/ job'[p].at = job[p].at
                              \/ job[p].at \in {None, "unpublished"}
      <4>1. PICK p \in Purchase : Pick(p) \/ Handle(p) \/ Crash(p)
        BY <2>1 DEF PurchaseStep
      <4>2. \A q \in Purchase \ {p} : job'[q] = job[q]
        BY <4>1 DEF Handle, Pick, Lock, LockBy, Commit, CommitBy, Publish, Crash, Typed,
           Remembered
      <4>3. Commit(p) => job[p].at = None
        BY DEF Commit, CommitBy, Sold, Uncommitted
      <4> QED BY <4>1, <4>2, <4>3 DEF Handle, Pick, Lock, LockBy, Publish, Crash
    <3>3. \A p \in Purchase : replays[p] \in Nat /\ \A n \in Number : copies[p][n] \in Nat
      BY DEF Typed, TypeOK, Remembered
    <3>4. \A p \in Purchase, n \in Number :
            \/ job'[p].at = job[p].at
            \/ copies[p][n] <= replays[p]
      BY <3>2 DEF CopiesCounted, None
    <3> QED BY <3>1, <3>3, <3>4 DEF CopiesCounted
  <2>2. CASE WorkStep
    BY <2>2, WorkCounted
  <2>3. CASE DeskStep \/ PoolStep \/ UNCHANGED vars
    BY <2>3 DEF vars, CopiesCounted, DeskStep, DeskRead, DeskReadBy, CancelOrder, Refund,
       RefundBy, PoolStep, RecycleRead, RecycleWrite, Age
  <2> QED BY <2>1, <2>2, <2>3, NextSteps
<1>3. Typed /\ CopiesCounted => CopiesExplained
  BY DEF Typed, TypeOK, Remembered, CopiesCounted, CopiesExplained
<1> QED BY <1>1, <1>2, <1>3, AlwaysTyped, AlwaysSold, PTL DEF Spec

-----------------------------------------------------------------------------
(* Money goes back once for every administrator at most                     *)

(* A request that begins reads that nothing was paid back: then everybody   *)
(* who is about to pay the order back is another administrator.             *)
LEMMA DeskCounted ==
  ASSUME Typed, RefundsCounted, DeskStep
  PROVE  RefundsCounted'
<1> USE DEF Typed, TypeOK, Remembered
<1>1. IsFiniteSet(Admin) /\ Cardinality(Admin) \in Nat
  BY BoundAssumption, FS_CardinalityType
<1>2. \A p \in Purchase : /\ Refunding(p) \subseteq Admin /\ IsFiniteSet(Refunding(p))
                          /\ Cardinality(Refunding(p)) \in Nat
  BY <1>1, FS_Subset, FS_CardinalityType DEF Refunding
<1>3. ASSUME NEW m \in Admin, NEW p \in Purchase, DeskRead(m, p) PROVE RefundsCounted'
  <2>1. /\ refunded' = refunded /\ desk[m] = Idle
        /\ \A k \in Admin \ {m} : desk'[k] = desk[k]
        /\ desk'[m].order = p /\ (desk'[m].op = "refund" => refunded[p] = 0)
    BY <1>3 DEF DeskRead, DeskReadBy
  <2>2. \A q \in Purchase : q # p => Refunding(q)' = Refunding(q)
    BY <2>1 DEF Refunding, Idle
  <2>3. CASE desk'[m].op = "refund"
    <3>1. Refunding(p)' \subseteq Admin
      BY DEF Refunding
    <3>2. Cardinality(Refunding(p)') <= Cardinality(Admin)
      BY <1>1, <3>1, FS_Subset
    <3>3. Cardinality(Refunding(p)') \in Nat
      BY <1>1, <3>1, FS_Subset, FS_CardinalityType
    <3>4. refunded'[p] = 0
      BY <2>1, <2>3
    <3>5. \A q \in Purchase : q # p =>
            refunded'[q] + Cardinality(Refunding(q)') <= Cardinality(Admin)
      BY <2>1, <2>2 DEF RefundsCounted
    <3> QED BY <1>1, <3>2, <3>3, <3>4, <3>5 DEF RefundsCounted
  <2>4. CASE desk'[m].op # "refund"
    <3>1. Refunding(p)' = Refunding(p)
      <4>1. \A k \in Admin : k = m \/ desk'[k] = desk[k]
        BY <2>1
      <4>2. desk[m].op # "refund"
        BY <2>1 DEF Idle
      <4> QED BY <2>4, <4>1, <4>2 DEF Refunding
    <3> QED BY <2>1, <2>2, <3>1 DEF RefundsCounted
  <2> QED BY <2>3, <2>4
<1>4. ASSUME NEW m \in Admin, CancelOrder(m) PROVE RefundsCounted'
  <2>1. refunded' = refunded /\ desk[m].op = "cancel" /\ desk' = [desk EXCEPT ![m] = Idle]
    BY <1>4 DEF CancelOrder
  <2>2. \A q \in Purchase : Refunding(q)' = Refunding(q)
    <3>1. \A k \in Admin : k = m \/ desk'[k] = desk[k]
      BY <2>1
    <3>2. desk[m].op # "refund" /\ desk'[m].op # "refund"
      BY <2>1 DEF Idle
    <3> QED BY <3>1, <3>2 DEF Refunding
  <2> QED BY <2>1, <2>2 DEF RefundsCounted
<1>5. ASSUME NEW m \in Admin, Refund(m) PROVE RefundsCounted'
  <2>1. desk[m].op = "refund" /\ desk' = [desk EXCEPT ![m] = Idle]
        /\ refunded' = [refunded EXCEPT ![desk[m].order] = @ + 1]
    BY <1>5 DEF Refund, RefundBy
  <2>2. PICK p \in Purchase : p = desk[m].order
    BY <2>1 DEF Request, Idle
  <2>3. m \in Refunding(p) /\ Refunding(p)' = Refunding(p) \ {m}
    BY <2>1, <2>2 DEF Refunding, Idle
  <2>4. Cardinality(Refunding(p)') = Cardinality(Refunding(p)) - 1
    BY <1>2, <2>3, FS_RemoveElement
  <2>5. refunded'[p] = refunded[p] + 1 /\ refunded[p] \in Nat
    BY <2>1, <2>2
  <2>6. \A q \in Purchase : q # p => refunded'[q] = refunded[q]
                                     /\ Refunding(q)' = Refunding(q)
    BY <2>1, <2>2 DEF Refunding, Idle
  <2>7. refunded'[p] + Cardinality(Refunding(p)') <= Cardinality(Admin)
    BY <1>1, <1>2, <2>4, <2>5 DEF RefundsCounted
  <2> QED BY <2>6, <2>7 DEF RefundsCounted
<1> QED BY <1>3, <1>4, <1>5 DEF DeskStep

(* RefundsCounted holds of every state.                                     *)
LEMMA AlwaysRefundsCounted == Spec => []RefundsCounted
<1>1. Init => RefundsCounted
  <2> SUFFICES ASSUME Init, NEW p \in Purchase
               PROVE  refunded[p] + Cardinality(Refunding(p)) <= Cardinality(Admin)
    BY DEF RefundsCounted
  <2>1. Refunding(p) = {} /\ refunded[p] = 0
    BY DEF Init, Refunding, Idle
  <2> QED BY <2>1, BoundAssumption, FS_EmptySet, FS_CardinalityType
<1>2. Typed /\ RefundsCounted /\ [Next]_vars => RefundsCounted'
  <2> SUFFICES ASSUME Typed, RefundsCounted, [Next]_vars PROVE RefundsCounted'
    OBVIOUS
  <2>1. CASE PurchaseStep \/ WorkStep \/ PoolStep \/ UNCHANGED vars
    <3>1. refunded' = refunded /\ desk' = desk
      BY <2>1 DEF vars, PurchaseStep, Handle, Pick, Lock, LockBy, Commit, CommitBy, Publish,
         Crash, WorkStep, Work, Start, Insert, Page, Finish, Abandon, Deadlock, DeadlockBy, GiveUp,
         GiveUpBy, Kill, PoolStep, RecycleRead, RecycleWrite, Age
    <3> QED BY <3>1 DEF RefundsCounted, Refunding
  <2> QED BY <2>1, NextSteps, DeskCounted
<1> QED BY <1>1, <1>2, AlwaysTyped, PTL DEF Spec

(* An order is paid back at most once by each administrator: refunded_at is *)
(* read without a lock and written with the refund (refund_order), so only  *)
(* requests that have all read it before the first refund can all pay.      *)
THEOREM RefundsBounded ==
  Spec => [](\A p \in Purchase : refunded[p] <= Cardinality(Admin))
<1>1. Typed /\ RefundsCounted => \A p \in Purchase : refunded[p] <= Cardinality(Admin)
  <2> SUFFICES ASSUME Typed, RefundsCounted, NEW p \in Purchase
               PROVE  refunded[p] <= Cardinality(Admin)
    OBVIOUS
  <2>1. Refunding(p) \subseteq Admin /\ IsFiniteSet(Admin)
    BY BoundAssumption DEF Refunding
  <2>2. Cardinality(Refunding(p)) \in Nat /\ Cardinality(Admin) \in Nat
    BY <2>1, FS_Subset, FS_CardinalityType
  <2> QED BY <2>2 DEF Typed, TypeOK, RefundsCounted
<1> QED BY <1>1, AlwaysTyped, AlwaysRefundsCounted, PTL

(* A request is alone with its order, or the order is among those that were *)
(* raced for; it leaves the desk with the refund it made.                   *)
LEMMA DeskAlone ==
  ASSUME Typed, RefundsAlone, DeskStep
  PROVE  RefundsAlone'
<1> USE DEF Typed, TypeOK, Remembered
<1>1. ASSUME NEW m \in Admin, NEW p \in Purchase, DeskRead(m, p) PROVE RefundsAlone'
  <2>1. /\ refunded' = refunded /\ desk[m] = Idle
        /\ \A k \in Admin \ {m} : desk'[k] = desk[k]
        /\ desk'[m].order = p
    BY <1>1 DEF DeskRead, DeskReadBy
  <2>2. \A q \in Purchase : q # p => Refunding(q)' = Refunding(q)
    BY <2>1 DEF Refunding, Idle
  <2>3. raced \subseteq raced' /\ \A q \in Purchase : q # p => (q \in raced' <=> q \in raced)
    BY <1>1 DEF DeskRead, DeskReadBy
  <2>4. CASE desk'[m].op = "refund"
    <3>1. refunded[p] = 0 /\ (p \notin raced' => Refunding(p) = {})
      BY <1>1, <2>4 DEF DeskRead, DeskReadBy
    <3>2. Refunding(p)' \subseteq Refunding(p) \cup {m}
      BY <2>1 DEF Refunding
    <3>3. p \notin raced' => /\ refunded'[p] = 0
                             /\ \A i, j \in Refunding(p)' : i = j
      BY <2>1, <3>1, <3>2
    <3>4. \A q \in Purchase : q # p /\ q \notin raced' =>
            /\ q \notin raced /\ refunded'[q] = refunded[q]
            /\ Refunding(q)' = Refunding(q)
      BY <2>1, <2>2, <2>3
    <3> HIDE DEF Typed, TypeOK, Remembered
    <3>5. ASSUME NEW q \in Purchase, q \notin raced'
          PROVE  /\ refunded'[q] <= 1 /\ (refunded'[q] = 1 => Refunding(q)' = {})
                 /\ \A i, j \in Refunding(q)' : i = j
      <4>1. CASE q = p
        BY <3>3, <3>5, <4>1
      <4>2. CASE q # p
        BY <3>4, <3>5, <4>2 DEF RefundsAlone
      <4> QED BY <4>1, <4>2
    <3> QED BY <3>5 DEF RefundsAlone
  <2>5. CASE desk'[m].op # "refund"
    <3>1. Refunding(p)' \subseteq Refunding(p)
      BY <2>1, <2>5 DEF Refunding
    <3>2. \A q \in Purchase : Refunding(q)' \subseteq Refunding(q)
      BY <2>2, <3>1
    <3> QED BY <2>1, <2>3, <3>2 DEF RefundsAlone
  <2> QED BY <2>4, <2>5
<1>2. ASSUME NEW m \in Admin, CancelOrder(m) PROVE RefundsAlone'
  <2>1. UNCHANGED <<refunded, raced>> /\ desk' = [desk EXCEPT ![m] = Idle]
    BY <1>2 DEF CancelOrder
  <2>2. \A q \in Purchase : Refunding(q)' \subseteq Refunding(q)
    <3>1. desk'[m].op # "refund" /\ \A k \in Admin : k = m \/ desk'[k] = desk[k]
      BY <2>1 DEF Idle
    <3> HIDE DEF Typed, TypeOK, Remembered
    <3> QED BY <3>1 DEF Refunding
  <2> QED BY <2>1, <2>2 DEF RefundsAlone
<1>3. ASSUME NEW m \in Admin, Refund(m) PROVE RefundsAlone'
  <2>1. /\ desk[m].op = "refund" /\ desk' = [desk EXCEPT ![m] = Idle] /\ raced' = raced
        /\ refunded' = [refunded EXCEPT ![desk[m].order] = @ + 1]
    BY <1>3 DEF Refund, RefundBy
  <2>2. PICK p \in Purchase : p = desk[m].order
    BY <2>1 DEF Request, Idle
  <2>3. m \in Refunding(p) /\ Refunding(p)' = Refunding(p) \ {m}
    BY <2>1, <2>2 DEF Refunding, Idle
  <2>4. refunded'[p] = refunded[p] + 1 /\ refunded[p] \in Nat
    BY <2>1, <2>2
  <2>5. \A q \in Purchase : q # p => refunded'[q] = refunded[q]
                                     /\ Refunding(q)' = Refunding(q)
    BY <2>1, <2>2 DEF Refunding, Idle
  <2>6. p \notin raced => refunded'[p] = 1 /\ Refunding(p)' = {}
    <3> SUFFICES ASSUME p \notin raced PROVE refunded'[p] = 1 /\ Refunding(p)' = {}
      OBVIOUS
    <3>1. /\ refunded[p] <= 1 /\ refunded[p] # 1
          /\ \A k \in Refunding(p) : k = m
      BY <2>3 DEF RefundsAlone
    <3>2. refunded'[p] = 1
      <4> HIDE DEF Typed, TypeOK, Remembered
      <4> QED BY <2>4, <3>1
    <3>3. Refunding(p)' = {}
      BY <2>3, <3>1
    <3> QED BY <3>2, <3>3
  <2> QED BY <2>1, <2>5, <2>6 DEF RefundsAlone
<1> QED BY <1>1, <1>2, <1>3 DEF DeskStep

(* RefundedOnce: whatever the task does to the order under the              *)
(* administrators, an order is refunded twice only if two requests were     *)
(* about to refund it at once (refund_order checks refunded_at without a    *)
(* lock).                                                                   *)
THEOREM RefundCorrect == Spec => []RefundedOnce
<1>1. Init => RefundsAlone
  BY DEF Init, RefundsAlone, Refunding, Idle
<1>2. Typed /\ RefundsAlone /\ [Next]_vars => RefundsAlone'
  <2> SUFFICES ASSUME Typed, RefundsAlone, [Next]_vars PROVE RefundsAlone'
    OBVIOUS
  <2>1. CASE PurchaseStep \/ WorkStep \/ PoolStep \/ UNCHANGED vars
    <3>1. refunded' = refunded /\ desk' = desk /\ raced' = raced
      BY <2>1 DEF vars, PurchaseStep, Handle, Pick, Lock, LockBy, Commit, CommitBy, Publish,
         Crash, WorkStep, Work, Start, Insert, Page, Finish, Abandon, Deadlock, DeadlockBy,
         GiveUp, GiveUpBy, Kill, PoolStep, RecycleRead, RecycleWrite, Age
    <3> QED BY <3>1 DEF RefundsAlone, Refunding
  <2> QED BY <2>1, NextSteps, DeskAlone
<1>3. RefundsAlone => RefundedOnce
  BY DEF RefundsAlone, RefundedOnce
<1> QED BY <1>1, <1>2, <1>3, AlwaysTyped, PTL DEF Spec

-----------------------------------------------------------------------------
(* No money is made or lost                                                 *)

(* What an account has bought, and each unit of money it was paid back.     *)
Bought(a) == {p \in Purchase : By[p] = a /\ order[p] # None}
PaidBack(a) == UNION {{p} \X (1..paid[p]) : p \in {q \in Purchase : By[q] = a}}

(* An account has what it began with, less the price of each order, and     *)
(* with what the refunds of its orders paid.                                *)
BooksBalance ==
  \A a \in Account :
    balance[a] + Cardinality(Bought(a)) = Balance + Cardinality(PaidBack(a))
Counted == \A a \in Account : IsFiniteSet(Bought(a)) /\ IsFiniteSet(PaidBack(a))
Books == Counted /\ BooksBalance

(* A unit paid back, by its order and its number.                           *)
LEMMA PaidBackMembers ==
  ASSUME NEW a \in Account
  PROVE  \A u : u \in PaidBack(a) <=>
           \E p \in Purchase : By[p] = a /\ \E k \in 1..paid[p] : u = <<p, k>>
BY DEF PaidBack

(* What a refund adds: n units behind the k there are.                      *)
Units(p, k, n) == {p} \X ((k + 1)..(k + n))
LEMMA UnitsCounted ==
  ASSUME NEW p, NEW k \in Nat, NEW n \in Nat
  PROVE  IsFiniteSet(Units(p, k, n)) /\ Cardinality(Units(p, k, n)) = n
<1> DEFINE I == (k + 1)..(k + n)
<1>1. IsFiniteSet(I) /\ Cardinality(I) = IF k + 1 > k + n THEN 0 ELSE k + n - (k + 1) + 1
  BY FS_Interval
<1>2. Cardinality(I) = n
  BY <1>1
<1>3. IsFiniteSet({p}) /\ Cardinality({p}) = 1
  BY FS_Singleton
<1> HIDE DEF I
<1>4. IsFiniteSet({p} \X I) /\ Cardinality({p} \X I) = Cardinality({p}) * Cardinality(I)
  BY <1>1, <1>3, FS_Product
<1>5. Cardinality({p} \X I) = n
  BY <1>2, <1>3, <1>4
<1> QED BY <1>4, <1>5 DEF I, Units

(* A step that moves no money and neither makes nor unmakes an order.       *)
LEMMA BooksUntouched ==
  ASSUME Books, UNCHANGED <<balance, paid>>,
         \A p \in Purchase : order'[p] # None <=> order[p] # None
  PROVE  Books'
<1>1. ASSUME NEW a \in Account PROVE Bought(a)' = Bought(a) /\ PaidBack(a)' = PaidBack(a)
  BY DEF Bought, PaidBack
<1> QED BY <1>1 DEF Books, Counted, BooksBalance

(* The commit of a purchase: one price for one order more, or nothing.      *)
LEMMA CommitBooks ==
  ASSUME Typed, Sold, Books, NEW p \in Purchase, Commit(p)
  PROVE  Books'
<1>1. txn[p].at = "locked" /\ paid' = paid
  BY DEF Commit, CommitBy
<1>2. order[p] = None
  BY <1>1 DEF Sold, Uncommitted
<1>3. CASE UNCHANGED <<balance, order>>
  BY <1>1, <1>3, BooksUntouched
<1>4. CASE ~UNCHANGED <<balance, order>>
  <2> DEFINE a == By[p]
  <2>1. /\ balance' = [balance EXCEPT ![a] = @ - 1]
        /\ order' = [order EXCEPT ![p] = IF Kind[p] = "send" THEN "processing" ELSE "completed"]
    BY <1>4 DEF Commit, CommitBy
  <2>2. a \in Account /\ balance[a] \in Nat /\ balance'[a] = balance[a] - 1
    BY <2>1, PurchaseAssumption DEF Typed, TypeOK
  <2>3. order'[p] # None /\ \A q \in Purchase : q # p => order'[q] = order[q]
    BY <2>1 DEF Typed, TypeOK, None
  <2>4. \A b \in Account : PaidBack(b)' = PaidBack(b)
    BY <1>1 DEF PaidBack
  <2>5. Bought(a)' = Bought(a) \cup {p} /\ p \notin Bought(a)
    BY <1>2, <2>3 DEF Bought
  <2>6. \A b \in Account : b # a => Bought(b)' = Bought(b) /\ balance'[b] = balance[b]
    BY <2>1, <2>3 DEF Bought, Typed, TypeOK
  <2>7. IsFiniteSet(Bought(a)')
        /\ Cardinality(Bought(a)') = Cardinality(Bought(a)) + 1
    <3>1. IsFiniteSet(Bought(a))
      BY <2>2 DEF Books, Counted
    <3> QED BY <2>5, <3>1, FS_AddElement
  <2>8. Cardinality(Bought(a)) \in Nat /\ Cardinality(PaidBack(a)) \in Nat
    BY <2>2, FS_CardinalityType DEF Books, Counted
  <2>9. balance'[a] + Cardinality(Bought(a)') = Balance + Cardinality(PaidBack(a)')
    <3>1. balance[a] + Cardinality(Bought(a)) = Balance + Cardinality(PaidBack(a))
      BY <2>2 DEF Books, BooksBalance
    <3> QED BY <2>2, <2>4, <2>7, <2>8, <3>1
  <2>10. BooksBalance'
    BY <2>4, <2>6, <2>9 DEF Books, BooksBalance
  <2>11. Counted'
    BY <2>4, <2>6, <2>7 DEF Books, Counted
  <2> QED BY <2>10, <2>11 DEF Books
<1> QED BY <1>3, <1>4

(* A refund: what the account gets is what the order was paid back.         *)
LEMMA RefundBooks ==
  ASSUME Typed, Sold, Books, NEW m \in Admin, Refund(m)
  PROVE  Books'
<1>1. desk[m] # Idle
  BY DEF Refund, RefundBy, Idle
<1>2. PICK p \in Purchase : p = desk[m].order
  BY <1>1 DEF Typed, Remembered, Request
<1>3. order[p] # None
  BY <1>1, <1>2 DEF Sold, Uncommitted
<1> DEFINE a == By[p]  k == paid[p]
<1>4. PICK amount \in Nat :
        /\ balance' = [balance EXCEPT ![a] = @ + amount]
        /\ paid' = [paid EXCEPT ![p] = @ + amount]
        /\ order' = [order EXCEPT ![p] = "cancelled"]
  BY <1>2, BoundAssumption DEF Refund, RefundBy
<1>5. a \in Account /\ balance[a] \in Nat /\ balance'[a] = balance[a] + amount
  BY <1>4, PurchaseAssumption DEF Typed, TypeOK
<1>6. k \in Nat /\ paid'[p] = k + amount
      /\ \A q \in Purchase : q # p => paid'[q] = paid[q]
  BY <1>4 DEF Typed, TypeOK
<1> DEFINE more == Units(p, k, amount)
<1>7. \A b \in Account : Bought(b)' = Bought(b)
  <2>1. \A q \in Purchase : order'[q] # None <=> order[q] # None
    BY <1>3, <1>4 DEF Typed, TypeOK, None
  <2> QED BY <2>1 DEF Bought
<1>8. PaidBack(a)' = PaidBack(a) \cup more /\ PaidBack(a) \cap more = {}
  <2>1. \A i : i \in 1..paid'[p] <=> i \in 1..k \/ i \in (k + 1)..(k + amount)
    BY <1>6
  <2>2. \A i \in (k + 1)..(k + amount) : i \notin 1..k
    BY <1>6
  <2>3. \A q \in Purchase : q # p => 1..paid'[q] = 1..paid[q]
    BY <1>6
  <2>4. \A u : u \in more <=> \E i \in (k + 1)..(k + amount) : u = <<p, i>>
    BY DEF Units
  <2> HIDE DEF more
  <2>5. ASSUME NEW u, u \in PaidBack(a)' PROVE u \in PaidBack(a) \cup more
    <3>1. PICK q \in Purchase : By[q] = a /\ \E i \in 1..paid'[q] : u = <<q, i>>
      BY <1>5, <2>5 DEF PaidBack
    <3>2. PICK i \in 1..paid'[q] : u = <<q, i>>
      BY <3>1
    <3>3. CASE q = p
      BY <1>5, <2>1, <2>4, <3>1, <3>2, <3>3, PaidBackMembers
    <3>4. CASE q # p
      BY <1>5, <2>3, <3>1, <3>2, <3>4, PaidBackMembers
    <3> QED BY <3>3, <3>4
  <2>6. ASSUME NEW u, u \in PaidBack(a) \cup more PROVE u \in PaidBack(a)'
    <3>1. \E q \in Purchase : By[q] = a /\ \E i \in 1..paid'[q] : u = <<q, i>>
      <4>1. CASE u \in more
        BY <2>1, <2>4, <4>1
      <4>2. CASE u \in PaidBack(a)
        <5>1. PICK q \in Purchase : By[q] = a /\ \E i \in 1..paid[q] : u = <<q, i>>
          BY <1>5, <4>2, PaidBackMembers
        <5> QED BY <2>1, <2>3, <5>1
      <4> QED BY <2>6, <4>1, <4>2
    <3> QED BY <3>1 DEF PaidBack
  <2>7. ASSUME NEW u, u \in more, u \in PaidBack(a) PROVE FALSE
    <3>1. PICK i \in (k + 1)..(k + amount) : u = <<p, i>>
      BY <2>4, <2>7
    <3>2. PICK q \in Purchase : By[q] = a /\ \E j \in 1..paid[q] : u = <<q, j>>
      BY <1>5, <2>7, PaidBackMembers
    <3> QED BY <2>2, <3>1, <3>2
  <2> QED BY <2>5, <2>6, <2>7
<1>9. \A b \in Account : b # a => PaidBack(b)' = PaidBack(b) /\ balance'[b] = balance[b]
  <2>1. ASSUME NEW b \in Account, b # a PROVE PaidBack(b)' = PaidBack(b)
    <3>1. \A q \in {r \in Purchase : By[r] = b} : paid'[q] = paid[q]
      BY <1>6, <2>1
    <3> QED BY <3>1 DEF PaidBack
  <2> QED BY <1>4, <2>1 DEF Typed, TypeOK
<1>10. IsFiniteSet(PaidBack(a)')
       /\ Cardinality(PaidBack(a)') = Cardinality(PaidBack(a)) + amount
  <2>1. IsFiniteSet(PaidBack(a)) /\ Cardinality(PaidBack(a)) \in Nat
    BY <1>5, FS_CardinalityType DEF Books, Counted
  <2>2. IsFiniteSet(more) /\ Cardinality(more) = amount
    <3> HIDE DEF k
    <3> QED BY <1>6, UnitsCounted
  <2> HIDE DEF more
  <2>3. /\ IsFiniteSet(PaidBack(a) \cup more)
        /\ Cardinality(PaidBack(a) \cup more) =
             Cardinality(PaidBack(a)) + Cardinality(more) - Cardinality(PaidBack(a) \cap more)
    BY <2>1, <2>2, FS_Union
  <2>4. Cardinality(PaidBack(a) \cap more) = 0
    BY <1>8, FS_EmptySet
  <2> QED BY <1>8, <2>1, <2>2, <2>3, <2>4
<1>11. Cardinality(Bought(a)) \in Nat /\ Cardinality(PaidBack(a)) \in Nat
  BY <1>5, FS_CardinalityType DEF Books, Counted
<1>12. balance'[a] + Cardinality(Bought(a)') = Balance + Cardinality(PaidBack(a)')
  <2>1. balance[a] + Cardinality(Bought(a)) = Balance + Cardinality(PaidBack(a))
    BY <1>5 DEF Books, BooksBalance
  <2>2. Balance \in Nat
    BY BoundAssumption
  <2> QED BY <1>5, <1>7, <1>10, <1>11, <2>1, <2>2
<1>13. BooksBalance'
  BY <1>7, <1>9, <1>12 DEF Books, BooksBalance
<1>14. Counted'
  BY <1>7, <1>9, <1>10 DEF Books, Counted
<1> QED BY <1>13, <1>14 DEF Books

(* The other steps move no money: picking, locking and publishing, the      *)
(* task that sends, a cancellation, the recycling.                          *)
LEMMA OtherBooks ==
  ASSUME Typed, Sold, Books,
         (PurchaseStep /\ \A p \in Purchase : ~Commit(p)) \/ WorkStep
           \/ (DeskStep /\ \A m \in Admin : ~Refund(m)) \/ PoolStep
  PROVE  Books'
<1>1. CASE (PurchaseStep /\ \A p \in Purchase : ~Commit(p)) \/ PoolStep
  <2>1. UNCHANGED <<balance, paid, order>>
    BY <1>1 DEF PurchaseStep, Handle, Pick, Lock, LockBy, Publish, Crash, PoolStep,
       RecycleRead, RecycleWrite, Age
  <2> QED BY <2>1, BooksUntouched
<1>2. CASE WorkStep
  <2>1. UNCHANGED <<balance, paid>>
    BY <1>2 DEF WorkStep, Work, Start, Insert, Page, Finish, Abandon, Deadlock, DeadlockBy, GiveUp,
       GiveUpBy, Kill
  <2>2. PICK p \in Purchase : Work(p) \/ Deadlock(p) \/ GiveUp(p) \/ Kill(p)
    BY <1>2 DEF WorkStep
  <2>3. job[p].at # None
    BY <2>2 DEF Work, Start, Insert, Page, Finish, Abandon, Deadlock, DeadlockBy, GiveUp, GiveUpBy,
       Kill, None
  <2>4. order[p] # None
    BY <2>3 DEF Sold, Uncommitted
  <2>5. order' = order \/ \E o \in OrderStatus : order' = [order EXCEPT ![p] = o]
                            /\ (o = order[p] \/ o # None)
    BY <2>2 DEF Work, Start, Insert, Page, Finish, Abandon, Deadlock, DeadlockBy, GiveUp, GiveUpBy,
       Kill, Typed, TypeOK, OrderStatus, None
  <2>6. \A q \in Purchase : order'[q] # None <=> order[q] # None
    BY <2>4, <2>5 DEF Typed, TypeOK
  <2> QED BY <2>1, <2>6, BooksUntouched
<1>3. CASE DeskStep /\ \A m \in Admin : ~Refund(m)
  <2>1. PICK m \in Admin : (\E p \in Purchase : DeskRead(m, p)) \/ CancelOrder(m)
    BY <1>3 DEF DeskStep
  <2>2. UNCHANGED <<balance, paid>>
    BY <2>1 DEF DeskRead, DeskReadBy, CancelOrder
  <2>3. CASE \E p \in Purchase : DeskRead(m, p)
    <3>1. order' = order
      BY <2>3 DEF DeskRead, DeskReadBy
    <3> QED BY <2>2, <3>1, BooksUntouched
  <2>4. CASE CancelOrder(m)
    <3>1. desk[m] # Idle /\ order' = [order EXCEPT ![desk[m].order] = "cancelled"]
      BY <2>4 DEF CancelOrder, Idle
    <3>2. order[desk[m].order] # None
      BY <3>1 DEF Sold, Uncommitted
    <3>3. \A q \in Purchase : order'[q] # None <=> order[q] # None
      BY <3>1, <3>2 DEF Typed, TypeOK, None
    <3> QED BY <2>2, <3>3, BooksUntouched
  <2> QED BY <2>1, <2>3, <2>4
<1> QED BY <1>1, <1>2, <1>3

(* Books holds of every state.                                              *)
LEMMA AlwaysBooks == Spec => []Books
<1>1. Init => Books
  <2> SUFFICES ASSUME Init, NEW a \in Account
               PROVE  /\ IsFiniteSet(Bought(a)) /\ IsFiniteSet(PaidBack(a))
                      /\ balance[a] + Cardinality(Bought(a))
                           = Balance + Cardinality(PaidBack(a))
    BY DEF Books, Counted, BooksBalance
  <2>1. Bought(a) = {}
    BY DEF Init, Bought
  <2>2. PaidBack(a) = {}
    <3>1. \A p \in Purchase : 1..paid[p] = {}
      BY DEF Init
    <3> QED BY <3>1, PaidBackMembers
  <2>3. balance[a] = Balance /\ Balance \in Nat
    BY BoundAssumption DEF Init
  <2> QED BY <2>1, <2>2, <2>3, FS_EmptySet
<1>2. Typed /\ Sold /\ Books /\ [Next]_vars => Books'
  <2> SUFFICES ASSUME Typed, Sold, Books, [Next]_vars PROVE Books'
    OBVIOUS
  <2>1. CASE UNCHANGED vars
    <3>1. UNCHANGED <<balance, paid, order>>
      BY <2>1 DEF vars
    <3> QED BY <3>1, BooksUntouched
  <2>2. CASE \E p \in Purchase : Commit(p)
    BY <2>2, CommitBooks
  <2>3. CASE \E m \in Admin : Refund(m)
    BY <2>3, RefundBooks
  <2>4. CASE Next /\ (\A p \in Purchase : ~Commit(p)) /\ (\A m \in Admin : ~Refund(m))
    BY <2>4, NextSteps, OtherBooks
  <2> QED BY <2>1, <2>2, <2>3, <2>4
<1> QED BY <1>1, <1>2, AlwaysTyped, AlwaysSold, PTL DEF Spec

(* The books balance: an account has what it began with, less one price for *)
(* each of its orders, and with what the refunds paid, however purchases    *)
(* (buy_to_stock, buy_combo, buy_and_send), refunds of any amount           *)
(* (refund_order) and the task that sends interleave, fail or die.          *)
THEOREM MoneyCorrect == Spec => []BooksBalance
<1>1. Books => BooksBalance
  BY DEF Books
<1> QED BY <1>1, AlwaysBooks, PTL
===============================================================================
