----------------------------- MODULE BatchCharging -----------------------------
(***************************************************************************)
(* What a batch costs: the chunks of a batch (process_batch_chunk) charge  *)
(* the account for all their numbers at once, or one by one when the       *)
(* balance is too low, write the rows, and hand them to the gateway; a     *)
(* chunk that fails is refunded and run again.                             *)
(* Beside them the customer retries failed rows in place                   *)
(* (retry_batch_failed, charged again row by row) and administrators       *)
(* refund rows (sms_refund). All of it runs in processes of its own on one *)
(* balance; a transaction is one step.                                     *)
(*                                                                         *)
(* A message costs one unit. A chunk stands for its message in the queue   *)
(* of Celery, which is acknowledged late; row <<p, k>> is the k-th row     *)
(* written for the number p. Numbers of Bare are given without the "+" the *)
(* rows store them with; numbers of Bad fail the checks of a chunk.        *)
(***************************************************************************)
EXTENDS Integers, FiniteSets, FiniteSetsExt

CONSTANTS
  Chunk, Number, Of,      \* Of[p]: the chunk of the number p
  Bare, Bad,
  Request,                \* calls of retry_batch_failed
  Balance,                \* what the account starts with
  Portion,                \* rows of one transaction of the loop: 50
  MaxTries,               \* task-level retries and rescues of a chunk
  FaultKinds, MaxFaults

\* A number gets one row, and one more at each fault that repeats its chunk.
Row == Number \X (1..MaxFaults + 1)
RowStatus == {"none", "pending", "queued", "sent", "failed"}
ChunkStep == {"queued", "prefail", "charge", "write", "push", "some", "pushpart",
              "pushlast", "rest", "close", "failing", "done", "lost"}
Running == ChunkStep \ {"queued", "done", "lost"}

ASSUME NumberAssumption ==
  Of \in [Number -> Chunk] /\ Bare \subseteq Number /\ Bad \subseteq Number
ASSUME BoundAssumption ==
  /\ {Balance, MaxTries, MaxFaults} \subseteq Nat /\ Portion \in Nat \ {0}
  /\ IsFiniteSet(Number)

VARIABLES
  batch,       \* sms_batches.status, as far as a chunk looks at it
  balance,     \* accounts.balance
  status,      \* status of a row, "none" before it is written
  priced,      \* rows with a selling_price
  refunded,    \* rows with a refunded_at
  inqueue,     \* how often a row waits in the queue of the gateway
  pc, tries,   \* of a chunk
  todo,        \* numbers a run of a chunk has still to do
  own,         \* rows it has written and not handed over
  charged,     \* _charged_amount
  good,        \* chunks with succeeded > 0
  lock,        \* batch_op_lock is set
  rpc, pick,   \* a retry_batch_failed, and the rows it is about
  faults,
  held,        \* history: charged by a chunk, no row written for it
  burnt,       \* history: charged, never written, never refunded
  skipped,     \* history: numbers an error of their own made a chunk pass over
  free,        \* history: refunded though the rows were written
  crashed,     \* history: a worker was killed, timed out or could not refund
  charges, refunds,   \* history: how often a row was paid for and refunded
  handed       \* history: how often chunks handed over a number

chunkVars == <<pc, tries, todo, own, charged, good, held, burnt, free,
              skipped, crashed>>
requestVars == <<lock, rpc, pick>>
rowVars == <<status, priced, refunded, charges, refunds>>
vars == <<batch, balance, rowVars, inqueue, chunkVars, requestVars, faults, handed>>

Fault(kind) ==
  /\ kind \in FaultKinds /\ faults < MaxFaults
  /\ faults' = faults + 1

Init ==
  /\ batch = "processing" /\ balance = Balance
  /\ status = [r \in Row |-> "none"]
  /\ priced = {} /\ refunded = {}
  /\ inqueue = [r \in Row |-> 0]
  /\ pc = [c \in Chunk |-> "queued"] /\ tries = [c \in Chunk |-> 0]
  /\ todo = [c \in Chunk |-> {}] /\ own = [c \in Chunk |-> {}]
  /\ charged = [c \in Chunk |-> 0] /\ good = {}
  /\ lock = FALSE
  /\ rpc = [q \in Request |-> "new"] /\ pick = [q \in Request |-> {}]
  /\ faults = 0 /\ held = [c \in Chunk |-> 0] /\ burnt = 0 /\ free = 0
  /\ skipped = {} /\ crashed = FALSE
  /\ charges = [r \in Row |-> 0] /\ refunds = [r \in Row |-> 0]
  /\ handed = [p \in Number |-> 0]

Written(p) == {k \in 1..MaxFaults + 1 : status[<<p, k>>] # "none"}
Fresh(P) == {<<p, Cardinality(Written(p)) + 1>> : p \in P}

-----------------------------------------------------------------------------
(* process_batch_chunk *)

Goto(c, step) == pc' = [pc EXCEPT ![c] = step]

\* A batch that was cancelled is skipped. The numbers that have a row already
\* are found by the spelling the chunk was given.
StartBy(c, done) ==
  /\ pc[c] = "queued"
  /\ IF batch = "cancelled"
     THEN Goto(c, "done") /\ UNCHANGED <<todo, good>>
     ELSE /\ Goto(c, "prefail")
          /\ todo' = [todo EXCEPT ![c] = {p \in Number : Of[p] = c} \ done]
          /\ good' = IF \E p \in done : Of[p] = c THEN good \cup {c} ELSE good \ {c}
  /\ own' = [own EXCEPT ![c] = {}] /\ charged' = [charged EXCEPT ![c] = 0]
  /\ UNCHANGED <<batch, balance, rowVars, inqueue, tries, requestVars, faults,
                 held, burnt, free, skipped, crashed, handed>>

\* What must not happen: a run forgets what an earlier one has done.
StartForgets(c) == StartBy(c, {})
Start(c) == StartBy(c, {p \in Number \ Bare : Written(p) # {}})

\* One commit for the numbers that failed the checks.
Prefail(c) ==
  LET bad == todo[c] \cap Bad IN
  /\ pc[c] = "prefail"
  /\ status' = [r \in Row |-> IF r \in Fresh(bad) THEN "failed" ELSE status[r]]
  /\ todo' = [todo EXCEPT ![c] = @ \ Bad]
  /\ Goto(c, IF todo[c] \subseteq Bad THEN "close" ELSE "charge")
  /\ UNCHANGED <<batch, balance, priced, refunded, charges, refunds, inqueue, tries,
                 own, charged, good, requestVars, faults, held, burnt, free, skipped, crashed, handed>>

\* UPDATE ... WHERE balance >= total, committed before any row is written.
ChargeBy(c, checks) ==
  LET total == Cardinality(todo[c]) IN
  /\ pc[c] = "charge" /\ (checks => balance >= total)
  /\ balance' = balance - total
  /\ charged' = [charged EXCEPT ![c] = total] /\ held' = [held EXCEPT ![c] = total]
  /\ Goto(c, "write")
  /\ UNCHANGED <<batch, rowVars, inqueue, tries, todo, own, good, requestVars, faults,
                 burnt, free, skipped, crashed, handed>>

\* What must not happen: charged without a look at the balance.
ChargeUnchecked(c) == ChargeBy(c, FALSE)
Charge(c) == ChargeBy(c, TRUE)

PayFor(R) ==
  /\ status' = [r \in Row |-> IF r \in R THEN "pending" ELSE status[r]]
  /\ priced' = priced \cup R
  /\ charges' = [r \in Row |-> IF r \in R THEN charges[r] + 1 ELSE charges[r]]
  /\ UNCHANGED <<refunded, refunds>>

Write(c) ==
  /\ pc[c] = "write" /\ Goto(c, "push")
  /\ PayFor(Fresh(todo[c]))
  /\ own' = [own EXCEPT ![c] = Fresh(todo[c])]
  /\ todo' = [todo EXCEPT ![c] = {}]
  /\ held' = [held EXCEPT ![c] = 0]
  /\ UNCHANGED <<batch, balance, inqueue, tries, charged, good, requestVars, faults,
                 burnt, free, skipped, crashed, handed>>

\* The balance is too low for all of them: charge one by one, as far as it goes,
\* in the transaction that writes their rows; it is committed every Portion
\* rows (P). An error of one number is logged and the loop goes on: the number
\* (one of E) gets no row, and was charged (one of F) if the error came late.
ChargeSome(c) ==
  /\ pc[c] = "some" \/ (pc[c] = "charge" /\ balance < Cardinality(todo[c]))
  /\ \E P \in SUBSET todo[c], E \in SUBSET todo[c] : \E F \in SUBSET E :
       LET cost == Cardinality(P) + Cardinality(F) IN
       /\ P \cap E = {} /\ cost <= balance /\ balance' = balance - cost
       /\ \/ Cardinality(P) = Portion /\ Goto(c, "pushpart")
          \/ /\ Cardinality(P) < Portion /\ (cost = balance \/ P \cup E = todo[c])
             /\ Goto(c, "pushlast")
       /\ PayFor(Fresh(P))
       /\ own' = [own EXCEPT ![c] = Fresh(P)]
       /\ todo' = [todo EXCEPT ![c] = @ \ (P \cup E)]
       /\ skipped' = skipped \cup E /\ burnt' = burnt + Cardinality(F)
       /\ IF E = {} THEN UNCHANGED faults ELSE Fault("item")
  /\ UNCHANGED <<batch, inqueue, tries, charged, good, requestVars, held, free,
                 crashed, handed>>

\* After the commit. A row the broker refuses is left as it is.
Push(c) ==
  /\ pc[c] \in {"push", "pushpart", "pushlast"}
  /\ \E R \in {own[c], {}} :
       /\ IF R = own[c] THEN UNCHANGED faults ELSE Fault("broker")
       /\ inqueue' = [r \in Row |-> IF r \in R THEN inqueue[r] + 1 ELSE inqueue[r]]
       /\ handed' = [p \in Number |->
                       IF \E r \in R : r[1] = p THEN handed[p] + 1 ELSE handed[p]]
       /\ good' = IF R = {} THEN good ELSE good \cup {c}
  /\ own' = [own EXCEPT ![c] = {}]
  /\ Goto(c, IF todo[c] = {} THEN "close"
             ELSE IF pc[c] = "pushpart" THEN "some" ELSE "rest")
  /\ UNCHANGED <<batch, balance, rowVars, tries, todo, charged, requestVars, held,
                 burnt, free, skipped, crashed>>

\* What the balance did not reach gets rows that failed and cost nothing.
Rest(c) ==
  /\ pc[c] = "rest" /\ Goto(c, "close")
  /\ status' = [r \in Row |-> IF r \in Fresh(todo[c]) THEN "failed" ELSE status[r]]
  /\ todo' = [todo EXCEPT ![c] = {}]
  /\ UNCHANGED <<batch, balance, priced, refunded, charges, refunds, inqueue, tries,
                 own, charged, good, requestVars, faults, held, burnt, free, skipped, crashed, handed>>

Close(c) ==
  /\ pc[c] = "close" /\ Goto(c, "done")
  /\ UNCHANGED <<batch, balance, rowVars, inqueue, tries, todo, own, charged, good,
                 requestVars, faults, held, burnt, free, skipped, crashed, handed>>

\* A statement or a commit fails for good: what was not committed is undone. In
\* the loop the session is lost with it, and with the session the chunk.
DbError(c) ==
  /\ pc[c] \in {"prefail", "charge", "write", "some", "pushpart", "pushlast", "rest",
               "close"}
  /\ Fault("db")
  /\ Goto(c, "failing")
  /\ UNCHANGED <<batch, balance, rowVars, inqueue, tries, todo, own, charged, good,
                 requestVars, held, burnt, free, skipped, crashed, handed>>

\* The handler of the exception: what was charged is refunded unless something
\* succeeded, then the task is put into its queue again.
FailBy(c, givesBack, again) ==
  LET amount == IF c \in good \/ ~givesBack THEN 0 ELSE charged[c] IN
  /\ pc[c] = "failing"
  /\ \/ /\ balance' = balance + amount
        /\ IF amount >= held[c]
           THEN free' = free + (amount - held[c]) /\ UNCHANGED burnt
           ELSE burnt' = burnt + held[c] /\ UNCHANGED free
        /\ UNCHANGED <<faults, crashed>>
     \/ /\ amount > 0 /\ Fault("db")
        /\ burnt' = burnt + held[c] /\ crashed' = TRUE
        /\ UNCHANGED <<balance, free>>
  /\ held' = [held EXCEPT ![c] = 0] /\ charged' = [charged EXCEPT ![c] = 0]
  /\ IF tries[c] < MaxTries
     THEN Goto(c, again) /\ tries' = [tries EXCEPT ![c] = @ + 1]
     ELSE Goto(c, "lost") /\ UNCHANGED tries
  /\ UNCHANGED <<batch, rowVars, inqueue, todo, own, good, requestVars, skipped, handed>>

\* What must not happen: the charge of a chunk that failed is kept.
FailKeeps(c) == FailBy(c, FALSE, "queued")
\* What must not happen: the chunk evaporates.
FailEvaporates(c) == FailBy(c, TRUE, "done")
Fail(c) == FailBy(c, TRUE, "queued")

\* The worker dies: the message is delivered again.
Kill(c) ==
  /\ pc[c] \in Running /\ Fault("kill")
  /\ Goto(c, "queued")
  /\ burnt' = burnt + held[c] /\ held' = [held EXCEPT ![c] = 0] /\ crashed' = TRUE
  /\ UNCHANGED <<batch, balance, rowVars, inqueue, tries, todo, own, charged, good,
                 requestVars, free, skipped, handed>>

\* Ten minutes are over: wait_for cancels the coroutine past its handler.
Timeout(c) ==
  /\ pc[c] \in Running \ {"failing"} /\ Fault("timeout")
  /\ Goto(c, "lost")
  /\ burnt' = burnt + held[c] /\ held' = [held EXCEPT ![c] = 0] /\ crashed' = TRUE
  /\ UNCHANGED <<batch, balance, rowVars, inqueue, tries, todo, own, charged, good,
                 requestVars, free, skipped, handed>>

ChunkNext(c) ==
  \/ Start(c) \/ Prefail(c) \/ Charge(c) \/ Write(c) \/ ChargeSome(c) \/ Push(c)
  \/ Rest(c) \/ Close(c) \/ Fail(c)

-----------------------------------------------------------------------------
(* The gateway, the customer and the administrator *)

\* The gateway takes a message; its result says sent or failed.
Submit(r) ==
  /\ inqueue[r] > 0 /\ inqueue' = [inqueue EXCEPT ![r] = @ - 1]
  /\ \E s \in {"sent", "failed"} : status' = [status EXCEPT ![r] = s]
  /\ UNCHANGED <<batch, balance, priced, refunded, charges, refunds, chunkVars,
                 requestVars, faults, handed>>

Cancel ==
  /\ batch = "processing" /\ "cancel" \in FaultKinds /\ batch' = "cancelled"
  /\ UNCHANGED <<balance, rowVars, inqueue, chunkVars, requestVars, faults, handed>>

\* _do_refund: UPDATE ... WHERE refunded_at IS NULL says who refunds.
RefundBy(r, guards) ==
  IF guards /\ r \in refunded
  THEN UNCHANGED <<balance, refunded, refunds>>
  ELSE /\ refunded' = refunded \cup {r}
       /\ balance' = balance + 1
       /\ refunds' = [refunds EXCEPT ![r] = @ + 1]

\* What must not happen: refunded because the row read so a while ago.
RefundUnguarded(r) == RefundBy(r, FALSE)
Refund(r) == RefundBy(r, TRUE)

\* An administrator refunds a row that failed; the row is locked meanwhile.
AdminRefund(r) ==
  /\ status[r] = "failed" /\ r \in priced \ refunded
  /\ Refund(r)
  /\ UNCHANGED <<batch, status, priced, charges, inqueue, chunkVars, requestVars,
                 faults, handed>>

\* retry_batch_failed takes batch_op_lock and reads the rows that failed.
\* Rows of Bad have no channel to be retried on.
RetryRead(q) ==
  LET failed == {r \in Row : status[r] = "failed" /\ r[1] \notin Bad} IN
  /\ rpc[q] = "new" /\ ~lock /\ batch # "cancelled" /\ failed # {}
  /\ rpc' = [rpc EXCEPT ![q] = "charge"] /\ lock' = TRUE
  /\ pick' = [pick EXCEPT ![q] = failed]
  /\ UNCHANGED <<batch, balance, rowVars, inqueue, chunkVars, faults, handed>>

\* It charges them one after the other, as far as the balance goes.
RetryCharge(q) ==
  /\ rpc[q] = "charge"
  /\ \E R \in kSubset(IF balance < Cardinality(pick[q]) THEN balance
                      ELSE Cardinality(pick[q]), pick[q]) :
       /\ balance' = balance - Cardinality(R)
       /\ status' = [r \in Row |-> IF r \in R THEN "queued" ELSE status[r]]
       /\ priced' = priced \cup R
       /\ charges' = [r \in Row |-> IF r \in R THEN charges[r] + 1 ELSE charges[r]]
       /\ pick' = [pick EXCEPT ![q] = R]
       /\ rpc' = [rpc EXCEPT ![q] = IF R = {} THEN "unlock" ELSE "push"]
  /\ UNCHANGED <<batch, refunded, refunds, inqueue, chunkVars, lock, faults, handed>>

\* It hands them over; one that the queue refuses is refunded and fails.
RetryPush(q) ==
  /\ rpc[q] = "push"
  /\ \E r \in pick[q] :
       /\ pick' = [pick EXCEPT ![q] = @ \ {r}]
       /\ rpc' = [rpc EXCEPT ![q] = IF pick[q] = {r} THEN "unlock" ELSE "push"]
       /\ \/ /\ inqueue' = [inqueue EXCEPT ![r] = @ + 1]
             /\ UNCHANGED <<balance, status, refunded, refunds, faults>>
          \/ /\ Fault("broker") /\ Refund(r)
             /\ status' = [status EXCEPT ![r] = "failed"]
             /\ UNCHANGED inqueue
  /\ UNCHANGED <<batch, priced, charges, chunkVars, lock, handed>>

\* The lock is deleted, whoever holds it.
RetryEnd(q) ==
  /\ rpc[q] = "unlock"
  /\ rpc' = [rpc EXCEPT ![q] = "end"] /\ lock' = FALSE
  /\ UNCHANGED <<batch, balance, rowVars, inqueue, chunkVars, pick, faults, handed>>

\* The lock lives for two minutes.
LockExpires ==
  /\ lock /\ Fault("lock") /\ lock' = FALSE
  /\ UNCHANGED <<batch, balance, rowVars, inqueue, chunkVars, rpc, pick, handed>>

Next ==
  \/ \E c \in Chunk : ChunkNext(c) \/ DbError(c) \/ Kill(c) \/ Timeout(c)
  \/ \E r \in Row : Submit(r) \/ AdminRefund(r)
  \/ \E q \in Request : RetryRead(q) \/ RetryCharge(q) \/ RetryPush(q) \/ RetryEnd(q)
  \/ Cancel \/ LockExpires

Spec == Init /\ [][Next]_vars
\* Celery keeps its workers running.
FairSpec == Spec /\ \A c \in Chunk : WF_vars(ChunkNext(c))

-----------------------------------------------------------------------------
(* Properties *)

\* The variables keep their types; no balance and no queue goes below zero.
TypeOK ==
  /\ batch \in {"processing", "cancelled"} /\ {balance, burnt, free} \subseteq Nat
  /\ status \in [Row -> RowStatus] /\ inqueue \in [Row -> Nat]
  /\ priced \subseteq Row /\ refunded \subseteq Row
  /\ pc \in [Chunk -> ChunkStep] /\ tries \in [Chunk -> 0..MaxTries]
  /\ skipped \subseteq Number
  /\ todo \in [Chunk -> SUBSET Number] /\ own \in [Chunk -> SUBSET Row]
  /\ charged \in [Chunk -> Nat] /\ held \in [Chunk -> Nat] /\ good \subseteq Chunk
  /\ rpc \in [Request -> {"new", "charge", "push", "unlock", "end"}]
  /\ pick \in [Request -> SUBSET Row] /\ {lock, crashed} \subseteq BOOLEAN
  /\ faults \in 0..MaxFaults

\* Unit by unit: the charges of rows that were not refunded, and those of chunks
\* that have not written their rows.
Spent == UNION {{r} \X (refunds[r] + 1 .. charges[r]) : r \in Row}
InHand == UNION {{c} \X (1 .. held[c]) : c \in Chunk}

\* What is gone from the balance is the price of rows that were paid for and
\* not refunded, or in the hands of a chunk between its charge and its rows. A
\* chunk whose rows cannot be written gives back what it charged: only a crash,
\* the rows an earlier run of it has written, or a number that was charged alone
\* and then passed over, burn money.
MoneyBack ==
  /\ Balance = balance - free + burnt + Cardinality(Spent) + Cardinality(InHand)
  /\ burnt > 0 => crashed \/ skipped # {} \/ \E c \in good : tries[c] > 0

\* A row is refunded once, however many of its failures are noticed by however
\* many of those who refund, and never without having been paid for.
RefundedOnce == \A r \in Row : refunds[r] <= 1 /\ refunds[r] <= charges[r]

\* However often a chunk is run again after a crash or an error, it hands a
\* number over once (the numbers it was given in the spelling of the rows).
HandedOnce == \A p \in Number \ Bare : handed[p] <= 1

\* No chunk evaporates (batches 813, 1026, 1036): each of its numbers gets a
\* row, unless the batch is cancelled, the time is over or all retries are used,
\* or an error of that number alone made the loop of a low balance pass it over.
EventuallyRows ==
  <>(\A p \in Number : \/ Written(p) # {} \/ batch = "cancelled"
                       \/ pc[Of[p]] = "lost" \/ p \in skipped)
=============================================================================
