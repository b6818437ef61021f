------------------------- MODULE SmppGatewayProofs -------------------------
(***************************************************************************)
(* Theorems about SmppGateway, for every value of its constants.           *)
(*                                                                         *)
(* Whatever fails and whatever operators do, the variables keep their      *)
(* types (Typed) and no message is forgotten (Typed /\ Accounted).         *)
(*                                                                         *)
(* As long as nothing is enqueued or delivered again (NoSecondCopy), a     *)
(* message is with the upstream at most once, none that failed is (Typed   *)
(* /\ Copies), and none that was accepted is submitted again (DoneGone).   *)
(* As long as no submission is reported before it is made (PromptSubmit),  *)
(* sent means submitted, however often a message is sent (Typed /\         *)
(* Accounted /\ SentIsLive). With both (NothingTwice), an upstream id is   *)
(* never overwritten and the rows follow MessageLifecycle (Typed /\        *)
(* SingleCopies). Each kind of fault or operation that a condition leaves  *)
(* out breaks every property stated under it.                              *)
(*                                                                         *)
(* Each inductive invariant has one lemma per group of actions, with one   *)
(* step per action in it. Nothing else is assumed of the constants but     *)
(* SentinelAssumption (the sentinels differ from what they stand in for)   *)
(* and of BoundAssumption: the limit of throttled retries is a natural     *)
(* number and, where entries are counted, there are finitely many slots.   *)
(***************************************************************************)
EXTENDS SmppGateway, FiniteSetTheorems, TLAPS

-----------------------------------------------------------------------------
(* The invariants *)

(* A payload between the choice of a session and the submission has one:   *)
(* without this, Store could write an entry without a session.             *)
OnHeld ==
  \A d \in Delivery, m \in Msg :
    step[d][m] \in {"picked", "clear", "stored"} => on[d][m] \in Session

Typed == TypeOK /\ OnHeld

(* A delivery on the broker has no payload half done: Settle and Crash put *)
(* every payload back to the start. Hence taking it loses nothing.         *)
ReadyIsTodo ==
  \A d \in Delivery, m \in Msg : dst[d] = "ready" => step[d][m] \in {"absent", "todo"}

(* The slot a payload was stored under is its own until it is submitted:   *)
(* SubmitClosing deletes the entry of no other message.                    *)
KeyOwned ==
  \A d \in Delivery, m \in Msg :
    step[d][m] = "stored" =>
      /\ key[d][m] \in Seq
      /\ seqMap[key[d][m]] # NoEntry => seqMap[key[d][m]].m = m

(* The messages OpenHasCarrier speaks of.                                  *)
Owed(m) == Open(m) /\ m \notin lost /\ m \notin retried

(* A message accepted upstream whose row is still open has its result on   *)
(* the way: dropping a second copy of it (SkipDone) loses nothing.         *)
DoneCovered == \A m \in Msg : Owed(m) /\ m \in submitDone => Reported(m)

Accounted == ReadyIsTodo /\ KeyOwned /\ DoneCovered /\ OpenHasCarrier

-----------------------------------------------------------------------------
(* Publishing and reaping *)

(* Publishing well-formed results keeps results and lost well-formed.      *)
LEMMA PublishTyped ==
  ASSUME NEW M \in SUBSET Msg, NEW st \in {"sent", "failed"}, NEW id \in BOOLEAN,
         results \subseteq Result, lost \subseteq Msg, Publish(Outcome(M, st, id))
  PROVE  results' \subseteq Result /\ lost' \subseteq Msg
<1>1. Outcome(M, st, id) \subseteq Result
  BY DEF Outcome, Result
<1>2. \A r \in Outcome(M, st, id) : r.m \in Msg
  BY DEF Outcome
<1> QED BY <1>1, <1>2 DEF Publish

(* What waits for a response is a message.                                 *)
LEMMA StaleMessages ==
  ASSUME Typed, NEW Q \in SUBSET Entries
  PROVE  Messages(Q) \subseteq Msg
BY SentinelAssumption DEF Typed, TypeOK, Messages, Entries, Entry

(* Of every message whose result is published, the result is on its way, or *)
(* the message is known to be lost.                                         *)
LEMMA PublishReports ==
  ASSUME NEW M, NEW st, NEW id, Publish(Outcome(M, st, id))
  PROVE  /\ results \subseteq results' /\ lost \subseteq lost'
         /\ \A x \in M : Reported(x)' \/ x \in lost'
<1>1. ASSUME NEW x \in M PROVE \E r \in Outcome(M, st, id) : r.m = x
  <2>1. [m |-> x, st |-> st, id |-> id] \in Outcome(M, st, id)
    BY DEF Outcome
  <2> QED BY <2>1
<1>2. CASE pub
  BY <1>1, <1>2 DEF Publish, Reported
<1>3. CASE ~pub
  BY <1>1, <1>3 DEF Publish
<1> QED BY <1>2, <1>3

-----------------------------------------------------------------------------
(* Types *)

(* What a worker does with a payload before the delivery ends               *)
(* (processSingleSMSData, SendSMS): the types stay.                         *)
LEMMA ConsumeTyped ==
  ASSUME Typed, NEW d \in Delivery, NEW m \in Msg, Consume(d, m)
  PROVE  Typed'
<1> USE SentinelAssumption
       DEF Typed, TypeOK, OnHeld, Status, OpenStatus, BatchStatus, DeliveryState,
           Phase, SessionState, Entry, dbVars, redisVars, jobVars, bindVars,
           outVars, brokerVars, budget
<1>1. CASE SkipCancelled(d, m)
  <2>1. results' \subseteq Result /\ lost' \subseteq Msg
    BY <1>1, PublishTyped DEF SkipCancelled
  <2> QED BY <1>1, <2>1 DEF SkipCancelled, Working, Move
<1>2. CASE SkipDone(d, m)
  BY <1>2 DEF SkipDone, Working, Move
<1>3. CASE PassGate(d, m)
  BY <1>3 DEF PassGate, Working, Move
<1>4. CASE SeeConn(d, m)
  BY <1>4 DEF SeeConn, Working, Move
<1>5. CASE NoConnTimeout(d, m)
  BY <1>5 DEF NoConnTimeout, Working, Move
<1>6. CASE PoolDrained(d, m)
  <2>1. results' \subseteq Result /\ lost' \subseteq Msg
    BY <1>6, PublishTyped DEF PoolDrained
  <2> QED BY <1>6, <2>1 DEF PoolDrained, Working, Move
<1>7. ASSUME NEW s \in Session, Pick(d, m, s) PROVE Typed'
  BY <1>7 DEF Pick, Working, Move
<1>8. CASE WindowOpen(d, m)
  BY <1>8 DEF WindowOpen, Working, Move
<1>9. CASE WindowFull(d, m)
  BY <1>9 DEF WindowFull, Working, Move
<1>10. CASE LocalReject(d, m)
  <2>1. results' \subseteq Result /\ lost' \subseteq Msg
    BY <1>10, PublishTyped DEF LocalReject
  <2> QED BY <1>10, <2>1 DEF LocalReject, Working, Move
<1>11. ASSUME NEW q \in Seq, Store(d, m, q) PROVE Typed'
  BY <1>11 DEF Store, Working, Move
<1>12. CASE Submit(d, m)
  BY <1>12 DEF Submit, Working, Move
<1>13. CASE SubmitClosing(d, m)
  BY <1>13 DEF SubmitClosing, Working, Move
<1> QED BY <1>1, <1>2, <1>3, <1>4, <1>5, <1>6, <1>7, <1>8, <1>9, <1>10, <1>11,
   <1>12, <1>13 DEF Consume

(* A payload that is enqueued anew has not been throttled yet.              *)
LEMMA NotThrottled ==
  0 \in 0..MaxThrottle /\ Fresh \in [Msg -> 0..MaxThrottle]
BY BoundAssumption DEF Fresh

(* The steps of a whole delivery (workerProcessDelivery, the ack            *)
(* goroutine): the types stay.                                              *)
LEMMA DeliverTyped ==
  ASSUME Typed, NEW d \in Delivery, Deliver(d)
  PROVE  Typed'
<1> USE SentinelAssumption
       DEF Typed, TypeOK, OnHeld, Status, OpenStatus, BatchStatus, DeliveryState,
           Phase, SessionState, Entry, dbVars, redisVars, jobVars, bindVars,
           outVars, brokerVars, budget
<1>1. CASE Take(d)
  BY <1>1 DEF Take
<1>2. CASE FinishSingle(d)
  BY <1>2 DEF FinishSingle, Finished, Verdict
<1>3. CASE FinishBulk(d)
  BY <1>3 DEF FinishBulk
<1>4. ASSUME NEW e \in Delivery, FinishRepublish(d, e) PROVE Typed'
  <2>1. dst' \in [Delivery -> DeliveryState]
    BY <1>4 DEF FinishRepublish
  <2>2. step' \in [Delivery -> [Msg -> Phase]]
    BY <1>4 DEF FinishRepublish
  <2>3. try' \in [Delivery -> [Msg -> 0..MaxThrottle]]
    BY <1>4, NotThrottled DEF FinishRepublish
  <2>4. OnHeld'
    BY <1>4, <2>2 DEF FinishRepublish
  <2> QED BY <1>4, <2>1, <2>2, <2>3, <2>4 DEF FinishRepublish
<1>5. CASE FinishNoRepublish(d)
  BY <1>5 DEF FinishNoRepublish, At
<1>6. CASE Settle(d)
  <2>0. CASE /\ dst' = [dst EXCEPT ![d] = "none"]
            /\ step' = [step EXCEPT ![d] = [m \in Msg |-> "absent"]]
            /\ try' = [try EXCEPT ![d] = Fresh]
    BY <1>6, <2>0, NotThrottled DEF Settle
  <2>1. CASE /\ dst' = [dst EXCEPT ![d] = "ready"]
            /\ step' = [step EXCEPT ![d] =
                          [m \in Msg |-> IF m \in Body(d) THEN "todo" ELSE "absent"]]
            /\ try' = try
    BY <1>6, <2>1 DEF Settle
  <2> QED BY <1>6, <2>0, <2>1 DEF Settle
<1> QED BY <1>1, <1>2, <1>3, <1>4, <1>5, <1>6 DEF Deliver

(* The answers of the upstream (OnPDU): the types stay.                     *)
LEMMA RespondTyped ==
  ASSUME Typed, NEW q \in Seq, Respond(q)
  PROVE  Typed'
<1> USE SentinelAssumption
       DEF Typed, TypeOK, OnHeld, Status, OpenStatus, BatchStatus, DeliveryState,
           Phase, SessionState, Entry, dbVars, redisVars, jobVars, bindVars,
           outVars, brokerVars, budget
<1>1. CASE RespOk(q)
  <2>1. results' \subseteq Result /\ lost' \subseteq Msg
    BY <1>1, PublishTyped DEF RespOk, Answerable
  <2> QED BY <1>1, <2>1 DEF RespOk, Answerable
<1>2. ASSUME NEW e \in Delivery, RespThrottled(q, e) PROVE Typed'
  <2>1. seqMap[q] \in Entry /\ seqMap[q].try < MaxThrottle
    BY <1>2 DEF RespThrottled, Answerable
  <2>2. seqMap[q].try + 1 \in 0..MaxThrottle
    BY <2>1, BoundAssumption
  <2>3. /\ dst' \in [Delivery -> DeliveryState]
        /\ step' \in [Delivery -> [Msg -> Phase]]
        /\ try' \in [Delivery -> [Msg -> 0..MaxThrottle]]
    BY <1>2, <2>2, BoundAssumption DEF RespThrottled, Enqueue
  <2>4. OnHeld'
    BY <1>2 DEF RespThrottled, Enqueue
  <2> QED BY <1>2, <2>1, <2>3, <2>4 DEF RespThrottled
<1>3. CASE RespRefused(q)
  <2>1. results' \subseteq Result /\ lost' \subseteq Msg
    BY <1>3, PublishTyped DEF RespRefused, Answerable
  <2> QED BY <1>3, <2>1 DEF RespRefused, Answerable
<1> QED BY <1>1, <1>2, <1>3 DEF Respond

(* The life of a session (bindSession, stale monitor, OnClosed, watchdog):  *)
(* the types stay.                                                          *)
LEMMA SessionStepTyped ==
  ASSUME Typed, NEW s \in Session, SessionStep(s)
  PROVE  Typed'
<1> USE SentinelAssumption
       DEF Typed, TypeOK, OnHeld, Status, OpenStatus, BatchStatus, DeliveryState,
           Phase, SessionState, Entry, dbVars, redisVars, jobVars, bindVars,
           outVars, brokerVars, budget
<1>1. CASE Bind(s)
  BY <1>1 DEF Bind
<1>2. CASE StaleReap(s)
  <2>1. Messages(StaleOf(s)) \subseteq Msg
    BY StaleMessages DEF StaleOf, EntriesOf
  <2>2. results' \subseteq Result /\ lost' \subseteq Msg
    BY <1>2, <2>1, PublishTyped DEF StaleReap
  <2> QED BY <1>2, <2>2 DEF StaleReap
<1>3. CASE StaleClose(s)
  BY <1>3 DEF StaleClose
<1>4. CASE Cut(s)
  BY <1>4 DEF Cut, Fault
<1>5. CASE OnClosed(s)
  <2>1. Messages(EntriesOf(s)) \subseteq Msg
    BY StaleMessages DEF EntriesOf
  <2>2. results' \subseteq Result /\ lost' \subseteq Msg
    BY <1>5, <2>1, PublishTyped DEF OnClosed
  <2> QED BY <1>5, <2>2 DEF OnClosed
<1>6. CASE WatchdogClose(s)
  BY <1>6 DEF WatchdogClose, Fault
<1>7. CASE WatchdogSweep(s)
  BY <1>7 DEF WatchdogSweep
<1> QED BY <1>1, <1>2, <1>3, <1>4, <1>5, <1>6, <1>7 DEF SessionStep

(* The Celery tasks, the inspector, the operators and the receipts: the     *)
(* types stay.                                                              *)
LEMMA PythonTyped ==
  ASSUME Typed, Python
  PROVE  Typed'
<1> USE SentinelAssumption
       DEF Typed, TypeOK, OnHeld, Status, OpenStatus, BatchStatus, DeliveryState,
           Phase, SessionState, Entry, dbVars, redisVars, jobVars, bindVars,
           outVars, brokerVars, budget
<1>1. ASSUME NEW r \in results, WriteResult(r) PROVE Typed'
  BY <1>1 DEF WriteResult, Result
<1>2. ASSUME NEW m \in Msg, NEW e \in Delivery, SendTask(m, e) PROVE Typed'
  <2>1. /\ dst' \in [Delivery -> DeliveryState]
        /\ step' \in [Delivery -> [Msg -> Phase]]
        /\ try' \in [Delivery -> [Msg -> 0..MaxThrottle]]
    BY <1>2, NotThrottled DEF SendTask, Enqueue
  <2>2. OnHeld'
    BY <1>2, <2>1 DEF SendTask, Enqueue, Fresh
  <2> QED BY <1>2, <2>1, <2>2 DEF SendTask
<1>3. ASSUME NEW m \in Msg, SendTaskFails(m) PROVE Typed'
  BY <1>3 DEF SendTaskFails
<1>4. ASSUME NEW m \in Msg, SendTaskSkips(m) PROVE Typed'
  BY <1>4 DEF SendTaskSkips
<1>5. ASSUME NEW M \in SUBSET Msg, NEW e \in Delivery,
             Redispatch(M, e)
      PROVE  Typed'
  <2>1. /\ dst' \in [Delivery -> DeliveryState]
        /\ step' \in [Delivery -> [Msg -> Phase]]
        /\ try' \in [Delivery -> [Msg -> 0..MaxThrottle]]
    BY <1>5, NotThrottled DEF Redispatch, Enqueue
  <2>2. OnHeld'
    BY <1>5, <2>1 DEF Redispatch, Enqueue, Fresh
  <2>3. redispatched' = redispatched \cup M \/ redispatched' = redispatched
    BY <1>5, Zenon DEF Redispatch
  <2>4. redispatched' \subseteq Msg
    BY <2>3
  <2>5. ops' \in Nat /\ faults' \in Nat
    BY <1>5 DEF Redispatch, Operation
  <2>6. UNCHANGED <<dbVars, cancelFlag, submitDone, on, key, seqMap, bindVars,
                    outVars, brokerVars, live>>
    BY <1>5 DEF Redispatch
  <2> QED BY <2>1, <2>2, <2>4, <2>5, <2>6
<1>6. CASE Expire
  BY <1>6 DEF Expire, Open
<1>7. CASE Cancel
  BY <1>7 DEF Cancel, Operation
<1>8. CASE RequeueQueued
  BY <1>8 DEF RequeueQueued, Operation, Open
<1>9. ASSUME NEW M \in SUBSET Msg, RetryFailed(M) PROVE Typed'
  BY <1>9 DEF RetryFailed, Operation
<1>10. ASSUME NEW m \in Msg, NEW verdict \in {"delivered", "failed"},
              Receipt(m, verdict)
       PROVE  Typed'
  BY <1>10 DEF Receipt
<1> QED BY <1>1, <1>2, <1>3, <1>4, <1>5, <1>6, <1>7, <1>8, <1>9, <1>10 DEF
   Python

(* The broker connection and the death of the process: the types stay.      *)
LEMMA BrokerTyped ==
  ASSUME Typed, LinkLoss \/ PubDies \/ LinkUp \/ Crash
  PROVE  Typed'
<1> USE SentinelAssumption
       DEF Typed, TypeOK, OnHeld, Status, OpenStatus, BatchStatus, DeliveryState,
           Phase, SessionState, Entry, dbVars, redisVars, jobVars, bindVars,
           outVars, brokerVars, budget
<1>1. CASE LinkLoss
  <2>1. link' \in BOOLEAN /\ pub' \in BOOLEAN
    BY <1>1, Zenon DEF LinkLoss
  <2> QED BY <1>1, <2>1 DEF LinkLoss, Fault
<1>2. CASE PubDies
  <2>1. link' \in BOOLEAN /\ pub' \in BOOLEAN
    BY <1>2, Zenon DEF PubDies
  <2> QED BY <1>2, <2>1 DEF PubDies, Fault
<1>3. CASE LinkUp
  BY <1>3 DEF LinkUp, Fault
<1>4. CASE Crash
  BY <1>4 DEF Crash, Fault, Messages, Entries
<1> QED BY <1>1, <1>2, <1>3, <1>4

(* Time passes over an entry: its flag is all that changes.                *)
LEMMA AgeTyped ==
  ASSUME Typed, NEW q \in Seq, Age(q)
  PROVE  Typed'
<1>1. seqMap' \in [Seq -> Entry \cup {NoEntry}]
  <2>1. seqMap[q] \in Entry /\ seqMap' = [seqMap EXCEPT ![q].aged = TRUE]
    BY DEF Typed, TypeOK, Age
  <2>2. [seqMap[q] EXCEPT !.aged = TRUE] \in Entry
    BY <2>1 DEF Entry
  <2> QED BY <2>1, <2>2 DEF Typed, TypeOK
<1> QED BY <1>1 DEF Typed, TypeOK, OnHeld, Age, dbVars, redisVars, jobVars, bindVars,
        outVars, brokerVars, budget

-----------------------------------------------------------------------------
(* Carriers *)

(* What a step keeps of the messages outside E: it owes no more of them and *)
(* drops none of their tasks and results ...                                *)
OwedKept(E) == /\ \A x \in Msg \ E : Owed(x)' => Owed(x)
               /\ tasks \ E \subseteq tasks'
               /\ \A r \in results : r.m \notin E => r \in results'
(* ... some delivery still holds what one held ...                          *)
HoldsKept(E) == \A y \in Delivery, x \in Msg \ E :
                  Holds(y, x) => \E z \in Delivery : Holds(z, x)'
(* ... and their entries stay.                                              *)
EntriesKept(E) == \A p \in Entries :
                    seqMap[p].m \notin E => p \in Entries' /\ seqMap'[p].m = seqMap[p].m

(* A step forgets nothing when every carrier of the messages outside E      *)
(* stays and those of E, looked at one by one, get a new one.               *)
LEMMA CarriersStay ==
  ASSUME OpenHasCarrier, NEW E, OwedKept(E), HoldsKept(E), EntriesKept(E),
         \A x \in E : Owed(x)' => Carried(x)'
  PROVE  OpenHasCarrier'
<1> SUFFICES ASSUME NEW x \in Msg, x \notin E, Owed(x)'
             PROVE  Carried(x)'
  BY DEF OpenHasCarrier, Owed
<1>1. Carried(x)
  BY DEF OpenHasCarrier, Owed, OwedKept
<1>2. CASE x \in tasks
  BY <1>2 DEF Carried, OwedKept
<1>3. ASSUME NEW d \in Delivery, Holds(d, x) PROVE Carried(x)'
  BY <1>3 DEF Carried, HoldsKept
<1>4. ASSUME NEW q \in Entries, seqMap[q].m = x PROVE Carried(x)'
  BY <1>4 DEF Carried, EntriesKept
<1>5. ASSUME NEW r \in results, r.m = x PROVE Carried(x)'
  BY <1>5 DEF Carried, Reported, OwedKept
<1> QED BY <1>1, <1>2, <1>3, <1>4, <1>5 DEF Carried, Reported

(* The variables Accounted depends on.                                      *)
accounts == <<row, tasks, submitDone, dst, step, key, seqMap, results, lost, retried>>

(* A step that leaves them alone keeps it.                                  *)
LEMMA AccountsUntouched ==
  ASSUME Accounted, UNCHANGED accounts
  PROVE  Accounted'
BY DEF accounts, Accounted, ReadyIsTodo, KeyOwned, DoneCovered, OpenHasCarrier, Owed,
       Open, Carried, Holds, Reported, Entries

(* A payload that moves on, and still has to be brought to an end, is held  *)
(* by its delivery as before.                                               *)
LEMMA StillHeld ==
  ASSUME Typed, Accounted, NEW d \in Delivery, NEW m \in Msg,
         NEW o \in {"todo", "gated", "conn", "picked"}, Working(d, m, o),
         NEW p \in {"gated", "conn", "picked", "clear", "transient"}, Move(d, m, p),
         UNCHANGED <<row, tasks, submitDone, dst, key, seqMap, results, lost,
                     retried>>
  PROVE  Accounted'
<1> USE DEF Typed, TypeOK, Working, Move
<1>1. (ReadyIsTodo /\ KeyOwned)'
  BY DEF Accounted, ReadyIsTodo, KeyOwned
<1>2. DoneCovered'
  BY DEF Accounted, DoneCovered, Owed, Open, Reported
<1>3. OwedKept({}) /\ EntriesKept({})
  BY DEF OwedKept, Owed, Open, EntriesKept, Entries
<1>4. HoldsKept({})
  BY DEF HoldsKept, Holds
<1>5. OpenHasCarrier'
  BY <1>3, <1>4, CarriersStay DEF Accounted
<1> QED BY <1>1, <1>2, <1>5 DEF Accounted

(* What a worker does with a payload before the delivery ends               *)
(* (processSingleSMSData, SendSMS): no message is forgotten.                *)
LEMMA ConsumeAccounted ==
  ASSUME Typed, Typed', Accounted, NEW d \in Delivery, NEW m \in Msg,
         Consume(d, m)
  PROVE  Accounted'
<1> USE SentinelAssumption
       DEF Typed, TypeOK, OnHeld, Status, OpenStatus, BatchStatus, DeliveryState,
           Phase, SessionState, Entry, dbVars, redisVars, jobVars, bindVars,
           outVars, brokerVars, budget
<1>1. CASE SkipCancelled(d, m)
  <2>0. /\ results \subseteq results' /\ lost \subseteq lost'
        /\ \A x \in {m} : Reported(x)' \/ x \in lost'
    BY <1>1, PublishReports DEF SkipCancelled
  <2>1. (ReadyIsTodo /\ KeyOwned)'
    BY <1>1, <2>0 DEF Accounted, ReadyIsTodo, KeyOwned, Reserved,
       SkipCancelled, Working, Move
  <2>2. DoneCovered'
    BY <1>1, <2>0 DEF Accounted, DoneCovered, Owed, Open, Reported,
       SkipCancelled, Working, Move
  <2>3. OwedKept({m}) /\ EntriesKept({m})
    BY <1>1, <2>0 DEF Accounted, KeyOwned, OwedKept, EntriesKept, Owed, Open,
       Entries, SkipCancelled, Working, Move
  <2>4. HoldsKept({m})
    BY <1>1, <2>0 DEF Accounted, ReadyIsTodo, HoldsKept, Holds, SkipCancelled,
       Working, Move
  <2>5. \A x \in {m} : Owed(x)' => Carried(x)'
    BY <1>1, <2>0 DEF Accounted, DoneCovered, Owed, Open, Carried, Holds,
       Entries, Reported, SkipCancelled, Working, Move
  <2>6. OpenHasCarrier'
    BY <2>3, <2>4, <2>5, CarriersStay DEF Accounted
  <2> QED BY <2>1, <2>2, <2>6 DEF Accounted
<1>2. CASE SkipDone(d, m)
  <2>1. (ReadyIsTodo /\ KeyOwned)'
    BY <1>2 DEF Accounted, ReadyIsTodo, KeyOwned, Reserved, SkipDone, Working,
       Move
  <2>2. DoneCovered'
    BY <1>2 DEF Accounted, DoneCovered, Owed, Open, Reported, SkipDone,
       Working, Move
  <2>3. OwedKept({m}) /\ EntriesKept({m})
    BY <1>2 DEF Accounted, KeyOwned, OwedKept, EntriesKept, Owed, Open,
       Entries, SkipDone, Working, Move
  <2>4. HoldsKept({m})
    BY <1>2 DEF Accounted, ReadyIsTodo, HoldsKept, Holds, SkipDone, Working,
       Move
  <2>5. \A x \in {m} : Owed(x)' => Carried(x)'
    <3>1. ~Open(m) \/ m \in submitDone
      BY <1>2 DEF SkipDone
    <3>2. (Owed(m)' => Owed(m)) /\ results' = results
      BY <1>2 DEF SkipDone, Owed, Open
    <3> QED BY <3>1, <3>2 DEF Accounted, DoneCovered, Owed, Carried, Reported
  <2>6. OpenHasCarrier'
    BY <2>3, <2>4, <2>5, CarriersStay DEF Accounted
  <2> QED BY <2>1, <2>2, <2>6 DEF Accounted
<1>3. CASE PassGate(d, m)
  <2>1. Working(d, m, "todo") /\ Move(d, m, "gated")
    BY <1>3 DEF PassGate
  <2>2. UNCHANGED <<row, tasks, submitDone, dst, key, seqMap, results, lost,
                    retried>>
    BY <1>3 DEF PassGate
  <2> QED BY <2>1, <2>2, StillHeld
<1>4. CASE SeeConn(d, m)
  <2>1. Working(d, m, "gated") /\ Move(d, m, "conn")
    BY <1>4 DEF SeeConn
  <2>2. UNCHANGED <<row, tasks, submitDone, dst, key, seqMap, results, lost,
                    retried>>
    BY <1>4 DEF SeeConn
  <2> QED BY <2>1, <2>2, StillHeld
<1>5. CASE NoConnTimeout(d, m)
  <2>1. Working(d, m, "gated") /\ Move(d, m, "transient")
    BY <1>5 DEF NoConnTimeout
  <2>2. UNCHANGED <<row, tasks, submitDone, dst, key, seqMap, results, lost,
                    retried>>
    BY <1>5 DEF NoConnTimeout
  <2> QED BY <2>1, <2>2, StillHeld
<1>6. CASE PoolDrained(d, m)
  <2>0. /\ results \subseteq results' /\ lost \subseteq lost'
        /\ \A x \in {m} : Reported(x)' \/ x \in lost'
    BY <1>6, PublishReports DEF PoolDrained
  <2>1. (ReadyIsTodo /\ KeyOwned)'
    BY <1>6, <2>0 DEF Accounted, ReadyIsTodo, KeyOwned, Reserved, PoolDrained,
       Working, Move
  <2>2. DoneCovered'
    BY <1>6, <2>0 DEF Accounted, DoneCovered, Owed, Open, Reported,
       PoolDrained, Working, Move
  <2>3. OwedKept({m}) /\ EntriesKept({m})
    BY <1>6, <2>0 DEF Accounted, KeyOwned, OwedKept, EntriesKept, Owed, Open,
       Entries, PoolDrained, Working, Move
  <2>4. HoldsKept({m})
    BY <1>6, <2>0 DEF Accounted, ReadyIsTodo, HoldsKept, Holds, PoolDrained,
       Working, Move
  <2>5. \A x \in {m} : Owed(x)' => Carried(x)'
    BY <1>6, <2>0 DEF Accounted, DoneCovered, Owed, Open, Carried, Holds,
       Entries, Reported, PoolDrained, Working, Move
  <2>6. OpenHasCarrier'
    BY <2>3, <2>4, <2>5, CarriersStay DEF Accounted
  <2> QED BY <2>1, <2>2, <2>6 DEF Accounted
<1>7. ASSUME NEW s \in Session, Pick(d, m, s) PROVE Accounted'
  <2>1. Working(d, m, "conn") /\ Move(d, m, "picked")
    BY <1>7 DEF Pick
  <2>2. UNCHANGED <<row, tasks, submitDone, dst, key, seqMap, results, lost,
                    retried>>
    BY <1>7 DEF Pick
  <2> QED BY <2>1, <2>2, StillHeld
<1>8. CASE WindowOpen(d, m)
  <2>1. Working(d, m, "picked") /\ Move(d, m, "clear")
    BY <1>8 DEF WindowOpen
  <2>2. UNCHANGED <<row, tasks, submitDone, dst, key, seqMap, results, lost,
                    retried>>
    BY <1>8 DEF WindowOpen
  <2> QED BY <2>1, <2>2, StillHeld
<1>9. CASE WindowFull(d, m)
  <2>1. Working(d, m, "picked") /\ Move(d, m, "transient")
    BY <1>9 DEF WindowFull
  <2>2. UNCHANGED <<row, tasks, submitDone, dst, key, seqMap, results, lost,
                    retried>>
    BY <1>9 DEF WindowFull
  <2> QED BY <2>1, <2>2, StillHeld
<1>10. CASE LocalReject(d, m)
  <2>0. /\ results \subseteq results' /\ lost \subseteq lost'
        /\ \A x \in {m} : Reported(x)' \/ x \in lost'
    BY <1>10, PublishReports DEF LocalReject
  <2>1. (ReadyIsTodo /\ KeyOwned)'
    BY <1>10, <2>0 DEF Accounted, ReadyIsTodo, KeyOwned, Reserved, LocalReject,
       Working, Move
  <2>2. DoneCovered'
    BY <1>10, <2>0 DEF Accounted, DoneCovered, Owed, Open, Reported,
       LocalReject, Working, Move
  <2>3. OwedKept({m}) /\ EntriesKept({m})
    BY <1>10, <2>0 DEF Accounted, KeyOwned, OwedKept, EntriesKept, Owed, Open,
       Entries, LocalReject, Working, Move
  <2>4. HoldsKept({m})
    BY <1>10, <2>0 DEF Accounted, ReadyIsTodo, HoldsKept, Holds, LocalReject,
       Working, Move
  <2>5. \A x \in {m} : Owed(x)' => Carried(x)'
    BY <1>10, <2>0 DEF Accounted, DoneCovered, Owed, Open, Carried, Holds,
       Entries, Reported, LocalReject, Working, Move
  <2>6. OpenHasCarrier'
    BY <2>3, <2>4, <2>5, CarriersStay DEF Accounted
  <2> QED BY <2>1, <2>2, <2>6 DEF Accounted
<1>11. ASSUME NEW q \in Seq, Store(d, m, q) PROVE Accounted'
  <2>1. (ReadyIsTodo /\ KeyOwned)'
    <3>1. ReadyIsTodo'
      BY <1>11 DEF Accounted, ReadyIsTodo, Store, Working, Move
    <3>2. KeyOwned'
      <4> SUFFICES ASSUME NEW e \in Delivery, NEW x \in Msg, step'[e][x] = "stored"
                   PROVE  /\ key'[e][x] \in Seq
                          /\ seqMap'[key'[e][x]] # NoEntry => seqMap'[key'[e][x]].m = x
        BY DEF KeyOwned
      <4>1. CASE e = d /\ x = m
        <5>1. key'[d][m] = q /\ seqMap'[q].m = m
          BY <1>11 DEF Store, Working
        <5> QED BY <4>1, <5>1
      <4>2. CASE ~(e = d /\ x = m)
        <5>1. step[e][x] = "stored" /\ key'[e][x] = key[e][x]
          BY <1>11, <4>2 DEF Store, Move
        <5>2. key[e][x] \in Seq /\ key[e][x] # q
          BY <1>11, <5>1 DEF Store, Reserved, Accounted, KeyOwned
        <5>3. seqMap'[key[e][x]] = seqMap[key[e][x]]
          BY <1>11, <5>2 DEF Store
        <5> QED BY <5>1, <5>2, <5>3 DEF Accounted, KeyOwned
      <4> QED BY <4>1, <4>2
    <3> QED BY <3>1, <3>2
  <2>2. DoneCovered'
    BY <1>11 DEF Accounted, DoneCovered, Owed, Open, Reported, Store, Working,
       Move
  <2>3. OwedKept({m}) /\ EntriesKept({m})
    BY <1>11 DEF Accounted, KeyOwned, OwedKept, EntriesKept, Owed, Open,
       Entries, Store, Working, Move
  <2>4. HoldsKept({m})
    BY <1>11 DEF Accounted, ReadyIsTodo, HoldsKept, Holds, Store, Working, Move
  <2>5. \A x \in {m} : Owed(x)' => Carried(x)'
    <3>1. seqMap'[q] \in Entry /\ seqMap'[q].m = m
      BY <1>11 DEF Store, Working
    <3> QED BY <3>1 DEF Carried, Entries
  <2>6. OpenHasCarrier'
    BY <2>3, <2>4, <2>5, CarriersStay DEF Accounted
  <2> QED BY <2>1, <2>2, <2>6 DEF Accounted
<1>12. CASE Submit(d, m)
  <2>1. (ReadyIsTodo /\ KeyOwned)'
    <3>1. ReadyIsTodo'
      BY <1>12 DEF Accounted, ReadyIsTodo, Submit, Working, Move
    <3>2. KeyOwned'
      <4> SUFFICES ASSUME NEW e \in Delivery, NEW x \in Msg, step'[e][x] = "stored"
                   PROVE  /\ key'[e][x] \in Seq
                          /\ seqMap'[key'[e][x]] # NoEntry => seqMap'[key'[e][x]].m = x
        BY DEF KeyOwned
      <4>1. step[e][x] = "stored" /\ key'[e][x] = key[e][x]
        BY <1>12 DEF Submit, Move
      <4>2. key[e][x] \in Seq /\ (seqMap[key[e][x]] # NoEntry => seqMap[key[e][x]].m = x)
        BY <4>1 DEF Accounted, KeyOwned
      <4>3. seqMap' = seqMap
        BY <1>12 DEF Submit, dbVars
      <4> QED BY <4>1, <4>2, <4>3
    <3> QED BY <3>1, <3>2
  <2>2. DoneCovered'
    BY <1>12 DEF Accounted, DoneCovered, Owed, Open, Reported, Submit, Working,
       Move
  <2>3. OwedKept({}) /\ EntriesKept({})
    BY <1>12 DEF Accounted, KeyOwned, OwedKept, EntriesKept, Owed, Open,
       Entries, Submit, Working, Move
  <2>4. HoldsKept({})
    BY <1>12 DEF Accounted, ReadyIsTodo, HoldsKept, Holds, Submit, Working,
       Move
  <2>5. OpenHasCarrier'
    BY <2>3, <2>4, CarriersStay DEF Accounted
  <2> QED BY <2>1, <2>2, <2>5 DEF Accounted
<1>13. CASE SubmitClosing(d, m)
  <2>1. (ReadyIsTodo /\ KeyOwned)'
    <3>1. ReadyIsTodo'
      BY <1>13 DEF Accounted, ReadyIsTodo, SubmitClosing, Working, Move
    <3>2. KeyOwned'
      <4> SUFFICES ASSUME NEW e \in Delivery, NEW x \in Msg, step'[e][x] = "stored"
                   PROVE  /\ key'[e][x] \in Seq
                          /\ seqMap'[key'[e][x]] # NoEntry => seqMap'[key'[e][x]].m = x
        BY DEF KeyOwned
      <4>1. step[e][x] = "stored" /\ key'[e][x] = key[e][x]
        BY <1>13 DEF SubmitClosing, Move
      <4>2. key[e][x] \in Seq /\ (seqMap[key[e][x]] # NoEntry => seqMap[key[e][x]].m = x)
        BY <4>1 DEF Accounted, KeyOwned
      <4>3. \A k \in Seq : seqMap'[k] \in {seqMap[k], NoEntry}
        BY <1>13 DEF SubmitClosing
      <4> QED BY <4>1, <4>2, <4>3
    <3> QED BY <3>1, <3>2
  <2>2. DoneCovered'
    BY <1>13 DEF Accounted, DoneCovered, Owed, Open, Reported, SubmitClosing,
       Working, Move
  <2>3. OwedKept({m}) /\ EntriesKept({m})
    <3>1. /\ key[d][m] \in Seq
          /\ seqMap[key[d][m]] # NoEntry => seqMap[key[d][m]].m = m
      BY <1>13 DEF SubmitClosing, Working, Accounted, KeyOwned
    <3>2. seqMap' = [seqMap EXCEPT ![key[d][m]] = NoEntry]
      BY <1>13 DEF SubmitClosing
    <3>3. EntriesKept({m})
      BY <3>1, <3>2 DEF EntriesKept, Entries
    <3>4. OwedKept({m})
      BY <1>13 DEF SubmitClosing, OwedKept, Owed, Open
    <3> QED BY <3>3, <3>4
  <2>4. HoldsKept({m})
    BY <1>13 DEF Accounted, ReadyIsTodo, HoldsKept, Holds, SubmitClosing,
       Working, Move
  <2>5. \A x \in {m} : Owed(x)' => Carried(x)'
    BY <1>13 DEF Accounted, DoneCovered, Owed, Open, Carried, Holds, Entries,
       Reported, SubmitClosing, Working, Move
  <2>6. OpenHasCarrier'
    BY <2>3, <2>4, <2>5, CarriersStay DEF Accounted
  <2> QED BY <2>1, <2>2, <2>6 DEF Accounted
<1> QED BY <1>1, <1>2, <1>3, <1>4, <1>5, <1>6, <1>7, <1>8, <1>9, <1>10, <1>11,
   <1>12, <1>13 DEF Consume

(* The steps of a whole delivery (workerProcessDelivery, the ack            *)
(* goroutine): no message is forgotten.                                     *)
LEMMA DeliverAccounted ==
  ASSUME Typed, Typed', Accounted, NEW d \in Delivery, Deliver(d)
  PROVE  Accounted'
<1> USE SentinelAssumption
       DEF Typed, TypeOK, OnHeld, Status, OpenStatus, BatchStatus, DeliveryState,
           Phase, SessionState, Entry, dbVars, redisVars, jobVars, bindVars,
           outVars, brokerVars, budget
<1>1. CASE Take(d)
  <2>1. (ReadyIsTodo /\ KeyOwned)'
    BY <1>1 DEF Accounted, ReadyIsTodo, KeyOwned, Reserved, Take
  <2>2. DoneCovered'
    BY <1>1 DEF Accounted, DoneCovered, Owed, Open, Reported, Take
  <2>3. OwedKept({}) /\ EntriesKept({})
    BY <1>1 DEF Accounted, KeyOwned, OwedKept, EntriesKept, Owed, Open,
       Entries, Take
  <2>4. HoldsKept({})
    BY <1>1 DEF Accounted, ReadyIsTodo, HoldsKept, Holds, Take
  <2>5. OpenHasCarrier'
    BY <2>3, <2>4, CarriersStay DEF Accounted
  <2> QED BY <2>1, <2>2, <2>5 DEF Accounted
<1>2. CASE FinishSingle(d)
  <2>1. (ReadyIsTodo /\ KeyOwned)'
    BY <1>2 DEF Accounted, ReadyIsTodo, KeyOwned, Reserved, FinishSingle,
       Finished, Verdict, Body
  <2>2. DoneCovered'
    BY <1>2 DEF Accounted, DoneCovered, Owed, Open, Reported, FinishSingle,
       Finished, Verdict, Body
  <2>3. OwedKept({}) /\ EntriesKept({})
    BY <1>2 DEF Accounted, KeyOwned, OwedKept, EntriesKept, Owed, Open,
       Entries, FinishSingle, Finished, Verdict, Body
  <2>4. HoldsKept({})
    <3> SUFFICES ASSUME NEW y \in Delivery, NEW x \in Msg, Holds(y, x)
                 PROVE  Holds(y, x)'
      BY DEF HoldsKept
    <3>1. CASE y # d
      BY <1>2, <3>1 DEF FinishSingle, Holds
    <3>2. CASE y = d
      <4>1. dst[d] = "busy" /\ step[d][x] = "transient" /\ x \in Body(d)
        BY <1>2, <3>2 DEF FinishSingle, Finished, Holds, Body
      <4>2. PICK z \in Msg : /\ Body(d) = {z}
                             /\ dst' = [dst EXCEPT ![d] = Verdict[step[d][z]]]
        BY <1>2 DEF FinishSingle
      <4>3. z = x /\ step' = step
        BY <1>2, <4>1, <4>2 DEF FinishSingle
      <4> QED BY <3>2, <4>1, <4>2, <4>3 DEF Verdict, Holds
    <3> QED BY <3>1, <3>2
  <2>5. OpenHasCarrier'
    BY <2>3, <2>4, CarriersStay DEF Accounted
  <2> QED BY <2>1, <2>2, <2>5 DEF Accounted
<1>3. CASE FinishBulk(d)
  <2>1. (ReadyIsTodo /\ KeyOwned)'
    BY <1>3 DEF Accounted, ReadyIsTodo, KeyOwned, Reserved, FinishBulk,
       Finished, At, Body
  <2>2. DoneCovered'
    BY <1>3 DEF Accounted, DoneCovered, Owed, Open, Reported, FinishBulk,
       Finished, At, Body
  <2>3. OwedKept({}) /\ EntriesKept({})
    BY <1>3 DEF Accounted, KeyOwned, OwedKept, EntriesKept, Owed, Open,
       Entries, FinishBulk, Finished, At, Body
  <2>4. HoldsKept({})
    <3> SUFFICES ASSUME NEW y \in Delivery, NEW x \in Msg, Holds(y, x)
                 PROVE  Holds(y, x)'
      BY DEF HoldsKept
    <3>1. y # d
      <4>1. SUFFICES ASSUME y = d PROVE FALSE
        OBVIOUS
      <4>2. dst[d] = "busy" /\ step[d][x] = "transient"
        BY <1>3, <4>1 DEF FinishBulk, Finished, Holds, Body
      <4>3. At(d, "transient") = {}
        BY <1>3 DEF FinishBulk
      <4> QED BY <4>2, <4>3 DEF At
    <3>2. dst'[y] = dst[y] /\ step' = step
      BY <1>3, <3>1 DEF FinishBulk
    <3> QED BY <3>2 DEF Holds
  <2>5. OpenHasCarrier'
    BY <2>3, <2>4, CarriersStay DEF Accounted
  <2> QED BY <2>1, <2>2, <2>5 DEF Accounted
<1>4. ASSUME NEW e \in Delivery, FinishRepublish(d, e) PROVE Accounted'
  <2>1. (ReadyIsTodo /\ KeyOwned)'
    BY <1>4 DEF Accounted, ReadyIsTodo, KeyOwned, Reserved, FinishRepublish,
       Finished, At
  <2>2. DoneCovered'
    BY <1>4 DEF Accounted, DoneCovered, Owed, Open, Reported, FinishRepublish,
       Finished, At
  <2>3. OwedKept({}) /\ EntriesKept({})
    BY <1>4 DEF Accounted, KeyOwned, OwedKept, EntriesKept, Owed, Open,
       Entries, FinishRepublish, Finished, At
  <2>4. HoldsKept({})
    <3> SUFFICES ASSUME NEW y \in Delivery, NEW x \in Msg, Holds(y, x)
                 PROVE  Holds(y, x)' \/ Holds(e, x)'
      BY DEF HoldsKept
    <3>1. CASE y # d
      BY <1>4, <3>1 DEF FinishRepublish, Holds
    <3>2. CASE y = d
      <4>1. dst[d] = "busy" /\ step[d][x] = "transient"
        BY <1>4, <3>2 DEF FinishRepublish, Finished, Holds, Body
      <4>2. dst'[e] = "ready" /\ step'[e][x] = "todo"
        BY <1>4, <4>1 DEF FinishRepublish
      <4> QED BY <4>2 DEF Holds
    <3> QED BY <3>1, <3>2
  <2>5. OpenHasCarrier'
    BY <2>3, <2>4, CarriersStay DEF Accounted
  <2> QED BY <2>1, <2>2, <2>5 DEF Accounted
<1>5. CASE FinishNoRepublish(d)
  <2>1. (ReadyIsTodo /\ KeyOwned)'
    BY <1>5 DEF Accounted, ReadyIsTodo, KeyOwned, Reserved, FinishNoRepublish,
       Finished, At, Body
  <2>2. DoneCovered'
    BY <1>5 DEF Accounted, DoneCovered, Owed, Open, Reported,
       FinishNoRepublish, Finished, At, Body
  <2>3. OwedKept(At(d, "transient")) /\ EntriesKept(At(d, "transient"))
    BY <1>5 DEF Accounted, KeyOwned, OwedKept, EntriesKept, Owed, Open,
       Entries, FinishNoRepublish, Finished, At, Body
  <2>4. HoldsKept(At(d, "transient"))
    <3> SUFFICES ASSUME NEW y \in Delivery, NEW x \in Msg \ At(d, "transient"),
                        Holds(y, x)
                 PROVE  Holds(y, x)'
      BY DEF HoldsKept
    <3>1. y # d
      BY <1>5 DEF FinishNoRepublish, Finished, Holds, Body, At
    <3> QED BY <1>5, <3>1 DEF FinishNoRepublish, Holds
  <2>5. \A x \in At(d, "transient") : Owed(x)' => Carried(x)'
    <3>1. CASE dst' = [dst EXCEPT ![d] = "requeue"]
      BY <1>5, <3>1 DEF FinishNoRepublish, At, Holds, Carried
    <3>2. CASE lost' = lost \cup At(d, "transient")
      BY <3>2 DEF Owed
    <3> QED BY <1>5, <3>1, <3>2 DEF FinishNoRepublish
  <2>6. OpenHasCarrier'
    BY <2>3, <2>4, <2>5, CarriersStay DEF Accounted
  <2> QED BY <2>1, <2>2, <2>6 DEF Accounted
<1>6. CASE Settle(d)
  <2>1. CASE link /\ dst[d] # "requeue"
    <3>0. /\ dst[d] \in {"ack", "drop"}
          /\ dst' = [dst EXCEPT ![d] = "none"]
          /\ step' = [step EXCEPT ![d] = [m \in Msg |-> "absent"]]
          /\ UNCHANGED <<dbVars, redisVars, key, seqMap, outVars>>
      BY <1>6, <2>1 DEF Settle
    <3>1. (ReadyIsTodo /\ KeyOwned)'
      BY <3>0 DEF Accounted, ReadyIsTodo, KeyOwned, Reserved, Body
    <3>2. DoneCovered'
      BY <3>0 DEF Accounted, DoneCovered, Owed, Open, Reported, Body
    <3>3. OwedKept({}) /\ EntriesKept({})
      BY <3>0 DEF Accounted, KeyOwned, OwedKept, EntriesKept, Owed, Open,
         Entries, Body
    <3>4. HoldsKept({})
      BY <3>0 DEF Accounted, ReadyIsTodo, HoldsKept, Holds, Body
    <3>5. OpenHasCarrier'
      BY <3>3, <3>4, CarriersStay DEF Accounted
    <3> QED BY <3>1, <3>2, <3>5 DEF Accounted
  <2>2. CASE ~link \/ dst[d] = "requeue"
    <3>0. /\ dst[d] \in {"ack", "requeue", "drop"}
          /\ dst' = [dst EXCEPT ![d] = "ready"]
          /\ step' = [step EXCEPT ![d] =
                        [m \in Msg |-> IF m \in Body(d) THEN "todo" ELSE "absent"]]
          /\ UNCHANGED <<dbVars, redisVars, key, seqMap, outVars>>
      BY <1>6, <2>2 DEF Settle
    <3>1. (ReadyIsTodo /\ KeyOwned)'
      BY <3>0 DEF Accounted, ReadyIsTodo, KeyOwned, Reserved, Body
    <3>2. DoneCovered'
      BY <3>0 DEF Accounted, DoneCovered, Owed, Open, Reported, Body
    <3>3. OwedKept({}) /\ EntriesKept({})
      BY <3>0 DEF Accounted, KeyOwned, OwedKept, EntriesKept, Owed, Open,
         Entries, Body
    <3>4. HoldsKept({})
      BY <3>0 DEF Accounted, ReadyIsTodo, HoldsKept, Holds, Body
    <3>5. OpenHasCarrier'
      BY <3>3, <3>4, CarriersStay DEF Accounted
    <3> QED BY <3>1, <3>2, <3>5 DEF Accounted
  <2> QED BY <2>1, <2>2
<1> QED BY <1>1, <1>2, <1>3, <1>4, <1>5, <1>6 DEF Deliver

(* The answers of the upstream (OnPDU): no message is forgotten.            *)
LEMMA RespondAccounted ==
  ASSUME Typed, Typed', Accounted, NEW q \in Seq, Respond(q)
  PROVE  Accounted'
<1> USE SentinelAssumption
       DEF Typed, TypeOK, OnHeld, Status, OpenStatus, BatchStatus, DeliveryState,
           Phase, SessionState, Entry, dbVars, redisVars, jobVars, bindVars,
           outVars, brokerVars, budget
<1>1. CASE RespOk(q)
  <2>0. /\ results \subseteq results' /\ lost \subseteq lost'
        /\ \A x \in {seqMap[q].m} : Reported(x)' \/ x \in lost'
    BY <1>1, PublishReports DEF RespOk
  <2>1. (ReadyIsTodo /\ KeyOwned)'
    BY <1>1, <2>0 DEF Accounted, ReadyIsTodo, KeyOwned, Reserved, RespOk,
       Answerable
  <2>2. DoneCovered'
    BY <1>1, <2>0 DEF Accounted, DoneCovered, Owed, Open, Reported, RespOk,
       Answerable
  <2>3. OwedKept({seqMap[q].m}) /\ EntriesKept({seqMap[q].m})
    BY <1>1, <2>0 DEF Accounted, KeyOwned, OwedKept, EntriesKept, Owed, Open,
       Entries, RespOk, Answerable
  <2>4. HoldsKept({seqMap[q].m})
    BY <1>1, <2>0 DEF Accounted, ReadyIsTodo, HoldsKept, Holds, RespOk,
       Answerable
  <2>5. \A x \in {seqMap[q].m} : Owed(x)' => Carried(x)'
    BY <1>1, <2>0 DEF Accounted, DoneCovered, Owed, Open, Carried, Holds,
       Entries, Reported, RespOk, Answerable
  <2>6. OpenHasCarrier'
    BY <2>3, <2>4, <2>5, CarriersStay DEF Accounted
  <2> QED BY <2>1, <2>2, <2>6 DEF Accounted
<1>2. ASSUME NEW e \in Delivery, RespThrottled(q, e) PROVE Accounted'
  <2>1. (ReadyIsTodo /\ KeyOwned)'
    BY <1>2 DEF Accounted, ReadyIsTodo, KeyOwned, Reserved, RespThrottled,
       Answerable, Enqueue, Fresh
  <2>2. DoneCovered'
    BY <1>2 DEF Accounted, DoneCovered, Owed, Open, Reported, RespThrottled,
       Answerable, Enqueue, Fresh
  <2>3. OwedKept({seqMap[q].m}) /\ EntriesKept({seqMap[q].m})
    BY <1>2 DEF Accounted, KeyOwned, OwedKept, EntriesKept, Owed, Open,
       Entries, RespThrottled, Answerable, Enqueue, Fresh
  <2>4. HoldsKept({seqMap[q].m})
    BY <1>2 DEF Accounted, ReadyIsTodo, HoldsKept, Holds, RespThrottled,
       Answerable, Enqueue, Fresh
  <2>5. \A x \in {seqMap[q].m} : Owed(x)' => Carried(x)'
    BY <1>2 DEF Accounted, DoneCovered, Owed, Open, Carried, Holds, Entries,
       Reported, RespThrottled, Answerable, Enqueue, Fresh
  <2>6. OpenHasCarrier'
    BY <2>3, <2>4, <2>5, CarriersStay DEF Accounted
  <2> QED BY <2>1, <2>2, <2>6 DEF Accounted
<1>3. CASE RespRefused(q)
  <2>0. /\ results \subseteq results' /\ lost \subseteq lost'
        /\ \A x \in {seqMap[q].m} : Reported(x)' \/ x \in lost'
    BY <1>3, PublishReports DEF RespRefused
  <2>1. (ReadyIsTodo /\ KeyOwned)'
    BY <1>3, <2>0 DEF Accounted, ReadyIsTodo, KeyOwned, Reserved, RespRefused,
       Answerable
  <2>2. DoneCovered'
    BY <1>3, <2>0 DEF Accounted, DoneCovered, Owed, Open, Reported,
       RespRefused, Answerable
  <2>3. OwedKept({seqMap[q].m}) /\ EntriesKept({seqMap[q].m})
    BY <1>3, <2>0 DEF Accounted, KeyOwned, OwedKept, EntriesKept, Owed, Open,
       Entries, RespRefused, Answerable
  <2>4. HoldsKept({seqMap[q].m})
    BY <1>3, <2>0 DEF Accounted, ReadyIsTodo, HoldsKept, Holds, RespRefused,
       Answerable
  <2>5. \A x \in {seqMap[q].m} : Owed(x)' => Carried(x)'
    BY <1>3, <2>0 DEF Accounted, DoneCovered, Owed, Open, Carried, Holds,
       Entries, Reported, RespRefused, Answerable
  <2>6. OpenHasCarrier'
    BY <2>3, <2>4, <2>5, CarriersStay DEF Accounted
  <2> QED BY <2>1, <2>2, <2>6 DEF Accounted
<1> QED BY <1>1, <1>2, <1>3 DEF Respond

(* The life of a session (bindSession, stale monitor, OnClosed, watchdog):  *)
(* no message is forgotten.                                                 *)
LEMMA SessionStepAccounted ==
  ASSUME Typed, Typed', Accounted, NEW s \in Session, SessionStep(s)
  PROVE  Accounted'
<1> USE SentinelAssumption
       DEF Typed, TypeOK, OnHeld, Status, OpenStatus, BatchStatus, DeliveryState,
           Phase, SessionState, Entry, dbVars, redisVars, jobVars, bindVars,
           outVars, brokerVars, budget
<1>1. CASE Bind(s)
  BY <1>1, AccountsUntouched DEF Bind, accounts
<1>2. CASE StaleReap(s)
  <2>0. /\ results \subseteq results' /\ lost \subseteq lost'
        /\ \A x \in Messages(StaleOf(s)) : Reported(x)' \/ x \in lost'
    BY <1>2, PublishReports DEF StaleReap
  <2>1. (ReadyIsTodo /\ KeyOwned)'
    <3>1. dst' = dst /\ step' = step /\ key' = key
      BY <1>2 DEF StaleReap
    <3>2. \A k \in Seq : seqMap'[k] \in {seqMap[k], NoEntry}
      BY <1>2 DEF StaleReap
    <3> QED BY <3>1, <3>2 DEF Accounted, ReadyIsTodo, KeyOwned
  <2>2. DoneCovered'
    BY <1>2, <2>0 DEF Accounted, DoneCovered, Owed, Open, Reported, StaleReap,
       StaleOf, EntriesOf, Messages, Entries
  <2>3. OwedKept(Messages(StaleOf(s))) /\ EntriesKept(Messages(StaleOf(s)))
    BY <1>2, <2>0 DEF Accounted, KeyOwned, OwedKept, EntriesKept, Owed, Open,
       Entries, StaleReap, StaleOf, EntriesOf, Messages
  <2>4. HoldsKept(Messages(StaleOf(s)))
    BY <1>2, <2>0 DEF Accounted, ReadyIsTodo, HoldsKept, Holds, StaleReap,
       StaleOf, EntriesOf, Messages, Entries
  <2>5. \A x \in Messages(StaleOf(s)) : Owed(x)' => Carried(x)'
    BY <1>2, <2>0 DEF Accounted, DoneCovered, Owed, Open, Carried, Holds,
       Entries, Reported, StaleReap, StaleOf, EntriesOf, Messages
  <2>6. OpenHasCarrier'
    BY <2>3, <2>4, <2>5, CarriersStay DEF Accounted
  <2> QED BY <2>1, <2>2, <2>6 DEF Accounted
<1>3. CASE StaleClose(s)
  BY <1>3, AccountsUntouched DEF StaleClose, accounts
<1>4. CASE Cut(s)
  BY <1>4, AccountsUntouched DEF Cut, accounts
<1>5. CASE OnClosed(s)
  <2>0. /\ results \subseteq results' /\ lost \subseteq lost'
        /\ \A x \in Messages(EntriesOf(s)) : Reported(x)' \/ x \in lost'
    BY <1>5, PublishReports DEF OnClosed
  <2>1. (ReadyIsTodo /\ KeyOwned)'
    BY <1>5, <2>0 DEF Accounted, ReadyIsTodo, KeyOwned, Reserved, OnClosed,
       EntriesOf, Messages, Entries
  <2>2. DoneCovered'
    BY <1>5, <2>0 DEF Accounted, DoneCovered, Owed, Open, Reported, OnClosed,
       EntriesOf, Messages, Entries
  <2>3. OwedKept(Messages(EntriesOf(s))) /\ EntriesKept(Messages(EntriesOf(s)))
    BY <1>5, <2>0 DEF Accounted, KeyOwned, OwedKept, EntriesKept, Owed, Open,
       Entries, OnClosed, EntriesOf, Messages
  <2>4. HoldsKept(Messages(EntriesOf(s)))
    BY <1>5, <2>0 DEF Accounted, ReadyIsTodo, HoldsKept, Holds, OnClosed,
       EntriesOf, Messages, Entries
  <2>5. \A x \in Messages(EntriesOf(s)) : Owed(x)' => Carried(x)'
    BY <1>5, <2>0 DEF Accounted, DoneCovered, Owed, Open, Carried, Holds,
       Entries, Reported, OnClosed, EntriesOf, Messages
  <2>6. OpenHasCarrier'
    BY <2>3, <2>4, <2>5, CarriersStay DEF Accounted
  <2> QED BY <2>1, <2>2, <2>6 DEF Accounted
<1>6. CASE WatchdogClose(s)
  BY <1>6, AccountsUntouched DEF WatchdogClose, accounts
<1>7. CASE WatchdogSweep(s)
  BY <1>7, AccountsUntouched DEF WatchdogSweep, accounts
<1> QED BY <1>1, <1>2, <1>3, <1>4, <1>5, <1>6, <1>7 DEF SessionStep

(* The Celery tasks, the inspector, the operators and the receipts: no      *)
(* message is forgotten.                                                    *)
LEMMA PythonAccounted ==
  ASSUME Typed, Typed', Accounted, Python
  PROVE  Accounted'
<1> USE SentinelAssumption
       DEF Typed, TypeOK, OnHeld, Status, OpenStatus, BatchStatus, DeliveryState,
           Phase, SessionState, Entry, dbVars, redisVars, jobVars, bindVars,
           outVars, brokerVars, budget
<1>1. ASSUME NEW r \in results, WriteResult(r) PROVE Accounted'
  <2>1. (ReadyIsTodo /\ KeyOwned)'
    BY <1>1 DEF Accounted, ReadyIsTodo, KeyOwned, Reserved, WriteResult, Open,
       Operation, Result
  <2>2. DoneCovered'
    BY <1>1 DEF Accounted, DoneCovered, Owed, Open, Reported, WriteResult,
       Operation, Result
  <2>3. OwedKept({r.m}) /\ EntriesKept({r.m})
    BY <1>1 DEF Accounted, KeyOwned, OwedKept, EntriesKept, Owed, Open,
       Entries, WriteResult, Operation, Result
  <2>4. HoldsKept({r.m})
    BY <1>1 DEF Accounted, ReadyIsTodo, HoldsKept, Holds, WriteResult, Open,
       Operation, Result
  <2>5. \A x \in {r.m} : Owed(x)' => Carried(x)'
    BY <1>1 DEF Accounted, DoneCovered, Owed, Open, Carried, Holds, Entries,
       Reported, WriteResult, Operation, Result
  <2>6. OpenHasCarrier'
    BY <2>3, <2>4, <2>5, CarriersStay DEF Accounted
  <2> QED BY <2>1, <2>2, <2>6 DEF Accounted
<1>2. ASSUME NEW m \in Msg, NEW e \in Delivery, SendTask(m, e) PROVE Accounted'
  <2>1. (ReadyIsTodo /\ KeyOwned)'
    BY <1>2 DEF Accounted, ReadyIsTodo, KeyOwned, Reserved, SendTask, Open,
       Operation, Enqueue, Fresh
  <2>2. DoneCovered'
    BY <1>2 DEF Accounted, DoneCovered, Owed, Open, Reported, SendTask,
       Operation, Enqueue, Fresh
  <2>3. OwedKept({m}) /\ EntriesKept({m})
    BY <1>2 DEF Accounted, KeyOwned, OwedKept, EntriesKept, Owed, Open,
       Entries, SendTask, Operation, Enqueue, Fresh
  <2>4. HoldsKept({m})
    BY <1>2 DEF Accounted, ReadyIsTodo, HoldsKept, Holds, SendTask, Open,
       Operation, Enqueue, Fresh
  <2>5. \A x \in {m} : Owed(x)' => Carried(x)'
    BY <1>2 DEF Accounted, DoneCovered, Owed, Open, Carried, Holds, Entries,
       Reported, SendTask, Operation, Enqueue, Fresh
  <2>6. OpenHasCarrier'
    BY <2>3, <2>4, <2>5, CarriersStay DEF Accounted
  <2> QED BY <2>1, <2>2, <2>6 DEF Accounted
<1>3. ASSUME NEW m \in Msg, SendTaskFails(m) PROVE Accounted'
  <2>1. (ReadyIsTodo /\ KeyOwned)'
    BY <1>3 DEF Accounted, ReadyIsTodo, KeyOwned, Reserved, SendTaskFails,
       Open, Operation
  <2>2. DoneCovered'
    BY <1>3 DEF Accounted, DoneCovered, Owed, Open, Reported, SendTaskFails,
       Operation
  <2>3. OwedKept({m}) /\ EntriesKept({m})
    BY <1>3 DEF Accounted, KeyOwned, OwedKept, EntriesKept, Owed, Open,
       Entries, SendTaskFails, Operation
  <2>4. HoldsKept({m})
    BY <1>3 DEF Accounted, ReadyIsTodo, HoldsKept, Holds, SendTaskFails, Open,
       Operation
  <2>5. \A x \in {m} : Owed(x)' => Carried(x)'
    BY <1>3 DEF Accounted, DoneCovered, Owed, Open, Carried, Holds, Entries,
       Reported, SendTaskFails, Operation
  <2>6. OpenHasCarrier'
    BY <2>3, <2>4, <2>5, CarriersStay DEF Accounted
  <2> QED BY <2>1, <2>2, <2>6 DEF Accounted
<1>4. ASSUME NEW m \in Msg, SendTaskSkips(m) PROVE Accounted'
  <2>1. (ReadyIsTodo /\ KeyOwned)'
    BY <1>4 DEF Accounted, ReadyIsTodo, KeyOwned, Reserved, SendTaskSkips,
       Open, Operation
  <2>2. DoneCovered'
    BY <1>4 DEF Accounted, DoneCovered, Owed, Open, Reported, SendTaskSkips,
       Operation
  <2>3. OwedKept({m}) /\ EntriesKept({m})
    BY <1>4 DEF Accounted, KeyOwned, OwedKept, EntriesKept, Owed, Open,
       Entries, SendTaskSkips, Operation
  <2>4. HoldsKept({m})
    BY <1>4 DEF Accounted, ReadyIsTodo, HoldsKept, Holds, SendTaskSkips, Open,
       Operation
  <2>5. \A x \in {m} : Owed(x)' => Carried(x)'
    BY <1>4 DEF Accounted, DoneCovered, Owed, Open, Carried, Holds, Entries,
       Reported, SendTaskSkips, Operation
  <2>6. OpenHasCarrier'
    BY <2>3, <2>4, <2>5, CarriersStay DEF Accounted
  <2> QED BY <2>1, <2>2, <2>6 DEF Accounted
<1>5. ASSUME NEW M \in SUBSET Msg, NEW e \in Delivery,
             Redispatch(M, e)
      PROVE  Accounted'
  <2>1. (ReadyIsTodo /\ KeyOwned)'
    BY <1>5 DEF Accounted, ReadyIsTodo, KeyOwned, Reserved, Redispatch, Open,
       Operation, Enqueue, Fresh
  <2>2. DoneCovered'
    BY <1>5 DEF Accounted, DoneCovered, Owed, Open, Reported, Redispatch,
       Operation, Enqueue, Fresh
  <2>3. OwedKept({}) /\ EntriesKept({})
    BY <1>5 DEF Accounted, KeyOwned, OwedKept, EntriesKept, Owed, Open,
       Entries, Redispatch, Operation, Enqueue, Fresh
  <2>4. HoldsKept({})
    BY <1>5 DEF Accounted, ReadyIsTodo, HoldsKept, Holds, Redispatch, Open,
       Operation, Enqueue, Fresh
  <2>5. OpenHasCarrier'
    BY <2>3, <2>4, CarriersStay DEF Accounted
  <2> QED BY <2>1, <2>2, <2>5 DEF Accounted
<1>6. CASE Expire
  <2>1. (ReadyIsTodo /\ KeyOwned)'
    BY <1>6 DEF Accounted, ReadyIsTodo, KeyOwned, Reserved, Expire, Open,
       Operation
  <2>2. DoneCovered'
    BY <1>6 DEF Accounted, DoneCovered, Owed, Open, Reported, Expire, Operation
  <2>3. OwedKept({}) /\ EntriesKept({})
    BY <1>6 DEF Accounted, KeyOwned, OwedKept, EntriesKept, Owed, Open,
       Entries, Expire, Operation
  <2>4. HoldsKept({})
    BY <1>6 DEF Accounted, ReadyIsTodo, HoldsKept, Holds, Expire, Open,
       Operation
  <2>5. OpenHasCarrier'
    BY <2>3, <2>4, CarriersStay DEF Accounted
  <2> QED BY <2>1, <2>2, <2>5 DEF Accounted
<1>7. CASE Cancel
  BY <1>7, AccountsUntouched DEF Cancel, accounts, Open, Operation
<1>8. CASE RequeueQueued
  <2>1. (ReadyIsTodo /\ KeyOwned)'
    BY <1>8 DEF Accounted, ReadyIsTodo, KeyOwned, Reserved, RequeueQueued,
       Open, Operation
  <2>2. DoneCovered'
    BY <1>8 DEF Accounted, DoneCovered, Owed, Open, Reported, RequeueQueued,
       Operation
  <2>3. OwedKept({}) /\ EntriesKept({})
    BY <1>8 DEF Accounted, KeyOwned, OwedKept, EntriesKept, Owed, Open,
       Entries, RequeueQueued, Operation
  <2>4. HoldsKept({})
    BY <1>8 DEF Accounted, ReadyIsTodo, HoldsKept, Holds, RequeueQueued, Open,
       Operation
  <2>5. OpenHasCarrier'
    BY <2>3, <2>4, CarriersStay DEF Accounted
  <2> QED BY <2>1, <2>2, <2>5 DEF Accounted
<1>9. ASSUME NEW M \in SUBSET Msg, RetryFailed(M) PROVE Accounted'
  <2>1. (ReadyIsTodo /\ KeyOwned)'
    BY <1>9 DEF Accounted, ReadyIsTodo, KeyOwned, Reserved, RetryFailed, Open,
       Operation
  <2>2. DoneCovered'
    BY <1>9 DEF Accounted, DoneCovered, Owed, Open, Reported, RetryFailed,
       Operation
  <2>3. OwedKept(M) /\ EntriesKept(M)
    BY <1>9 DEF Accounted, KeyOwned, OwedKept, EntriesKept, Owed, Open,
       Entries, RetryFailed, Operation
  <2>4. HoldsKept(M)
    BY <1>9 DEF Accounted, ReadyIsTodo, HoldsKept, Holds, RetryFailed, Open,
       Operation
  <2>5. \A x \in M : Owed(x)' => Carried(x)'
    BY <1>9 DEF Accounted, DoneCovered, Owed, Open, Carried, Holds, Entries,
       Reported, RetryFailed, Operation
  <2>6. OpenHasCarrier'
    BY <2>3, <2>4, <2>5, CarriersStay DEF Accounted
  <2> QED BY <2>1, <2>2, <2>6 DEF Accounted
<1>10. ASSUME NEW m \in Msg, NEW verdict \in {"delivered", "failed"},
              Receipt(m, verdict)
       PROVE  Accounted'
  <2>1. (ReadyIsTodo /\ KeyOwned)'
    BY <1>10 DEF Accounted, ReadyIsTodo, KeyOwned, Reserved, Receipt, Open,
       Operation
  <2>2. DoneCovered'
    BY <1>10 DEF Accounted, DoneCovered, Owed, Open, Reported, Receipt,
       Operation
  <2>3. OwedKept({}) /\ EntriesKept({})
    BY <1>10 DEF Accounted, KeyOwned, OwedKept, EntriesKept, Owed, Open,
       Entries, Receipt, Operation
  <2>4. HoldsKept({})
    BY <1>10 DEF Accounted, ReadyIsTodo, HoldsKept, Holds, Receipt, Open,
       Operation
  <2>5. OpenHasCarrier'
    BY <2>3, <2>4, CarriersStay DEF Accounted
  <2> QED BY <2>1, <2>2, <2>5 DEF Accounted
<1> QED BY <1>1, <1>2, <1>3, <1>4, <1>5, <1>6, <1>7, <1>8, <1>9, <1>10 DEF
   Python

(* The broker connection and the death of the process: no message is        *)
(* forgotten.                                                               *)
LEMMA BrokerAccounted ==
  ASSUME Typed, Typed', Accounted, LinkLoss \/ PubDies \/ LinkUp \/ Crash
  PROVE  Accounted'
<1> USE SentinelAssumption
       DEF Typed, TypeOK, OnHeld, Status, OpenStatus, BatchStatus, DeliveryState,
           Phase, SessionState, Entry, dbVars, redisVars, jobVars, bindVars,
           outVars, brokerVars, budget
<1>1. CASE LinkLoss
  BY <1>1, AccountsUntouched DEF LinkLoss, accounts, Fault
<1>2. CASE PubDies
  BY <1>2, AccountsUntouched DEF PubDies, accounts, Fault
<1>3. CASE LinkUp
  BY <1>3, AccountsUntouched DEF LinkUp, accounts, Fault
<1>4. CASE Crash
  <2>1. (ReadyIsTodo /\ KeyOwned)'
    BY <1>4 DEF Accounted, ReadyIsTodo, KeyOwned, Reserved, Crash, Fault,
       Messages, Entries
  <2>2. DoneCovered'
    BY <1>4 DEF Accounted, DoneCovered, Owed, Open, Reported, Crash, Fault,
       Messages, Entries
  <2>3. OwedKept(Messages(Entries)) /\ EntriesKept(Messages(Entries))
    BY <1>4 DEF Accounted, KeyOwned, OwedKept, EntriesKept, Owed, Open,
       Entries, Crash, Fault, Messages
  <2>4. HoldsKept(Messages(Entries))
    BY <1>4 DEF Accounted, ReadyIsTodo, HoldsKept, Holds, Crash, Fault,
       Messages, Entries
  <2>5. \A x \in Messages(Entries) : Owed(x)' => Carried(x)'
    BY <1>4 DEF Accounted, DoneCovered, Owed, Open, Carried, Holds, Entries,
       Reported, Crash, Fault, Messages
  <2>6. OpenHasCarrier'
    BY <2>3, <2>4, <2>5, CarriersStay DEF Accounted
  <2> QED BY <2>1, <2>2, <2>6 DEF Accounted
<1> QED BY <1>1, <1>2, <1>3, <1>4

(* Time passes over an entry: it keeps its message.                        *)
LEMMA AgeAccounted ==
  ASSUME Typed, Accounted, NEW q \in Seq, Age(q)
  PROVE  Accounted'
<1> USE SentinelAssumption DEF Age, dbVars, redisVars, jobVars, outVars
<1>1. (ReadyIsTodo /\ KeyOwned)'
  BY DEF Accounted, ReadyIsTodo, KeyOwned, Typed, TypeOK, Entry
<1>2. DoneCovered'
  BY DEF Accounted, DoneCovered, Owed, Open, Reported
<1>3. OwedKept({}) /\ HoldsKept({})
  BY DEF OwedKept, Owed, Open, HoldsKept, Holds
<1>4. EntriesKept({})
  BY DEF EntriesKept, Entries, Typed, TypeOK, Entry
<1>5. OpenHasCarrier'
  BY <1>3, <1>4, CarriersStay DEF Accounted
<1> QED BY <1>1, <1>2, <1>5 DEF Accounted

-----------------------------------------------------------------------------
(* Every step together: types and accounting *)

(* The dispatched batch satisfies the invariants.                          *)
LEMMA InitHolds ==
  ASSUME Init
  PROVE  Typed /\ Accounted
<1> USE SentinelAssumption DEF Init
<1>1. Typed
  <2>1. /\ dst \in [Delivery -> DeliveryState]
        /\ step \in [Delivery -> [Msg -> Phase]]
    BY DEF DeliveryState, Phase
  <2>2. /\ cancelFlag \in BOOLEAN /\ link \in BOOLEAN /\ pub \in BOOLEAN
        /\ traced \in [Msg -> BOOLEAN]
    OBVIOUS
  <2>3. OnHeld
    BY DEF OnHeld
  <2>4. try \in [Delivery -> [Msg -> 0..MaxThrottle]]
    BY NotThrottled
  <2> QED BY <2>1, <2>2, <2>3, <2>4
          DEF Typed, TypeOK, Status, OpenStatus, BatchStatus, SessionState
<1>2. ReadyIsTodo /\ KeyOwned /\ DoneCovered
  BY DEF ReadyIsTodo, KeyOwned, DoneCovered
<1>3. OpenHasCarrier
  <2> SUFFICES ASSUME NEW m \in Msg PROVE \E d \in Delivery : Holds(d, m)
    BY DEF OpenHasCarrier, Carried
  <2>1. PICK home \in [Msg -> Delivery] :
          /\ dst = [d \in Delivery |->
                      IF \E x \in Msg : home[x] = d THEN "ready" ELSE "none"]
          /\ step = [d \in Delivery |->
                      [x \in Msg |-> IF home[x] = d THEN "todo" ELSE "absent"]]
    BY DEF Init
  <2>2. Holds(home[m], m)
    BY <2>1 DEF Holds
  <2> QED BY <2>2
<1> QED BY <1>1, <1>2, <1>3 DEF Accounted

(* Every step keeps the types.                                             *)
LEMMA TypedStep ==
  ASSUME Typed, [Next]_vars
  PROVE  Typed'
<1>1. CASE Next
  BY <1>1, ConsumeTyped, DeliverTyped, RespondTyped, AgeTyped, SessionStepTyped,
     BrokerTyped, PythonTyped DEF Next
<1>2. CASE UNCHANGED vars
  BY <1>2 DEF Typed, TypeOK, OnHeld, vars, dbVars, redisVars, jobVars, bindVars,
     outVars, brokerVars, budget
<1> QED BY <1>1, <1>2

(* Every step keeps the accounting.                                        *)
LEMMA AccountedStep ==
  ASSUME Typed, Accounted, [Next]_vars
  PROVE  Accounted'
<1>0. Typed'
  BY TypedStep
<1>1. CASE Next
  BY <1>0, <1>1, ConsumeAccounted, DeliverAccounted, RespondAccounted, AgeAccounted,
     SessionStepAccounted, BrokerAccounted, PythonAccounted DEF Next
<1>2. CASE UNCHANGED vars
  BY <1>2, AccountsUntouched DEF accounts, vars, dbVars, redisVars, jobVars, outVars
<1> QED BY <1>1, <1>2

(* Every variable keeps its type: in particular an entry of sequenceMap    *)
(* always names a message and a session, so OnPDU, OnClosed and the stale  *)
(* monitor never look up a submission without one (connector.go:209-214).  *)
THEOREM TypeCorrect == Spec => []TypeOK
<1>1. Init => Typed
  BY InitHolds
<1>2. Typed /\ [Next]_vars => Typed'
  BY TypedStep
<1>3. Typed => TypeOK
  BY DEF Typed
<1> QED BY <1>1, <1>2, <1>3, PTL DEF Spec

(* No message is forgotten, whatever the number of messages, deliveries    *)
(* and sessions, and whichever faults and operations happen: an open row   *)
(* whose message the gateway did not lose in a crash or a failed publish,  *)
(* and that was not retried in place, is in a queue, at a worker, waiting  *)
(* for its response, or its result is on the way.                          *)
THEOREM NothingForgotten == Spec => []OpenHasCarrier
<1>1. Init => Typed /\ Accounted
  BY InitHolds
<1>2. Typed /\ Accounted /\ [Next]_vars => Typed' /\ Accounted'
  BY TypedStep, AccountedStep
<1>3. Accounted => OpenHasCarrier
  BY DEF Accounted
<1> QED BY <1>1, <1>2, <1>3, PTL DEF Spec

-----------------------------------------------------------------------------
(* One copy of a message *)

(* Nothing puts a message into a queue that is there or was there: the      *)
(* broker connection and the process stay up, the inspector and operators   *)
(* enqueue nothing again. Everything else may fail, at any step and as      *)
(* often as it likes: Redis, the database and the probe, the sessions, the  *)
(* publish channel, the upstream's answers.                                 *)
NoSecondCopy ==
  /\ FaultKinds \cap {"crash", "link"} = {}
  /\ OpKinds \cap {"redispatch", "requeue", "retry"} = {}

InHand(d, m) == /\ dst[d] \in {"ready", "busy", "requeue"}
                /\ step[d][m] \notin {"absent", "ok", "permanent"}
Waits(q, m) == seqMap[q] # NoEntry /\ seqMap[q].m = m
Stored(d, m) == step[d][m] = "stored"

(* Where a payload can be while its delivery is in some state.              *)
Places ==
  \A d \in Delivery, m \in Msg :
    /\ dst[d] = "none" => step[d][m] = "absent"
    /\ dst[d] = "ready" => step[d][m] \in {"absent", "todo"}
    /\ dst[d] = "requeue" => step[d][m] \in {"absent", "transient"}
    /\ dst[d] \in {"ack", "drop"} => step[d][m] \in {"absent", "ok", "transient", "permanent"}

(* At most one delivery has a message, and one entry waits for it ...       *)
OneHand(m) == \A d, e \in Delivery : InHand(d, m) /\ InHand(e, m) => d = e
OneEntry(m) == \A p, q \in Seq : Waits(p, m) /\ Waits(q, m) => p = q
(* ... a payload's slot is its own, though the stale monitor or OnClosed    *)
(* may have emptied it before the submission ...                            *)
SlotOfStored(m) ==
  \A d \in Delivery : Stored(d, m) =>
    key[d][m] \in Seq /\ (seqMap[key[d][m]] = NoEntry \/ Waits(key[d][m], m))
(* ... a message that a delivery has is not with the upstream ...           *)
HandCopy(m) ==
  \A d \in Delivery : InHand(d, m) =>
    live[m] = 0 /\ \A q \in Seq : Waits(q, m) => Stored(d, m) /\ key[d][m] = q
(* ... one that waits for its response is, as soon as it is submitted ...   *)
EntryCopy(m) ==
  \A q \in Seq : Waits(q, m) => live[m] = 1 \/ \E d \in Delivery : Stored(d, m) /\ key[d][m] = q
(* ... and one of which the upstream or the gateway has given an account,   *)
(* other than that its session was lost, is in neither place.               *)
Failing(m) == row[m] = "failed" \/ \E r \in results : r.m = m /\ r.st = "failed"
Ended(m) == Failing(m) \/ traced[m] \/ \E r \in results : r.m = m /\ r.id
EndedCopy(m) ==
  /\ Ended(m) => (\A d \in Delivery : ~InHand(d, m)) /\ (\A q \in Seq : ~Waits(q, m))
  /\ live[m] <= 1 /\ (Failing(m) => live[m] <= 0)

OneCopy(m) ==
  OneHand(m) /\ OneEntry(m) /\ SlotOfStored(m) /\ HandCopy(m) /\ EntryCopy(m) /\ EndedCopy(m)

(* What would bring a message back.                                         *)
Steady == tasks = {} /\ link

Copies == Steady /\ Places /\ \A m \in Msg : OneCopy(m)

(* What a step does to the copies of a message: the payloads that are       *)
(* stored stay so, and nothing new waits for its response.                  *)
SlotsKept(x) ==
  \A d \in Delivery : /\ Stored(d, x)' <=> Stored(d, x)
                      /\ Stored(d, x) => /\ InHand(d, x)' /\ key'[d][x] = key[d][x]
                                         /\ \/ seqMap'[key[d][x]] = NoEntry
                                            \/ Waits(key[d][x], x)'
WaitsFewer(x) == \A q \in Seq : Waits(q, x)' => Waits(q, x)
EndKept(x) == (Ended(x)' => Ended(x)) /\ (Failing(x)' => Failing(x)) /\ live'[x] = live[x]

(* Such a step makes no second copy, unless a delivery takes one over.      *)
LEMMA CopyKept ==
  ASSUME NEW x \in Msg, OneCopy(x), OneHand(x)',
         (\E d \in Delivery : InHand(d, x)') => \E d \in Delivery : InHand(d, x),
         SlotsKept(x), WaitsFewer(x), EndKept(x)
  PROVE  OneCopy(x)'
<1> USE DEF OneCopy
<1>1. OneEntry(x)' /\ SlotOfStored(x)'
  BY DEF OneEntry, WaitsFewer, SlotOfStored, SlotsKept
<1>2. HandCopy(x)'
  <2>1. SUFFICES ASSUME NEW d \in Delivery, InHand(d, x)'
                 PROVE  live'[x] = 0 /\ \A q \in Seq : Waits(q, x)' => Stored(d, x)' /\ key'[d][x] = q
    BY DEF HandCopy
  <2>2. PICK e \in Delivery : InHand(e, x)
    BY <2>1
  <2>3. live'[x] = 0
    BY <2>2 DEF HandCopy, EndKept
  <2>4. ASSUME NEW q \in Seq, Waits(q, x)' PROVE Stored(d, x)' /\ key'[d][x] = q
    <3>1. Stored(e, x) /\ key[e][x] = q
      BY <2>2, <2>4 DEF HandCopy, WaitsFewer
    <3>2. Stored(e, x)' /\ key'[e][x] = q /\ InHand(e, x)'
      BY <3>1 DEF SlotsKept
    <3> QED BY <2>1, <3>2 DEF OneHand
  <2> QED BY <2>3, <2>4
<1>3. EntryCopy(x)'
  BY DEF EntryCopy, WaitsFewer, EndKept, SlotsKept
<1>4. EndedCopy(x)'
  BY DEF EndedCopy, EndKept, WaitsFewer
<1> QED BY <1>1, <1>2, <1>3, <1>4

(* Nobody has the message any more.                                         *)
LEMMA CopyGone ==
  ASSUME NEW x \in Msg,
         \A d \in Delivery : ~InHand(d, x)' /\ ~Stored(d, x)', \A q \in Seq : ~Waits(q, x)',
         live'[x] <= 1, Failing(x)' => live'[x] <= 0
  PROVE  OneCopy(x)'
BY DEF OneCopy, OneHand, OneEntry, SlotOfStored, HandCopy, EntryCopy, EndedCopy

(* One delivery has it, and has not stored it.                              *)
LEMMA CopyInHand ==
  ASSUME NEW x \in Msg, NEW d \in Delivery,
         \A e \in Delivery : (InHand(e, x)' => e = d) /\ ~Stored(e, x)',
         \A q \in Seq : ~Waits(q, x)', ~Ended(x)', live'[x] = 0
  PROVE  OneCopy(x)'
BY DEF OneCopy, OneHand, OneEntry, SlotOfStored, HandCopy, EntryCopy, EndedCopy, Ended

(* What a payload's step moves.                                             *)
LEMMA MoveView ==
  ASSUME Typed, NEW d \in Delivery, NEW m \in Msg, NEW p, Move(d, m, p)
  PROVE  \A e \in Delivery, x \in Msg :
           step'[e][x] = IF e = d /\ x = m THEN p ELSE step[e][x]
BY DEF Move, Typed, TypeOK

(* A payload is stored while a worker has its delivery.                     *)
LEMMA StoredInHand ==
  ASSUME Typed, Places
  PROVE  \A d \in Delivery, x \in Msg : Stored(d, x) => dst[d] = "busy" /\ InHand(d, x)
<1>1. \A d \in Delivery : dst[d] \in DeliveryState
  BY DEF Typed, TypeOK
<1> QED BY <1>1 DEF Places, Stored, InHand, DeliveryState

(* A message that no delivery's step concerns.                              *)
LEMMA OtherCopies ==
  ASSUME Typed, Places, NEW x \in Msg, OneCopy(x),
         \A d \in Delivery : /\ dst'[d] = dst[d] /\ step'[d][x] = step[d][x]
                             /\ Stored(d, x) => key'[d][x] = key[d][x],
         \A q \in Seq : /\ Waits(q, x)' => Waits(q, x)
                        /\ Waits(q, x) => Waits(q, x)' \/ seqMap'[q] = NoEntry
                        /\ \A d \in Delivery :
                             Stored(d, x) /\ key[d][x] = q /\ seqMap[q] = NoEntry
                               => seqMap'[q] = NoEntry,
         EndKept(x)
  PROVE  OneCopy(x)'
<1>1. \A d \in Delivery : /\ InHand(d, x)' <=> InHand(d, x)
                          /\ Stored(d, x)' <=> Stored(d, x)
                          /\ Stored(d, x) => InHand(d, x)
  BY StoredInHand DEF InHand, Stored
<1>2. OneHand(x)'
  BY <1>1 DEF OneCopy, OneHand
<1>3. (\E d \in Delivery : InHand(d, x)') => \E d \in Delivery : InHand(d, x)
  BY <1>1
<1>4. WaitsFewer(x)
  BY DEF WaitsFewer
<1>5. SlotsKept(x)
  BY <1>1 DEF SlotsKept, OneCopy, SlotOfStored
<1> QED BY <1>2, <1>3, <1>4, <1>5, CopyKept

(* A message that a delivery has.                                           *)
LEMMA CopyOfHand ==
  ASSUME Typed, Copies, NEW d \in Delivery, NEW m \in Msg, InHand(d, m)
  PROVE  /\ \A e \in Delivery : InHand(e, m) \/ Stored(e, m) => e = d
         /\ \A q \in Seq : Waits(q, m) => Stored(d, m) /\ key[d][m] = q
         /\ ~Ended(m) /\ live[m] = 0
<1>1. \A e \in Delivery : Stored(e, m) => InHand(e, m)
  BY StoredInHand DEF Copies
<1>2. OneHand(m) /\ HandCopy(m) /\ EndedCopy(m)
  BY DEF Copies, OneCopy
<1> QED BY <1>1, <1>2 DEF OneHand, HandCopy, EndedCopy

(* A submission that was made and waits for its response.                   *)
LEMMA CopyOfEntry ==
  ASSUME Typed, Copies, NEW q \in Seq, NEW m \in Msg, Waits(q, m), ~Reserved(q)
  PROVE  /\ \A d \in Delivery : ~InHand(d, m) /\ ~Stored(d, m)
         /\ \A p \in Seq : Waits(p, m) => p = q
         /\ ~Ended(m) /\ live[m] = 1
<1>1. EntryCopy(m) /\ OneEntry(m) /\ HandCopy(m) /\ EndedCopy(m)
  BY DEF Copies, OneCopy
<1>2. ~\E d \in Delivery : Stored(d, m) /\ key[d][m] = q
  BY DEF Reserved, Stored
<1>3. live[m] = 1
  BY <1>1, <1>2 DEF EntryCopy
<1>4. \A d \in Delivery : ~InHand(d, m)
  BY <1>1, <1>3 DEF HandCopy
<1>5. \A d \in Delivery : ~Stored(d, m)
  BY <1>4, StoredInHand DEF Copies
<1> QED BY <1>1, <1>3, <1>4, <1>5 DEF OneEntry, EndedCopy

(* A check, a wait or a choice moves a payload; it stays with its delivery, *)
(* or is counted as handled.                                                *)
Glance(d, m) ==
  \/ SkipDone(d, m) \/ PassGate(d, m) \/ SeeConn(d, m) \/ NoConnTimeout(d, m)
  \/ (\E s \in Session : Pick(d, m, s)) \/ WindowOpen(d, m) \/ WindowFull(d, m)
(* A payload is reported as failed.                                         *)
GiveUp(d, m) == SkipCancelled(d, m) \/ PoolDrained(d, m) \/ LocalReject(d, m)

(* What a worker does with a payload.                                       *)
LEMMA ConsumeCopies ==
  ASSUME Typed, Copies, NEW d \in Delivery, NEW m \in Msg, Consume(d, m)
  PROVE  Copies'
<1>1. Steady /\ Places /\ \A x \in Msg : OneCopy(x)
  BY DEF Copies
<1>2. UNCHANGED <<dst, row, traced, tasks, link>> /\ dst[d] = "busy"
  BY DEF Consume, SkipCancelled, SkipDone, PassGate, SeeConn, NoConnTimeout, PoolDrained, Pick,
     WindowOpen, WindowFull, LocalReject, Store, Submit, SubmitClosing, Working, dbVars,
     brokerVars
<1>3. Steady'
  BY <1>1, <1>2 DEF Steady
<1>4. ASSUME NEW p, Move(d, m, p) PROVE Places'
  <2>1. \A e \in Delivery, x \in Msg : e # d => step'[e][x] = step[e][x]
    BY <1>4, MoveView
  <2> QED BY <1>1, <1>2, <2>1 DEF Places
<1>5. CASE Glance(d, m)
  <2>1. PICK p \in {"ok", "gated", "conn", "transient", "picked", "clear"} : Move(d, m, p)
    BY <1>5 DEF Glance, SkipDone, PassGate, SeeConn, NoConnTimeout, Pick, WindowOpen, WindowFull
  <2>2. step[d][m] \in {"todo", "gated", "conn", "picked"}
    BY <1>5 DEF Glance, SkipDone, PassGate, SeeConn, NoConnTimeout, Pick, WindowOpen,
       WindowFull, Working
  <2>3. UNCHANGED <<key, seqMap, results, live>>
    BY <1>5 DEF Glance, SkipDone, PassGate, SeeConn, NoConnTimeout, Pick, WindowOpen,
       WindowFull, outVars
  <2>4. \A e \in Delivery, x \in Msg : step'[e][x] = IF e = d /\ x = m THEN p ELSE step[e][x]
    BY <2>1, MoveView
  <2>5. ASSUME NEW x \in Msg PROVE OneCopy(x)'
    <3>1. \A e \in Delivery : /\ InHand(e, x)' => InHand(e, x)
                              /\ Stored(e, x)' <=> Stored(e, x)
                              /\ Stored(e, x) => InHand(e, x)'
      BY <1>1, <1>2, <2>1, <2>2, <2>4, StoredInHand DEF InHand, Stored
    <3>2. OneHand(x)'
      BY <1>1, <3>1 DEF OneCopy, OneHand
    <3>3. (\E e \in Delivery : InHand(e, x)') => \E e \in Delivery : InHand(e, x)
      BY <3>1
    <3>4. SlotsKept(x) /\ WaitsFewer(x)
      BY <1>1, <2>3, <3>1 DEF SlotsKept, WaitsFewer, Waits, OneCopy, SlotOfStored
    <3>5. EndKept(x)
      BY <1>2, <2>3 DEF EndKept, Ended, Failing
    <3> QED BY <1>1, <3>2, <3>3, <3>4, <3>5, CopyKept
  <2> QED BY <1>3, <1>4, <2>1, <2>5 DEF Copies
<1>6. CASE GiveUp(d, m)
  <2>1. PICK p \in {"ok", "permanent"} : Move(d, m, p)
    BY <1>6 DEF GiveUp, SkipCancelled, PoolDrained, LocalReject
  <2>2. step[d][m] \in {"todo", "conn", "clear"}
    BY <1>6 DEF GiveUp, SkipCancelled, PoolDrained, LocalReject, Working
  <2>3. UNCHANGED <<key, seqMap, live>>
    BY <1>6 DEF GiveUp, SkipCancelled, PoolDrained, LocalReject
  <2>4. \A e \in Delivery, x \in Msg : step'[e][x] = IF e = d /\ x = m THEN p ELSE step[e][x]
    BY <2>1, MoveView
  <2>5. \A r \in results' : r \in results \/ r = [m |-> m, st |-> "failed", id |-> FALSE]
    BY <1>6 DEF GiveUp, SkipCancelled, PoolDrained, LocalReject, Publish, Outcome
  <2>6. ASSUME NEW x \in Msg, x # m PROVE OneCopy(x)'
    <3>1. EndKept(x)
      BY <1>2, <2>3, <2>5, <2>6 DEF EndKept, Ended, Failing
    <3> QED BY <1>1, <1>2, <2>3, <2>4, <2>6, <3>1, OtherCopies DEF Waits
  <2>7. OneCopy(m)'
    <3>1. InHand(d, m) /\ ~Stored(d, m)
      BY <1>2, <2>2 DEF InHand, Stored
    <3>2. /\ \A e \in Delivery : InHand(e, m) \/ Stored(e, m) => e = d
          /\ \A q \in Seq : ~Waits(q, m)
          /\ live[m] = 0
      BY <3>1, CopyOfHand
    <3>3. /\ \A e \in Delivery : ~InHand(e, m)' /\ ~Stored(e, m)'
          /\ \A q \in Seq : ~Waits(q, m)'
      BY <1>2, <2>1, <2>3, <2>4, <3>2 DEF InHand, Stored, Waits
    <3> QED BY <2>3, <3>2, <3>3, CopyGone
  <2> QED BY <1>3, <1>4, <2>1, <2>6, <2>7 DEF Copies
<1>7. ASSUME NEW q \in Seq, Store(d, m, q) PROVE Copies'
  <2>1. Move(d, m, "stored") /\ step[d][m] = "clear" /\ ~Reserved(q)
    BY <1>7 DEF Store, Working
  <2>2. UNCHANGED <<results, live>>
    BY <1>7 DEF Store, outVars
  <2>3. /\ \A e \in Delivery, x \in Msg :
             step'[e][x] = IF e = d /\ x = m THEN "stored" ELSE step[e][x]
        /\ \A e \in Delivery, x \in Msg : key'[e][x] = IF e = d /\ x = m THEN q ELSE key[e][x]
    BY <1>7, <2>1, MoveView DEF Store, Typed, TypeOK
  <2>4. /\ seqMap[q] = NoEntry
        /\ \A p \in Seq : p # q => seqMap'[p] = seqMap[p]
        /\ seqMap'[q] \in Entry /\ seqMap'[q].m = m
    <3>1. seqMap' = [seqMap EXCEPT ![q] =
                    [m |-> m, try |-> try[d][m], s |-> on[d][m], aged |-> FALSE]]
      BY <1>7 DEF Store
    <3>2. [m |-> m, try |-> try[d][m], s |-> on[d][m], aged |-> FALSE] \in Entry
      BY <2>1 DEF Typed, TypeOK, OnHeld, Entry
    <3> QED BY <1>7, <3>1, <3>2 DEF Store, Typed, TypeOK
  <2>5. \A p \in Seq, x \in Msg : Waits(p, x)' <=> Waits(p, x) \/ (p = q /\ x = m)
    BY <2>4, SentinelAssumption DEF Waits
  <2>6. ASSUME NEW x \in Msg, x # m PROVE OneCopy(x)'
    <3>1. EndKept(x)
      BY <1>2, <2>2 DEF EndKept, Ended, Failing
    <3>2. \A e \in Delivery : Stored(e, x) => key[e][x] # q
      BY <2>1 DEF Reserved, Stored
    <3> QED BY <1>1, <1>2, <2>3, <2>4, <2>5, <2>6, <3>1, <3>2, OtherCopies
  <2>7. OneCopy(m)'
    <3>1. InHand(d, m) /\ ~Stored(d, m)
      BY <1>2, <2>1 DEF InHand, Stored
    <3>2. /\ \A e \in Delivery : InHand(e, m) \/ Stored(e, m) => e = d
          /\ \A p \in Seq : ~Waits(p, m)
          /\ ~Ended(m) /\ live[m] = 0
      BY <3>1, CopyOfHand
    <3>3. /\ \A e \in Delivery : (InHand(e, m)' => e = d) /\ (Stored(e, m)' <=> e = d)
          /\ key'[d][m] = q /\ \A p \in Seq : Waits(p, m)' <=> p = q
      BY <1>2, <2>3, <2>5, <3>2 DEF InHand, Stored
    <3>4. live'[m] = 0 /\ ~Ended(m)'
      BY <1>2, <2>2, <3>2 DEF Ended, Failing
    <3> QED BY <3>3, <3>4 DEF OneCopy, OneHand, OneEntry, SlotOfStored, HandCopy, EntryCopy,
            EndedCopy, Ended
  <2> QED BY <1>3, <1>4, <2>1, <2>6, <2>7 DEF Copies
<1>8. CASE Submit(d, m)
  <2>1. Move(d, m, "ok") /\ Stored(d, m) /\ UNCHANGED <<seqMap, results>>
    BY <1>8 DEF Submit, Working, Stored, outVars
  <2>2. /\ \A e \in Delivery, x \in Msg :
             step'[e][x] = IF e = d /\ x = m THEN "ok" ELSE step[e][x]
        /\ \A e \in Delivery, x \in Msg :
             key'[e][x] = IF e = d /\ x = m THEN NoSeq ELSE key[e][x]
        /\ \A x \in Msg : live'[x] = IF x = m THEN live[x] + 1 ELSE live[x]
    BY <1>8, <2>1, MoveView DEF Submit, Typed, TypeOK
  <2>3. ASSUME NEW x \in Msg, x # m PROVE OneCopy(x)'
    <3>1. EndKept(x)
      BY <1>2, <2>1, <2>2, <2>3 DEF EndKept, Ended, Failing
    <3> QED BY <1>1, <1>2, <2>1, <2>2, <2>3, <3>1, OtherCopies DEF Waits
  <2>4. OneCopy(m)'
    <3>1. /\ \A e \in Delivery : InHand(e, m) \/ Stored(e, m) => e = d
          /\ \A p \in Seq : Waits(p, m) => p = key[d][m]
          /\ ~Ended(m) /\ live[m] = 0
      BY <1>1, <2>1, StoredInHand, CopyOfHand
    <3>2. /\ \A e \in Delivery : ~InHand(e, m)' /\ ~Stored(e, m)'
          /\ \A p \in Seq : Waits(p, m)' => p = key[d][m]
          /\ live'[m] = 1
      BY <1>2, <2>1, <2>2, <3>1 DEF InHand, Stored, Waits
    <3>3. ~Ended(m)'
      BY <1>2, <2>1, <3>1 DEF Ended, Failing
    <3> QED BY <3>2, <3>3 DEF OneCopy, OneHand, OneEntry, SlotOfStored, HandCopy, EntryCopy,
            EndedCopy, Ended
  <2> QED BY <1>3, <1>4, <2>1, <2>3, <2>4 DEF Copies
<1>9. CASE SubmitClosing(d, m)
  <2>1. Move(d, m, "transient") /\ Stored(d, m) /\ UNCHANGED <<results, live>>
    BY <1>9 DEF SubmitClosing, Working, Stored, outVars
  <2>2. /\ \A e \in Delivery, x \in Msg :
             step'[e][x] = IF e = d /\ x = m THEN "transient" ELSE step[e][x]
        /\ \A e \in Delivery, x \in Msg :
             key'[e][x] = IF e = d /\ x = m THEN NoSeq ELSE key[e][x]
        /\ \A q \in Seq : seqMap'[q] = IF q = key[d][m] THEN NoEntry ELSE seqMap[q]
    BY <1>9, <2>1, MoveView DEF SubmitClosing, Typed, TypeOK
  <2>3. /\ \A e \in Delivery : InHand(e, m) \/ Stored(e, m) => e = d
        /\ \A p \in Seq : Waits(p, m) => p = key[d][m]
        /\ ~Ended(m) /\ live[m] = 0
    BY <1>1, <2>1, StoredInHand, CopyOfHand
  <2>4. ASSUME NEW x \in Msg, x # m PROVE OneCopy(x)'
    <3>1. EndKept(x)
      BY <1>2, <2>1 DEF EndKept, Ended, Failing
    <3> QED BY <1>1, <1>2, <2>2, <2>4, <3>1, OtherCopies DEF Waits
  <2>5. OneCopy(m)'
    <3>1. \A e \in Delivery : (InHand(e, m)' => e = d) /\ ~Stored(e, m)'
      BY <1>2, <2>2, <2>3 DEF InHand, Stored
    <3>2. \A q \in Seq : ~Waits(q, m)'
      BY <2>2, <2>3 DEF Waits
    <3>3. ~Ended(m)' /\ live'[m] = 0
      BY <1>2, <2>1, <2>3 DEF Ended, Failing
    <3> QED BY <3>1, <3>2, <3>3, CopyInHand
  <2> QED BY <1>3, <1>4, <2>1, <2>4, <2>5 DEF Copies
<1> QED BY <1>5, <1>6, <1>7, <1>8, <1>9 DEF Consume, Glance, GiveUp

(* What becomes of a whole delivery moves its messages to another, or       *)
(* leaves them where they are.                                              *)
HandsKept(x) ==
  /\ OneHand(x) => OneHand(x)'
  /\ (\E d \in Delivery : InHand(d, x)') => \E d \in Delivery : InHand(d, x)
  /\ \A d \in Delivery : /\ Stored(d, x)' <=> Stored(d, x)
                         /\ Stored(d, x) => InHand(d, x)'

(* So does every step of a whole delivery while the connection stands.     *)
LEMMA DeliverHands ==
  ASSUME Typed, Places, link, NEW d \in Delivery, Deliver(d)
  PROVE  Places' /\ \A x \in Msg : HandsKept(x)
<1>1. /\ \A e \in Delivery, x \in Msg : Stored(e, x) => dst[e] = "busy" /\ InHand(e, x)
      /\ \A e \in Delivery : dst[e] \in DeliveryState
      /\ dst \in [Delivery -> DeliveryState] /\ step \in [Delivery -> [Msg -> Phase]]
  BY StoredInHand DEF Typed, TypeOK
\* A step in which no delivery takes a message over from another.
<1>2. ASSUME \A e \in Delivery, x \in Msg : /\ InHand(e, x)' => InHand(e, x)
                                            /\ Stored(e, x)' <=> Stored(e, x)
                                            /\ Stored(e, x) => InHand(e, x)'
      PROVE  \A x \in Msg : HandsKept(x)
  <2> SUFFICES ASSUME NEW x \in Msg PROVE HandsKept(x)
    OBVIOUS
  <2>1. OneHand(x) => OneHand(x)'
    BY <1>2 DEF OneHand
  <2> QED BY <1>2, <2>1 DEF HandsKept
<1>3. CASE Take(d)
  <2>1. step' = step /\ dst[d] = "ready" /\ dst' = [dst EXCEPT ![d] = "busy"]
    BY <1>3 DEF Take
  <2>2. \A e \in Delivery : dst'[e] = IF e = d THEN "busy" ELSE dst[e]
    BY <1>1, <2>1
  <2>3. Places'
    BY <1>1, <2>1, <2>2 DEF Places
  <2>4. \A e \in Delivery, x \in Msg : /\ InHand(e, x)' => InHand(e, x)
                                       /\ Stored(e, x)' <=> Stored(e, x)
                                       /\ Stored(e, x) => InHand(e, x)'
    BY <1>1, <2>1, <2>2 DEF InHand, Stored
  <2> QED BY <1>2, <2>3, <2>4
<1>4. CASE FinishSingle(d) \/ FinishBulk(d) \/ FinishNoRepublish(d)
  <2>1. step' = step
    BY <1>4 DEF FinishSingle, FinishBulk, FinishNoRepublish
  <2>2. dst[d] = "busy" /\ \A x \in Msg : step[d][x] \in {"absent", "ok", "transient", "permanent"}
    BY <1>4 DEF FinishSingle, FinishBulk, FinishNoRepublish, Finished, Body
  <2>3. \A e \in Delivery : e # d => dst'[e] = dst[e]
    BY <1>1, <1>4 DEF FinishSingle, FinishBulk, FinishNoRepublish
  <2>4. \/ dst'[d] \in {"ack", "drop"}
        \/ /\ dst'[d] = "requeue"
           /\ \A x \in Msg : step[d][x] \in {"absent", "transient"}
    <3>1. CASE FinishSingle(d)
      <4>1. PICK m \in Msg : /\ Body(d) = {m}
                             /\ dst' = [dst EXCEPT ![d] = Verdict[step[d][m]]]
        BY <3>1 DEF FinishSingle
      <4>2. dst'[d] = Verdict[step[d][m]] /\ step[d][m] # "absent"
        BY <1>1, <4>1 DEF Body
      <4>3. \A x \in Msg : x # m => step[d][x] = "absent"
        BY <4>1 DEF Body
      <4> QED BY <2>2, <4>2, <4>3 DEF Verdict
    <3>2. CASE FinishBulk(d)
      BY <1>1, <3>2 DEF FinishBulk
    <3>3. CASE FinishNoRepublish(d)
      BY <1>1, <3>3 DEF FinishNoRepublish, At, Body
    <3> QED BY <1>4, <3>1, <3>2, <3>3
  <2>5. Places'
    BY <1>1, <2>1, <2>2, <2>3, <2>4 DEF Places
  <2>6. \A e \in Delivery, x \in Msg : /\ InHand(e, x)' => InHand(e, x)
                                       /\ Stored(e, x)' <=> Stored(e, x)
                                       /\ Stored(e, x) => InHand(e, x)'
    BY <1>1, <2>1, <2>2, <2>3, <2>4 DEF InHand, Stored
  <2> QED BY <1>2, <2>5, <2>6
<1>5. CASE Settle(d)
  <2>1. \A e \in Delivery : e # d => dst'[e] = dst[e] /\ step'[e] = step[e]
    BY <1>1, <1>5 DEF Settle
  <2>2. dst[d] \in {"ack", "requeue", "drop"}
    BY <1>5 DEF Settle
  <2>3. \/ /\ dst[d] # "requeue" /\ dst'[d] = "none"
           /\ \A x \in Msg : step'[d][x] = "absent"
        \/ /\ dst[d] = "requeue" /\ dst'[d] = "ready"
           /\ \A x \in Msg : step'[d][x] = IF step[d][x] # "absent" THEN "todo" ELSE "absent"
    BY <1>1, <1>5 DEF Settle, Body
  <2>4. Places'
    BY <1>1, <2>1, <2>3 DEF Places
  <2>5. \A x \in Msg : /\ InHand(d, x)' => InHand(d, x)
                       /\ ~Stored(d, x)' /\ ~Stored(d, x)
    BY <1>1, <2>2, <2>3 DEF InHand, Stored, Places
  <2>6. \A e \in Delivery, x \in Msg : /\ InHand(e, x)' => InHand(e, x)
                                       /\ Stored(e, x)' <=> Stored(e, x)
                                       /\ Stored(e, x) => InHand(e, x)'
    BY <1>1, <2>1, <2>5 DEF InHand, Stored
  <2> QED BY <1>2, <2>4, <2>6
<1>6. ASSUME NEW e \in Delivery, FinishRepublish(d, e) PROVE Places' /\ \A x \in Msg : HandsKept(x)
  <2>1. /\ dst[d] = "busy" /\ dst[e] = "none"
        /\ \A x \in Msg : step[d][x] \in {"absent", "ok", "transient", "permanent"}
    BY <1>6 DEF FinishRepublish, Finished, Body
  <2>2. /\ \A y \in Delivery :
             dst'[y] = IF y = e THEN "ready" ELSE IF y = d THEN "ack" ELSE dst[y]
        /\ \A y \in Delivery : y # e => step'[y] = step[y]
        /\ \A x \in Msg : step'[e][x] = IF step[d][x] = "transient" THEN "todo" ELSE "absent"
    BY <1>1, <1>6 DEF FinishRepublish
  <2>3. Places'
    BY <1>1, <2>1, <2>2 DEF Places
  <2>4. \A x \in Msg : /\ ~Stored(d, x) /\ ~Stored(e, x) /\ ~Stored(d, x)' /\ ~Stored(e, x)'
                       /\ ~InHand(d, x)' /\ (InHand(e, x)' => InHand(d, x))
    BY <1>1, <2>1, <2>2 DEF Stored, InHand
  <2>5. \A y \in Delivery \ {d, e}, x \in Msg : /\ InHand(y, x)' <=> InHand(y, x)
                                                /\ Stored(y, x)' <=> Stored(y, x)
    BY <2>2 DEF InHand, Stored
  <2>6. ASSUME NEW x \in Msg PROVE HandsKept(x)
    <3>1. OneHand(x) => OneHand(x)'
      BY <2>4, <2>5 DEF OneHand
    <3>2. (\E y \in Delivery : InHand(y, x)') => \E y \in Delivery : InHand(y, x)
      BY <2>4, <2>5
    <3>3. \A y \in Delivery : /\ Stored(y, x)' <=> Stored(y, x)
                              /\ Stored(y, x) => InHand(y, x)'
      BY <1>1, <2>4, <2>5
    <3> QED BY <3>1, <3>2, <3>3 DEF HandsKept
  <2> QED BY <2>3, <2>6
<1> QED BY <1>3, <1>4, <1>5, <1>6 DEF Deliver

(* Neither a row nor an entry or a result changes with it.                  *)
LEMMA DeliverLeaves ==
  ASSUME NEW d \in Delivery, Deliver(d)
  PROVE  UNCHANGED <<key, seqMap, results, row, traced, live, tasks, link, sess>>
BY DEF Deliver, Take, FinishSingle, FinishBulk, FinishRepublish, FinishNoRepublish, Settle,
   dbVars, bindVars, outVars, brokerVars

(* The steps of a whole delivery.                                           *)
LEMMA DeliverCopies ==
  ASSUME Typed, Copies, NEW d \in Delivery, Deliver(d)
  PROVE  Copies'
<1>1. Steady' /\ Places' /\ \A x \in Msg : HandsKept(x)
  BY DeliverHands, DeliverLeaves DEF Copies, Steady
<1>2. ASSUME NEW x \in Msg PROVE OneCopy(x)'
  <2>1. OneCopy(x) /\ HandsKept(x)
    BY <1>1 DEF Copies
  <2>2. SlotsKept(x) /\ WaitsFewer(x) /\ EndKept(x)
    BY <2>1, DeliverLeaves DEF HandsKept, SlotsKept, WaitsFewer, EndKept, Waits, Ended,
       Failing, OneCopy, SlotOfStored
  <2> QED BY <2>1, <2>2, CopyKept DEF HandsKept, OneCopy
<1> QED BY <1>1, <1>2 DEF Copies

(* A submission is answered: the answer is on its way to the row, or the    *)
(* message on its way back to the queue.                                    *)
LEMMA RespondCopies ==
  ASSUME Typed, Copies, NEW q \in Seq, Respond(q)
  PROVE  Copies'
<1>1. Answerable(q)
  BY DEF Respond, RespOk, RespThrottled, RespRefused
<1>2. PICK m \in Msg : m = seqMap[q].m /\ Waits(q, m) /\ ~Reserved(q)
  BY <1>1, SentinelAssumption DEF Answerable, Waits, Typed, TypeOK, Entry
<1>3. /\ \A d \in Delivery : ~InHand(d, m) /\ ~Stored(d, m)
      /\ \A p \in Seq : Waits(p, m) => p = q
      /\ ~Ended(m) /\ live[m] = 1
  BY <1>2, CopyOfEntry
<1>4. /\ \A p \in Seq : seqMap'[p] = IF p = q THEN NoEntry ELSE seqMap[p]
      /\ UNCHANGED <<key, row, traced, tasks, link>>
  BY DEF Respond, RespOk, RespThrottled, RespRefused, Typed, TypeOK, dbVars, jobVars, brokerVars
<1>5. \A p \in Seq : ~Waits(p, m)'
  BY <1>3, <1>4 DEF Waits
<1>6. Steady' /\ Places /\ \A x \in Msg : OneCopy(x)
  BY <1>4 DEF Copies, Steady
<1>7. CASE RespOk(q) \/ RespRefused(q)
  <2>1. PICK st \in {"sent", "failed"}, id \in BOOLEAN :
          /\ Publish(Outcome({m}, st, id))
          /\ live' = IF st = "sent" THEN live ELSE [live EXCEPT ![m] = @ - 1]
    <3>1. CASE RespOk(q)
      <4>1. Publish(Outcome({m}, "sent", TRUE)) /\ live' = live
        BY <1>2, <3>1 DEF RespOk
      <4> QED BY <4>1
    <3>2. CASE RespRefused(q)
      <4>1. Publish(Outcome({m}, "failed", FALSE)) /\ live' = [live EXCEPT ![m] = @ - 1]
        BY <1>2, <3>2 DEF RespRefused
      <4> QED BY <4>1
    <3> QED BY <1>7, <3>1, <3>2
  <2>2. dst' = dst /\ step' = step
    BY <1>7 DEF RespOk, RespRefused, jobVars
  <2>3. \A r \in results' : r \in results \/ r = [m |-> m, st |-> st, id |-> id]
    BY <2>1 DEF Publish, Outcome
  <2>4. /\ \A x \in Msg : x # m => live'[x] = live[x]
        /\ live'[m] = IF st = "sent" THEN 1 ELSE 0
    BY <1>3, <2>1 DEF Typed, TypeOK
  <2>5. ASSUME NEW x \in Msg, x # m PROVE OneCopy(x)'
    <3>1. EndKept(x)
      BY <1>4, <2>3, <2>4, <2>5 DEF EndKept, Ended, Failing
    <3> QED BY <1>4, <1>6, <2>2, <2>5, <3>1, OtherCopies DEF Waits, Copies
  <2>6. OneCopy(m)'
    <3>1. \A d \in Delivery : ~InHand(d, m)' /\ ~Stored(d, m)'
      BY <1>3, <2>2 DEF InHand, Stored
    <3>2. Failing(m)' => st = "failed"
      BY <1>3, <1>4, <2>3 DEF Failing, Ended
    <3> QED BY <1>5, <2>4, <3>1, <3>2, CopyGone
  <2>7. Places'
    BY <1>6, <2>2 DEF Places
  <2> QED BY <1>6, <2>5, <2>6, <2>7 DEF Copies
<1>8. ASSUME NEW e \in Delivery, RespThrottled(q, e) PROVE Copies'
  <2>1. /\ dst[e] = "none" /\ dst' = [dst EXCEPT ![e] = "ready"]
        /\ step' = [step EXCEPT ![e] = [x \in Msg |-> IF x \in {m} THEN "todo" ELSE "absent"]]
        /\ live' = [live EXCEPT ![m] = @ - 1]
        /\ results' = results
    BY <1>2, <1>8 DEF RespThrottled, Enqueue, outVars
  <2>2. /\ \A d \in Delivery : dst'[d] = IF d = e THEN "ready" ELSE dst[d]
        /\ \A d \in Delivery : d # e => step'[d] = step[d]
        /\ \A x \in Msg : step'[e][x] = IF x = m THEN "todo" ELSE "absent"
        /\ \A x \in Msg : live'[x] = IF x = m THEN live[x] - 1 ELSE live[x]
    BY <2>1 DEF Typed, TypeOK
  <2>3. \A x \in Msg : step[e][x] = "absent"
    BY <1>6, <2>1 DEF Places
  <2>4. Places'
    BY <1>6, <2>2 DEF Places
  <2>5. ASSUME NEW x \in Msg, x # m PROVE OneCopy(x)'
    <3>1. \A d \in Delivery : /\ InHand(d, x)' <=> InHand(d, x)
                              /\ Stored(d, x)' <=> Stored(d, x)
      BY <2>2, <2>3, <2>5 DEF InHand, Stored
    <3>2. OneHand(x)' /\ ((\E d \in Delivery : InHand(d, x)') => \E d \in Delivery : InHand(d, x))
      BY <1>6, <3>1 DEF OneCopy, OneHand
    <3>3. SlotsKept(x)
      BY <1>4, <1>6, <3>1, StoredInHand DEF SlotsKept, OneCopy, SlotOfStored, Waits
    <3>4. WaitsFewer(x) /\ EndKept(x)
      BY <1>4, <2>1, <2>2, <2>5 DEF WaitsFewer, Waits, EndKept, Ended, Failing
    <3> QED BY <1>6, <3>2, <3>3, <3>4, CopyKept
  <2>6. OneCopy(m)'
    <3>1. \A d \in Delivery : (InHand(d, m)' => d = e) /\ ~Stored(d, m)'
      BY <1>3, <2>2 DEF InHand, Stored
    <3>2. ~Ended(m)' /\ live'[m] = 0
      BY <1>3, <1>4, <2>1, <2>2 DEF Ended, Failing
    <3> QED BY <1>5, <3>1, <3>2, CopyInHand
  <2> QED BY <1>6, <2>4, <2>5, <2>6 DEF Copies
<1> QED BY <1>7, <1>8 DEF Respond

(* A step that leaves the deliveries alone, empties entries at most, and    *)
(* reports of messages at most that they were sent and lost their session.  *)
LEMMA CopiesUntouched ==
  ASSUME Typed, Copies, UNCHANGED <<dst, step, key, live, tasks, link>>,
         \A x \in Msg, q \in Seq :
           /\ Waits(q, x)' => Waits(q, x)
           /\ Waits(q, x) => Waits(q, x)' \/ seqMap'[q] = NoEntry
           /\ seqMap[q] = NoEntry => seqMap'[q] = NoEntry,
         \A x \in Msg : (Ended(x)' => Ended(x)) /\ (Failing(x)' => Failing(x))
  PROVE  Copies'
<1>1. Steady' /\ Places'
  BY DEF Copies, Steady, Places
<1>2. ASSUME NEW x \in Msg PROVE OneCopy(x)'
  BY OtherCopies DEF Copies, EndKept
<1> QED BY <1>1, <1>2 DEF Copies

(* Time passes over an entry, before or after its submission.               *)
LEMMA AgeCopies ==
  ASSUME Typed, Copies, NEW q \in Seq, Age(q)
  PROVE  Copies'
<1>1. UNCHANGED <<dst, step, key, live, tasks, link, row, traced, results>>
  BY DEF Age, dbVars, jobVars, outVars, brokerVars
<1>2. \A p \in Seq : /\ seqMap'[p] # NoEntry <=> seqMap[p] # NoEntry
                     /\ seqMap[p] # NoEntry => seqMap'[p].m = seqMap[p].m
  BY SentinelAssumption DEF Age, Typed, TypeOK, Entry
<1>3. \A x \in Msg, p \in Seq : Waits(p, x)' <=> Waits(p, x)
  BY <1>2 DEF Waits
<1>4. \A x \in Msg : (Ended(x)' => Ended(x)) /\ (Failing(x)' => Failing(x))
  BY <1>1 DEF Ended, Failing
<1> QED BY <1>1, <1>2, <1>3, <1>4, CopiesUntouched

(* The sessions: what the stale monitor and OnClosed report says no more    *)
(* than that a copy may be with the upstream.                               *)
LEMMA SessionStepCopies ==
  ASSUME Typed, Copies, NEW s \in Session, SessionStep(s)
  PROVE  Copies'
<1>1. UNCHANGED <<dst, step, key, live, tasks, link, row, traced>>
  BY DEF SessionStep, Bind, StaleReap, StaleClose, Cut, OnClosed, WatchdogClose, WatchdogSweep,
     dbVars, jobVars, brokerVars
<1>2. \A p \in Seq : seqMap'[p] \in {seqMap[p], NoEntry}
  BY DEF SessionStep, Bind, StaleReap, StaleClose, Cut, OnClosed, WatchdogClose, WatchdogSweep
<1>3. \A r \in results' : r \in results \/ (r.st = "sent" /\ r.id = FALSE)
  BY DEF SessionStep, Bind, StaleReap, StaleClose, Cut, OnClosed, WatchdogClose, WatchdogSweep,
     outVars, Publish, Outcome
<1>4. \A x \in Msg : (Ended(x)' => Ended(x)) /\ (Failing(x)' => Failing(x))
  BY <1>1, <1>3 DEF Ended, Failing
<1>5. \A x \in Msg, q \in Seq : /\ Waits(q, x)' => Waits(q, x)
                                /\ Waits(q, x) => Waits(q, x)' \/ seqMap'[q] = NoEntry
                                /\ seqMap[q] = NoEntry => seqMap'[q] = NoEntry
  BY <1>2 DEF Waits
<1> QED BY <1>1, <1>4, <1>5, CopiesUntouched

(* The broker stays, with or without the publish channel.                   *)
LEMMA BrokerCopies ==
  ASSUME Typed, Copies, NoSecondCopy, LinkLoss \/ PubDies \/ LinkUp \/ Crash
  PROVE  Copies'
<1>1. PubDies
  BY DEF LinkLoss, LinkUp, Crash, Fault, NoSecondCopy, Copies, Steady
<1> QED BY <1>1, CopiesUntouched
        DEF PubDies, dbVars, jobVars, bindVars, outVars, Waits, Ended, Failing

(* What is left of the Python side when nothing is enqueued again.          *)
LEMMA PythonSteady ==
  ASSUME Steady, NoSecondCopy, Python
  PROVE  \/ \E r \in results : WriteResult(r)
         \/ Expire \/ Cancel
         \/ \E m \in Msg, verdict \in {"delivered", "failed"} : Receipt(m, verdict)
<1>1. tasks = {}
  BY DEF Steady
<1>2. ~RequeueQueued /\ \A M \in SUBSET Msg : ~RetryFailed(M) /\ \A e \in Delivery : ~Redispatch(M, e)
  BY DEF NoSecondCopy, RequeueQueued, RetryFailed, Redispatch, Operation
<1>3. \A m \in Msg : ~SendTaskFails(m) /\ ~SendTaskSkips(m) /\ \A e \in Delivery : ~SendTask(m, e)
  BY <1>1 DEF SendTaskFails, SendTaskSkips, SendTask
<1> QED BY <1>2, <1>3 DEF Python

(* The Python side.                                                         *)
LEMMA PythonCopies ==
  ASSUME Typed, Copies, NoSecondCopy, Python
  PROVE  Copies'
<1>1. ASSUME NEW r \in results, WriteResult(r) PROVE Copies'
  <2>1. /\ UNCHANGED <<dst, step, key, seqMap, live, tasks, link>> /\ results' \subseteq results
        /\ r.m \in Msg /\ r.st \in {"sent", "failed"}
    BY <1>1 DEF WriteResult, jobVars, brokerVars, Typed, TypeOK, Result
  <2>2. \A x \in Msg : /\ row'[x] = IF x = r.m THEN r.st ELSE row[x]
                       /\ traced'[x] = IF x = r.m THEN r.id ELSE traced[x]
    BY <1>1 DEF WriteResult, Typed, TypeOK
  <2>3. \A x \in Msg : (Ended(x)' => Ended(x)) /\ (Failing(x)' => Failing(x))
    BY <2>1, <2>2 DEF Ended, Failing
  <2> QED BY <2>1, <2>3, CopiesUntouched DEF Waits
<1>2. CASE Expire
  <2>1. UNCHANGED <<dst, step, key, seqMap, live, tasks, link, results, traced>>
    BY <1>2 DEF Expire, jobVars, outVars, brokerVars
  <2>2. \A x \in Msg : row'[x] = IF Open(x) THEN "expired" ELSE row[x]
    BY <1>2 DEF Expire
  <2>3. \A x \in Msg : (Ended(x)' => Ended(x)) /\ (Failing(x)' => Failing(x))
    BY <2>1, <2>2 DEF Ended, Failing
  <2> QED BY <2>1, <2>3, CopiesUntouched DEF Waits
<1>3. CASE Cancel
  BY <1>3, CopiesUntouched DEF Cancel, jobVars, outVars, brokerVars, Waits, Ended, Failing
<1>4. ASSUME NEW m \in Msg, NEW verdict \in {"delivered", "failed"}, Receipt(m, verdict)
      PROVE  Copies'
  <2>1. UNCHANGED <<dst, step, key, seqMap, tasks, link, results, traced>> /\ traced[m]
    BY <1>4 DEF Receipt, jobVars, outVars, brokerVars
  <2>2. \A x \in Msg : /\ row'[x] = IF x = m THEN verdict ELSE row[x]
                       /\ live'[x] = IF x = m /\ verdict = "failed" THEN live[x] - 1 ELSE live[x]
    BY <1>4 DEF Receipt, Typed, TypeOK
  <2>3. Steady' /\ Places' /\ Places /\ \A x \in Msg : OneCopy(x)
    BY <2>1 DEF Copies, Steady, Places
  <2>4. ASSUME NEW x \in Msg, x # m PROVE OneCopy(x)'
    <3>1. EndKept(x)
      BY <2>1, <2>2, <2>4 DEF EndKept, Ended, Failing
    <3> QED BY <2>1, <2>3, <2>4, <3>1, OtherCopies DEF Waits
  <2>5. OneCopy(m)'
    <3>1. EndedCopy(m) /\ Ended(m) /\ live[m] \in Int
      BY <2>1, <2>3 DEF OneCopy, Ended, Typed, TypeOK
    <3>2. \A d \in Delivery : ~InHand(d, m)' /\ ~Stored(d, m)'
      BY <2>1, <2>3, <3>1, StoredInHand DEF EndedCopy, InHand, Stored
    <3>3. \A q \in Seq : ~Waits(q, m)'
      BY <2>1, <3>1 DEF EndedCopy, Waits
    <3>4. live'[m] <= 1 /\ (verdict = "failed" => live'[m] <= 0)
      BY <2>2, <3>1 DEF EndedCopy
    <3>5. verdict = "delivered" /\ Failing(m)' => Failing(m)
      BY <2>1, <2>2 DEF Failing
    <3>6. verdict = "delivered" => live'[m] = live[m]
      BY <2>2
    <3>7. Failing(m)' => live'[m] <= 0
      BY <3>1, <3>4, <3>5, <3>6 DEF EndedCopy
    <3> QED BY <3>2, <3>3, <3>4, <3>7, CopyGone
  <2> QED BY <2>3, <2>4, <2>5 DEF Copies
<1> QED BY <1>1, <1>2, <1>3, <1>4, PythonSteady DEF Copies

(* The dispatched batch: each message in one delivery.                      *)
LEMMA InitCopies ==
  ASSUME Init
  PROVE  Copies
<1> USE DEF Init
<1>1. PICK home \in [Msg -> Delivery] :
        /\ dst = [d \in Delivery |-> IF \E x \in Msg : home[x] = d THEN "ready" ELSE "none"]
        /\ step = [d \in Delivery |-> [x \in Msg |-> IF home[x] = d THEN "todo" ELSE "absent"]]
  OBVIOUS
<1>2. Steady /\ Places
  BY <1>1 DEF Steady, Places
<1>3. ASSUME NEW m \in Msg PROVE OneCopy(m)
  <2>1. /\ \A d \in Delivery : (InHand(d, m) => d = home[m]) /\ ~Stored(d, m)
        /\ \A q \in Seq : ~Waits(q, m)
    BY <1>1 DEF InHand, Stored, Waits
  <2>2. ~Ended(m) /\ live[m] = 0
    BY DEF Ended, Failing
  <2> QED BY <2>1, <2>2 DEF OneCopy, OneHand, OneEntry, SlotOfStored, HandCopy, EntryCopy,
          EndedCopy, Ended
<1> QED BY <1>2, <1>3 DEF Copies

(* No step makes a second copy.                                             *)
LEMMA CopiesStep ==
  ASSUME Typed, Copies, NoSecondCopy, [Next]_vars
  PROVE  Copies'
<1>1. CASE Next
  BY <1>1, ConsumeCopies, DeliverCopies, RespondCopies, AgeCopies, SessionStepCopies,
     BrokerCopies, PythonCopies DEF Next
<1>2. CASE UNCHANGED vars
  BY <1>2, CopiesUntouched
     DEF vars, dbVars, jobVars, outVars, brokerVars, Waits, Ended, Failing
<1> QED BY <1>1, <1>2

-----------------------------------------------------------------------------
(* What is said to be sent *)

(* No submission is reported before it is made: no session breaks under it, *)
(* and none takes longer than staleTTL.                                     *)
PromptSubmit == "cut" \notin FaultKinds /\ ~SlowSubmit

(* A payload is stored while a worker has its delivery; an entry ages after *)
(* its submission; no session is about to call OnClosed.                    *)
StoredBusy == \A d \in Delivery, m \in Msg : Stored(d, m) => dst[d] = "busy"
AgedIsMade == \A q \in Seq : seqMap[q] # NoEntry /\ seqMap[q].aged => ~Reserved(q)
NoCut == \A s \in Session : sess[s] # "cut"

(* Every entry whose submission was made, every result "sent" on its way    *)
(* and a row that says sent stand for a copy of their own that was handed   *)
(* over and not refused.                                                    *)
Submitted(m) == {q \in Seq : Waits(q, m) /\ ~Reserved(q)}
SentResults(m) == {id \in BOOLEAN : [m |-> m, st |-> "sent", id |-> id] \in results}
SaysSent(m) == IF row[m] = "sent" THEN 1 ELSE 0
SentCounted(m) == Cardinality(Submitted(m)) + Cardinality(SentResults(m)) + SaysSent(m) <= live[m]

SentIsLive == StoredBusy /\ AgedIsMade /\ NoCut /\ \A m \in Msg : SentCounted(m)

(* A step that moves no payload to or from its submission.                  *)
StoredSame ==
  \A d \in Delivery, x \in Msg :
    /\ Stored(d, x)' <=> Stored(d, x)
    /\ Stored(d, x) => key'[d][x] = key[d][x] /\ dst'[d] = "busy"

(* The sets that are counted are finite ...                                 *)
LEMMA Finite ==
  ASSUME NEW A \in SUBSET Seq, NEW B \in SUBSET BOOLEAN
  PROVE  /\ IsFiniteSet(A) /\ Cardinality(A) \in Nat
         /\ IsFiniteSet(B) /\ Cardinality(B) \in Nat
<1>1. IsFiniteSet(A)
  BY BoundAssumption, FS_Subset
<1>2. IsFiniteSet(B)
  <2>1. IsFiniteSet({TRUE}) /\ IsFiniteSet({TRUE} \cup {FALSE})
    BY FS_Singleton, FS_AddElement
  <2>2. B \in SUBSET ({TRUE} \cup {FALSE})
    OBVIOUS
  <2> QED BY <2>1, <2>2, FS_Subset
<1> QED BY <1>1, <1>2, FS_CardinalityType

(* ... and an element more makes one at most one larger.                    *)
LEMMA OneMore ==
  ASSUME NEW S, IsFiniteSet(S), NEW q, NEW T \in SUBSET (S \cup {q})
  PROVE  Cardinality(T) <= Cardinality(S) + 1
<1>1. /\ IsFiniteSet(S \cup {q})
      /\ Cardinality(S \cup {q}) = IF q \in S THEN Cardinality(S) ELSE Cardinality(S) + 1
  BY FS_AddElement
<1>2. Cardinality(T) <= Cardinality(S \cup {q})
  BY <1>1, FS_Subset
<1>3. Cardinality(S) \in Nat /\ Cardinality(T) \in Nat
  BY <1>1, FS_CardinalityType, FS_Subset
<1> QED BY <1>1, <1>2, <1>3

(* Fewer things that say sent, of as many copies or more.                   *)
LEMMA CountFewer ==
  ASSUME Typed, NEW x \in Msg, SentCounted(x),
         Submitted(x)' \subseteq Submitted(x), SentResults(x)' \subseteq SentResults(x),
         SaysSent(x)' <= SaysSent(x), live'[x] = live[x]
  PROVE  SentCounted(x)'
<1> DEFINE A == Submitted(x)  B == SentResults(x)
<1>0. /\ A \subseteq Seq /\ A' \subseteq Seq
      /\ B \subseteq BOOLEAN /\ B' \subseteq BOOLEAN
  BY DEF Submitted, SentResults
<1>1. /\ IsFiniteSet(A) /\ Cardinality(A) \in Nat /\ IsFiniteSet(B) /\ Cardinality(B) \in Nat
      /\ SaysSent(x) \in {0, 1} /\ live[x] \in Int
  BY <1>0, Finite DEF SaysSent, Typed, TypeOK
<1>2. /\ IsFiniteSet(A') /\ Cardinality(A') \in Nat /\ IsFiniteSet(B') /\ Cardinality(B') \in Nat
      /\ SaysSent(x)' \in {0, 1}
  BY <1>0, Finite DEF SaysSent
<1>3. Cardinality(A') <= Cardinality(A) /\ Cardinality(B') <= Cardinality(B)
  BY <1>1, FS_Subset
<1>4. Cardinality(A) + Cardinality(B) + SaysSent(x) <= live[x]
  BY DEF SentCounted
<1>5. Cardinality(A') + Cardinality(B') + SaysSent(x)' <= live'[x]
  <2> HIDE DEF A, B, SaysSent
  <2> QED BY <1>1, <1>2, <1>3, <1>4
<1> QED BY <1>5 DEF SentCounted

(* An entry is answered: its copy was refused, or there is a result that    *)
(* stands for it.                                                           *)
LEMMA CountAnswered ==
  ASSUME Typed, NEW x \in Msg, SentCounted(x), NEW q \in Submitted(x),
         Submitted(x)' \subseteq Submitted(x) \ {q}, SaysSent(x)' = SaysSent(x),
         \/ SentResults(x)' \subseteq SentResults(x) /\ live'[x] = live[x] - 1
         \/ /\ \E id \in BOOLEAN : SentResults(x)' \subseteq SentResults(x) \cup {id}
            /\ live'[x] = live[x]
  PROVE  SentCounted(x)'
<1> DEFINE A == Submitted(x)  B == SentResults(x)
<1>0. /\ A \subseteq Seq /\ A' \subseteq Seq
      /\ B \subseteq BOOLEAN /\ B' \subseteq BOOLEAN
  BY DEF Submitted, SentResults
<1>1. /\ IsFiniteSet(A) /\ Cardinality(A) \in Nat /\ IsFiniteSet(B) /\ Cardinality(B) \in Nat
      /\ SaysSent(x) \in {0, 1} /\ live[x] \in Int
  BY <1>0, Finite DEF SaysSent, Typed, TypeOK
<1>2. /\ IsFiniteSet(A') /\ Cardinality(A') \in Nat /\ IsFiniteSet(B') /\ Cardinality(B') \in Nat
  BY <1>0, Finite DEF SaysSent
<1>3. Cardinality(A') <= Cardinality(A) - 1
  <2>1. IsFiniteSet(A \ {q}) /\ Cardinality(A \ {q}) = Cardinality(A) - 1
    BY <1>1, FS_RemoveElement
  <2> QED BY <2>1, FS_Subset
<1>4. \/ Cardinality(B') <= Cardinality(B) /\ live'[x] = live[x] - 1
      \/ Cardinality(B') <= Cardinality(B) + 1 /\ live'[x] = live[x]
  <2>1. CASE SentResults(x)' \subseteq SentResults(x) /\ live'[x] = live[x] - 1
    BY <1>1, <2>1, FS_Subset
  <2>2. ASSUME NEW id \in BOOLEAN, SentResults(x)' \subseteq SentResults(x) \cup {id},
               live'[x] = live[x]
        PROVE  Cardinality(B') <= Cardinality(B) + 1
    BY <1>1, <2>2, OneMore
  <2> QED BY <2>1, <2>2
<1>5. Cardinality(A) + Cardinality(B) + SaysSent(x) <= live[x]
  BY DEF SentCounted
<1>6. Cardinality(A') + Cardinality(B') + SaysSent(x)' <= live'[x]
  <2> HIDE DEF A, B, SaysSent
  <2> QED BY <1>1, <1>2, <1>3, <1>4, <1>5
<1> QED BY <1>6 DEF SentCounted

(* A copy is handed over.                                                   *)
LEMMA CountSubmitted ==
  ASSUME Typed, NEW x \in Msg, SentCounted(x), NEW q,
         Submitted(x)' \subseteq Submitted(x) \cup {q}, SaysSent(x)' = SaysSent(x),
         SentResults(x)' = SentResults(x), live'[x] = live[x] + 1
  PROVE  SentCounted(x)'
<1> DEFINE A == Submitted(x)  B == SentResults(x)
<1>0. /\ A \subseteq Seq /\ A' \subseteq Seq
      /\ B \subseteq BOOLEAN /\ B' \subseteq BOOLEAN
  BY DEF Submitted, SentResults
<1>1. /\ IsFiniteSet(A) /\ Cardinality(A) \in Nat /\ IsFiniteSet(B) /\ Cardinality(B) \in Nat
      /\ SaysSent(x) \in {0, 1} /\ live[x] \in Int
  BY <1>0, Finite DEF SaysSent, Typed, TypeOK
<1>2. /\ IsFiniteSet(A') /\ Cardinality(A') \in Nat
  BY <1>0, Finite DEF SaysSent
<1>3. Cardinality(A') <= Cardinality(A) + 1
  BY <1>1, OneMore
<1>4. Cardinality(B') = Cardinality(B)
  OBVIOUS
<1>5. Cardinality(A) + Cardinality(B) + SaysSent(x) <= live[x]
  BY DEF SentCounted
<1>6. Cardinality(A') + Cardinality(B') + SaysSent(x)' <= live'[x]
  <2> HIDE DEF A, B, SaysSent
  <2> QED BY <1>1, <1>2, <1>3, <1>4, <1>5
<1> QED BY <1>6 DEF SentCounted

(* A result "sent" is written: the row stands for its copy now.             *)
LEMMA CountWritten ==
  ASSUME Typed, NEW x \in Msg, SentCounted(x), NEW id \in SentResults(x),
         Submitted(x)' \subseteq Submitted(x),
         SentResults(x)' \subseteq SentResults(x) \ {id}, live'[x] = live[x]
  PROVE  SentCounted(x)'
<1> DEFINE A == Submitted(x)  B == SentResults(x)
<1>0. /\ A \subseteq Seq /\ A' \subseteq Seq
      /\ B \subseteq BOOLEAN /\ B' \subseteq BOOLEAN
  BY DEF Submitted, SentResults
<1>1. /\ IsFiniteSet(A) /\ Cardinality(A) \in Nat /\ IsFiniteSet(B) /\ Cardinality(B) \in Nat
      /\ SaysSent(x) \in {0, 1} /\ live[x] \in Int
  BY <1>0, Finite DEF SaysSent, Typed, TypeOK
<1>2. /\ IsFiniteSet(A') /\ Cardinality(A') \in Nat /\ IsFiniteSet(B') /\ Cardinality(B') \in Nat
      /\ SaysSent(x)' \in {0, 1}
  BY <1>0, Finite DEF SaysSent
<1>3. Cardinality(A') <= Cardinality(A)
  BY <1>1, FS_Subset
<1>4. Cardinality(B') <= Cardinality(B) - 1
  <2>1. IsFiniteSet(B \ {id}) /\ Cardinality(B \ {id}) = Cardinality(B) - 1
    BY <1>1, FS_RemoveElement
  <2> QED BY <2>1, FS_Subset
<1>5. Cardinality(A) + Cardinality(B) + SaysSent(x) <= live[x]
  BY DEF SentCounted
<1>6. Cardinality(A') + Cardinality(B') + SaysSent(x)' <= live'[x]
  <2> HIDE DEF A, B, SaysSent
  <2> QED BY <1>1, <1>2, <1>3, <1>4, <1>5
<1> QED BY <1>6 DEF SentCounted

(* A delivery report takes the row's copy away, or lets it stand.           *)
LEMMA CountConcluded ==
  ASSUME Typed, NEW x \in Msg, SentCounted(x), row[x] = "sent", row'[x] # "sent",
         Submitted(x)' \subseteq Submitted(x), SentResults(x)' \subseteq SentResults(x),
         live'[x] \in {live[x], live[x] - 1}
  PROVE  SentCounted(x)'
<1> DEFINE A == Submitted(x)  B == SentResults(x)
<1>0. /\ A \subseteq Seq /\ A' \subseteq Seq
      /\ B \subseteq BOOLEAN /\ B' \subseteq BOOLEAN
  BY DEF Submitted, SentResults
<1>1. /\ IsFiniteSet(A) /\ Cardinality(A) \in Nat /\ IsFiniteSet(B) /\ Cardinality(B) \in Nat
      /\ live[x] \in Int
  BY <1>0, Finite DEF Typed, TypeOK
<1>2. Cardinality(A') \in Nat /\ Cardinality(B') \in Nat
  BY <1>0, Finite
<1>3. Cardinality(A') <= Cardinality(A) /\ Cardinality(B') <= Cardinality(B)
  BY <1>1, FS_Subset
<1>4. SaysSent(x) = 1 /\ SaysSent(x)' = 0
  BY DEF SaysSent
<1>5. Cardinality(A) + Cardinality(B) + SaysSent(x) <= live[x]
  BY DEF SentCounted
<1>6. Cardinality(A') + Cardinality(B') + SaysSent(x)' <= live'[x]
  <2> HIDE DEF A, B, SaysSent
  <2> QED BY <1>1, <1>2, <1>3, <1>4, <1>5
<1> QED BY <1>6 DEF SentCounted

(* Slots keep their owners when no payload moves to or from its submission. *)
LEMMA ReservedSame ==
  ASSUME StoredSame
  PROVE  \A q \in Seq : Reserved(q)' <=> Reserved(q)
BY DEF StoredSame, Reserved, Stored

(* A step that moves no payload to or from its submission, hands nothing    *)
(* over and says of no message that it is sent.                             *)
LEMMA SentUntouched ==
  ASSUME Typed, Typed', SentIsLive, StoredSame, NoCut',
         \A q \in Seq : seqMap'[q] = seqMap[q], live' = live,
         \A r \in results' : r \in results \/ r.st = "failed",
         \A x \in Msg : row'[x] = "sent" => row[x] = "sent"
  PROVE  SentIsLive'
<1>1. StoredBusy' /\ AgedIsMade'
  BY ReservedSame DEF StoredSame, StoredBusy, AgedIsMade, SentIsLive
<1>2. ASSUME NEW x \in Msg PROVE SentCounted(x)'
  <2>1. Submitted(x)' \subseteq Submitted(x)
    BY ReservedSame DEF Submitted, Waits
  <2>2. SentResults(x)' \subseteq SentResults(x)
    BY DEF SentResults
  <2>3. SaysSent(x)' <= SaysSent(x)
    BY DEF SaysSent
  <2> QED BY <2>1, <2>2, <2>3, CountFewer DEF SentIsLive
<1> QED BY <1>1, <1>2 DEF SentIsLive

(* A check, a wait or a choice, or a failure that is reported.              *)
LEMMA GlanceSent ==
  ASSUME Typed, Typed', SentIsLive, NEW d \in Delivery, NEW m \in Msg,
         Glance(d, m) \/ GiveUp(d, m)
  PROVE  SentIsLive'
<1>1. PICK p \in Phase \ {"stored"} : Move(d, m, p)
  BY DEF Glance, SkipDone, PassGate, SeeConn, NoConnTimeout, Pick, WindowOpen, WindowFull,
     GiveUp, SkipCancelled, PoolDrained, LocalReject, Phase
<1>2. dst[d] = "busy" /\ step[d][m] # "stored"
  BY DEF Glance, SkipDone, PassGate, SeeConn, NoConnTimeout, Pick, WindowOpen, WindowFull,
     GiveUp, SkipCancelled, PoolDrained, LocalReject, Working
<1>3. UNCHANGED <<dst, key, seqMap, row, sess, live>>
  BY DEF Glance, SkipDone, PassGate, SeeConn, NoConnTimeout, Pick, WindowOpen, WindowFull,
     GiveUp, SkipCancelled, PoolDrained, LocalReject, dbVars, bindVars
<1>4. \A r \in results' : r \in results \/ r.st = "failed"
  <2>1. results' = results \/ Publish(Outcome({m}, "failed", FALSE))
    BY DEF Glance, SkipDone, PassGate, SeeConn, NoConnTimeout, Pick, WindowOpen, WindowFull,
       GiveUp, SkipCancelled, PoolDrained, LocalReject, outVars
  <2> QED BY <2>1 DEF Publish, Outcome
<1>5. \A e \in Delivery, x \in Msg : step'[e][x] = IF e = d /\ x = m THEN p ELSE step[e][x]
  BY <1>1, MoveView
<1>6. StoredSame
  BY <1>1, <1>2, <1>3, <1>5 DEF StoredSame, Stored, StoredBusy, SentIsLive
<1> QED BY <1>3, <1>4, <1>6, SentUntouched DEF SentIsLive, NoCut

(* The entry is stored under a slot that is the payload's own: it does not  *)
(* count until the submission is made.                                      *)
LEMMA StoreSent ==
  ASSUME Typed, SentIsLive, NEW d \in Delivery, NEW m \in Msg, NEW q \in Seq, Store(d, m, q)
  PROVE  SentIsLive'
<1>1. Move(d, m, "stored") /\ dst[d] = "busy" /\ step[d][m] = "clear"
  BY DEF Store, Working
<1>2. UNCHANGED <<dst, results, row, sess, live>>
  BY DEF Store, dbVars, bindVars, outVars
<1>3. \A e \in Delivery, x \in Msg : step'[e][x] = IF e = d /\ x = m THEN "stored" ELSE step[e][x]
  BY <1>1, MoveView
<1>4. \A e \in Delivery, x \in Msg : key'[e][x] = IF e = d /\ x = m THEN q ELSE key[e][x]
  BY DEF Store, Typed, TypeOK
<1>5. \A p \in Seq : /\ p # q => seqMap'[p] = seqMap[p]
                     /\ p = q => seqMap'[p].aged = FALSE
  BY DEF Store, Typed, TypeOK
<1>6. /\ Reserved(q)'
      /\ \A p \in Seq : p # q => (Reserved(p)' <=> Reserved(p))
  BY <1>1, <1>3, <1>4 DEF Reserved
<1>7. StoredBusy'
  BY <1>1, <1>2, <1>3 DEF SentIsLive, StoredBusy, Stored
<1>8. AgedIsMade' /\ NoCut'
  BY <1>2, <1>5, <1>6 DEF SentIsLive, AgedIsMade, NoCut
<1>9. ASSUME NEW x \in Msg PROVE SentCounted(x)'
  <2>1. Submitted(x)' \subseteq Submitted(x)
    BY <1>5, <1>6 DEF Submitted, Waits
  <2>2. SentResults(x)' = SentResults(x) /\ SaysSent(x)' = SaysSent(x)
    BY <1>2 DEF SentResults, SaysSent
  <2>3. SaysSent(x) <= SaysSent(x)
    BY DEF SaysSent
  <2> QED BY <1>2, <2>1, <2>2, <2>3, CountFewer DEF SentIsLive
<1> QED BY <1>7, <1>8, <1>9 DEF SentIsLive

(* The submission is made: one copy more, and its entry counts from now on. *)
LEMMA SubmitSent ==
  ASSUME Typed, KeyOwned, SentIsLive, NEW d \in Delivery, NEW m \in Msg, Submit(d, m)
  PROVE  SentIsLive'
<1>1. Move(d, m, "ok") /\ dst[d] = "busy" /\ step[d][m] = "stored"
  BY DEF Submit, Working
<1>2. UNCHANGED <<dst, seqMap, results, row, sess>>
  BY DEF Submit, dbVars, bindVars, outVars
<1>3. \A e \in Delivery, x \in Msg : step'[e][x] = IF e = d /\ x = m THEN "ok" ELSE step[e][x]
  BY <1>1, MoveView
<1>4. \A e \in Delivery, x \in Msg : key'[e][x] = IF e = d /\ x = m THEN NoSeq ELSE key[e][x]
  BY DEF Submit, Typed, TypeOK
<1>5. \A x \in Msg : live'[x] = IF x = m THEN live[x] + 1 ELSE live[x]
  BY DEF Submit, Typed, TypeOK
<1>6. \A p \in Seq : /\ Reserved(p)' => Reserved(p)
                     /\ p # key[d][m] => (Reserved(p)' <=> Reserved(p))
  BY <1>3, <1>4 DEF Reserved
<1>7. StoredBusy' /\ AgedIsMade' /\ NoCut'
  <2>1. StoredBusy'
    BY <1>2, <1>3 DEF SentIsLive, StoredBusy, Stored
  <2>2. AgedIsMade' /\ NoCut'
    BY <1>2, <1>6 DEF SentIsLive, AgedIsMade, NoCut
  <2> QED BY <2>1, <2>2
<1>8. ASSUME NEW x \in Msg PROVE SentCounted(x)'
  <2>1. SentResults(x)' = SentResults(x) /\ SaysSent(x)' = SaysSent(x)
    BY <1>2 DEF SentResults, SaysSent
  <2>2. CASE x # m
    <3>1. Submitted(x)' \subseteq Submitted(x)
      BY <1>1, <1>2, <1>6, <2>2 DEF Submitted, Waits, KeyOwned
    <3>2. SaysSent(x) <= SaysSent(x)
      BY DEF SaysSent
    <3> QED BY <1>5, <2>1, <2>2, <3>1, <3>2, CountFewer DEF SentIsLive
  <2>3. CASE x = m
    <3>1. Submitted(m)' \subseteq Submitted(m) \cup {key[d][m]}
      BY <1>2, <1>6 DEF Submitted, Waits
    <3> QED BY <1>5, <2>1, <2>3, <3>1, CountSubmitted DEF SentIsLive
  <2> QED BY <2>2, <2>3
<1> QED BY <1>7, <1>8 DEF SentIsLive

(* The session is closing: the entry goes without having counted.           *)
LEMMA SubmitClosingSent ==
  ASSUME Typed, KeyOwned, SentIsLive, NEW d \in Delivery, NEW m \in Msg, SubmitClosing(d, m)
  PROVE  SentIsLive'
<1>1. Move(d, m, "transient") /\ dst[d] = "busy" /\ step[d][m] = "stored"
  BY DEF SubmitClosing, Working
<1>2. UNCHANGED <<dst, results, row, sess, live>>
  BY DEF SubmitClosing, dbVars, bindVars, outVars
<1>3. \A e \in Delivery, x \in Msg :
        step'[e][x] = IF e = d /\ x = m THEN "transient" ELSE step[e][x]
  BY <1>1, MoveView
<1>4. \A e \in Delivery, x \in Msg : key'[e][x] = IF e = d /\ x = m THEN NoSeq ELSE key[e][x]
  BY DEF SubmitClosing, Typed, TypeOK
<1>5. \A p \in Seq : seqMap'[p] = IF p = key[d][m] THEN NoEntry ELSE seqMap[p]
  BY DEF SubmitClosing, Typed, TypeOK
<1>6. \A p \in Seq : /\ Reserved(p)' => Reserved(p)
                     /\ p # key[d][m] => (Reserved(p)' <=> Reserved(p))
  BY <1>3, <1>4 DEF Reserved
<1>7. StoredBusy' /\ AgedIsMade' /\ NoCut'
  <2>1. StoredBusy'
    BY <1>2, <1>3 DEF SentIsLive, StoredBusy, Stored
  <2>2. AgedIsMade' /\ NoCut'
    BY <1>2, <1>5, <1>6 DEF SentIsLive, AgedIsMade, NoCut
  <2> QED BY <2>1, <2>2
<1>8. ASSUME NEW x \in Msg PROVE SentCounted(x)'
  <2>1. SentResults(x)' = SentResults(x) /\ SaysSent(x)' = SaysSent(x)
    BY <1>2 DEF SentResults, SaysSent
  <2>2. Submitted(x)' \subseteq Submitted(x)
    BY <1>5, <1>6 DEF Submitted, Waits
  <2>3. SaysSent(x) <= SaysSent(x)
    BY DEF SaysSent
  <2> QED BY <1>2, <2>1, <2>2, <2>3, CountFewer DEF SentIsLive
<1> QED BY <1>7, <1>8 DEF SentIsLive

(* What a worker does with a payload.                                       *)
LEMMA ConsumeSent ==
  ASSUME Typed, Typed', KeyOwned, SentIsLive, NEW d \in Delivery, NEW m \in Msg, Consume(d, m)
  PROVE  SentIsLive'
BY GlanceSent, StoreSent, SubmitSent, SubmitClosingSent DEF Consume, Glance, GiveUp

(* The steps of a whole delivery: nothing of it is at its submission.       *)
LEMMA DeliverSent ==
  ASSUME Typed, Typed', SentIsLive, NEW d \in Delivery, Deliver(d)
  PROVE  SentIsLive'
<1>1. UNCHANGED <<key, seqMap, results, row, sess, live>>
  BY DEF Deliver, Take, FinishSingle, FinishBulk, FinishRepublish, FinishNoRepublish, Settle,
     dbVars, bindVars, outVars
<1>2. \A x \in Msg : ~Stored(d, x)
  <2>1. ASSUME Finished(d) PROVE \A x \in Msg : ~Stored(d, x)
    BY <2>1 DEF Finished, Stored, Body
  <2>2. CASE Take(d)
    BY <2>2 DEF Take, SentIsLive, StoredBusy
  <2>3. CASE Settle(d)
    BY <2>3 DEF Settle, SentIsLive, StoredBusy
  <2> QED BY <2>1, <2>2, <2>3 DEF Deliver, FinishSingle, FinishBulk, FinishRepublish,
     FinishNoRepublish
<1>3. CASE Take(d) \/ FinishSingle(d) \/ FinishBulk(d) \/ FinishNoRepublish(d)
  <2>1. step' = step /\ \A e \in Delivery : e # d => dst'[e] = dst[e]
    BY <1>3 DEF Take, FinishSingle, FinishBulk, FinishNoRepublish, Typed, TypeOK
  <2>2. StoredSame
    BY <1>1, <1>2, <2>1 DEF StoredSame, Stored, SentIsLive, StoredBusy
  <2> QED BY <1>1, <2>2, SentUntouched DEF SentIsLive, NoCut
<1>4. ASSUME NEW e \in Delivery, FinishRepublish(d, e) PROVE SentIsLive'
  <2>1. dst[e] = "none" /\ \A y \in Delivery : y # d /\ y # e => dst'[y] = dst[y]
    BY <1>4 DEF FinishRepublish, Typed, TypeOK
  <2>2. /\ \A x \in Msg : step'[e][x] # "stored"
        /\ \A y \in Delivery : y # e => step'[y] = step[y]
    BY <1>4 DEF FinishRepublish, Typed, TypeOK
  <2>3. \A x \in Msg : ~Stored(e, x)
    BY <2>1 DEF SentIsLive, StoredBusy
  <2>4. StoredSame
    BY <1>1, <1>2, <2>1, <2>2, <2>3 DEF StoredSame, Stored, SentIsLive, StoredBusy
  <2> QED BY <1>1, <2>4, SentUntouched DEF SentIsLive, NoCut
<1>5. CASE Settle(d)
  <2>1. \A y \in Delivery : y # d => dst'[y] = dst[y] /\ step'[y] = step[y]
    BY <1>5 DEF Settle, Typed, TypeOK
  <2>2. \A x \in Msg : step'[d][x] \in {"absent", "todo"}
    <3>1. \/ step' = [step EXCEPT ![d] = [x \in Msg |-> "absent"]]
          \/ step' = [step EXCEPT ![d] = [x \in Msg |-> IF x \in Body(d) THEN "todo" ELSE "absent"]]
      BY <1>5 DEF Settle
    <3> QED BY <3>1 DEF Typed, TypeOK
  <2>3. StoredSame
    BY <1>1, <1>2, <2>1, <2>2 DEF StoredSame, Stored, SentIsLive, StoredBusy
  <2> QED BY <1>1, <2>3, SentUntouched DEF SentIsLive, NoCut
<1> QED BY <1>3, <1>4, <1>5 DEF Deliver

(* A delivery that did not exist is enqueued: it has nothing submitted.     *)
LEMMA EnqueueSame ==
  ASSUME Typed, SentIsLive, NEW e \in Delivery, NEW M, NEW t, Enqueue(e, M, t), key' = key
  PROVE  StoredSame
<1>1. dst[e] = "none" /\ \A y \in Delivery : y # e => dst'[y] = dst[y] /\ step'[y] = step[y]
  BY DEF Enqueue, Typed, TypeOK
<1>2. \A x \in Msg : step'[e][x] # "stored"
  BY DEF Enqueue, Typed, TypeOK
<1>3. \A x \in Msg : ~Stored(e, x)
  BY <1>1 DEF SentIsLive, StoredBusy
<1> QED BY <1>1, <1>2, <1>3 DEF StoredSame, Stored, SentIsLive, StoredBusy

(* The upstream answers: the copy stays and has a result, or is gone.       *)
LEMMA RespondSent ==
  ASSUME Typed, SentIsLive, NEW q \in Seq, Respond(q)
  PROVE  SentIsLive'
<1>1. /\ seqMap[q] # NoEntry /\ ~Reserved(q)
      /\ UNCHANGED <<key, row, sess>>
      /\ seqMap' = [seqMap EXCEPT ![q] = NoEntry]
  BY DEF Respond, RespOk, RespThrottled, RespRefused, Answerable, dbVars, jobVars, bindVars
<1>2. PICK m \in Msg : seqMap[q].m = m
  BY <1>1 DEF Typed, TypeOK, Entry
<1>3. \A p \in Seq : seqMap'[p] = IF p = q THEN NoEntry ELSE seqMap[p]
  BY <1>1 DEF Typed, TypeOK
<1>4. q \in Submitted(m)
  BY <1>1, <1>2 DEF Submitted, Waits
<1>5. ASSUME StoredSame,
             \A x \in Msg : x # m => SentResults(x)' \subseteq SentResults(x) /\ live'[x] = live[x],
             \/ SentResults(m)' \subseteq SentResults(m) /\ live'[m] = live[m] - 1
             \/ /\ \E id \in BOOLEAN : SentResults(m)' \subseteq SentResults(m) \cup {id}
                /\ live'[m] = live[m]
      PROVE  SentIsLive'
  <2>1. \A p \in Seq : Reserved(p)' <=> Reserved(p)
    BY <1>5, ReservedSame
  <2>2. StoredBusy' /\ AgedIsMade' /\ NoCut'
    BY <1>1, <1>3, <1>5, <2>1 DEF StoredSame, StoredBusy, AgedIsMade, NoCut, SentIsLive
  <2>3. ASSUME NEW x \in Msg PROVE SentCounted(x)'
    <3>1. SaysSent(x)' = SaysSent(x) /\ SaysSent(x) <= SaysSent(x)
      BY <1>1 DEF SaysSent
    <3>2. Submitted(x)' \subseteq Submitted(x) \ {q}
      BY <1>3, <2>1 DEF Submitted, Waits
    <3>3. CASE x # m
      BY <1>5, <3>1, <3>2, <3>3, CountFewer DEF SentIsLive
    <3>4. CASE x = m
      BY <1>4, <1>5, <3>1, <3>2, <3>4, CountAnswered DEF SentIsLive
    <3> QED BY <3>3, <3>4
  <2> QED BY <2>2, <2>3 DEF SentIsLive
<1>6. CASE RespOk(q)
  <2>1. Publish(Outcome({m}, "sent", TRUE)) /\ UNCHANGED <<dst, step, live>>
    BY <1>2, <1>6 DEF RespOk, jobVars
  <2>2. \A r \in results' : r \in results \/ r = [m |-> m, st |-> "sent", id |-> TRUE]
    BY <2>1 DEF Publish, Outcome
  <2>3. StoredSame
    BY <1>1, <2>1 DEF StoredSame, Stored, SentIsLive, StoredBusy
  <2>4. \A x \in Msg : x # m => SentResults(x)' \subseteq SentResults(x)
    BY <2>2 DEF SentResults
  <2>5. SentResults(m)' \subseteq SentResults(m) \cup {TRUE}
    BY <2>2 DEF SentResults
  <2> QED BY <1>5, <2>1, <2>3, <2>4, <2>5
<1>7. CASE RespRefused(q)
  <2>1. Publish(Outcome({m}, "failed", FALSE)) /\ UNCHANGED <<dst, step>>
        /\ live' = [live EXCEPT ![m] = @ - 1]
    BY <1>2, <1>7 DEF RespRefused, jobVars
  <2>2. \A r \in results' : r \in results \/ r = [m |-> m, st |-> "failed", id |-> FALSE]
    BY <2>1 DEF Publish, Outcome
  <2>3. StoredSame
    BY <1>1, <2>1 DEF StoredSame, Stored, SentIsLive, StoredBusy
  <2>4. \A x \in Msg : SentResults(x)' \subseteq SentResults(x)
    BY <2>2 DEF SentResults
  <2>5. \A x \in Msg : live'[x] = IF x = m THEN live[x] - 1 ELSE live[x]
    BY <2>1 DEF Typed, TypeOK
  <2> QED BY <1>5, <2>3, <2>4, <2>5
<1>8. ASSUME NEW e \in Delivery, RespThrottled(q, e) PROVE SentIsLive'
  <2>1. /\ Enqueue(e, {m}, [x \in Msg |-> seqMap[q].try + 1])
        /\ live' = [live EXCEPT ![m] = @ - 1] /\ results' = results
    BY <1>2, <1>8 DEF RespThrottled, outVars
  <2>2. StoredSame
    BY <1>1, <2>1, EnqueueSame
  <2>3. \A x \in Msg : SentResults(x)' \subseteq SentResults(x)
    BY <2>1 DEF SentResults
  <2>4. \A x \in Msg : live'[x] = IF x = m THEN live[x] - 1 ELSE live[x]
    BY <2>1 DEF Typed, TypeOK
  <2> QED BY <1>5, <2>2, <2>3, <2>4
<1> QED BY <1>6, <1>7, <1>8 DEF Respond

(* Time passes over an entry whose submission was made.                     *)
LEMMA AgeSent ==
  ASSUME Typed, SentIsLive, PromptSubmit, NEW q \in Seq, Age(q)
  PROVE  SentIsLive'
<1>1. UNCHANGED <<dst, step, key, results, row, sess, live>>
  BY DEF Age, dbVars, jobVars, bindVars, outVars
<1>2. seqMap[q] # NoEntry /\ ~Reserved(q)
  BY DEF Age, PromptSubmit
<1>3. \A p \in Seq : /\ p # q => seqMap'[p] = seqMap[p]
                     /\ seqMap'[p] # NoEntry => seqMap[p] # NoEntry /\ seqMap'[p].m = seqMap[p].m
  BY <1>2, SentinelAssumption DEF Age, Typed, TypeOK, Entry
<1>4. StoredSame
  BY <1>1 DEF StoredSame, Stored, SentIsLive, StoredBusy
<1>5. \A p \in Seq : Reserved(p)' <=> Reserved(p)
  BY <1>4, ReservedSame
<1>6. StoredBusy' /\ AgedIsMade' /\ NoCut'
  <2>1. StoredBusy' /\ NoCut'
    BY <1>1, <1>4 DEF StoredSame, SentIsLive, StoredBusy, NoCut
  <2>2. AgedIsMade'
    BY <1>2, <1>3, <1>5 DEF SentIsLive, AgedIsMade
  <2> QED BY <2>1, <2>2
<1>7. ASSUME NEW x \in Msg PROVE SentCounted(x)'
  <2>1. Submitted(x)' \subseteq Submitted(x)
    BY <1>3, <1>5 DEF Submitted, Waits
  <2>2. SentResults(x)' = SentResults(x) /\ SaysSent(x)' = SaysSent(x)
    BY <1>1 DEF SentResults, SaysSent
  <2>3. SaysSent(x) <= SaysSent(x)
    BY DEF SaysSent
  <2> QED BY <1>1, <2>1, <2>2, <2>3, CountFewer DEF SentIsLive
<1> QED BY <1>6, <1>7 DEF SentIsLive

(* The stale monitor reports what has waited too long as sent: each aged    *)
(* entry stands for a copy of its own, and one result takes the place of    *)
(* all the entries of a message.                                            *)
LEMMA StaleReapSent ==
  ASSUME Typed, SentIsLive, NEW s \in Session, StaleReap(s)
  PROVE  SentIsLive'
<1>1. /\ UNCHANGED <<dst, step, key, row, live>>
      /\ \A p \in Seq : seqMap'[p] = IF p \in StaleOf(s) THEN NoEntry ELSE seqMap[p]
  BY DEF StaleReap, dbVars, jobVars
<1>2. \A z \in Session : sess'[z] = sess[z] \/ sess'[z] = "doomed"
  BY DEF StaleReap, Typed, TypeOK
<1>3. \A r \in results' :
        r \in results \/ \E x \in Messages(StaleOf(s)) : r = [m |-> x, st |-> "sent", id |-> FALSE]
  BY DEF StaleReap, Publish, Outcome
<1>4. StoredSame
  BY <1>1 DEF StoredSame, Stored, SentIsLive, StoredBusy
<1>5. \A p \in Seq : Reserved(p)' <=> Reserved(p)
  BY <1>4, ReservedSame
<1>6. StoredBusy' /\ AgedIsMade' /\ NoCut'
  <2>1. StoredBusy'
    BY <1>4 DEF StoredSame, SentIsLive, StoredBusy
  <2>2. AgedIsMade'
    BY <1>1, <1>5 DEF SentIsLive, AgedIsMade
  <2>3. NoCut'
    BY <1>2 DEF SentIsLive, NoCut
  <2> QED BY <2>1, <2>2, <2>3
<1>7. ASSUME NEW x \in Msg PROVE SentCounted(x)'
  <2>1. Submitted(x)' \subseteq Submitted(x) \ StaleOf(s)
    BY <1>1, <1>5 DEF Submitted, Waits
  <2>2. SaysSent(x)' = SaysSent(x) /\ SaysSent(x) <= SaysSent(x) /\ live'[x] = live[x]
    BY <1>1 DEF SaysSent
  <2>3. CASE x \notin Messages(StaleOf(s))
    <3>1. SentResults(x)' \subseteq SentResults(x)
      BY <1>3, <2>3 DEF SentResults
    <3> QED BY <2>1, <2>2, <3>1, CountFewer DEF SentIsLive
  <2>4. CASE x \in Messages(StaleOf(s))
    <3>1. PICK q \in StaleOf(s) : seqMap[q].m = x
      BY <2>4 DEF Messages
    <3>2. q \in Submitted(x)
      BY <3>1 DEF Submitted, Waits, StaleOf, EntriesOf, Entries, SentIsLive, AgedIsMade
    <3>3. SentResults(x)' \subseteq SentResults(x) \cup {FALSE}
      BY <1>3 DEF SentResults
    <3>4. Submitted(x)' \subseteq Submitted(x) \ {q}
      BY <2>1, <3>1
    <3> QED BY <2>2, <3>2, <3>3, <3>4, CountAnswered DEF SentIsLive
  <2> QED BY <2>3, <2>4
<1> QED BY <1>6, <1>7 DEF SentIsLive

(* The sessions: none breaks.                                               *)
LEMMA SessionStepSent ==
  ASSUME Typed, Typed', SentIsLive, PromptSubmit, NEW s \in Session, SessionStep(s)
  PROVE  SentIsLive'
<1>1. ~Cut(s) /\ ~OnClosed(s)
  BY DEF Cut, Fault, OnClosed, PromptSubmit, SentIsLive, NoCut
<1>2. CASE Bind(s) \/ StaleClose(s) \/ WatchdogClose(s) \/ WatchdogSweep(s)
  <2>1. UNCHANGED <<dst, step, key, seqMap, results, row, live>>
    BY <1>2 DEF Bind, StaleClose, WatchdogClose, WatchdogSweep, dbVars, jobVars, outVars
  <2>2. \A z \in Session : sess'[z] = "cut" => sess[z] = "cut"
    BY <1>2 DEF Bind, StaleClose, WatchdogClose, WatchdogSweep, Typed, TypeOK
  <2>3. StoredSame /\ NoCut'
    BY <2>1, <2>2 DEF StoredSame, Stored, SentIsLive, StoredBusy, NoCut
  <2> QED BY <2>1, <2>3, SentUntouched
<1>3. CASE StaleReap(s)
  BY <1>3, StaleReapSent
<1> QED BY <1>1, <1>2, <1>3 DEF SessionStep

(* The broker connection, and the process: a crash forgets every entry and  *)
(* puts every payload back to the start.                                    *)
LEMMA BrokerSent ==
  ASSUME Typed, Typed', SentIsLive, LinkLoss \/ PubDies \/ LinkUp \/ Crash
  PROVE  SentIsLive'
<1>1. CASE LinkLoss \/ PubDies \/ LinkUp
  <2>1. UNCHANGED <<dst, step, key, seqMap, results, row, sess, live>>
    BY <1>1 DEF LinkLoss, PubDies, LinkUp, dbVars, jobVars, bindVars, outVars
  <2>2. StoredSame /\ NoCut'
    BY <2>1 DEF StoredSame, Stored, SentIsLive, StoredBusy, NoCut
  <2> QED BY <2>1, <2>2, SentUntouched
<1>2. CASE Crash
  <2>1. UNCHANGED <<results, row, live>>
    BY <1>2 DEF Crash, dbVars
  <2>2. /\ \A q \in Seq : seqMap'[q] = NoEntry
        /\ \A z \in Session : sess'[z] = "none"
        /\ \A d \in Delivery, x \in Msg : step'[d][x] \in {"absent", "todo"}
    BY <1>2 DEF Crash
  <2>3. StoredBusy' /\ AgedIsMade' /\ NoCut'
    BY <2>2 DEF StoredBusy, Stored, AgedIsMade, NoCut
  <2>4. ASSUME NEW x \in Msg PROVE SentCounted(x)'
    <3>1. Submitted(x)' \subseteq Submitted(x)
      BY <2>2 DEF Submitted, Waits
    <3>2. SentResults(x)' = SentResults(x) /\ SaysSent(x)' = SaysSent(x)
      BY <2>1 DEF SentResults, SaysSent
    <3>3. SaysSent(x) <= SaysSent(x)
      BY DEF SaysSent
    <3> QED BY <2>1, <3>1, <3>2, <3>3, CountFewer DEF SentIsLive
  <2> QED BY <2>3, <2>4 DEF SentIsLive
<1> QED BY <1>1, <1>2

(* The row takes a result: "sent" moves the copy from the result to the     *)
(* row, "failed" takes back what the row said.                              *)
LEMMA WriteResultSent ==
  ASSUME Typed, SentIsLive, NEW r \in results, WriteResult(r)
  PROVE  SentIsLive'
<1>1. PICK m \in Msg : m = r.m
  BY DEF Typed, TypeOK, Result
<1>2. UNCHANGED <<dst, step, key, seqMap, sess, live>> /\ results' = results \ {r}
  BY DEF WriteResult, jobVars, bindVars
<1>3. \A x \in Msg : row'[x] = IF x = m THEN r.st ELSE row[x]
  BY <1>1 DEF WriteResult, Typed, TypeOK
<1>4. StoredSame
  BY <1>2 DEF StoredSame, Stored, SentIsLive, StoredBusy
<1>5. \A p \in Seq : Reserved(p)' <=> Reserved(p)
  BY <1>4, ReservedSame
<1>6. StoredBusy' /\ AgedIsMade' /\ NoCut'
  BY <1>2, <1>4, <1>5 DEF StoredSame, StoredBusy, AgedIsMade, NoCut, SentIsLive
<1>7. ASSUME NEW x \in Msg PROVE SentCounted(x)'
  <2>1. Submitted(x)' \subseteq Submitted(x)
    BY <1>2, <1>5 DEF Submitted, Waits
  <2>2. SentResults(x)' \subseteq SentResults(x)
    BY <1>2 DEF SentResults
  <2>3. CASE x # m \/ r.st # "sent"
    <3>1. SaysSent(x)' <= SaysSent(x)
      BY <1>3, <2>3 DEF SaysSent
    <3> QED BY <1>2, <2>1, <2>2, <3>1, CountFewer DEF SentIsLive
  <2>4. CASE x = m /\ r.st = "sent"
    <3>1. r = [m |-> x, st |-> "sent", id |-> r.id] /\ r.id \in BOOLEAN
      BY <1>1, <2>4 DEF Typed, TypeOK, Result
    <3>2. r.id \in SentResults(x) /\ SentResults(x)' \subseteq SentResults(x) \ {r.id}
      BY <1>2, <3>1 DEF SentResults
    <3> QED BY <1>2, <2>1, <3>2, CountWritten DEF SentIsLive
  <2> QED BY <2>3, <2>4
<1> QED BY <1>6, <1>7 DEF SentIsLive

(* A delivery report takes a row from sent to its end.                      *)
LEMMA ReceiptSent ==
  ASSUME Typed, SentIsLive, NEW m \in Msg, NEW verdict \in {"delivered", "failed"},
         Receipt(m, verdict)
  PROVE  SentIsLive'
<1>1. UNCHANGED <<dst, step, key, seqMap, results, sess>> /\ row[m] = "sent"
  BY DEF Receipt, jobVars, bindVars, outVars
<1>2. /\ \A x \in Msg : row'[x] = IF x = m THEN verdict ELSE row[x]
      /\ \A x \in Msg : x # m => live'[x] = live[x]
      /\ live'[m] \in {live[m], live[m] - 1}
  BY DEF Receipt, Typed, TypeOK
<1>3. StoredSame
  BY <1>1 DEF StoredSame, Stored, SentIsLive, StoredBusy
<1>4. \A p \in Seq : Reserved(p)' <=> Reserved(p)
  BY <1>3, ReservedSame
<1>5. StoredBusy' /\ AgedIsMade' /\ NoCut'
  BY <1>1, <1>3, <1>4 DEF StoredSame, StoredBusy, AgedIsMade, NoCut, SentIsLive
<1>6. ASSUME NEW x \in Msg PROVE SentCounted(x)'
  <2>1. Submitted(x)' \subseteq Submitted(x) /\ SentResults(x)' \subseteq SentResults(x)
    BY <1>1, <1>4 DEF Submitted, Waits, SentResults
  <2>2. CASE x # m
    <3>1. SaysSent(x)' <= SaysSent(x)
      BY <1>2, <2>2 DEF SaysSent
    <3> QED BY <1>2, <2>1, <2>2, <3>1, CountFewer DEF SentIsLive
  <2>3. CASE x = m
    BY <1>1, <1>2, <2>1, <2>3, CountConcluded DEF SentIsLive
  <2> QED BY <2>2, <2>3
<1> QED BY <1>5, <1>6 DEF SentIsLive

(* Tasks, the inspector and the administrator: what they enqueue is a       *)
(* delivery of its own, and none of them says sent.                         *)
LEMMA OperationsSent ==
  ASSUME Typed, Typed', SentIsLive, Python,
         \A r \in results : ~WriteResult(r),
         \A m \in Msg, verdict \in {"delivered", "failed"} : ~Receipt(m, verdict)
  PROVE  SentIsLive'
<1>1. UNCHANGED <<key, seqMap, results, sess, live>>
  BY DEF Python, SendTask, SendTaskFails, SendTaskSkips, Redispatch, Expire, Cancel,
     RequeueQueued, RetryFailed, jobVars, bindVars, outVars
<1>2. StoredSame
  <2>1. ASSUME NEW m \in Msg, NEW e \in Delivery, SendTask(m, e) PROVE StoredSame
    BY <1>1, <2>1, EnqueueSame DEF SendTask
  <2>2. ASSUME NEW M \in SUBSET Msg, NEW e \in Delivery, Redispatch(M, e) PROVE StoredSame
    BY <1>1, <2>2, EnqueueSame DEF Redispatch
  <2>3. ASSUME UNCHANGED <<dst, step>> PROVE StoredSame
    BY <1>1, <2>3 DEF StoredSame, Stored, SentIsLive, StoredBusy
  <2> QED BY <2>1, <2>2, <2>3 DEF Python, SendTaskFails, SendTaskSkips, Expire, Cancel,
     RequeueQueued, RetryFailed, jobVars
<1>3. ASSUME NEW x \in Msg, row'[x] = "sent" PROVE row[x] = "sent"
  <2>1. ASSUME NEW m \in Msg, NEW st, st # "sent", row' = [row EXCEPT ![m] = st]
        PROVE  row[x] = "sent"
    BY <1>3, <2>1 DEF Typed, TypeOK
  <2>2. ASSUME NEW m \in Msg, NEW e \in Delivery, SendTask(m, e) PROVE row[x] = "sent"
    BY <2>1, <2>2 DEF SendTask
  <2>3. ASSUME NEW m \in Msg, SendTaskFails(m) PROVE row[x] = "sent"
    BY <2>1, <2>3 DEF SendTaskFails
  <2>4. CASE Expire
    BY <1>3, <2>4 DEF Expire
  <2>5. ASSUME NEW M \in SUBSET Msg, RetryFailed(M) PROVE row[x] = "sent"
    BY <1>3, <2>5 DEF RetryFailed
  <2>6. CASE row' = row
    BY <1>3, <2>6
  <2> QED BY <2>2, <2>3, <2>4, <2>5, <2>6 DEF Python, SendTaskSkips, Redispatch, Cancel,
     RequeueQueued, dbVars
<1> QED BY <1>1, <1>2, <1>3, SentUntouched DEF SentIsLive, NoCut

(* The Python side.                                                         *)
LEMMA PythonSent ==
  ASSUME Typed, Typed', SentIsLive, Python
  PROVE  SentIsLive'
BY WriteResultSent, ReceiptSent, OperationsSent

(* In the dispatched batch nothing is said of any message.                  *)
LEMMA InitSent ==
  ASSUME Init
  PROVE  SentIsLive
<1>1. /\ \A q \in Seq : seqMap[q] = NoEntry
      /\ \A s \in Session : sess[s] = "none"
      /\ results = {} /\ \A m \in Msg : row[m] = "pending" /\ live[m] = 0
  BY DEF Init
<1>2. \A d \in Delivery, x \in Msg : step[d][x] # "stored"
  BY DEF Init
<1>3. StoredBusy /\ AgedIsMade /\ NoCut
  BY <1>1, <1>2 DEF StoredBusy, Stored, AgedIsMade, NoCut
<1>4. ASSUME NEW m \in Msg PROVE SentCounted(m)
  <2>1. Submitted(m) = {} /\ SentResults(m) = {} /\ SaysSent(m) = 0 /\ live[m] = 0
    BY <1>1 DEF Submitted, Waits, SentResults, SaysSent
  <2>2. Cardinality({}) = 0
    BY FS_EmptySet
  <2> QED BY <2>1, <2>2 DEF SentCounted
<1> QED BY <1>3, <1>4 DEF SentIsLive

(* Every step keeps the count.                                              *)
LEMMA SentStep ==
  ASSUME Typed, KeyOwned, SentIsLive, PromptSubmit, [Next]_vars
  PROVE  SentIsLive'
<1>1. Typed'
  BY TypedStep
<1>2. CASE Next
  BY <1>1, <1>2, ConsumeSent, DeliverSent, RespondSent, AgeSent, SessionStepSent, BrokerSent,
     PythonSent DEF Next
<1>3. CASE UNCHANGED vars
  <2>1. UNCHANGED <<dst, step, key, seqMap, results, row, sess, live>>
    BY <1>3 DEF vars, dbVars, jobVars, bindVars, outVars
  <2>2. StoredSame /\ NoCut'
    BY <2>1 DEF StoredSame, Stored, SentIsLive, StoredBusy, NoCut
  <2> QED BY <1>1, <2>1, <2>2, SentUntouched
<1> QED BY <1>2, <1>3

(* SentWasSubmitted, whatever crashes, breaks off, is enqueued a second     *)
(* time or retried, as long as no submission is reported before it is made: *)
(* the stale monitor and OnPDU find only entries whose submission was made, *)
(* and each "sent" they publish takes the place of an entry                 *)
(* (connector.go:997).                                                      *)
THEOREM SentCorrect ==
  ASSUME PromptSubmit
  PROVE  Spec => []SentWasSubmitted
<1>1. Init => Typed /\ Accounted /\ SentIsLive
  BY InitHolds, InitSent
<1>2. Typed /\ Accounted /\ SentIsLive /\ [Next]_vars => (Typed /\ Accounted /\ SentIsLive)'
  BY TypedStep, AccountedStep, SentStep DEF Accounted
<1>3. Typed /\ Accounted /\ SentIsLive => SentWasSubmitted
  <2> SUFFICES ASSUME Typed, SentIsLive, NEW m \in Msg, row[m] = "sent"
               PROVE  live[m] >= 1
    BY DEF SentWasSubmitted
  <2> DEFINE A == Submitted(m)  B == SentResults(m)
  <2>1. A \in SUBSET Seq /\ B \in SUBSET BOOLEAN
    BY DEF Submitted, SentResults
  <2>2. Cardinality(A) \in Nat /\ Cardinality(B) \in Nat /\ SaysSent(m) = 1 /\ live[m] \in Int
    BY <2>1, Finite DEF SaysSent, Typed, TypeOK
  <2>3. Cardinality(A) + Cardinality(B) + SaysSent(m) <= live[m]
    BY DEF SentIsLive, SentCounted
  <2> HIDE DEF A, B
  <2> QED BY <2>2, <2>3
<1> QED BY <1>1, <1>2, <1>3, PTL DEF Spec

-----------------------------------------------------------------------------
(* One place for a message *)

(* Nothing makes a second copy, and nothing takes a submission for one that *)
(* was made before it is.                                                   *)
NothingTwice == NoSecondCopy /\ PromptSubmit

Undecided(m) == row[m] \in OpenStatus \cup {"expired"}

(* A message is in one place: with one delivery, in one entry, or in one    *)
(* result ...                                                               *)
OneResult(m) == \A r, s \in results : r.m = m /\ s.m = m => r = s
(* ... a payload that is stored has its entry, which does not age ...       *)
EntryOfStored(m) ==
  \A d \in Delivery : Stored(d, m) =>
    key[d][m] \in Seq /\ Waits(key[d][m], m) /\ ~seqMap[key[d][m]].aged
(* ... one that a delivery has is not with the upstream ...                 *)
HandOnly(m) ==
  \A d \in Delivery : InHand(d, m) =>
    /\ live[m] = 0 /\ ~Reported(m) /\ Undecided(m)
    /\ \A q \in Seq : Waits(q, m) => Stored(d, m) /\ key[d][m] = q
(* ... one that waits for its response is, as soon as it is submitted ...   *)
EntryOnly(m) ==
  \A q \in Seq : Waits(q, m) =>
    /\ ~Reported(m) /\ Undecided(m)
    /\ live[m] = 1 \/ \E d \in Delivery : Stored(d, m) /\ key[d][m] = q
(* ... and a result says whether it is.                                     *)
ResultOnly(m) ==
  \A r \in results : r.m = m =>
    /\ Undecided(m) /\ live[m] = IF r.st = "sent" THEN 1 ELSE 0
    /\ r.st = "failed" => ~r.id
(* So does the row, once it is decided.                                     *)
RowSays(m) ==
  /\ live[m] \in {0, 1} /\ (row[m] = "sent" => live[m] = 1) /\ (row[m] = "failed" => live[m] = 0)
  /\ traced[m] => ~Undecided(m)

InOnePlace(m) ==
  /\ OneHand(m) /\ OneEntry(m) /\ OneResult(m) /\ EntryOfStored(m)
  /\ HandOnly(m) /\ EntryOnly(m) /\ ResultOnly(m) /\ RowSays(m)

(* What the faults and operations that do not happen would change.          *)
Calm == Steady /\ \A s \in Session : sess[s] # "cut"

SingleCopies == Calm /\ Places /\ \A m \in Msg : InOnePlace(m)

(* What a step does to the places of a message: the deliveries that have it *)
(* are among those that had it, or have taken it over, nothing new waits    *)
(* for its response or is reported, and what is stored stays so.            *)
HandsFewer(x) == \A d \in Delivery : InHand(d, x)' => InHand(d, x)
StoredKept(x) ==
  \A d \in Delivery : /\ Stored(d, x)' <=> Stored(d, x)
                      /\ Stored(d, x) => /\ InHand(d, x)' /\ key'[d][x] = key[d][x]
                                         /\ Waits(key[d][x], x)' /\ ~seqMap'[key[d][x]].aged
ReportsFewer(x) == \A r \in results' : r.m = x => r \in results
RowKept(x) == /\ row'[x] = row[x] \/ (Undecided(x) /\ Undecided(x)')
              /\ traced'[x] = traced[x] /\ live'[x] = live[x]

(* Such a step leaves the message in one place.                             *)
LEMMA PlacesKept ==
  ASSUME NEW x \in Msg, InOnePlace(x), OneHand(x)',
         (\E d \in Delivery : InHand(d, x)') => \E d \in Delivery : InHand(d, x),
         StoredKept(x), WaitsFewer(x), ReportsFewer(x), RowKept(x)
  PROVE  InOnePlace(x)'
<1> USE DEF InOnePlace
<1>1. OneEntry(x)' /\ OneResult(x)'
  BY DEF OneEntry, OneResult, WaitsFewer, ReportsFewer
<1>2. EntryOfStored(x)'
  BY DEF EntryOfStored, StoredKept
<1>3. Undecided(x) => Undecided(x)'
  BY DEF RowKept, Undecided
<1>4. Reported(x)' => Reported(x)
  BY DEF Reported, ReportsFewer
<1>5. HandOnly(x)'
  <2>1. SUFFICES ASSUME NEW d \in Delivery, InHand(d, x)'
                 PROVE  /\ live'[x] = 0 /\ ~Reported(x)' /\ Undecided(x)'
                        /\ \A q \in Seq : Waits(q, x)' => Stored(d, x)' /\ key'[d][x] = q
    BY DEF HandOnly
  <2>2. PICK e \in Delivery : InHand(e, x)
    BY <2>1
  <2>3. live'[x] = 0 /\ ~Reported(x)' /\ Undecided(x)'
    BY <1>3, <1>4, <2>2 DEF HandOnly, RowKept
  <2>4. ASSUME NEW q \in Seq, Waits(q, x)'
        PROVE  Stored(d, x)' /\ key'[d][x] = q
    <3>1. Stored(e, x) /\ key[e][x] = q
      BY <2>2, <2>4 DEF HandOnly, WaitsFewer
    <3>2. Stored(e, x)' /\ key'[e][x] = q /\ InHand(e, x)'
      BY <3>1 DEF StoredKept
    <3>3. e = d
      BY <2>1, <3>2 DEF OneHand
    <3> QED BY <3>2, <3>3
  <2> QED BY <2>3, <2>4
<1>6. EntryOnly(x)'
  BY <1>3, <1>4 DEF EntryOnly, WaitsFewer, RowKept, StoredKept
<1>7. ResultOnly(x)'
  BY <1>3 DEF ResultOnly, ReportsFewer, RowKept
<1>8. RowSays(x)'
  BY <1>3 DEF RowSays, RowKept, Undecided, OpenStatus
<1> QED BY <1>1, <1>2, <1>5, <1>6, <1>7, <1>8

(* In particular when no delivery takes it over.                            *)
LEMMA PlacesFewer ==
  ASSUME NEW x \in Msg, InOnePlace(x),
         HandsFewer(x), StoredKept(x), WaitsFewer(x), ReportsFewer(x), RowKept(x)
  PROVE  InOnePlace(x)'
<1>1. OneHand(x)'
  BY DEF HandsFewer, InOnePlace, OneHand
<1>2. (\E d \in Delivery : InHand(d, x)') => \E d \in Delivery : InHand(d, x)
  BY DEF HandsFewer
<1> QED BY <1>1, <1>2, PlacesKept

(* A message of which the result is published is nowhere else.              *)
LEMMA ResultedPlace ==
  ASSUME NEW x \in Msg, InOnePlace(x), ~Reported(x), Undecided(x),
         NEW st \in {"sent", "failed"}, NEW id, st = "failed" => ~id,
         \A d \in Delivery : ~InHand(d, x)' /\ ~Stored(d, x)',
         \A q \in Seq : ~Waits(q, x)',
         \A r \in results' : r.m = x => r \in results \/ r = [m |-> x, st |-> st, id |-> id],
         live'[x] = IF st = "sent" THEN 1 ELSE 0,
         row'[x] = row[x], traced'[x] = traced[x]
  PROVE  InOnePlace(x)'
<1>1. \A r \in results' : r.m = x => r = [m |-> x, st |-> st, id |-> id]
  BY DEF Reported
<1>2. Undecided(x)' /\ ~traced'[x] /\ row'[x] \notin {"sent", "failed"}
  BY DEF Undecided, InOnePlace, RowSays, OpenStatus
<1>3. OneHand(x)' /\ OneEntry(x)' /\ EntryOfStored(x)' /\ HandOnly(x)' /\ EntryOnly(x)'
  BY DEF OneHand, OneEntry, EntryOfStored, HandOnly, EntryOnly
<1>4. OneResult(x)' /\ ResultOnly(x)'
  BY <1>1, <1>2 DEF OneResult, ResultOnly
<1>5. RowSays(x)'
  BY <1>2 DEF RowSays
<1> QED BY <1>3, <1>4, <1>5 DEF InOnePlace

(* A message that a delivery has and has not stored is nowhere else.        *)
LEMMA HandAlone ==
  ASSUME SingleCopies, Typed, NEW d \in Delivery, NEW m \in Msg, InHand(d, m), ~Stored(d, m)
  PROVE  /\ \A e \in Delivery : InHand(e, m) => e = d
         /\ \A e \in Delivery : ~Stored(e, m)
         /\ \A q \in Seq : ~Waits(q, m)
         /\ ~Reported(m) /\ Undecided(m) /\ live[m] = 0
<1>1. \A e \in Delivery : InHand(e, m) => e = d
  BY DEF SingleCopies, InOnePlace, OneHand
<1>2. \A e \in Delivery : Stored(e, m) => InHand(e, m)
  BY StoredInHand DEF SingleCopies
<1>3. HandOnly(m)
  BY DEF SingleCopies, InOnePlace
<1> QED BY <1>1, <1>2, <1>3 DEF HandOnly

(* What a delivery has that no step of its own concerns stays where it is.  *)
LEMMA OthersStay ==
  ASSUME Typed, Places, NEW x \in Msg, InOnePlace(x),
         \A d \in Delivery : /\ dst'[d] = dst[d] /\ step'[d][x] = step[d][x]
                             /\ Stored(d, x) => key'[d][x] = key[d][x],
         \A q \in Seq : Waits(q, x)' <=> Waits(q, x),
         \A q \in Seq : Waits(q, x) => seqMap'[q] = seqMap[q],
         ReportsFewer(x), RowKept(x)
  PROVE  InOnePlace(x)'
<1>1. HandsFewer(x)
  BY DEF HandsFewer, InHand
<1>2. WaitsFewer(x)
  BY DEF WaitsFewer
<1>3. StoredKept(x)
  <2>1. SUFFICES ASSUME NEW d \in Delivery
                 PROVE  /\ Stored(d, x)' <=> Stored(d, x)
                        /\ Stored(d, x) => /\ InHand(d, x)' /\ key'[d][x] = key[d][x]
                                           /\ Waits(key[d][x], x)'
                                           /\ ~seqMap'[key[d][x]].aged
    BY DEF StoredKept
  <2>2. Stored(d, x)' <=> Stored(d, x)
    BY DEF Stored
  <2>3. ASSUME Stored(d, x)
        PROVE  InHand(d, x)' /\ Waits(key[d][x], x)' /\ ~seqMap'[key[d][x]].aged
    <3>1. key[d][x] \in Seq /\ Waits(key[d][x], x) /\ ~seqMap[key[d][x]].aged
      BY <2>3 DEF InOnePlace, EntryOfStored
    <3>2. key'[d][x] = key[d][x] /\ InHand(d, x)'
      BY <2>3, StoredInHand DEF InHand
    <3> QED BY <3>1, <3>2 DEF Waits
  <2> QED BY <2>2, <2>3
<1> QED BY <1>1, <1>2, <1>3, PlacesFewer

(* A payload that moves on stays with its delivery, or is handled.          *)
LEMMA GlanceSingle ==
  ASSUME Typed, SingleCopies, NEW d \in Delivery, NEW m \in Msg, Glance(d, m)
  PROVE  SingleCopies'
<1>1. PICK p \in {"ok", "gated", "conn", "transient", "picked", "clear"} : Move(d, m, p)
  BY DEF Glance, SkipDone, PassGate, SeeConn, NoConnTimeout, Pick, WindowOpen, WindowFull
<1>2. dst[d] = "busy" /\ step[d][m] \in {"todo", "gated", "conn", "picked"}
  BY DEF Glance, SkipDone, PassGate, SeeConn, NoConnTimeout, Pick, WindowOpen, WindowFull,
     Working
<1>3. UNCHANGED <<dst, key, seqMap, results, row, traced, tasks, link, sess, live>>
  BY DEF Glance, SkipDone, PassGate, SeeConn, NoConnTimeout, Pick, WindowOpen, WindowFull,
     dbVars, bindVars, outVars, brokerVars
<1>4. \A e \in Delivery, x \in Msg : step'[e][x] = IF e = d /\ x = m THEN p ELSE step[e][x]
  BY <1>1, MoveView
<1>5. Calm' /\ Places'
  BY <1>2, <1>3, <1>4 DEF SingleCopies, Calm, Steady, Places
<1>6. ASSUME NEW x \in Msg PROVE InOnePlace(x)'
  <2>1. InOnePlace(x)
    BY DEF SingleCopies
  <2>2. WaitsFewer(x) /\ ReportsFewer(x) /\ RowKept(x)
    BY <1>3 DEF WaitsFewer, Waits, ReportsFewer, RowKept, Undecided
  <2>3. CASE x # m
    BY <1>3, <1>4, <2>1, <2>2, <2>3, OthersStay DEF Waits, SingleCopies
  <2>4. CASE x = m
    <3>1. HandsFewer(m)
      BY <1>2, <1>3, <1>4 DEF HandsFewer, InHand
    <3>2. \A e \in Delivery : ~Stored(e, m)
      BY <1>2, HandAlone DEF InHand, Stored, SingleCopies
    <3>3. StoredKept(m)
      BY <1>4, <3>2 DEF StoredKept, Stored
    <3> QED BY <2>1, <2>2, <2>4, <3>1, <3>3, PlacesFewer
  <2> QED BY <2>3, <2>4
<1> QED BY <1>5, <1>6 DEF SingleCopies

(* A payload that fails has its result on the way and is in no other place. *)
LEMMA GiveUpSingle ==
  ASSUME Typed, SingleCopies, NEW d \in Delivery, NEW m \in Msg, GiveUp(d, m)
  PROVE  SingleCopies'
<1>1. PICK p \in {"ok", "permanent"} : Move(d, m, p)
  BY DEF GiveUp, SkipCancelled, PoolDrained, LocalReject
<1>2. dst[d] = "busy" /\ step[d][m] \in {"todo", "conn", "clear"}
  BY DEF GiveUp, SkipCancelled, PoolDrained, LocalReject, Working
<1>3. UNCHANGED <<dst, key, seqMap, row, traced, tasks, link, sess, live>>
  BY DEF GiveUp, SkipCancelled, PoolDrained, LocalReject, dbVars, bindVars, brokerVars
<1>4. \A e \in Delivery, x \in Msg : step'[e][x] = IF e = d /\ x = m THEN p ELSE step[e][x]
  BY <1>1, MoveView
<1>5. \A r \in results' : r \in results \/ r = [m |-> m, st |-> "failed", id |-> FALSE]
  <2>1. Publish(Outcome({m}, "failed", FALSE))
    BY DEF GiveUp, SkipCancelled, PoolDrained, LocalReject
  <2> QED BY <2>1 DEF Publish, Outcome
<1>6. Calm' /\ Places'
  BY <1>2, <1>3, <1>4 DEF SingleCopies, Calm, Steady, Places
<1>7. ASSUME NEW x \in Msg, x # m PROVE InOnePlace(x)'
  <2>1. ReportsFewer(x) /\ RowKept(x)
    BY <1>3, <1>5, <1>7 DEF ReportsFewer, RowKept
  <2> QED BY <1>3, <1>4, <1>7, <2>1, OthersStay DEF Waits, SingleCopies
<1>8. InOnePlace(m)'
  <2>1. InHand(d, m) /\ ~Stored(d, m)
    BY <1>2 DEF InHand, Stored
  <2>2. /\ \A e \in Delivery : InHand(e, m) => e = d
        /\ \A e \in Delivery : ~Stored(e, m)
        /\ \A q \in Seq : ~Waits(q, m)
        /\ ~Reported(m) /\ Undecided(m) /\ live[m] = 0
    BY <2>1, HandAlone
  <2>3. \A e \in Delivery : ~InHand(e, m)' /\ ~Stored(e, m)'
    BY <1>3, <1>4, <2>2 DEF InHand, Stored
  <2>4. \A q \in Seq : ~Waits(q, m)'
    BY <1>3, <2>2 DEF Waits
  <2>5. InOnePlace(m)
    BY DEF SingleCopies
  <2> QED BY <1>3, <1>5, <2>2, <2>3, <2>4, <2>5, ResultedPlace
<1> QED BY <1>6, <1>7, <1>8 DEF SingleCopies

(* The entry is stored in a slot that nobody has, before the submission.    *)
LEMMA StoreSingle ==
  ASSUME Typed, SingleCopies, NEW d \in Delivery, NEW m \in Msg, NEW q \in Seq, Store(d, m, q)
  PROVE  SingleCopies'
<1>1. Move(d, m, "stored") /\ dst[d] = "busy" /\ step[d][m] = "clear"
  BY DEF Store, Working
<1>2. UNCHANGED <<dst, results, row, traced, tasks, link, sess, live>>
  BY DEF Store, dbVars, bindVars, outVars, brokerVars
<1>3. \A e \in Delivery, x \in Msg : step'[e][x] = IF e = d /\ x = m THEN "stored" ELSE step[e][x]
  BY <1>1, MoveView
<1>4. \A e \in Delivery, x \in Msg : key'[e][x] = IF e = d /\ x = m THEN q ELSE key[e][x]
  BY DEF Store, Typed, TypeOK
<1>5. /\ seqMap[q] = NoEntry
      /\ \A p \in Seq : p # q => seqMap'[p] = seqMap[p]
      /\ seqMap'[q] \in Entry /\ seqMap'[q].m = m /\ ~seqMap'[q].aged
  <2>1. seqMap' = [seqMap EXCEPT ![q] =
                  [m |-> m, try |-> try[d][m], s |-> on[d][m], aged |-> FALSE]]
    BY DEF Store
  <2>2. [m |-> m, try |-> try[d][m], s |-> on[d][m], aged |-> FALSE] \in Entry
    BY <1>1 DEF Typed, TypeOK, OnHeld, Entry
  <2> QED BY <2>1, <2>2 DEF Store, Typed, TypeOK
<1>6. /\ ~\E p \in Seq : p = q /\ \E x \in Msg : Waits(p, x)
      /\ \A p \in Seq, x \in Msg : Waits(p, x)' <=> Waits(p, x) \/ (p = q /\ x = m)
  BY <1>5, SentinelAssumption DEF Waits
<1>7. Calm' /\ Places'
  BY <1>1, <1>2, <1>3 DEF SingleCopies, Calm, Steady, Places
<1>8. ASSUME NEW x \in Msg, x # m PROVE InOnePlace(x)'
  <2>1. ReportsFewer(x) /\ RowKept(x)
    BY <1>2 DEF ReportsFewer, RowKept
  <2>2. \A p \in Seq : /\ Waits(p, x)' <=> Waits(p, x)
                       /\ Waits(p, x) => seqMap'[p] = seqMap[p]
    BY <1>5, <1>6, <1>8
  <2> QED BY <1>2, <1>3, <1>4, <1>8, <2>1, <2>2, OthersStay DEF SingleCopies
<1>9. InOnePlace(m)'
  <2>1. InHand(d, m) /\ ~Stored(d, m)
    BY <1>1 DEF InHand, Stored
  <2>2. /\ \A e \in Delivery : InHand(e, m) => e = d
        /\ \A e \in Delivery : ~Stored(e, m)
        /\ \A p \in Seq : ~Waits(p, m)
        /\ ~Reported(m) /\ Undecided(m) /\ live[m] = 0
    BY <2>1, HandAlone
  <2>3. \A e \in Delivery : /\ InHand(e, m)' => e = d
                            /\ Stored(e, m)' <=> e = d
    BY <1>2, <1>3, <2>2 DEF InHand, Stored
  <2>4. key'[d][m] = q /\ \A p \in Seq : Waits(p, m)' <=> p = q
    BY <1>4, <1>6, <2>2
  <2>5. ~Reported(m)' /\ Undecided(m)' /\ live'[m] = 0
    BY <1>2, <2>2 DEF Reported, Undecided
  <2>6. OneHand(m)' /\ OneEntry(m)' /\ EntryOfStored(m)' /\ HandOnly(m)' /\ EntryOnly(m)'
    BY <1>5, <2>3, <2>4, <2>5 DEF OneHand, OneEntry, EntryOfStored, HandOnly, EntryOnly
  <2>7. OneResult(m)' /\ ResultOnly(m)'
    BY <2>5 DEF OneResult, ResultOnly, Reported
  <2>8. RowSays(m)'
    BY <1>2, <2>2 DEF RowSays, SingleCopies, InOnePlace, Undecided
  <2> QED BY <2>6, <2>7, <2>8 DEF InOnePlace
<1> QED BY <1>7, <1>8, <1>9 DEF SingleCopies

(* Back with one delivery alone: a submission that the session did not      *)
(* take, or one that the upstream throttled.                                *)
LEMMA HandPlace ==
  ASSUME NEW x \in Msg, NEW d \in Delivery,
         \A e \in Delivery : (InHand(e, x)' => e = d) /\ ~Stored(e, x)',
         \A q \in Seq : ~Waits(q, x)',
         ~Reported(x)', Undecided(x)', live'[x] = 0, ~traced'[x]
  PROVE  InOnePlace(x)'
<1>1. OneHand(x)' /\ OneEntry(x)' /\ EntryOfStored(x)' /\ HandOnly(x)' /\ EntryOnly(x)'
  BY DEF OneHand, OneEntry, EntryOfStored, HandOnly, EntryOnly
<1>2. OneResult(x)' /\ ResultOnly(x)'
  BY DEF OneResult, ResultOnly, Reported
<1>3. RowSays(x)'
  BY DEF RowSays, Undecided, OpenStatus
<1> QED BY <1>1, <1>2, <1>3 DEF InOnePlace

(* What a message that a delivery has stored looks like.                    *)
LEMMA StoredAlone ==
  ASSUME SingleCopies, Typed, NEW d \in Delivery, NEW m \in Msg, Stored(d, m)
  PROVE  /\ \A e \in Delivery : InHand(e, m) \/ Stored(e, m) => e = d
         /\ key[d][m] \in Seq /\ Waits(key[d][m], m)
         /\ \A q \in Seq : Waits(q, m) => q = key[d][m]
         /\ ~Reported(m) /\ Undecided(m) /\ live[m] = 0 /\ ~traced[m]
<1>1. \A e \in Delivery : Stored(e, m) => InHand(e, m)
  BY StoredInHand DEF SingleCopies
<1>2. OneHand(m) /\ HandOnly(m) /\ EntryOfStored(m) /\ RowSays(m)
  BY DEF SingleCopies, InOnePlace
<1> QED BY <1>1, <1>2 DEF OneHand, HandOnly, EntryOfStored, RowSays

(* The upstream has the message now, and the entry waits for its response.  *)
LEMMA SubmitSingle ==
  ASSUME Typed, SingleCopies, NEW d \in Delivery, NEW m \in Msg, Submit(d, m)
  PROVE  SingleCopies'
<1>1. Move(d, m, "ok") /\ dst[d] = "busy" /\ Stored(d, m)
  BY DEF Submit, Working, Stored
<1>2. UNCHANGED <<dst, seqMap, results, row, traced, tasks, link, sess>>
  BY DEF Submit, dbVars, bindVars, outVars, brokerVars
<1>3. \A e \in Delivery, x \in Msg : step'[e][x] = IF e = d /\ x = m THEN "ok" ELSE step[e][x]
  BY <1>1, MoveView
<1>4. \A e \in Delivery, x \in Msg : key'[e][x] = IF e = d /\ x = m THEN NoSeq ELSE key[e][x]
  BY DEF Submit, Typed, TypeOK
<1>5. \A x \in Msg : live'[x] = IF x = m THEN live[x] + 1 ELSE live[x]
  BY DEF Submit, Typed, TypeOK
<1>6. Calm' /\ Places'
  BY <1>1, <1>2, <1>3 DEF SingleCopies, Calm, Steady, Places
<1>7. ASSUME NEW x \in Msg, x # m PROVE InOnePlace(x)'
  <2>1. ReportsFewer(x) /\ RowKept(x)
    BY <1>2, <1>5, <1>7 DEF ReportsFewer, RowKept
  <2> QED BY <1>2, <1>3, <1>4, <1>7, <2>1, OthersStay DEF Waits, SingleCopies
<1>8. InOnePlace(m)'
  <2>1. /\ \A e \in Delivery : InHand(e, m) \/ Stored(e, m) => e = d
        /\ \A q \in Seq : Waits(q, m) => q = key[d][m]
        /\ ~Reported(m) /\ Undecided(m) /\ live[m] = 0 /\ ~traced[m]
    BY <1>1, StoredAlone
  <2>2. \A e \in Delivery : ~InHand(e, m)' /\ ~Stored(e, m)'
    BY <1>2, <1>3, <2>1 DEF InHand, Stored
  <2>3. /\ \A q \in Seq : Waits(q, m)' => q = key[d][m]
        /\ live'[m] = 1 /\ ~Reported(m)' /\ Undecided(m)' /\ ~traced'[m]
    BY <1>2, <1>5, <2>1 DEF Waits, Reported, Undecided
  <2>4. OneHand(m)' /\ OneEntry(m)' /\ EntryOfStored(m)' /\ HandOnly(m)' /\ EntryOnly(m)'
    BY <2>2, <2>3 DEF OneHand, OneEntry, EntryOfStored, HandOnly, EntryOnly
  <2>5. OneResult(m)' /\ ResultOnly(m)'
    BY <2>3 DEF OneResult, ResultOnly, Reported
  <2>6. RowSays(m)'
    BY <2>3 DEF RowSays, Undecided, OpenStatus
  <2> QED BY <2>4, <2>5, <2>6 DEF InOnePlace
<1> QED BY <1>6, <1>7, <1>8 DEF SingleCopies

(* The session is closing: the entry goes, the delivery keeps the message.  *)
LEMMA SubmitClosingSingle ==
  ASSUME Typed, SingleCopies, NEW d \in Delivery, NEW m \in Msg, SubmitClosing(d, m)
  PROVE  SingleCopies'
<1>1. Move(d, m, "transient") /\ dst[d] = "busy" /\ Stored(d, m)
  BY DEF SubmitClosing, Working, Stored
<1>2. UNCHANGED <<dst, results, row, traced, tasks, link, sess, live>>
  BY DEF SubmitClosing, dbVars, bindVars, outVars, brokerVars
<1>3. \A e \in Delivery, x \in Msg :
        step'[e][x] = IF e = d /\ x = m THEN "transient" ELSE step[e][x]
  BY <1>1, MoveView
<1>4. \A e \in Delivery, x \in Msg : key'[e][x] = IF e = d /\ x = m THEN NoSeq ELSE key[e][x]
  BY DEF SubmitClosing, Typed, TypeOK
<1>5. /\ \A e \in Delivery : InHand(e, m) \/ Stored(e, m) => e = d
      /\ key[d][m] \in Seq /\ Waits(key[d][m], m)
      /\ \A q \in Seq : Waits(q, m) => q = key[d][m]
      /\ ~Reported(m) /\ Undecided(m) /\ live[m] = 0 /\ ~traced[m]
  BY <1>1, StoredAlone
<1>6. \A q \in Seq : seqMap'[q] = IF q = key[d][m] THEN NoEntry ELSE seqMap[q]
  BY DEF SubmitClosing, Typed, TypeOK
<1>7. Calm' /\ Places'
  BY <1>1, <1>2, <1>3 DEF SingleCopies, Calm, Steady, Places
<1>8. ASSUME NEW x \in Msg, x # m PROVE InOnePlace(x)'
  <2>1. ReportsFewer(x) /\ RowKept(x)
    BY <1>2 DEF ReportsFewer, RowKept
  <2>2. \A p \in Seq : /\ Waits(p, x)' <=> Waits(p, x)
                       /\ Waits(p, x) => seqMap'[p] = seqMap[p]
    BY <1>5, <1>6, <1>8 DEF Waits
  <2> QED BY <1>2, <1>3, <1>4, <1>8, <2>1, <2>2, OthersStay DEF SingleCopies
<1>9. InOnePlace(m)'
  <2>1. \A e \in Delivery : (InHand(e, m)' => e = d) /\ ~Stored(e, m)'
    BY <1>2, <1>3, <1>5 DEF InHand, Stored
  <2>2. \A q \in Seq : ~Waits(q, m)'
    BY <1>5, <1>6 DEF Waits
  <2>3. ~Reported(m)' /\ Undecided(m)' /\ live'[m] = 0 /\ ~traced'[m]
    BY <1>2, <1>5 DEF Reported, Undecided
  <2> QED BY <2>1, <2>2, <2>3, HandPlace
<1> QED BY <1>7, <1>8, <1>9 DEF SingleCopies

(* What a worker does with a payload.                                       *)
LEMMA ConsumeSingle ==
  ASSUME Typed, SingleCopies, NEW d \in Delivery, NEW m \in Msg, Consume(d, m)
  PROVE  SingleCopies'
<1>1. \/ Glance(d, m) \/ GiveUp(d, m) \/ Submit(d, m) \/ SubmitClosing(d, m)
      \/ \E q \in Seq : Store(d, m, q)
  BY DEF Consume, Glance, GiveUp
<1> QED BY <1>1, GlanceSingle, GiveUpSingle, StoreSingle, SubmitSingle, SubmitClosingSingle

(* The steps of a whole delivery.                                           *)
LEMMA DeliverSingle ==
  ASSUME Typed, SingleCopies, NEW d \in Delivery, Deliver(d)
  PROVE  SingleCopies'
<1>1. Calm' /\ Places' /\ \A x \in Msg : HandsKept(x)
  BY DeliverHands, DeliverLeaves DEF SingleCopies, Calm, Steady
<1>2. ASSUME NEW x \in Msg PROVE InOnePlace(x)'
  <2>1. InOnePlace(x) /\ HandsKept(x)
    BY <1>1 DEF SingleCopies
  <2>2. WaitsFewer(x) /\ ReportsFewer(x) /\ RowKept(x)
    BY DeliverLeaves DEF WaitsFewer, Waits, ReportsFewer, RowKept
  <2>3. StoredKept(x)
    BY <2>1, DeliverLeaves DEF HandsKept, StoredKept, InOnePlace, EntryOfStored, Waits
  <2> QED BY <2>1, <2>2, <2>3, PlacesKept DEF HandsKept, InOnePlace
<1> QED BY <1>1, <1>2 DEF SingleCopies

(* What waits for a response that can come is with the upstream, and        *)
(* nowhere else.                                                            *)
LEMMA EntryAlone ==
  ASSUME SingleCopies, Typed, NEW q \in Seq, NEW m \in Msg, Waits(q, m), ~Reserved(q)
  PROVE  /\ \A d \in Delivery : ~InHand(d, m) /\ ~Stored(d, m)
         /\ \A p \in Seq : Waits(p, m) => p = q
         /\ ~Reported(m) /\ Undecided(m) /\ live[m] = 1 /\ ~traced[m]
<1>1. EntryOnly(m) /\ OneEntry(m) /\ HandOnly(m) /\ RowSays(m)
  BY DEF SingleCopies, InOnePlace
<1>2. \A d \in Delivery : Stored(d, m) => InHand(d, m)
  BY StoredInHand DEF SingleCopies
<1>3. ~\E d \in Delivery : Stored(d, m) /\ key[d][m] = q
  BY DEF Reserved, Stored
<1>4. ~Reported(m) /\ Undecided(m) /\ live[m] = 1 /\ ~traced[m]
  BY <1>1, <1>3 DEF EntryOnly, RowSays
<1>5. \A d \in Delivery : ~InHand(d, m)
  BY <1>1, <1>4 DEF HandOnly
<1> QED BY <1>1, <1>2, <1>4, <1>5 DEF OneEntry

(* Such a submission is answered; the answer is on its way to the row, or   *)
(* the message on its way back to the queue.                                *)
LEMMA RespondSingle ==
  ASSUME Typed, SingleCopies, NEW q \in Seq, Respond(q)
  PROVE  SingleCopies'
<1>1. Answerable(q)
  BY DEF Respond, RespOk, RespThrottled, RespRefused
<1>2. PICK m \in Msg : m = seqMap[q].m /\ Waits(q, m) /\ ~Reserved(q)
  BY <1>1, SentinelAssumption DEF Answerable, Waits, Typed, TypeOK, Entry
<1>3. /\ \A d \in Delivery : ~InHand(d, m) /\ ~Stored(d, m)
      /\ \A p \in Seq : Waits(p, m) => p = q
      /\ ~Reported(m) /\ Undecided(m) /\ live[m] = 1 /\ ~traced[m]
  BY <1>2, EntryAlone
<1>4. \A p \in Seq : seqMap'[p] = IF p = q THEN NoEntry ELSE seqMap[p]
  BY DEF Respond, RespOk, RespThrottled, RespRefused, Typed, TypeOK
<1>5. UNCHANGED <<key, row, traced, tasks, link, sess>>
  BY DEF Respond, RespOk, RespThrottled, RespRefused, dbVars, jobVars, bindVars, brokerVars
<1>6. \A p \in Seq : ~Waits(p, m)'
  BY <1>3, <1>4 DEF Waits
<1>7. \A x \in Msg : x # m => \A p \in Seq : /\ Waits(p, x)' <=> Waits(p, x)
                                             /\ Waits(p, x) => seqMap'[p] = seqMap[p]
  BY <1>2, <1>4 DEF Waits
<1>8. Calm' /\ \A x \in Msg : InOnePlace(x)
  BY <1>5 DEF SingleCopies, Calm, Steady
<1>9. ASSUME NEW st \in {"sent", "failed"}, NEW id, st = "failed" => ~id,
             Publish(Outcome({m}, st, id)), UNCHANGED <<dst, step>>,
             \A x \in Msg : live'[x] = IF x = m /\ st = "failed" THEN 0 ELSE live[x]
      PROVE  SingleCopies'
  <2>1. \A r \in results' : r \in results \/ r = [m |-> m, st |-> st, id |-> id]
    BY <1>9 DEF Publish, Outcome
  <2>2. Places'
    BY <1>9 DEF SingleCopies, Places
  <2>3. ASSUME NEW x \in Msg, x # m PROVE InOnePlace(x)'
    <3>1. ReportsFewer(x) /\ RowKept(x)
      BY <1>5, <1>9, <2>1, <2>3 DEF ReportsFewer, RowKept
    <3>2. \A d \in Delivery : /\ dst'[d] = dst[d] /\ step'[d][x] = step[d][x]
                              /\ Stored(d, x) => key'[d][x] = key[d][x]
      BY <1>5, <1>9
    <3>3. \A p \in Seq : /\ Waits(p, x)' <=> Waits(p, x)
                         /\ Waits(p, x) => seqMap'[p] = seqMap[p]
      BY <1>7, <2>3
    <3> QED BY <1>8, <3>1, <3>2, <3>3, OthersStay DEF SingleCopies
  <2>4. InOnePlace(m)'
    <3>1. \A d \in Delivery : ~InHand(d, m)' /\ ~Stored(d, m)'
      BY <1>3, <1>9 DEF InHand, Stored
    <3>2. live'[m] = IF st = "sent" THEN 1 ELSE 0
      BY <1>2, <1>3, <1>9
    <3>3. row'[m] = row[m] /\ traced'[m] = traced[m]
      BY <1>5
    <3>4. \A r \in results' : r.m = m => r \in results \/ r = [m |-> m, st |-> st, id |-> id]
      BY <2>1
    <3> QED BY <1>2, <1>3, <1>6, <1>8, <1>9, <3>1, <3>2, <3>3, <3>4, ResultedPlace
  <2> QED BY <1>8, <2>2, <2>3, <2>4 DEF SingleCopies
<1>10. CASE RespOk(q)
  <2>1. Publish(Outcome({m}, "sent", TRUE)) /\ UNCHANGED <<dst, step, live>>
    BY <1>2, <1>10 DEF RespOk, jobVars
  <2> QED BY <1>9, <2>1
<1>11. CASE RespRefused(q)
  <2>1. Publish(Outcome({m}, "failed", FALSE)) /\ UNCHANGED <<dst, step>>
    BY <1>2, <1>11 DEF RespRefused, jobVars
  <2>2. live' = [live EXCEPT ![m] = @ - 1]
    BY <1>2, <1>11 DEF RespRefused
  <2>3. \A x \in Msg : live'[x] = IF x = m THEN live[x] - 1 ELSE live[x]
    BY <2>2 DEF Typed, TypeOK
  <2>4. \A x \in Msg : live'[x] = IF x = m THEN 0 ELSE live[x]
    BY <1>3, <2>3
  <2> QED BY <1>9, <2>1, <2>4
<1>12. ASSUME NEW e \in Delivery, RespThrottled(q, e) PROVE SingleCopies'
  <2>1. /\ dst[e] = "none" /\ dst' = [dst EXCEPT ![e] = "ready"]
        /\ step' = [step EXCEPT ![e] = [x \in Msg |-> IF x \in {m} THEN "todo" ELSE "absent"]]
        /\ live' = [live EXCEPT ![m] = @ - 1]
        /\ results' = results
    BY <1>2, <1>12 DEF RespThrottled, Enqueue, outVars
  <2>2. /\ \A d \in Delivery : dst'[d] = IF d = e THEN "ready" ELSE dst[d]
        /\ \A d \in Delivery : d # e => step'[d] = step[d]
        /\ \A x \in Msg : step'[e][x] = IF x = m THEN "todo" ELSE "absent"
        /\ \A x \in Msg : live'[x] = IF x = m THEN live[x] - 1 ELSE live[x]
    BY <2>1 DEF Typed, TypeOK
  <2>3. Places /\ \A x \in Msg : step[e][x] = "absent"
    BY <2>1 DEF SingleCopies, Places
  <2>4. Places'
    BY <2>2, <2>3 DEF Places
  <2>5. ASSUME NEW x \in Msg, x # m PROVE InOnePlace(x)'
    <3>1. ReportsFewer(x) /\ RowKept(x) /\ WaitsFewer(x)
      BY <1>5, <1>7, <2>1, <2>2, <2>5 DEF ReportsFewer, RowKept, WaitsFewer
    <3>2. \A d \in Delivery : step'[d][x] = step[d][x]
      BY <2>2, <2>3, <2>5
    <3>3. HandsFewer(x)
      BY <2>2, <2>3, <2>5, <3>2 DEF HandsFewer, InHand
    <3>4. StoredKept(x)
      <4>1. \A d \in Delivery : Stored(d, x)' <=> Stored(d, x)
        BY <3>2 DEF Stored
      <4>2. ASSUME NEW d \in Delivery, Stored(d, x)
            PROVE  /\ InHand(d, x)' /\ key'[d][x] = key[d][x]
                   /\ Waits(key[d][x], x)' /\ ~seqMap'[key[d][x]].aged
        <5>1. InHand(d, x) /\ d # e
          BY <2>3, <4>2, StoredInHand DEF Stored
        <5>2. key[d][x] \in Seq /\ Waits(key[d][x], x) /\ ~seqMap[key[d][x]].aged
          BY <1>8, <4>2 DEF InOnePlace, EntryOfStored
        <5> QED BY <1>5, <1>7, <2>2, <2>5, <5>1, <5>2 DEF InHand
      <4> QED BY <4>1, <4>2 DEF StoredKept
    <3> QED BY <1>8, <3>1, <3>3, <3>4, PlacesFewer
  <2>6. InOnePlace(m)'
    <3>1. \A d \in Delivery : d # e => ~InHand(d, m)' /\ ~Stored(d, m)'
      BY <1>3, <2>2 DEF InHand, Stored
    <3>2. ~Stored(e, m)'
      BY <1>2, <2>2 DEF Stored
    <3>3. ~Reported(m)' /\ Undecided(m)' /\ live'[m] = 0 /\ ~traced'[m]
      BY <1>2, <1>3, <1>5, <2>1, <2>2 DEF Reported, Undecided
    <3> QED BY <1>2, <1>6, <3>1, <3>2, <3>3, HandPlace
  <2> QED BY <1>8, <2>4, <2>5, <2>6 DEF SingleCopies
<1> QED BY <1>10, <1>11, <1>12 DEF Respond

(* Time passes over an entry: not over one whose submission is not made,    *)
(* which does not take that long.                                           *)
LEMMA AgeSingle ==
  ASSUME Typed, SingleCopies, NothingTwice, NEW q \in Seq, Age(q)
  PROVE  SingleCopies'
<1>1. UNCHANGED <<dst, step, key, results, row, traced, live, tasks, link, sess>>
  BY DEF Age, dbVars, jobVars, bindVars, outVars, brokerVars
<1>2. ~Reserved(q) /\ seqMap[q] # NoEntry
  BY DEF Age, NothingTwice, PromptSubmit
<1>3. \A p \in Seq : /\ p # q => seqMap'[p] = seqMap[p]
                     /\ (seqMap'[p] # NoEntry <=> seqMap[p] # NoEntry)
                     /\ seqMap[p] # NoEntry => seqMap'[p].m = seqMap[p].m
  BY <1>2, SentinelAssumption DEF Age, Typed, TypeOK, Entry
<1>4. Calm' /\ Places' /\ \A x \in Msg : InOnePlace(x)
  BY <1>1 DEF SingleCopies, Calm, Steady, Places
<1>5. ASSUME NEW x \in Msg PROVE InOnePlace(x)'
  <2>1. HandsFewer(x) /\ ReportsFewer(x) /\ RowKept(x)
    BY <1>1 DEF HandsFewer, InHand, ReportsFewer, RowKept
  <2>2. \A p \in Seq : Waits(p, x)' <=> Waits(p, x)
    BY <1>3 DEF Waits
  <2>3. WaitsFewer(x)
    BY <2>2 DEF WaitsFewer
  <2>4. StoredKept(x)
    <3>1. \A d \in Delivery : Stored(d, x)' <=> Stored(d, x)
      BY <1>1 DEF Stored
    <3>2. ASSUME NEW d \in Delivery, Stored(d, x)
          PROVE  /\ InHand(d, x)' /\ key'[d][x] = key[d][x]
                 /\ Waits(key[d][x], x)' /\ ~seqMap'[key[d][x]].aged
      <4>1. InHand(d, x) /\ key[d][x] # q
        BY <1>2, <3>2, StoredInHand DEF SingleCopies, Reserved, Stored
      <4>2. key[d][x] \in Seq /\ Waits(key[d][x], x) /\ ~seqMap[key[d][x]].aged
        BY <1>4, <3>2 DEF InOnePlace, EntryOfStored
      <4> QED BY <1>1, <1>3, <2>2, <4>1, <4>2 DEF InHand
    <3> QED BY <3>1, <3>2 DEF StoredKept
  <2> QED BY <1>4, <2>1, <2>3, <2>4, PlacesFewer
<1> QED BY <1>4, <1>5 DEF SingleCopies

(* A step that moves no message.                                            *)
LEMMA SingleUntouched ==
  ASSUME SingleCopies,
         UNCHANGED <<dst, step, key, seqMap, results, row, traced, live, tasks, link>>,
         \A s \in Session : sess'[s] = "cut" => sess[s] = "cut"
  PROVE  SingleCopies'
<1>1. Calm' /\ Places'
  BY DEF SingleCopies, Calm, Steady, Places
<1>2. \A m \in Msg : InOnePlace(m)'
  BY DEF SingleCopies, InOnePlace, OneHand, OneEntry, OneResult, EntryOfStored, HandOnly,
     EntryOnly, ResultOnly, RowSays, InHand, Waits, Stored, Reported, Undecided
<1> QED BY <1>1, <1>2 DEF SingleCopies

(* The stale monitor reports what has waited too long, which is with the    *)
(* upstream.                                                                *)
LEMMA StaleReapSingle ==
  ASSUME Typed, SingleCopies, NEW s \in Session, StaleReap(s)
  PROVE  SingleCopies'
<1>1. /\ UNCHANGED <<dst, step, key, row, traced, live, tasks, link>>
      /\ \A p \in Seq : seqMap'[p] = IF p \in StaleOf(s) THEN NoEntry ELSE seqMap[p]
  BY DEF StaleReap, dbVars, jobVars, brokerVars
<1>2. Places' /\ \A x \in Msg : InOnePlace(x)
  BY <1>1 DEF SingleCopies, Places
<1>3. \A z \in Session : sess'[z] = sess[z] \/ sess'[z] = "doomed"
  BY DEF StaleReap, Typed, TypeOK
<1>4. Calm'
  BY <1>1, <1>3 DEF SingleCopies, Calm, Steady
<1>5. \A r \in results' :
        r \in results \/ \E x \in Messages(StaleOf(s)) : r = [m |-> x, st |-> "sent", id |-> FALSE]
  BY DEF StaleReap, Publish, Outcome
<1>6. \A p \in StaleOf(s) : p \in Seq /\ seqMap[p] # NoEntry /\ seqMap[p].aged /\ ~Reserved(p)
  <2> SUFFICES ASSUME NEW p \in StaleOf(s), Reserved(p)
               PROVE  FALSE
    BY DEF StaleOf, EntriesOf, Entries
  <2>1. PICK d \in Delivery, x \in Msg : Stored(d, x) /\ key[d][x] = p
    BY DEF Reserved, Stored
  <2> QED BY <1>2, <2>1 DEF InOnePlace, EntryOfStored, StaleOf
<1>7. ASSUME NEW x \in Msg, x \notin Messages(StaleOf(s)) PROVE InOnePlace(x)'
  <2>1. ReportsFewer(x) /\ RowKept(x)
    BY <1>1, <1>5, <1>7 DEF ReportsFewer, RowKept
  <2>2. \A p \in Seq : Waits(p, x) => p \notin StaleOf(s)
    BY <1>7 DEF Waits, Messages
  <2>3. \A p \in Seq : /\ Waits(p, x)' <=> Waits(p, x)
                       /\ Waits(p, x) => seqMap'[p] = seqMap[p]
    BY <1>1, <2>2 DEF Waits
  <2> QED BY <1>1, <1>2, <2>1, <2>3, OthersStay DEF SingleCopies
<1>8. ASSUME NEW x \in Msg, x \in Messages(StaleOf(s)) PROVE InOnePlace(x)'
  <2>1. PICK q \in StaleOf(s) : seqMap[q].m = x
    BY <1>8 DEF Messages
  <2>2. q \in Seq /\ Waits(q, x) /\ ~Reserved(q)
    BY <1>6, <2>1 DEF Waits
  <2>3. /\ \A d \in Delivery : ~InHand(d, x) /\ ~Stored(d, x)
        /\ \A p \in Seq : Waits(p, x) => p = q
        /\ ~Reported(x) /\ Undecided(x) /\ live[x] = 1
    BY <2>2, EntryAlone
  <2>4. \A p \in Seq : ~Waits(p, x)'
    BY <1>1, <2>3 DEF Waits
  <2>5. \A d \in Delivery : ~InHand(d, x)' /\ ~Stored(d, x)'
    BY <1>1, <2>3 DEF InHand, Stored
  <2>6. \A r \in results' : r.m = x => r \in results \/ r = [m |-> x, st |-> "sent", id |-> FALSE]
    BY <1>5
  <2>7. live'[x] = 1 /\ row'[x] = row[x] /\ traced'[x] = traced[x]
    BY <1>1, <2>3
  <2> QED BY <1>2, <2>3, <2>4, <2>5, <2>6, <2>7, ResultedPlace
<1> QED BY <1>2, <1>4, <1>7, <1>8 DEF SingleCopies

(* The sessions.                                                            *)
LEMMA SessionStepSingle ==
  ASSUME Typed, SingleCopies, NothingTwice, NEW s \in Session, SessionStep(s)
  PROVE  SingleCopies'
<1>1. ~Cut(s) /\ ~OnClosed(s)
  BY DEF Cut, Fault, OnClosed, NothingTwice, PromptSubmit, SingleCopies, Calm
<1>2. CASE Bind(s) \/ StaleClose(s) \/ WatchdogClose(s) \/ WatchdogSweep(s)
  <2>1. UNCHANGED <<dst, step, key, seqMap, results, row, traced, live, tasks, link>>
    BY <1>2 DEF Bind, StaleClose, WatchdogClose, WatchdogSweep, dbVars, jobVars, outVars,
       brokerVars
  <2>2. \A z \in Session : sess'[z] = "cut" => sess[z] = "cut"
    BY <1>2 DEF Bind, StaleClose, WatchdogClose, WatchdogSweep, Typed, TypeOK
  <2> QED BY <2>1, <2>2, SingleUntouched
<1>3. CASE StaleReap(s)
  BY <1>3, StaleReapSingle
<1> QED BY <1>1, <1>2, <1>3 DEF SessionStep

(* The broker stays, with or without the publish channel.                   *)
LEMMA BrokerSingle ==
  ASSUME SingleCopies, NothingTwice, LinkLoss \/ PubDies \/ LinkUp \/ Crash
  PROVE  SingleCopies'
<1>1. PubDies
  BY DEF LinkLoss, LinkUp, Crash, Fault, NothingTwice, NoSecondCopy, SingleCopies, Calm, Steady
<1> QED BY <1>1, SingleUntouched DEF PubDies, dbVars, jobVars, bindVars, outVars

(* The row takes the result, and the message is nowhere else.               *)
LEMMA WriteResultSingle ==
  ASSUME Typed, SingleCopies, NEW r \in results, WriteResult(r)
  PROVE  SingleCopies'
<1>1. PICK m \in Msg : m = r.m
  BY DEF Typed, TypeOK, Result
<1>2. UNCHANGED <<dst, step, key, seqMap, live, tasks, link, sess>> /\ results' = results \ {r}
  BY DEF WriteResult, jobVars, bindVars, brokerVars
<1>3. \A x \in Msg : /\ row'[x] = IF x = m THEN r.st ELSE row[x]
                     /\ traced'[x] = IF x = m THEN r.id ELSE traced[x]
  BY <1>1 DEF WriteResult, Typed, TypeOK
<1>4. Calm' /\ Places' /\ \A x \in Msg : InOnePlace(x)
  BY <1>2 DEF SingleCopies, Calm, Steady, Places
<1>5. ASSUME NEW x \in Msg, x # m PROVE InOnePlace(x)'
  <2>1. ReportsFewer(x) /\ RowKept(x)
    BY <1>2, <1>3, <1>5 DEF ReportsFewer, RowKept
  <2> QED BY <1>2, <1>4, <2>1, OthersStay DEF Waits, SingleCopies
<1>6. InOnePlace(m)'
  <2>1. Reported(m) /\ live[m] = (IF r.st = "sent" THEN 1 ELSE 0) /\ r.st \in {"sent", "failed"}
    BY <1>1, <1>4 DEF Reported, InOnePlace, ResultOnly, Typed, TypeOK, Result
  <2>2. /\ \A d \in Delivery : ~InHand(d, m) /\ ~Stored(d, m)
        /\ \A q \in Seq : ~Waits(q, m)
        /\ \A z \in results : z.m = m => z = r
    <3>1. OneResult(m) /\ HandOnly(m) /\ EntryOnly(m)
      BY <1>4 DEF InOnePlace
    <3>2. \A d \in Delivery : Stored(d, m) => InHand(d, m)
      BY StoredInHand DEF SingleCopies
    <3> QED BY <1>1, <2>1, <3>1, <3>2 DEF OneResult, HandOnly, EntryOnly
  <2>3. /\ \A d \in Delivery : ~InHand(d, m)' /\ ~Stored(d, m)'
        /\ \A q \in Seq : ~Waits(q, m)'
        /\ \A z \in results' : z.m # m
    BY <1>2, <2>2 DEF InHand, Stored, Waits
  <2>4. OneHand(m)' /\ OneEntry(m)' /\ EntryOfStored(m)' /\ HandOnly(m)' /\ EntryOnly(m)'
    BY <2>3 DEF OneHand, OneEntry, EntryOfStored, HandOnly, EntryOnly
  <2>5. OneResult(m)' /\ ResultOnly(m)'
    BY <2>3 DEF OneResult, ResultOnly
  <2>6. RowSays(m)'
    BY <1>2, <1>3, <2>1 DEF RowSays, Undecided, OpenStatus
  <2> QED BY <2>4, <2>5, <2>6 DEF InOnePlace
<1> QED BY <1>4, <1>5, <1>6 DEF SingleCopies

(* A delivery report finds a row that says sent, so the message is nowhere  *)
(* else.                                                                    *)
LEMMA ReceiptSingle ==
  ASSUME Typed, SingleCopies, NEW m \in Msg, NEW verdict \in {"delivered", "failed"},
         Receipt(m, verdict)
  PROVE  SingleCopies'
<1>1. UNCHANGED <<dst, step, key, seqMap, results, traced, tasks, link, sess>>
  BY DEF Receipt, jobVars, bindVars, outVars, brokerVars
<1>2. /\ row[m] = "sent" /\ traced[m]
      /\ \A x \in Msg : row'[x] = IF x = m THEN verdict ELSE row[x]
      /\ \A x \in Msg : live'[x] = IF x = m /\ verdict = "failed" THEN live[x] - 1 ELSE live[x]
  BY DEF Receipt, Typed, TypeOK
<1>3. Calm' /\ Places' /\ \A x \in Msg : InOnePlace(x)
  BY <1>1 DEF SingleCopies, Calm, Steady, Places
<1>4. ASSUME NEW x \in Msg, x # m PROVE InOnePlace(x)'
  <2>1. ReportsFewer(x) /\ RowKept(x)
    BY <1>1, <1>2, <1>4 DEF ReportsFewer, RowKept
  <2> QED BY <1>1, <1>3, <2>1, OthersStay DEF Waits, SingleCopies
<1>5. InOnePlace(m)'
  <2>1. ~Undecided(m) /\ live[m] = 1
    BY <1>2, <1>3 DEF Undecided, OpenStatus, InOnePlace, RowSays
  <2>2. /\ \A d \in Delivery : ~InHand(d, m) /\ ~Stored(d, m)
        /\ \A q \in Seq : ~Waits(q, m)
        /\ \A z \in results : z.m # m
    <3>1. HandOnly(m) /\ EntryOnly(m) /\ ResultOnly(m)
      BY <1>3 DEF InOnePlace
    <3>2. \A d \in Delivery : Stored(d, m) => InHand(d, m)
      BY StoredInHand DEF SingleCopies
    <3> QED BY <2>1, <3>1, <3>2 DEF HandOnly, EntryOnly, ResultOnly
  <2>3. /\ \A d \in Delivery : ~InHand(d, m)' /\ ~Stored(d, m)'
        /\ \A q \in Seq : ~Waits(q, m)'
        /\ \A z \in results' : z.m # m
    BY <1>1, <2>2 DEF InHand, Stored, Waits
  <2>4. OneHand(m)' /\ OneEntry(m)' /\ EntryOfStored(m)' /\ HandOnly(m)' /\ EntryOnly(m)'
    BY <2>3 DEF OneHand, OneEntry, EntryOfStored, HandOnly, EntryOnly
  <2>5. OneResult(m)' /\ ResultOnly(m)'
    BY <2>3 DEF OneResult, ResultOnly
  <2>6. RowSays(m)'
    BY <1>2, <2>1 DEF RowSays, Undecided, OpenStatus
  <2> QED BY <2>4, <2>5, <2>6 DEF InOnePlace
<1> QED BY <1>3, <1>4, <1>5 DEF SingleCopies

(* The Python side.                                                         *)
LEMMA PythonSingle ==
  ASSUME Typed, SingleCopies, NothingTwice, Python
  PROVE  SingleCopies'
<1>1. CASE Expire
  <2>1. UNCHANGED <<dst, step, key, seqMap, results, traced, live, tasks, link, sess>>
    BY <1>1 DEF Expire, jobVars, bindVars, outVars, brokerVars
  <2>2. \A x \in Msg : row'[x] = IF Open(x) THEN "expired" ELSE row[x]
    BY <1>1 DEF Expire
  <2>3. Calm' /\ Places' /\ \A x \in Msg : InOnePlace(x)
    BY <2>1 DEF SingleCopies, Calm, Steady, Places
  <2>4. ASSUME NEW x \in Msg PROVE InOnePlace(x)'
    <3>1. ReportsFewer(x) /\ RowKept(x)
      BY <2>1, <2>2 DEF ReportsFewer, RowKept, Undecided, Open
    <3> QED BY <2>1, <2>3, <3>1, OthersStay DEF Waits, SingleCopies
  <2> QED BY <2>3, <2>4 DEF SingleCopies
<1>2. CASE Cancel
  BY <1>2, SingleUntouched DEF Cancel, jobVars, bindVars, outVars, brokerVars
<1> QED BY <1>1, <1>2, PythonSteady, WriteResultSingle, ReceiptSingle
       DEF NothingTwice, SingleCopies, Calm

(* The dispatched batch: each message in one delivery.                      *)
LEMMA InitSingle ==
  ASSUME Init
  PROVE  SingleCopies
<1> USE DEF Init
<1>1. PICK home \in [Msg -> Delivery] :
        /\ dst = [d \in Delivery |-> IF \E x \in Msg : home[x] = d THEN "ready" ELSE "none"]
        /\ step = [d \in Delivery |-> [x \in Msg |-> IF home[x] = d THEN "todo" ELSE "absent"]]
  OBVIOUS
<1>2. Calm /\ Places
  BY <1>1 DEF Calm, Steady, Places
<1>3. ASSUME NEW m \in Msg PROVE InOnePlace(m)
  <2>1. /\ \A d \in Delivery : (InHand(d, m) => d = home[m]) /\ ~Stored(d, m)
        /\ \A q \in Seq : ~Waits(q, m)
    BY <1>1 DEF InHand, Stored, Waits
  <2>2. ~Reported(m) /\ Undecided(m) /\ live[m] = 0 /\ ~traced[m] /\ row[m] = "pending"
    BY DEF Reported, Undecided, OpenStatus
  <2>3. OneHand(m) /\ OneEntry(m) /\ EntryOfStored(m) /\ HandOnly(m) /\ EntryOnly(m)
    BY <2>1, <2>2 DEF OneHand, OneEntry, EntryOfStored, HandOnly, EntryOnly
  <2>4. OneResult(m) /\ ResultOnly(m) /\ RowSays(m)
    BY <2>2 DEF OneResult, ResultOnly, Reported, RowSays
  <2> QED BY <2>3, <2>4 DEF InOnePlace
<1> QED BY <1>2, <1>3 DEF SingleCopies

(* Every step leaves every message in one place.                            *)
LEMMA SingleStep ==
  ASSUME Typed, SingleCopies, NothingTwice, [Next]_vars
  PROVE  SingleCopies'
<1>1. CASE Next
  BY <1>1, ConsumeSingle, DeliverSingle, RespondSingle, AgeSingle, SessionStepSingle,
     BrokerSingle, PythonSingle DEF Next
<1>2. CASE UNCHANGED vars
  BY <1>2, SingleUntouched DEF vars, dbVars, jobVars, bindVars, outVars, brokerVars
<1> QED BY <1>1, <1>2

-----------------------------------------------------------------------------
(* Every step together: copies, and the life cycle of a row *)

(* What a step does to the rows: nothing, or what MessageLifecycle allows.  *)
LEMMA RowStep ==
  ASSUME Typed, SingleCopies, NothingTwice, [Next]_vars
  PROVE  /\ [Lifecycle!Next]_<<row, traced>>
         /\ \A m \in Msg : traced[m] => traced'[m]
<1>1. CASE ~Python
  <2>1. UNCHANGED <<row, traced>>
    <3>1. ASSUME NEW d \in Delivery, NEW m \in Msg, Consume(d, m) PROVE UNCHANGED <<row, traced>>
      BY <3>1 DEF Consume, SkipCancelled, SkipDone, PassGate, SeeConn, NoConnTimeout,
         PoolDrained, Pick, WindowOpen, WindowFull, LocalReject, Store, Submit, SubmitClosing,
         dbVars
    <3>2. ASSUME NEW d \in Delivery, Deliver(d) PROVE UNCHANGED <<row, traced>>
      BY <3>2 DEF Deliver, Take, FinishSingle, FinishBulk, FinishRepublish, FinishNoRepublish,
         Settle, dbVars
    <3>3. ASSUME NEW q \in Seq, Respond(q) \/ Age(q) PROVE UNCHANGED <<row, traced>>
      BY <3>3 DEF Respond, RespOk, RespThrottled, RespRefused, Age, dbVars
    <3>4. ASSUME NEW s \in Session, SessionStep(s) PROVE UNCHANGED <<row, traced>>
      BY <3>4 DEF SessionStep, Bind, StaleReap, StaleClose, Cut, OnClosed, WatchdogClose,
         WatchdogSweep, dbVars
    <3>5. ASSUME LinkLoss \/ PubDies \/ LinkUp \/ Crash PROVE UNCHANGED <<row, traced>>
      BY <3>5 DEF LinkLoss, PubDies, LinkUp, Crash, dbVars
    <3>6. CASE UNCHANGED vars
      BY <3>6 DEF vars, dbVars
    <3> QED BY <1>1, <3>1, <3>2, <3>3, <3>4, <3>5, <3>6 DEF Next
  <2> QED BY <2>1
<1>2. ASSUME NEW r \in results, WriteResult(r)
      PROVE  Lifecycle!Next /\ \A m \in Msg : traced[m] => traced'[m]
  <2>1. PICK m \in Msg : m = r.m /\ r.st \in {"sent", "failed"} /\ r.id \in BOOLEAN
    BY DEF Typed, TypeOK, Result
  <2>2. row' = [row EXCEPT ![m] = r.st] /\ traced' = [traced EXCEPT ![m] = r.id]
    BY <1>2, <2>1 DEF WriteResult
  <2>3. ResultOnly(m) /\ RowSays(m)
    BY DEF SingleCopies, InOnePlace
  <2>4. Undecided(m) /\ ~traced[m] /\ (r.st = "failed" => ~r.id)
    BY <2>1, <2>3 DEF ResultOnly, RowSays
  <2>5. \A x \in Msg : traced[x] => traced'[x]
    BY <2>2, <2>4 DEF Typed, TypeOK
  <2>6. row[m] \in Lifecycle!Undecided
    BY <2>4 DEF Undecided, OpenStatus, Lifecycle!Undecided, Lifecycle!Open
  <2>7. CASE r.st = "sent"
    <3>1. Lifecycle!Accept(m)
      BY <2>1, <2>2, <2>6, <2>7 DEF Lifecycle!Accept
    <3> QED BY <2>5, <3>1 DEF Lifecycle!Next
  <2>8. CASE r.st = "failed"
    <3>1. traced' = traced
      BY <2>1, <2>2, <2>4, <2>8 DEF Typed, TypeOK
    <3>2. Lifecycle!Refuse(m)
      BY <2>2, <2>6, <2>8, <3>1 DEF Lifecycle!Refuse
    <3> QED BY <2>5, <3>2 DEF Lifecycle!Next
  <2> QED BY <2>1, <2>7, <2>8
<1>3. CASE Expire
  <2>1. Lifecycle!GiveUp /\ traced' = traced
    BY <1>3 DEF Expire, Lifecycle!GiveUp, Lifecycle!Open, Open, OpenStatus
  <2> QED BY <2>1 DEF Lifecycle!Next
<1>4. CASE Cancel
  BY <1>4 DEF Cancel
<1>5. ASSUME NEW m \in Msg, NEW verdict \in {"delivered", "failed"}, Receipt(m, verdict)
      PROVE  Lifecycle!Next /\ traced' = traced
  <2>1. Lifecycle!Conclude(m, verdict) /\ traced' = traced
    BY <1>5 DEF Receipt, Lifecycle!Conclude
  <2> QED BY <2>1 DEF Lifecycle!Next
<1> QED BY <1>1, <1>2, <1>3, <1>4, <1>5, PythonSteady DEF NothingTwice, SingleCopies, Calm


(* While nothing is enqueued or delivered again, a message has one copy.    *)
LEMMA AlwaysOneCopy ==
  ASSUME NoSecondCopy
  PROVE  Spec => [](Typed /\ Copies)
<1>1. Init => Typed /\ Copies
  BY InitHolds, InitCopies
<1>2. Typed /\ Copies /\ [Next]_vars => Typed' /\ Copies'
  BY TypedStep, CopiesStep
<1> QED BY <1>1, <1>2, PTL DEF Spec

(* AtMostOnceUpstream, for as many messages, sessions and faults as one     *)
(* likes, however slow Submit is and whatever Redis, the database, the      *)
(* sessions and the upstream do, as long as the broker connection and the   *)
(* process stay and nothing is enqueued again: the entry of a submission is *)
(* stored before it is made and gone before a throttled message is back in  *)
(* the queue, so no payload is with a worker and with the upstream at once  *)
(* (connector.go, submitOneAndTrack and OnPDU).                             *)
THEOREM OnceUpstreamCorrect ==
  ASSUME NoSecondCopy
  PROVE  Spec => []AtMostOnceUpstream
<1>1. Typed /\ Copies => AtMostOnceUpstream
  BY DEF Copies, OneCopy, EndedCopy, AtMostOnceUpstream
<1> QED BY <1>1, AlwaysOneCopy, PTL

(* FailedNotUpstream, under the same conditions: what is published or       *)
(* reported as failed is with no worker and in no entry, so it is never     *)
(* submitted afterwards, and what was submitted was refused.                *)
THEOREM FailedCorrect ==
  ASSUME NoSecondCopy
  PROVE  Spec => []FailedNotUpstream
<1>1. Typed /\ Copies => FailedNotUpstream
  BY DEF Copies, OneCopy, EndedCopy, Failing, FailedNotUpstream
<1> QED BY <1>1, AlwaysOneCopy, PTL

(* If moreover no submission is reported before it is made, a message is in *)
(* one place at a time.                                                     *)
LEMMA AlwaysSingle ==
  ASSUME NothingTwice
  PROVE  Spec => [](Typed /\ SingleCopies)
<1>1. Init => Typed /\ SingleCopies
  BY InitHolds, InitSingle
<1>2. Typed /\ SingleCopies /\ [Next]_vars => Typed' /\ SingleCopies'
  BY TypedStep, SingleStep
<1> QED BY <1>1, <1>2, PTL DEF Spec

(* TraceNeverLost: a message has one result, so the upstream id that the    *)
(* write-back sets unconditionally is set once.                             *)
THEOREM TraceCorrect ==
  ASSUME NothingTwice
  PROVE  Spec => TraceNeverLost
<1>1. Typed /\ SingleCopies /\ [Next]_vars => [\A m \in Msg : traced[m] => traced'[m]]_vars
  BY RowStep
<1> QED BY <1>1, AlwaysSingle, PTL DEF Spec, TraceNeverLost

(* The gateway and the Python side implement MessageLifecycle: of all their *)
(* steps the write of a result is Accept or Refuse, the inspector's is      *)
(* GiveUp, a delivery report is Conclude, and no other touches a row.       *)
THEOREM LifecycleImplemented ==
  ASSUME NothingTwice
  PROVE  Spec => FollowsLifecycle
<1>1. Init => Lifecycle!Init
  BY DEF Init, Lifecycle!Init, Lifecycle!Open
<1>2. Typed /\ SingleCopies /\ [Next]_vars => [Lifecycle!Next]_<<row, traced>>
  BY RowStep
<1> QED BY <1>1, <1>2, AlwaysSingle, PTL DEF Spec, FollowsLifecycle, Lifecycle!Spec

-----------------------------------------------------------------------------
(* What was accepted *)

(* A message accepted upstream is with no worker, in no queue and in no     *)
(* entry: its mark submit_done is set when its only entry is taken out.     *)
Gone(m) == (\A d \in Delivery : ~InHand(d, m)) /\ (\A q \in Seq : ~Waits(q, m))
DoneGone == \A m \in submitDone : Gone(m)
DoneRests == \A m \in submitDone : live'[m] <= live[m]

(* A step that marks nothing, and brings no marked message back.            *)
LEMMA DoneUntouched ==
  ASSUME Typed, DoneGone, submitDone' = submitDone,
         \A m \in submitDone : /\ \A d \in Delivery : InHand(d, m)' => \E e \in Delivery : InHand(e, m)
                               /\ \A q \in Seq : Waits(q, m)' => \E p \in Seq : Waits(p, m)
                               /\ live'[m] <= live[m]
  PROVE  DoneGone' /\ DoneRests
BY DEF DoneGone, DoneRests, Gone

(* A worker's step concerns a message that is not marked: Submit adds a     *)
(* copy of no other.                                                        *)
LEMMA ConsumeDone ==
  ASSUME Typed, DoneGone, NEW d \in Delivery, NEW m \in Msg, Consume(d, m)
  PROVE  DoneGone' /\ DoneRests
<1>1. UNCHANGED <<submitDone, dst>> /\ dst[d] = "busy"
  BY DEF Consume, SkipCancelled, SkipDone, PassGate, SeeConn, NoConnTimeout, PoolDrained, Pick,
     WindowOpen, WindowFull, LocalReject, Store, Submit, SubmitClosing, Working, redisVars
<1>2. step[d][m] \notin {"absent", "ok", "permanent"}
  BY DEF Consume, SkipCancelled, SkipDone, PassGate, SeeConn, NoConnTimeout, PoolDrained, Pick,
     WindowOpen, WindowFull, LocalReject, Store, Submit, SubmitClosing, Working
<1>3. \A x \in submitDone : x \in Msg /\ x # m
  <2>1. InHand(d, m)
    BY <1>1, <1>2 DEF InHand
  <2> QED BY <2>1 DEF DoneGone, Gone, Typed, TypeOK
<1>4. PICK phase : Move(d, m, phase)
  BY DEF Consume, SkipCancelled, SkipDone, PassGate, SeeConn, NoConnTimeout, PoolDrained, Pick,
     WindowOpen, WindowFull, LocalReject, Store, Submit, SubmitClosing
<1>5. \A e \in Delivery, x \in submitDone : step'[e][x] = step[e][x]
  BY <1>3, <1>4, MoveView
<1>6. \A q \in Seq : seqMap'[q] \in {seqMap[q], NoEntry} \/ seqMap'[q].m = m
  <2>1. CASE \E q \in Seq : Store(d, m, q)
    <3>1. PICK q \in Seq : Store(d, m, q)
      BY <2>1
    <3>2. seqMap'[q].m = m /\ \A p \in Seq : p # q => seqMap'[p] = seqMap[p]
      BY <3>1 DEF Store, Typed, TypeOK
    <3> QED BY <3>2
  <2>2. CASE SubmitClosing(d, m)
    BY <2>2 DEF SubmitClosing, Typed, TypeOK
  <2>3. CASE ~SubmitClosing(d, m) /\ ~\E q \in Seq : Store(d, m, q)
    <3>1. seqMap' = seqMap
      BY <2>3 DEF Consume, SkipCancelled, SkipDone, PassGate, SeeConn, NoConnTimeout, PoolDrained,
         Pick, WindowOpen, WindowFull, LocalReject, Submit
    <3> QED BY <3>1
  <2> QED BY <2>1, <2>2, <2>3
<1>7. \A x \in submitDone : live'[x] = live[x]
  <2>1. CASE Submit(d, m)
    BY <1>3, <2>1 DEF Submit, Typed, TypeOK
  <2>2. CASE ~Submit(d, m)
    BY <2>2 DEF Consume, SkipCancelled, SkipDone, PassGate, SeeConn, NoConnTimeout, PoolDrained,
       Pick, WindowOpen, WindowFull, LocalReject, Store, SubmitClosing
  <2> QED BY <2>1, <2>2
<1>8. \A x \in submitDone : live[x] \in Int
  BY <1>3 DEF Typed, TypeOK
<1>9. \A x \in submitDone, e \in Delivery : InHand(e, x)' => InHand(e, x)
  BY <1>1, <1>5 DEF InHand
<1>10. \A x \in submitDone, q \in Seq : Waits(q, x)' => Waits(q, x)
  BY <1>3, <1>6 DEF Waits
<1>11. \A x \in submitDone : live'[x] <= live[x]
  BY <1>7, <1>8
<1> QED BY <1>1, <1>9, <1>10, <1>11, DoneUntouched

(* A whole delivery passes on no more than it has.                          *)
LEMMA DeliverDone ==
  ASSUME Typed, Copies, DoneGone, NEW d \in Delivery, Deliver(d)
  PROVE  DoneGone' /\ DoneRests
<1>1. submitDone' = submitDone
  BY DEF Deliver, Take, FinishSingle, FinishBulk, FinishRepublish, FinishNoRepublish, Settle,
     redisVars
<1>2. \A x \in Msg : HandsKept(x)
  BY DeliverHands DEF Copies, Steady
<1>3. \A x \in Msg, e \in Delivery : InHand(e, x)' => \E y \in Delivery : InHand(y, x)
  BY <1>2 DEF HandsKept
<1>4. seqMap' = seqMap /\ live' = live
  BY DeliverLeaves
<1>5. \A x \in submitDone : x \in Msg /\ live[x] \in Int
  BY DEF Typed, TypeOK
<1>6. \A x \in submitDone, q \in Seq : Waits(q, x)' => Waits(q, x)
  BY <1>4 DEF Waits
<1>7. \A x \in submitDone : live'[x] <= live[x]
  BY <1>4, <1>5
<1> QED BY <1>1, <1>3, <1>5, <1>6, <1>7, DoneUntouched

(* The message that is marked is gone; the one that is throttled was not    *)
(* marked.                                                                  *)
LEMMA RespondDone ==
  ASSUME Typed, Copies, DoneGone, NEW q \in Seq, Respond(q)
  PROVE  DoneGone' /\ DoneRests
<1>1. Answerable(q)
  BY DEF Respond, RespOk, RespThrottled, RespRefused
<1>2. PICK m \in Msg : m = seqMap[q].m /\ Waits(q, m) /\ ~Reserved(q)
  BY <1>1, SentinelAssumption DEF Answerable, Waits, Typed, TypeOK, Entry
<1>3. (\A d \in Delivery : ~InHand(d, m)) /\ \A p \in Seq : Waits(p, m) => p = q
  BY <1>2, CopyOfEntry
<1>4. m \notin submitDone
  BY <1>2 DEF DoneGone, Gone
<1>5. \A p \in Seq : seqMap'[p] = IF p = q THEN NoEntry ELSE seqMap[p]
  BY DEF Respond, RespOk, RespThrottled, RespRefused, Typed, TypeOK
<1>6. \A p \in Seq : ~Waits(p, m)'
  BY <1>3, <1>5 DEF Waits
<1>7. \A x \in Msg, p \in Seq : Waits(p, x)' => Waits(p, x)
  BY <1>5 DEF Waits
<1>8. \A x \in submitDone : x \in Msg /\ x # m /\ live[x] \in Int
  BY <1>4 DEF Typed, TypeOK
<1>9. CASE RespOk(q)
  <2>1. submitDone' \subseteq submitDone \cup {m} /\ live' = live
    BY <1>2, <1>9 DEF RespOk
  <2>2. \A d \in Delivery, x \in Msg : InHand(d, x)' <=> InHand(d, x)
    BY <1>9 DEF RespOk, jobVars, InHand
  <2>3. Gone(m)'
    BY <1>3, <1>6, <2>2 DEF Gone
  <2>4. \A x \in submitDone : Gone(x)'
    BY <1>7, <1>8, <2>2 DEF DoneGone, Gone
  <2> QED BY <1>8, <2>1, <2>3, <2>4 DEF DoneGone, DoneRests
<1>10. CASE RespRefused(q)
  <2>1. submitDone' = submitDone /\ dst' = dst /\ step' = step
    BY <1>10 DEF RespRefused, redisVars, jobVars
  <2>2. \A x \in submitDone : live'[x] = live[x]
    BY <1>2, <1>8, <1>10 DEF RespRefused, Typed, TypeOK
  <2>3. \A x \in submitDone : live'[x] <= live[x]
    BY <1>8, <2>2
  <2>4. \A x \in submitDone, d \in Delivery : InHand(d, x)' => InHand(d, x)
    BY <2>1 DEF InHand
  <2> QED BY <1>7, <1>8, <2>1, <2>3, <2>4, DoneUntouched
<1>11. ASSUME NEW e \in Delivery, RespThrottled(q, e) PROVE DoneGone' /\ DoneRests
  <2>1. /\ submitDone' = submitDone
        /\ dst' = [dst EXCEPT ![e] = "ready"]
        /\ step' = [step EXCEPT ![e] = [x \in Msg |-> IF x \in {m} THEN "todo" ELSE "absent"]]
        /\ live' = [live EXCEPT ![m] = @ - 1]
    BY <1>2, <1>11 DEF RespThrottled, Enqueue, redisVars
  <2>2. /\ \A d \in Delivery : d # e => dst'[d] = dst[d] /\ step'[d] = step[d]
        /\ \A x \in Msg : x # m => step'[e][x] = "absent"
    BY <2>1 DEF Typed, TypeOK
  <2>3. \A x \in submitDone, d \in Delivery : InHand(d, x)' => InHand(d, x)
    BY <1>8, <2>2 DEF InHand
  <2>4. \A x \in submitDone : live'[x] = live[x]
    BY <1>8, <2>1 DEF Typed, TypeOK
  <2>5. \A x \in submitDone : live'[x] <= live[x]
    BY <1>8, <2>4
  <2> QED BY <1>7, <1>8, <2>1, <2>3, <2>5, DoneUntouched
<1> QED BY <1>9, <1>10, <1>11 DEF Respond

(* A step that leaves the deliveries and the marks alone, and adds neither  *)
(* an entry nor a copy.                                                     *)
LEMMA DoneStays ==
  ASSUME Typed, DoneGone, UNCHANGED <<submitDone, dst, step>>,
         \A x \in Msg, q \in Seq : Waits(q, x)' => Waits(q, x),
         \A x \in Msg : live'[x] \in {live[x], live[x] - 1}
  PROVE  DoneGone' /\ DoneRests
<1>1. \A x \in submitDone : x \in Msg /\ live[x] \in Int
  BY DEF Typed, TypeOK
<1>2. \A x \in submitDone : live'[x] <= live[x]
  BY <1>1
<1>3. \A x \in submitDone, d \in Delivery : InHand(d, x)' => InHand(d, x)
  BY DEF InHand
<1> QED BY <1>1, <1>2, <1>3, DoneUntouched

(* Time, the sessions, the broker and the Python side.                      *)
LEMMA OthersDone ==
  ASSUME Typed, Copies, DoneGone, NoSecondCopy,
         \/ \E q \in Seq : Age(q)
         \/ \E s \in Session : SessionStep(s)
         \/ LinkLoss \/ PubDies \/ LinkUp \/ Crash
         \/ Python
         \/ UNCHANGED vars
  PROVE  DoneGone' /\ DoneRests
<1>1. ASSUME NEW q \in Seq, Age(q) PROVE DoneGone' /\ DoneRests
  <2>1. UNCHANGED <<submitDone, dst, step, live>>
    BY <1>1 DEF Age, redisVars, jobVars
  <2>2. \A p \in Seq : /\ seqMap'[p] # NoEntry <=> seqMap[p] # NoEntry
                       /\ seqMap[p] # NoEntry => seqMap'[p].m = seqMap[p].m
    BY <1>1, SentinelAssumption DEF Age, Typed, TypeOK, Entry
  <2>3. \A x \in Msg, p \in Seq : Waits(p, x)' => Waits(p, x)
    BY <2>2 DEF Waits
  <2> QED BY <2>1, <2>3, DoneStays
<1>2. ASSUME NEW s \in Session, SessionStep(s) PROVE DoneGone' /\ DoneRests
  <2>1. UNCHANGED <<submitDone, dst, step, live>>
    BY <1>2 DEF SessionStep, Bind, StaleReap, StaleClose, Cut, OnClosed, WatchdogClose,
       WatchdogSweep, redisVars, jobVars
  <2>2. \A p \in Seq : seqMap'[p] \in {seqMap[p], NoEntry}
    BY <1>2 DEF SessionStep, Bind, StaleReap, StaleClose, Cut, OnClosed, WatchdogClose,
       WatchdogSweep
  <2>3. \A x \in Msg, p \in Seq : Waits(p, x)' => Waits(p, x)
    BY <2>2 DEF Waits
  <2> QED BY <2>1, <2>3, DoneStays
<1>3. CASE LinkLoss \/ PubDies \/ LinkUp \/ Crash
  <2>1. PubDies
    BY <1>3 DEF LinkLoss, LinkUp, Crash, Fault, NoSecondCopy, Copies, Steady
  <2>2. UNCHANGED <<submitDone, dst, step, live, seqMap>>
    BY <2>1 DEF PubDies, redisVars, jobVars
  <2> QED BY <2>2, DoneStays DEF Waits
<1>4. CASE Python
  <2>1. \/ \E r \in results : WriteResult(r)
        \/ Expire \/ Cancel
        \/ \E m \in Msg, verdict \in {"delivered", "failed"} : Receipt(m, verdict)
    BY <1>4, PythonSteady DEF Copies
  <2>2. UNCHANGED <<submitDone, dst, step, seqMap>>
    BY <2>1 DEF WriteResult, Expire, Cancel, Receipt, redisVars, jobVars
  <2>3. \A x \in Msg : live'[x] \in {live[x], live[x] - 1}
    <3>1. CASE live' = live
      BY <3>1
    <3>2. ASSUME NEW m \in Msg, live' = [live EXCEPT ![m] = @ - 1]
          PROVE  \A x \in Msg : live'[x] \in {live[x], live[x] - 1}
      BY <3>2 DEF Typed, TypeOK
    <3>3. live' = live \/ \E m \in Msg : live' = [live EXCEPT ![m] = @ - 1]
      BY <2>1 DEF WriteResult, Expire, Cancel, Receipt
    <3> QED BY <3>1, <3>2, <3>3
  <2> QED BY <2>2, <2>3, DoneStays DEF Waits
<1>5. CASE UNCHANGED vars
  <2>1. UNCHANGED <<submitDone, dst, step, live, seqMap>>
    BY <1>5 DEF vars, redisVars, jobVars
  <2> QED BY <2>1, DoneStays DEF Waits
<1> QED BY <1>1, <1>2, <1>3, <1>4, <1>5

(* Every step.                                                              *)
LEMMA DoneStep ==
  ASSUME Typed, Copies, DoneGone, NoSecondCopy, [Next]_vars
  PROVE  DoneGone' /\ DoneRests
BY ConsumeDone, DeliverDone, RespondDone, OthersDone DEF Next

(* NoSubmitAfterDone, as long as the broker connection and the process stay *)
(* and nothing is enqueued again: a message that the upstream accepted is   *)
(* not submitted again, though the duplicate check reads submit_done only   *)
(* before the submission and fails open without Redis. The check is needed  *)
(* for second copies only, and those it stops not always (DoubleSubmit).    *)
THEOREM AcceptedCorrect ==
  ASSUME NoSecondCopy
  PROVE  Spec => NoSubmitAfterDone
<1>1. Init => DoneGone
  BY DEF Init, DoneGone
<1>2. Typed /\ Copies /\ DoneGone /\ [Next]_vars => DoneGone'
  BY DoneStep
<1>3. Typed /\ Copies /\ DoneGone /\ [Next]_vars
        => [\A m \in Msg : m \in submitDone => live'[m] <= live[m]]_vars
  BY DoneStep DEF DoneRests
<1> QED BY <1>1, <1>2, <1>3, AlwaysOneCopy, PTL DEF Spec, NoSubmitAfterDone

=============================================================================
