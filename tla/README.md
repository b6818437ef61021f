# TLA+ models of the SMSC gateway

This directory holds TLA+ models of the message pipeline of the SMSC, the TLC
configurations that check them and the TLAPS proofs about them. The reference
of every definition is the code; `PROJECT.json` ("map") names the lines each
definition stands for.

## 1. The system

A message (a row of `sms_logs`) is created by the REST API, a batch worker or a
customer's SMPP session, is charged, gets into RabbitMQ, is submitted to an
upstream SMSC, and ends with the upstream's delivery report (DLR).

    API / batch_worker ──> sms_send_smpp ──> go-smpp-gateway ──SubmitSM──> SMSC
          │                     ^                 │   ^                     │
          │                     │ republish       │   └── SubmitSMResp ─────┤
          │                     └─────────────────┤       DeliverSM (DLR) ──┘
          v                                       v
       sms_logs <── worker-result <── sms_result_queue        sms_dlr
          ^   ^                                                  │
          │   └────────────── worker-dlr <───────────────────────┘
          └── batch_inspector, retry-failed, requeue-queued, cancel, DLR timeout

### Inventory

| Component | State | Operations | What is hard | What makes it correct |
|---|---|---|---|---|
| Gateway, outbound (`connector.go`, `consumer.go`, `result_publish.go`, `outbound_dedup.go`, `batch_cancel.go`) | deliveries at workers, `sequenceMap`, `connections`, session state, publish channel, Redis `submit_done:*`, `batch:cancelled:*` | consume, the checks before a submission, `SendSMS`, `OnPDU`, `OnClosed`, stale monitor, watchdog, reconnect | 32 workers per queue, PDU and timer goroutines on one table; acks, results and republishes that fail one by one; a crash with submissions outstanding | no message forgotten; none sent twice unless Python enqueued it twice; a result that says what happened |
| Row writers in Python (`sms_worker.py`, `batch_inspector.py`, `batches.py`) | `sms_logs.status`, `upstream_message_id`, `sms_batches.status`, tasks in `sms_send` | write a result, send task, re-dispatch, expire, cancel, retry-failed, requeue-queued, match a DLR | they act on what the rows said a while ago; guards that fail open | the rows follow one life cycle; each open row is decided in the end |
| Result write-back (`sms_worker.py` 2190-2523) | buffer, locks, Redis stream used as write-ahead log | enqueue, size and timer flush, fall back to single rows, replay, shutdown flush | a flush may run twice over the same rows; replay after a crash | a result is written at least once, and an old one does not undo a newer state |
| DLR pipeline (`dlr_dedup.go`, `dlr_ownership.go`, `sms_worker.py` 980-1434 and 1691-1815, `dlr_buffer.py`, `dlr_handler.py`) | ownership keys, dedup marks, retry buffer, `dlr_seen`, `dlr_unmatched`, `dlr_fx` | receive, filter, dedup, publish, match, park, flush, side effects, time out | reports overtake results, come four times, out of order, for foreign messages | a report of ours reaches its row once, or is parked; terminal states are not flipped |
| Bind pool of a channel (`connector.go`) | bind slots, pending binds, `connections`, `configs` | dial, rebind loops of three origins, reload, throttle | rebinds race with reload and with each other | never more sessions than configured; always a loop for a missing one |
| Per-channel consumers (`per_channel_consumer.go`) | `running` | sync, start, stop, drop | a drop that comes late | one consumer per active channel |
| Gateway, inbound (`inbound_*.go`) | registry of sessions, account limits, reassembly groups, submit queue, `pending_dlrs` | bind, submit, reassemble, reap, dispatch a DLR, drain | a session closes while reports are pushed to it | every report is pushed or stored |
| Batch dispatch and progress (`batch_worker.py`, `batch_utils.py`, `batch_admin.py`) | `sms_batches` status and counters, chunk tasks | process, chunk, count, pause, resume, clear, switch, cancel | chunks race with administration; counters recomputed while rows are added | counters agree with the rows; a finished batch has no open row |
| Charging and refunds (`pricing.py`, `sms_refund.py`, `sms_finance.py`) | balance, `balance_logs`, refund marks | charge, refund one, refund swept | several workers on one balance; a refund for every way a message can end | no charge without balance, at most one refund per charge |
| Webhook delivery (`webhook_worker.py`) | delay queues, token buckets, circuit of each account | send, throttle, retry ladder, dead letter | retries, throttle and circuit share tasks | every callback is delivered, skipped or dead-lettered |
| HTTP, virtual and RCS channels (`sms_worker.py`, `rcs_node_*.py`) | tasks at a node, row state | submit, poll, finalise | poll and finalise more than once | a row is finalised once |
| Routing and rate limits (`router.py`, `rate_limiter.py`) | token bucket in Redis | choose, take | concurrent takes | never more than the limit |
| Data products (`api/v1/data/*.py`, `data_worker.py`) | `data_numbers`, `data_orders`, `data_stock_summaries`, balance, sending tasks | buy to stock, buy a combination, buy and send, cancel, refund, recycle | purchases pick from a snapshot and lock later; a task repeats itself after a deadlock; refunds act on what an order was | a number is sold once, from the pool; paid back once; no message doubled |
| Statistics, configuration, short links, web automation, API, front end, bot, vendored gosmpp | | | | not modelled (see section 8) |

The behaviours that are hard to test are listed with their lines under
"hazards" in `PROJECT.json`; the properties are aimed at them.

## 2. Plan

In the order of importance. A module that proofs are about uses no RECURSIVE
operator, names its assumptions, and has one action per operation.

Modelled and checked (sections 3 to 6):

1. `SmppGateway` with `MessageLifecycle` above it, and its proofs.
2. `ResultWriteback`: buffer, write-ahead stream, timers, flush, kill and
   replay of `process_sms_result_task`, and its proofs.
3. `DlrPipeline`: ownership, dedup marks, publication, match, park, flush, side
   effects, expiry.
4. `BatchCharging`: what chunks, retries and refunds do to a balance.
5. `BatchProgress`: counters, pause, resume, clear, cancel and the inspector's
   repairs.
6. `DataOrders`: purchases, the task that sends, refunds, recycling.
7. `WebhookDelivery`: gate, breaker, slots, retry ladder.
8. `SmppInbound`: binds, submissions and reports of one customer.

Proved (section 7):

9. Type correctness of every component.
10. `SmppGateway`: that nothing is forgotten, without restriction; that there is
    at most one copy upstream, that sent means submitted, and that the rows
    implement `MessageLifecycle`, each under the condition it needs.
11. Every safety property the runs check of the other seven components;
    `KeptUntilWritten` for results of different rows, which is where it holds.

Left is what the prover does not reach: liveness under fairness stays with TLC.

## 3. Modules

| Module | What it is |
|---|---|
| `SmppGateway` | the outbound path of one channel and one batch, from the queue to the row |
| `MessageLifecycle` | what the path promises of a row, whatever happens behind it |
| `MCSmppGateway` | symmetry sets for TLC |
| `SmppGatewayProofs` | inductive invariants and theorems of `SmppGateway`, the refinement of `MessageLifecycle` among them |
| `ResultWriteback` | how results get from `sms_result_queue` into `sms_logs`: buffers, timers and the stream |
| `MCResultWriteback` | which result belongs to which row, and symmetry, for TLC |
| `ResultWritebackProofs` | inductive invariants and theorems of `ResultWriteback` |
| `DlrPipeline`, `DlrPipelineProofs` | a delivery report from the upstream's PDU to the row and its side effects |
| `BatchCharging`, `MCBatchCharging`, `BatchChargingProofs` | chunks of a batch, retries and refunds against a balance; the chunk of each number for TLC |
| `BatchProgress`, `MCBatchProgress`, `BatchProgressProofs` | the row of a batch against its rows; the chunk of each row for TLC |
| `DataOrders`, `MCDataOrders`, `DataOrdersProofs` | selling, cancelling, refunding and recycling numbers; who buys what for TLC |
| `WebhookDelivery`, `MCWebhookDelivery`, `WebhookDeliveryProofs` | callbacks to customers; whose callback is which for TLC |
| `SmppInbound`, `MCSmppInbound`, `SmppInboundProofs` | the gateway as the SMSC of a customer; the bind types for TLC |

### SmppGateway: state

| Variable | Code |
|---|---|
| `row`, `traced` | `sms_logs.status`; whether `upstream_message_id` is set |
| `batch`, `cancelFlag` | `sms_batches.status`; Redis `batch:cancelled:{id}` |
| `tasks` | `send_sms_task`s in the queue `sms_send` |
| `submitDone`, `redispatched` | Redis `submit_done:{message_id}`, `smsc:smpp_redispatch:{message_id}` |
| `dst`, `step`, `try`, `on`, `key` | a delivery of `sms_send_smpp`: where it is, how far each payload has come, its `throttle_retry`, the session `SendSMS` chose for it and the key of its entry |
| `seqMap` | `SMPPManager.sequenceMap`: the submissions that wait for their response |
| `sess`, `pool`, `mon` | gosmpp sessions, `SMPPManager.connections[channel]`, running stale monitors |
| `results` | `sms_result_queue` and what the worker has buffered from it |
| `link`, `pub` | the AMQP connection; `publishCh`, which may die alone without anyone being told |
| `live`, `lost`, `retried` | history: copies of a message that were handed to gosmpp and not refused, messages whose last trace the gateway lost (an error it only logs, or a crash), messages that `retry-failed` put back |
| `faults`, `ops` | budgets of faults and of outside operations: they bound the model |

### SmppGateway: actions

A worker takes a delivery (`Take`) and processes its payloads independently
(`workerProcessDelivery` starts one goroutine per payload). A payload passes the
checks of `processSingleSMSData` (`SkipCancelled`, `SkipDone`, `PassGate`; each
check passes when its store does not answer: `RedisUp`, `DbUp`), then `SendSMS`:
the wait for a session (`SeeConn`, `NoConnTimeout`), the choice of one (`Pick`,
`PoolDrained`), the wait for the in-flight window (`WindowOpen`, `WindowFull`),
local errors (`LocalReject`), and `submitOneAndTrack`, which stores the entry
before it submits (`Store`, then `Submit` or `SubmitClosing`). These are
separate steps because the code holds no lock from one to the next. When every
payload is done the delivery is acknowledged, requeued, dropped or split
(`FinishSingle`, `FinishBulk`, `FinishRepublish`, `FinishNoRepublish`) and the
ack goroutine tells the broker (`Settle`).

`OnPDU` is `RespOk`, `RespThrottled`, `RespRefused`. `Age`, `StaleReap` and
`StaleClose` are the stale monitor; the entry counts as aged from `Age` on, and
the monitor removes the aged entries only. `Cut` and `OnClosed` are a broken
connection, `WatchdogClose` and `WatchdogSweep` the liveness watchdog. gosmpp
does not call the user's `OnClosed` for a session that was closed by
`Session.Close`, which is why the stale monitor and the watchdog go from
"doomed" or "up" straight to "closed". `Bind` stands for every way a session
gets into the pool. `LinkLoss`, `PubDies`, `LinkUp`, `Crash` are the broker
connection and the process; a delivery that was not acknowledged comes back.

The Python side: `WriteResult` (the write of one result), `SendTask`,
`SendTaskFails`, `SendTaskSkips`, `Redispatch` and `Expire` (the inspector),
`Cancel`, `RetryFailed`, `RequeueQueued`, `Receipt` (a delivery report that
matches its row by upstream id; the gateway passes empty addresses, so the match
by number never applies).

### SmppGateway: abstractions

* One channel and one batch. The batch is processing or cancelled; pausing
  belongs to `BatchProgress`.
* A long message is one submission: only its first segment has an entry in
  `sequenceMap`.
* Clocks: whatever happens after a timeout may happen whenever the rest of its
  condition holds. One timing fact is kept: an entry that is not yet submitted
  does not age (`Age`), unless `SlowSubmit` says that gosmpp's `Submit` may
  block for more than 20 s.
* `ProbeUp` contains FALSE when the inspector's queue probe may fail or may fall
  back to the AMQP count that misses unacknowledged deliveries.
* `Expire` stands for both places of the inspector that expire open rows. Their
  condition `sent_time IS NULL` holds of every open row.
* A malformed payload, rate limiters, throttling of the channel and statistics
  have no state here.
* `RespOk` takes the entry, marks the message and publishes its result in one step
  (connector.go:833-844). A crash in between loses the result, as a crash before it
  does, and with the mark set, as a dead publish channel does. An error of `Submit`
  that is not of a closing session is part of `LocalReject`, although its entry was
  stored and is taken out again (1666-1673).

### ResultWriteback

| Variable | Code |
|---|---|
| `queue`, `held` | `sms_result_queue`; the task a process runs, not acknowledged yet |
| `stream`, `stamp` | the Redis stream `sms_result_pending`; the order of its entries |
| `row` | `sms_logs`: the result a row took last, or that a report concluded it |
| `proc`, `attempt`, `replay` | a Celery process: down, replaying (`worker_process_init`), up, stopping (`worker_process_shutdown`, with its up to three flushes); what it has read from the stream |
| `buf`, `cur` | `_SMS_RESULT_BUFFER`, `_SMS_RESULT_TIMER` |
| `ph`, `todo`, `ok`, `bad` | where each thread of a process is in a flush, and the rows still to write, written, not written |
| `faults`, `stops` | budgets, they bound the model |
| `written`, `unlogged` | history: results written to their row; results without a record in the stream |

A task adds its result to the stream (`Enqueue`), then, under the lock, to the
buffer (`Append`); if that fills the buffer the same thread flushes it, else a
timer is armed if there is none. `TimerFires` and `TimerRuns` are apart because
a timer that has fired waits for the lock and can no longer be cancelled; two
may be in a flush together with the task thread, over the same rows. A flush is
`Bulk`, or `BulkFails` and then one row after the other (`Single`,
`SingleFails`, `SingleEnds`), then `Remove` (buffer) and `Clean` (stream), each
a step: no lock is held in between, and a kill or the 60 s limit of
`_run_async` (`Abort`) may come at any of them. `Start`, `ReplayNext`,
`ReplayEnds` and `Stop`, `StopCleans`, `Exit` are the two signals; every process
of every worker service imports the handlers, so a process that is recycled after
`max_tasks_per_child` is followed by one that replays the stream of all of them.

Abstractions. A result is an identity with a row; one that carries an upstream
id (`Accepted`) lets a report conclude its row (`Receipt`; reports themselves
belong to `DlrPipeline`). A retry after a deadlock is part of `Bulk` or
`BulkFails`; a stopping process that tries its flush again may find the database
still failing, which is the same fault. Results without a `log_id` never reach a row and are left out.
`MAXLEN ~` is approximate: `Enqueue` may cut the stream or not. `Kill` does what
Celery does with an `acks_late` task that has no `reject_on_worker_lost`: the
task of a lost process is acknowledged, unless the whole worker is gone, in
which case the broker delivers it again.

### DlrPipeline

The gateway owns an id from the response of its submission on (`Respond`; the
mark may need several attempts, `RetryMark`, and is written again at a start,
`RestartGateway`). `DeliverSM` drops what is not owned or already published,
publishes the rest and marks it afterwards (`MarkDLRPublished`); `PublishFails`
marks nothing. A task goes through the steps of `_process_smpp_dlr_async`: the
short-circuits (`Receive`), the row by upstream id (`Match`), then either
`Write`, `Claim` of the effects (`dlr_fx`), `Dispatch`, or `Miss` (the retry
buffer) and `MarkUnmatched`, to `TaskEnds`. The task has neither `acks_late` nor
`reject_on_worker_lost` (sms_worker.py:1017, and celery_app.py sets neither), so
it is acknowledged when it starts: `Error` is its `except`, which swallows the
error, and `Kill` a lost process, which takes the report along unless the row is
written or the buffer has it (`HandedOn`). A flush that is killed is a flush that
ended: what it had not removed is still in the buffer. The flush
(`FlushStart`, `FlushNext`, `FlushStop`, `FlushDone`, `FlushEnds`) takes the
buffer item by item and runs the same steps without the marks. `ExpireSelect`
and `ExpireUpdate` are two statements of `_expire_in_chunks`, and the second
does not look at the status again. `lost` names the reports the code gives up:
an error it swallows, a buffer that refuses, the last retry, the death of the
process that had them.

Abstractions: an upstream id stands for its message; a foreign report is one of
a message that is never answered. Marks do not expire, but for `dlr_unmatched`.
The buffer holds one report of an id, as its key does. The ownership filter of
the Python side (`DLR_OWNERSHIP_FILTER`, dlr_buffer.py:88) is off unless
configured (config.py:247) and is left out. The gateway asks for final reports
only (`RegisteredDelivery` 1, connector.go:1452), so `Dlr` has final ones; the
theorems cover interim ones too.

### BatchCharging

A chunk is a Celery message that is acknowledged late. Its run is `Start` (skips
what has a row, or everything if the batch is over), `Prefail` (rows for numbers
that cannot be sent), `Charge` (the whole chunk), `Write`, `Push`, `Rest`,
`Close`. When the balance does not cover the chunk, `ChargeSome` charges one
number after the other and commits every `Portion` rows (50 in the code), with a
`Push` after each commit; a number whose own step fails is logged and passed over
(`skipped`), and was charged or not. `DbError` at any of the database steps,
between two portions too, leads to `Fail`: what was
charged is given back if nothing has succeeded, and the chunk is run again.
`Kill` and `Timeout` end a run anywhere. A retry in place is `RetryRead`,
`RetryCharge`, `RetryPush`, `RetryEnd` under a lock that may expire
(`LockExpires`). `Refund` and `AdminRefund` pay a row back under `refunded_at`;
`Submit` is the upstream's verdict and `Cancel` the customer's. `held`, `burnt`
and `free` name the money that is neither in the balance nor in a row.

Abstractions: every message costs one unit and has one part; a transaction is
one step, its commit is not lost on the way back. A price that is missing when a
number is charged alone ends the loop as if the balance were used up
(batch_worker.py:1396). A deadlock inside a portion, which would roll back the
numbers charged before it while the loop goes on, and the write that replaces
the links of a portion are left out.

### BatchProgress

`update_batch_progress` counts rows and reads the batch in one transaction
(`Read`) and writes the columns that differ from what it has read (`Write`), so
that a slow updater writes what is no longer true; `WriteFails` is its `except`.
`Verdict` is its decision, with its special case for the last 2 % (`Tail` rows).
`Sync` and `Inspect` are the two periodic tasks: the inspector expires rows
(`Expire`), completes what has stood still (`Complete`), lowers the total to the
rows there are (`Align`) and looks again at failed batches (`Revive`).
`RunChunk`, `LoseChunk`, `Send`, `Take`, `Result` and `Report` move the rows;
`Cancel`, `Pause`, `Resume`, `Clear` are the customer and the administrator.
`cut` remembers that `Align` lowered the total while a chunk was still to come.

Abstractions: the periodic tasks recount in one step, since the updater beside
them already makes counts go stale; times after which the inspector acts are
left out. `retry_failed_batch`, which sets rows of the batch back to queued and
recounts it (batches.py:973-1026), is in `SmppGateway` and `BatchCharging` with
what it does to rows and balance, and not here.

### DataOrders

A purchase is one transaction in four steps: `Pick` (a snapshot), `Lock` (the
UPDATE that takes what is still public; it waits for the rows of other
transactions), `Commit` (deducts, if the balance allows it, and records), or
`Crash`. `buy_and_send` then publishes a task (`Publish`), which is `Start`,
`Insert` (commits the rows), `Page` (enqueues), `Finish`, with `Deadlock` (the
attempt is repeated), `GiveUp` and `Kill`. An attempt that is given up is written
by `Abandon`, in a transaction of its own that cancels the order; when that fails
too the error is logged and the order stays as it is ("unwritten").
`DeskRead` and `Refund`, `CancelOrder` are administrators, whose requests lock
nothing: two may read the same order (`raced`). A refund pays any of `Amount`,
since the endpoint takes a `refund_amount` unchecked (admin_orders.py:191);
`paid` adds up what refunds paid. `RecycleRead` and `RecycleWrite` are the
nightly task.

Abstractions: every order costs one unit; the summary is one number for all its
dimensions; numbers differ only in having an import batch or not (`Loose`).

### WebhookDelivery

A callback is in a queue (`Waiting`), in a worker (`Running`) or `Settled`.
`Trigger` asks a cache whether the account has an address (`Refresh`,
`Configure`). The task is `Take`; `Gate` (the address, the rate, the breaker as
it is read); `Probe` (the breaker half opens, a second command); `Slot` and `Arm`
(`INCR` of `wh:inflight` and, by whoever made it 1, `EXPIRE`), or `Back` when
there are too many; `Answer` (the post, what it does to the breaker, and the slot
that is given back); and `Retry` (next rung, or the dead letters) for whatever
`failed`. `Return` is the delay queue that hands a callback back. `SlotsExpire`,
`CoolDown`, `BreakerExpires`, `Refill` are time.

Every step may meet a fault. The broker refuses a publication, which is logged
(`Retry`, `Gate`, `Trigger`). The database fails or uses up the 60 s of the task
before the post (`Unread`): the attempt failed, whoever the customer is. A name
that cannot be resolved or must not be called, and an account or message that is
gone, drop the callback without a retry (`Unread`). Without Redis every guard
lets everything through, and a command that answers with an error may have been
carried out (`Slot`, `Arm`, `Back`, `Answer`); a post without a slot is "bare". The
task may run out of time while it posts (`OutOfTime`), after the endpoint has
seen the callback or not. `Kill` leaves the slot taken. `hurt` names the accounts
one of whose own tasks met a fault, `unarmed` those whose count was made 1 by
somebody who never gave it an expiry.

Abstractions: an answer is 200 or not; the record of a failure
(`hincrby`, `expire`, `hset`) is done or not done, never half; one bucket stands
for the bucket of the account and the global one.

### SmppInbound

`Connect`, `SeeFull`, `EvictOldest`, `SeeRoom`, `Add` are `handleSession`, in the
steps between which it holds no lock; `Leave` and `End` the end of a session;
`Load` and `Drain` the goroutine that pushes what waited. A report is consumed
from RabbitMQ (`Consume`, `Ack`) or made by the gateway (`Reject`), then `Pick`,
`Push` or `Save`. A submission is `SubmitSM`, or `FirstSegment` and then
`Forward` (the last segment, or the reaper) or `EvictGroup`, then `TakeJob`,
`Accepted` or `Refused`. `Restart` forgets everything in memory; `LinkLoss`
gives back what was not acknowledged.

Abstractions: the bind response and `Add` are one step; queue and reassembly
are shared by all customers, so whether they are full is nondeterministic; a
submission that is throttled or refused leaves nothing; an answer of the backend
without success and without an error counts as accepted, as in `submitToBackend`
(inbound_submit_worker.go:130-135); a long message has two
segments; the drain takes its rows in a fixed order. The registry is a sequence
that holds a session at most once (proved), so that `RemoveFirst` removes what
the loop of the code removes.

## 4. Properties

Of `SmppGateway`, `TypeOK` apart:

* `OpenHasCarrier`: an open row has a task, a delivery, a waiting submission or
  a result on its way, unless the gateway lost it or it was retried in place.
* `AtMostOnceUpstream`, `FailedNotUpstream`, `SentWasSubmitted`: what the
  upstream holds against what the rows say.
* `TraceNeverLost`: an upstream id is not overwritten.
* `FollowsLifecycle`: the rows implement `MessageLifecycle`.
* `EventuallyResolved`: every open row is decided.

Of `ResultWriteback`:

* `NothingLost`: a result whose task is over was written or is in the stream,
  unless the stream refused it or was cut, or the process was killed before.
* `KeptUntilWritten`: the buffer of a running process only loses what was written.
* `EventuallyWritten`: every result with a record is written.

Of `DlrPipeline`:

* `ReportKept`: a report that was published is in the queue, with a task or in
  the buffer, or its row is concluded, or it was given up where the code says so,
  or died with the process that had it before it was written or buffered,
  or an interim report of its message came. The last is an excuse the code needs:
  the buffer is keyed by the id and set with HSETNX, so an interim "sent" that
  waits there keeps a later final report out.
* `DispatchedOnce`: the effects of a report are set off once, for a status the
  row has taken.
* `EventuallyConcluded`: a published report concludes its row, is given up or
  dies with its process.

Of `BatchCharging`:

* `MoneyBack`: what is gone from the balance is the price of rows, or in the
  hands of a chunk; only a crash, the rows of an earlier run, or a number that was
  charged alone and passed over, burn money.
* `RefundedOnce`: a row is refunded once, and not without having been paid for.
* `HandedOnce`: however often a chunk is repeated, it hands a number over once.
* `EventuallyRows`: no chunk evaporates; each number gets a row, unless the loop
  of a low balance passed it over for an error of its own.

Of `BatchProgress`:

* `CompletedIsDone`: completed or failed means that every row is there and has
  an outcome, whatever the verdict was based on.
* `EventuallySettled`: a batch nobody touches does not stay at processing.
* `EventuallyAgrees`: its counters agree with the rows in the end.

Of `DataOrders`:

* `SoldFromPool`: no purchase takes a number from another customer.
* `NobodyOwnsForFree`: whoever owns a number has an order with it that was not
  paid back.
* `RefundedOnce`: an order is paid back once, unless two requests were about to
  refund it at once (section 6; then at most once by each administrator,
  `RefundsBounded`).
* `CopiesExplained`: only a deadlock behind the commit doubles a message.
* `EventuallyConcluded`: an order with a message does not stay processing, unless
  its task was lost, or failed and so did the write of its failure, no channel
  was found, or the broker refused some of its rows.

Of `WebhookDelivery`:

* `HealthyUnharmed`, `HealthyServed`: a customer whose endpoint answers, and who
  has no more callbacks than slots, gets each callback at the first attempt,
  whatever other endpoints and their tasks do. Only a fault that one of its own
  tasks met excuses it (`hurt`).
* `EventuallySettled`: every callback is delivered, dead, dropped or lost.
* `SlotsComeBack`: slots of dead workers are given back, unless the count was
  left without an expiry (section 6).

Of `SmppInbound`:

* `ReportKept`: a report is with the customer, waits for it, is in hand, or was
  lost to a fault.
* `EventuallyConcluded`: what the customer was told is accepted goes to the
  backend or is rejected by a report, and the report reaches it or waits.
* `BindGetsWaiting`: a customer that binds gets what waits.

Some claims of comments the code does not keep have a property and a
configuration too: section 6.

## 5. Runs

| Run | Instance | Shows |
|---|---|---|
| `Lifecycle` | two messages, three deliveries, one fault of {silence, watchdog, dead publish channel}, throttling, a cancellation or a report | `AtMostOnceUpstream`, `FailedNotUpstream`, `SentWasSubmitted`, `TraceNeverLost`, `FollowsLifecycle`, while nothing is delivered or enqueued a second time |
| `Duplicates` | one message, two operations of {re-dispatch, requeue, cancel, retry}, throttling, Redis failing at any call, one crash, link loss, broken session or dead publish channel | `TypeOK`, and `OpenHasCarrier` with copies of a message |
| `Recovery` | one message, each kind of fault, throttling | `EventuallyResolved` |
| `WriteBack` | two results of two rows, two processes with two timers each, one kill, database trouble or abort, one process recycled | `TypeOK`, `NothingLost`, `KeptUntilWritten` |
| `Written` | two results, a stream of one entry, a kill, a recycled process | `EventuallyWritten` |
| `Dlr` | one message, three reports of it (delivered, failed), a task and the flush, one of nine faults | `TypeOK`, `ReportKept`, `DispatchedOnce`, `EventuallyConcluded` |
| `Batch` | two chunks, four numbers (one invalid, one without "+"), a balance and a portion of one, a retry, two of seven faults (an error of a single number among them) | `TypeOK`, `MoneyBack`, `RefundedOnce`, `HandedOnce`, `EventuallyRows` |
| `Progress` | two rows of two chunks (SMPP and HTTP), an updater beside the periodic tasks, two operations, one lost chunk or failed write | `TypeOK`, `CompletedIsDone`, `EventuallySettled`, `EventuallyAgrees` |
| `Orders` | two numbers, three purchases of two customers (stock, combination, sending), two administrators, refunds of one or two units, two operations, two of seven faults | `TypeOK`, `NobodyOwnsForFree`, `RefundedOnce`, `CopiesExplained`, `SoldFromPool`, `EventuallyConcluded` |
| `Webhook` | three callbacks, a failing and an answering endpoint, one slot each, one rung, one of seven faults | `TypeOK`, `HealthyUnharmed`, `HealthyServed`, `EventuallySettled`, `SlotsComeBack` |
| `Inbound` | two sessions with room for one, one submission with its two reports, one of five faults | `TypeOK`, `ReportKept`, `EventuallyConcluded`, `BindGetsWaiting` |
| `PauseUndone` | as `Progress` | a violation of `PauseHolds` (section 6) |

`CHECK_DEADLOCK FALSE` everywhere: when each row is decided, each queue empty
and each budget spent, the system rests.

Bounds. Of the gateway: two messages in one or two deliveries are what the code
of a delivery tells apart (a delivery of one payload, one of two of which one is
transient, two that compete). Three identities of deliveries let a republished
payload exist beside its origin and one more. Two session identities let a
session be rebound while the old object is still in use. A full window
(`WindowFull`) is met in `Duplicates`, where copies fill it; `Lifecycle` has two
submissions in flight at once, and holds with a `MaxInflight` of 1 as well. One
fault, placed at every step, is what the code's recovery is written for;
`Duplicates` combines it with two operations and with Redis calls that fail.

Of the write-back: a buffer that is full with two results flushes in every way
the code has; two timers are the one that flushes and the one armed meanwhile; a
second process is another writer of the stream. `WriteBack` takes timers,
processes, and results together with their rows, to be interchangeable; nothing
in the module tells them apart.

Of the reports: rows do not interact, so one message is enough; three reports
are a first one, one that contradicts it and a repetition. The flush is the
second process; two tasks side by side are what `DlrFlips` is about. Two retries
stand for twenty, two attempts to mark an id for five. Of the batches: a chunk
of two numbers finds a balance of one, so that it charges one by one, commits its
first row as a portion, and comes back with or without the second; the other
chunk and the retry compete for the same unit and for what is refunded, and its
one valid number is charged at once. Two rows and an updater reach every
branch of the verdict, `Tail` of one included. Of the orders: two numbers are
fought over by three purchases, one of which may be resold what another gave
back; two administrators may refund the same order at once, and each up to twice
its price. Of the callbacks: one slot, one token and a threshold of two are reached by
the two callbacks of the failing endpoint. Of the inbound side: one binding
allowed and two sessions make every second bind an eviction, and `DrainLimit` is
larger than the number of reports there are.

Fairness. Of the gateway (`Fairness`): the goroutines of a delivery go on, the
stale monitor ticks every 5 s, `OnClosed` runs when a session is cut, the rebind
loops repeat until one succeeds, the broker connection is re-established by
`RunConsumerForever`, and the Celery workers and the beat-driven inspector run.
Nothing is assumed of the upstream: it may never answer, and that is why `Age`
is fair: silence ends in the stale monitor. Of the write-back: Celery starts its
processes again and gives them tasks, and their threads run; nobody has to stop
a process. `Written` lets Redis answer: a replay that Redis refuses is only
repeated when the next process starts. Of the others (`FairSpec`): Celery runs
the tasks it has and beat starts the periodic ones, the broker returns what has
waited, keys with an expiry expire, the goroutines of the inbound side run.
Faults, operations of people and whatever upstreams and customers do are never
fair.

## 6. Where the code and its comments disagree

`PauseUndone` is a run that must find the violation, and a finding in
`PROJECT.json`: a paused batch is processing again as soon as a row changes.
`batch_admin.py:5-6` says that resuming ends a pause; `update_batch_progress`
(`batch_utils.py:216-218`) sets every status that is not terminal to PROCESSING.

Further configurations show such disagreements; each is to be run by hand
(`tlc -config X.cfg M`) and ends in a counterexample:

* `DoubleSubmit` (`MCSmppGateway`, `NoSubmitAfterDone`): the duplicate check is
  read once (connector.go:1389), then `SendSMS` waits for up to minutes; a copy
  that passed it is submitted after the first was accepted.
  `outbound_dedup.go:24-25` says that the window is tiny and the mark stops it.
  Without second copies it holds (`AcceptedCorrect`, section 7).
* `LeakedWindow` (`MCSmppGateway`, `EntryIsWatched`): the stale monitor removes
  the entries older than 20 s, closes the session and ends (connector.go:1187).
  The younger ones stay in `sequenceMap` for ever, since gosmpp calls no
  `OnClosed` after an explicit `Close`: their messages get no result and the
  window shrinks, against connector.go:1384.
* `DrainedPool` (`MCSmppGateway`, `NoConnIsTransient`): no session is transient
  in the wait for one (connector.go:1355) and permanent a moment later (1371).
* `BlockedRetry` (`MCSmppGateway`, `RetriedHasCarrier`): a message that was
  accepted and then reported undelivered is retried under its old `message_id`
  (batches.py:977); `submit_done` stops it and the row stays queued, charged
  again, until the inspector expires it. `outbound_dedup.go:37-38` says that
  legal resends are not affected.
* `RemovedUnwritten` (`MCResultWriteback`, `KeptUntilWritten` with two results of
  one row): a flush removes from the buffer by `log_id` (sms_worker.py:2324), so
  it takes along a second result that came after its snapshot, against its
  docstring (2319). The stream still has it.
* `ReplayReverts` (`MCResultWriteback`, `ReplayHarmless`): writing a result once
  more is not harmless (sms_worker.py:2267 against 2340): a row that a report
  concluded in between is "sent" again.
* `DlrFlips` (`DlrPipeline`, `SettledStays`): two tasks with contradicting
  reports read the row before either writes it (the UPDATEs at 1238 and 1248 go
  by id), so a terminal state flips, against `docs/整改排期.md:32`.
* `StockDrifts` (`MCDataOrders`, `StockIsPublic`): the summary is said to be the
  number of public numbers (helpers.py:92-93). A combination, a recycling, a
  cancellation and a refund do not touch it, `buy_to_stock` subtracts from the
  bucket without a batch only, and two sales may both subtract from what they
  have read.
* `SlotLeaks` (`MCWebhookDelivery`, `SlotsAlwaysComeBack`): a worker that dies, or
  loses Redis, between `INCR` and `EXPIRE` leaves a count without an expiry. The
  next `INCR` makes it 2, so nobody sets one again, and the slot is gone for good,
  against the comment of webhook_worker.py:188 (the expiry is there for counts
  leaked by a crash). `SlotsComeBack`, which the run checks, excuses it.
* `SlotsExceeded` (`MCWebhookDelivery`, `PostsBounded`): the count of slots
  expires 60 s after it became one, under those who hold slots, and their
  releases make it negative: a customer may have more posts than
  webhook_worker.py:442 allows.
* `BindsExceed` (`MCSmppInbound`, `BindsBounded`): the count and the addition
  take the registry's lock one after the other, so two binds see the same room,
  against inbound_session.go:229-231.

What else the models show:

* Gateway. An entry can be reported sent by `OnClosed` between `Store` and
  `Submit`, after which the message is requeued all the same (connector.go:1651
  against 997-998; `SentWasSubmitted` fails when sessions break). A second copy
  of a submitted message meets the cancellation before any duplicate check and
  makes the row failed (consumer.go:616 against batches.py:747-748).
* Write-back. A process killed before `XADD` loses its result, because Celery
  acknowledges the task of a lost process and `process_sms_result_task`, unlike
  its siblings, has no `reject_on_worker_lost` (sms_worker.py:2516 against
  2227-2228; counted as `unlogged`). After a failed timer flush no timer is
  armed, so what failed waits for the next result or the end of the process
  (2433 against 2435; this is why `Written` has no database faults).
* Reports. A late "sent" takes a row back from delivered. A database error is
  swallowed, and with it the report (1034-1036). A process that dies takes along
  the report of its task, which was acknowledged when it started (1017): unless
  the upstream repeats the report, and dedup lets it through, the row waits for
  its expiry. When `dlr_fx` cannot be reached
  the effects are left to a retransmission that dedup then drops. The second
  statement of `_expire_in_chunks` overwrites rows that were delivered since.
* Charging. Numbers without "+" defeat the check for rows that exist, so a
  repeated chunk charges and sends them again. A kill or timeout between charge
  and rows burns the money. Rows that failed the checks of a chunk count as
  success, and keep a second failure from being refunded. A broker that refuses
  a batch and an error after it refund rows that are there. In the loop of a low
  balance an error of one number is logged and the number passed over
  (batch_worker.py:1400-1403): it gets no row, was perhaps charged, and its chunk
  ends as done, although no number of a chunk is to be lost (1202-1204) and a
  number without a row keeps its batch from being complete (1443-1444). A row that was
  refunded once and retried is never refunded again. The lock of a retry expires
  under it and is deleted whoever holds it. `_err_code` (batch_worker.py:742)
  raises an AttributeError for errors without `.orig`.
* Progress. The branch for the last 2 % makes a cancelled batch processing again.
  `Align` waits five minutes where a chunk may be repeated after fifty: the total
  is then too small, and the inspector and the synchronisation complete and
  reopen the batch for ever, each refreshing the `updated_at` that expiry waits
  for. `Complete` does not look at failures. A batch without rows never ends. A
  clear sets no `batch:cancelled` in Redis. Counters of a failed or cancelled
  batch may stay wrong.
* Orders. Two concurrent refunds both pass the unlocked check
  (admin_orders.py:186-189), and both pay; `RefundedOnce` excuses them (`raced`).
  What a refund pays is not checked (191): a single one may pay more than the
  price, so no bound on what an account may gain holds. A number
  without `last_used_at` counts as 90 days old. Refunding or cancelling an old
  order frees numbers that were sold again since. An order may be refunded while
  its task sends, and is completed afterwards. A sending that fails is cancelled
  without a refund, and the refund refuses cancelled orders. A deadlock after the
  commit writes and enqueues the rows twice. A lost publication or process leaves
  the order processing, and so does a failed write of the failure, which is only
  logged (data_worker.py:193-200, 861-862) although the comment above it
  (849-850) is about orders that stay processing for ever.
* Callbacks. A half-open breaker lets everybody through, not one probe. A requeue
  that the broker refuses loses the callback. A name that cannot be resolved at the
  moment is treated like a forbidden address: the callback is dropped, once and for
  all (76-79, 373-382); one whose message is not found is dropped too (402-403).
  An error of the database before the post sends a callback up the ladder however
  healthy its endpoint is. A task that runs out of time after its post posts again
  on the next rung. For up to 60 s a new address gets none. Callbacks of one
  message may arrive out of order.
* Inbound. A report saved between another goroutine's choice of a receiver and
  the customer's drain waits although the customer is online. A drain takes 200
  rows once per bind. Two draining sessions push a report twice. A push into a
  dead connection is taken for delivered. A report that cannot be inserted is
  lost. An HTTP timeout answers REJECTD although the message was charged, and its
  real report follows. A restart loses accepted submissions, groups and REJECTD
  reports; a full store drops the segments of the oldest group silently. A
  segment repeated after its group was complete opens a new one that is sent, and
  charged, as a fragment. `publishRejectDLR` swaps the addresses that
  `pushDeliverSM` swaps again (inbound_submit_worker.go:145-146,
  inbound_session.go:528-529).

## 7. Proofs

The theorems hold for every value of the constants: any number of messages,
sessions, processes, customers, any budget and any set of faults, operations and
answers, unless a condition is named. Each proof has the same shape. An inductive
invariant is a conjunction of named parts. One lemma per group of actions, with
one step per action in it, shows that the group keeps it; a lemma `NextSteps`
(or the disjuncts of `Next`) puts the groups together; PTL does the rest. First
comes a typed invariant (`Typed`: `TypeOK` and what it needs to be inductive),
which the invariant of a property then presupposes. The variables that only
bound the model (`faults`, `ops`) play no part in an argument, except where a
theorem counts against them.

### SmppGateway

`SentinelAssumption` (the three sentinels are none of the values they stand
beside) is all that most of the module needs; where entries are counted, it also
uses of `BoundAssumption` that there are finitely many slots.

| Theorem | Condition | Invariant, beside `Typed` |
|---|---|---|
| `TypeCorrect` | none | |
| `NothingForgotten` | none | `Accounted` |
| `OnceUpstreamCorrect`, `FailedCorrect` | `NoSecondCopy` | `Copies` |
| `SentCorrect` | `PromptSubmit` | `Accounted`, `SentIsLive` |
| `TraceCorrect`, `LifecycleImplemented` | `NothingTwice` (both) | `Copies`, `SingleCopies` |
| `AcceptedCorrect` | `NoSecondCopy` | `Copies`, `DoneGone` |

`NoSecondCopy`: the broker connection and the process stay, and nothing is
re-dispatched, requeued or retried. `PromptSubmit`: no session breaks under a
submission, and `Submit` does not block until its entry is old. Neither is stronger
than it has to be: TLC finds `AtMostOnceUpstream`, `FailedNotUpstream` and
`NoSubmitAfterDone` violated with each of link, crash, redispatch, requeue and retry alone,
`SentWasSubmitted` with a broken session or a slow submission, and
`TraceNeverLost` and `FollowsLifecycle` with any of the seven.

* `Typed` is `TypeOK` and `OnHeld`: a payload past `Pick` has a session, which
  `Submit` reads.
* `Accounted` says why an open message has a carrier and keeps one. An untaken
  delivery is at its start (`ReadyIsTodo`), a stored payload owns its slot
  (`KeyOwned`), and a message that is owed an outcome (`Owed`: open, neither lost
  nor retried in place) and has the mark `submit_done` has its result on the way
  (`DoneCovered`), so that skipping a copy because of the mark removes no last
  carrier.
* `Copies` says where the one copy of a message is: in the hands of one delivery,
  or in one entry, and not in both unless it is just being submitted; and of a
  message that failed or got an upstream id, in neither. The copies in `live` are
  bounded by what is still to come.
* `SentIsLive` counts: for each message, the entries that were submitted, the
  results that say sent and a row that says sent are together no more than the
  copies the upstream holds (`SentCounted`). An answer or a reaped entry takes one
  and adds one; a submission adds one on both sides. It needs that only what was
  submitted ages (`AgedIsMade`) and that no session is cut.
* `SingleCopies` puts a message in exactly one place: hand, entry, result, or the
  row that has its outcome. So each row is written once, from an undecided
  status. `LifecycleImplemented` maps `status` of `MessageLifecycle` to `row`:
  `Init` implies its `Init`, the write of a result is `Accept` or `Refuse`, an
  expiry is `GiveUp`, a report `Conclude`, and every other step leaves `row` alone.
* `AcceptedCorrect` says when a property that section 6 refutes does hold. It is
  `NoSubmitAfterDone`: a message with the mark `submit_done` is in no queue, with
  no worker and in no entry (`DoneGone`), because the mark is set when its only
  entry is taken out; so the race of `DoubleSubmit` needs a second copy.

TLC checked these invariants before they were proved: `Copies` with broken
sessions, slow submissions and failing stores (1 543 949 states with two
messages), `SentIsLive` with crashes, link losses, dead publish channels, silence,
reports and all operations but a cancellation (8 610 628), `SingleCopies` with two
messages in three deliveries (319 257), `NoSubmitAfterDone` with one message in two
deliveries, broken and silent sessions, slow submissions, dead publish channels and
a failing Redis (394 795).

### ResultWriteback

From `KindAssumption` (each result has a row; Redis answers or not) and
`SentinelAssumption`.

* `TypeCorrect`. `Typed` adds that a thread that is about to log a result has one
  (`TaskHeld`), without which `Enqueue` could make an entry of nothing.
* `NoResultLost`: `Spec => []NothingLost`. `Safe` adds `OkWritten`: what a
  flush is going to delete from the stream was written. Most steps are covered
  by `QuietStep` (a step that takes no task away and deletes from the stream only
  what is written) and `QuietFlush`; those that are not quiet (`Receive`,
  `Enqueue`, `Bulk`, `Single`, `Kill`) have their own.
* `RowKeptUntilWritten`: an entry leaves the buffer of a running process only when
  a result of its row was written. That holds whoever shares rows.
  `KeptCorrect` is `KeptUntilWritten` itself, where no two results share a row;
  the configuration `RemovedUnwritten` (section 6) shows that this is needed.

### DlrPipeline

From `StatusAssumption`, `ActorAssumption` (the flush is not a worker, `NoReport`
is neither a report nor a status) and `BoundAssumption`.

* `TypeCorrect`, with `TodoWaits`: what a flush has still to look at is in the
  buffer, and is not the entry it is retrying.
* `OnceCorrect`: `DispatchedOnce`. Who is about to set effects off holds the mark
  `dlr_fx`, alone and for the first time (`EffectsClaimed`), and the row has had
  the status of its report (`StatusTaken`).
* `KeptCorrect`: `ReportKept`. Every mark has to be true of the reports it keeps
  out, which is the whole difficulty. `MarksTrue` says what has become of a report
  whose mark is set: it is over (its row is concluded, which no result undoes, or
  it was given up) or, with the mark `dlr_unmatched`, it may also be in the buffer.
  `StepsTrue` says the same of a task that has passed a step, which is why a process
  that dies at the end of its task, or behind the write, loses nothing; before that
  it does, and the report is named in `lost`. `Origins` says that what
  is queued, run or buffered was published.

### DataOrders

From `PurchaseAssumption` (each purchase has a customer, an endpoint and a size)
and `BoundAssumption` (finitely many numbers and administrators).

* `TypeCorrect`, with the types of what transactions, tasks and desks
  remember (`Remembered`).
* `FromPool`: `SoldFromPool`, and `PaidFor`: `NobodyOwnsForFree`. `Sold` says that
  what a transaction has locked is public and locked by it alone (`LocksHold`),
  and that before its commit a purchase has no numbers, no task, no refund and no
  administrator dealing with it (`Uncommitted`).
* `CopiesCorrect`: `CopiesExplained`, from the rows a task has written
  (`CopiesCounted`): before an attempt inserts, the rows that are there are those
  of attempts that were repeated after their commit.
* `RefundsBounded`: each order is paid back at most once by each administrator.
  `RefundsCounted` counts the refunds made and those being decided.
* `RefundCorrect`: `RefundedOnce`, for any number of administrators. Who is about to
  refund an order that nobody raced for is alone, and finds it not refunded
  (`RefundsAlone`).
* `MoneyCorrect`: `BooksBalance`. For every account the balance and the size of
  `Bought` (one unit for each committed order) add up to what it began with and the
  size of `PaidBack` (the units its refunds paid, `paid[p]` for each of its orders),
  so that no sum over orders is needed. A commit adds one unit to `Bought` and takes
  one from the balance, a refund of any amount adds as many units to `PaidBack` as to
  the balance (`UnitsCounted`), and nothing else moves any (`BooksUntouched`).
  `Counted` says that the two sets are finite. `BooksBalance` is of the proofs only.

### SmppInbound

From `SessionAssumption` and `BoundAssumption`.

* `TypeCorrect`, which says that the registry has a session at most once. That a
  removal keeps it so is `RemoveFromDistinct`, a lemma about sequences.
* `KeptCorrect`: `ReportKept`, with `Settled`: what the consumer is about to
  acknowledge was pushed, saved or lost.

### WebhookDelivery

From `CallbackAssumption` and `BoundAssumption`.

* `TypeCorrect`, with the type of the breakers.
* `HealthyCorrect`: `HealthyUnharmed`. The breaker of a customer that answers stays
  closed, since nobody tells it of a failure (`BreakersClosed`). As long as none of
  its own tasks met a fault, its count of slots is not above the callbacks that hold
  one (`SlotsInUse`), through expiries that set it to zero under posts that go on;
  so whoever takes a slot finds one free, and none of its callbacks has to give it
  back, fails, or climbs the ladder (`NeverFailed`).

### BatchProgress

From `RowAssumption` and `BoundAssumption`.

* `TypeCorrect`: every counter is between zero and the number of rows, which needs
  the type of what an updater remembers (`Snap`).
* `CompletedCorrect`: `CompletedIsDone`, although a verdict is based on a read of
  the past. A row with an outcome keeps one; so it is enough that a snapshot that
  leads to completed or failed was taken when every row had one (`SnapsTrue`), and
  for that, that a total is too small only when `Align` made it so (`TotalRight`,
  `ChunksWrite`). `FinishedDone` is the step from counts to rows: if as many rows
  have an outcome as there are, all have.

### BatchCharging

From `NumberAssumption` and `BoundAssumption`.

* `RowsCorrect`, and from it `TypeCorrect`: no balance goes below zero. A row is
  written before it is counted (`WrittenFirst`), and a number has at most one row
  for each fault so far, and one more in the present run (`RowsCounted`); the
  bound of the row counts is therefore a theorem.
* `RefundCorrect`: `RefundedOnce` (`Paid`). `HandedCorrect`: `HandedOnce` (`Handed`:
  what was handed over has a row, which the next run of the chunk sees).
* `MoneyCorrect`: `MoneyBack`. Sums over rows and chunks would be an induction over
  data; so the model keeps the units themselves, the set of the charges that stand
  (`Spent`) and that of the units chunks hold (`InHand`), and the property speaks
  of their cardinalities: a charge of rows adds a set as large as the rows are
  many, a refund removes one element. The loop of a low balance charges for rows
  and for numbers that get none (`SomeCharged`); the latter are burnt. `Accounts` is the equation, `HeldBy` says that a
  chunk holds what it charged for what it has to do, from its charge until its rows
  are written, and `GoodBefore` that a chunk which takes itself for successful
  before it has handed anything over was run before.

### Only model-checked

* Liveness (`Eventually...`, `HealthyServed`, `SlotsComeBack`, `BindGetsWaiting`):
  the prover does not handle liveness under fairness.
* `PauseHolds` is false (section 6).

## 8. Not modelled

* Bind slots, pending binds, the rebind loops and `ReloadChannels` of a channel,
  and the set of consumers: `SmppGateway` has one channel whose sessions come
  back. The two races there are listed as hazards.
* The HTTP side of delivery reports (callbacks, and the pulling of reports in
  `dlr_handler.process_dlr_reports`), HTTP, virtual and RCS channels: requests to
  external services.
* Splitting a batch into chunks, switching the channel of a batch, schedules.
* Prices, credit, recharge, invoices, single messages of the API.
* Imports, ratings and the private library of data products.
* Authentication, rate limits and codecs of the inbound side.
* A Redis that fails half-way through the record of a callback's failure
  (webhook_worker.py:169-172): a count without an expiry, which the next failure
  or success repairs, or a breaker opened one failure late.
* Routing (selection by configuration) and the token buckets other than the
  webhooks': one script reads and writes them.
* Web automation (a browser and external sites), short links, statistics,
  configuration reads, the API's request handling and administration, the front
  end, the bot, deployment. These are most of the repository's lines; they are
  forms, listings and calls to external systems with no protocol of their own.
* gosmpp is vendored; the modules model what the gateway relies on (`Close`,
  `OnClosed`, `Submit` on a closing session).
