----------------------------- MODULE SmppGateway -----------------------------
(***************************************************************************)
(* The outbound path of the SMPP gateway (go-smpp-gateway) for one channel *)
(* and one batch: the deliveries of the queue sms_send_smpp, the workers   *)
(* that process their payloads, the sessions bound to the upstream SMSC,   *)
(* the table of submissions that wait for a SubmitSMResp, the queue of     *)
(* results, and the rows of sms_logs that the Python side writes from      *)
(* them, re-enqueues from and expires.                                     *)
(*                                                                         *)
(* A payload keeps the message it carries and its throttle counter; texts, *)
(* numbers, encodings and the segments of a long message are left out.     *)
(* Clocks are left out too: whatever the code does after a timeout may     *)
(* happen at any moment at which the rest of its condition holds.          *)
(***************************************************************************)
EXTENDS Integers, FiniteSets

CONSTANTS
  Msg,          \* the messages (rows of sms_logs) of the batch
  Delivery,     \* identities of AMQP deliveries that exist at the same time
  Session,      \* identities of SMPP sessions that exist at the same time
  Seq,          \* slots of sequenceMap
  NoSession, NoSeq, NoEntry,
  MaxThrottle,  \* SMPP_THROTTLE_MAX_RETRY
  MaxInflight,  \* max_inflight of the channel
  Concurrency,  \* sessions the channel is configured with
  ResultAlive,  \* BATCH_INSPECT_RESULT_BACKLOG_ALIVE
  RedisUp,      \* what a Redis call may find: TRUE it answers, FALSE it fails
  DbUp,         \* the same for the gateway's status query
  ProbeUp,      \* the same for the inspector's probe of the queue depths
  SlowSubmit,   \* whether gosmpp's Submit may block longer than staleTTL
  FaultKinds, MaxFaults,   \* faults that may happen, and how many of them
  OpKinds, MaxOps          \* operations outside the gateway, and how many
                           \* ("silence" and "receipt" are not counted)

BatchStatus == {"processing", "cancelled"}
OpenStatus == {"pending", "queued"}
Status == OpenStatus \cup {"sent", "failed", "expired", "delivered"}
DeliveryState == {"none", "ready", "busy", "ack", "requeue", "drop"}
Phase == {"absent", "todo", "gated", "conn", "picked", "clear", "stored",
          "ok", "transient", "permanent"}
SessionState == {"none", "up", "doomed", "cut", "closed"}
Entry == [m : Msg, try : 0..MaxThrottle, s : Session, aged : BOOLEAN]
Result == [m : Msg, st : {"sent", "failed"}, id : BOOLEAN]

ASSUME SentinelAssumption ==
  /\ NoSession \notin Session
  /\ NoSeq \notin Seq
  /\ NoEntry \notin Entry

ASSUME BoundAssumption ==
  /\ MaxThrottle \in Nat
  /\ {MaxInflight, Concurrency, ResultAlive, MaxFaults, MaxOps} \subseteq Nat
  /\ IsFiniteSet(Seq)   \* sequence numbers have 32 bits

ASSUME AnswerAssumption ==
  /\ RedisUp \subseteq BOOLEAN
  /\ DbUp \subseteq BOOLEAN
  /\ ProbeUp \subseteq BOOLEAN
  /\ SlowSubmit \in BOOLEAN

VARIABLES
  row,          \* sms_logs.status of each message
  traced,       \* whether sms_logs.upstream_message_id is set
  batch,        \* sms_batches.status
  tasks,        \* messages with a send_sms_task in the Celery queue sms_send
  cancelFlag,   \* Redis batch:cancelled:{id}
  submitDone,   \* Redis submit_done:{message_id}
  redispatched, \* Redis smsc:smpp_redispatch:{message_id}
  dst,          \* state of each delivery: on the broker, at a worker, or decided
  step,         \* how far each payload of a delivery has come
  try,          \* throttle_retry of each payload
  on,           \* the session a payload was given
  key,          \* the slot of sequenceMap a payload was stored under
  seqMap,       \* submissions that wait for their SubmitSMResp
  sess,         \* state of each session object
  pool,         \* m.connections of the channel
  mon,          \* sessions whose stale monitor runs
  results,      \* results published and not yet written to sms_logs
  link,         \* the gateway's connection to RabbitMQ
  pub,          \* its publish channel
  faults, ops,  \* how many faults and operations have happened
  live,         \* history: copies handed to gosmpp and not refused upstream
  lost,         \* history: messages of which the gateway lost the last trace
  retried       \* history: messages retry-failed put back to queued

dbVars == <<row, traced, batch, tasks, retried>>
redisVars == <<cancelFlag, submitDone, redispatched>>
jobVars == <<dst, step, try, on, key>>
bindVars == <<sess, pool, mon>>
outVars == <<results, lost>>
brokerVars == <<link, pub>>
budget == <<faults, ops>>
vars == <<dbVars, redisVars, jobVars, seqMap, bindVars, outVars, brokerVars,
          budget, live>>

-----------------------------------------------------------------------------
(* Helpers *)

Open(m) == row[m] \in OpenStatus
Body(d) == {m \in Msg : step[d][m] # "absent"}
At(d, p) == {m \in Msg : step[d][m] = p}
Working(d, m, p) == dst[d] = "busy" /\ step[d][m] = p
Move(d, m, p) == step' = [step EXCEPT ![d][m] = p]
Entries == {q \in Seq : seqMap[q] # NoEntry}
EntriesOf(s) == {q \in Entries : seqMap[q].s = s}
Messages(Q) == {seqMap[q].m : q \in Q}

\* A sequence number is drawn once, so the slot of a payload that is between
\* Store and Submit is not given to another one.
Reserved(q) == \E d \in Delivery, m \in Msg : step[d][m] = "stored" /\ key[d][m] = q

Outcome(M, st, id) == {[m |-> m, st |-> st, id |-> id] : m \in M}

\* publishSmsSubmitResult: an error is only logged, so the result is gone.
Publish(R) ==
  IF pub THEN results' = results \cup R /\ lost' = lost
         ELSE results' = results /\ lost' = lost \cup {r.m : r \in R}

\* A new delivery e with the payloads M, at the throttle counts t.
Enqueue(e, M, t) ==
  /\ dst[e] = "none"
  /\ dst' = [dst EXCEPT ![e] = "ready"]
  /\ step' = [step EXCEPT ![e] = [m \in Msg |-> IF m \in M THEN "todo" ELSE "absent"]]
  /\ try' = [try EXCEPT ![e] = [m \in Msg |-> IF m \in M THEN t[m] ELSE 0]]

Fresh == [m \in Msg |-> 0]

-----------------------------------------------------------------------------
(* Initial state: the batch was dispatched, each payload in one delivery. *)

Init ==
  /\ row = [m \in Msg |-> "pending"]
  /\ traced = [m \in Msg |-> FALSE]
  /\ batch = "processing"
  /\ tasks = {}
  /\ cancelFlag = FALSE
  /\ submitDone = {}
  /\ redispatched = {}
  /\ \E home \in [Msg -> Delivery] :
       /\ dst = [d \in Delivery |-> IF \E m \in Msg : home[m] = d THEN "ready" ELSE "none"]
       /\ step = [d \in Delivery |-> [m \in Msg |-> IF home[m] = d THEN "todo" ELSE "absent"]]
  /\ try = [d \in Delivery |-> Fresh]
  /\ on = [d \in Delivery |-> [m \in Msg |-> NoSession]]
  /\ key = [d \in Delivery |-> [m \in Msg |-> NoSeq]]
  /\ seqMap = [q \in Seq |-> NoEntry]
  /\ sess = [s \in Session |-> "none"]
  /\ pool = {}
  /\ mon = {}
  /\ results = {}
  /\ link = TRUE
  /\ pub = TRUE
  /\ faults = 0
  /\ ops = 0
  /\ live = [m \in Msg |-> 0]
  /\ lost = {}
  /\ retried = {}

-----------------------------------------------------------------------------
(* The consumer: taking a delivery and the checks before a submission *)

Take(d) ==
  /\ link
  /\ dst[d] = "ready"
  /\ dst' = [dst EXCEPT ![d] = "busy"]
  /\ UNCHANGED <<dbVars, redisVars, step, try, on, key, seqMap, bindVars, outVars,
                 brokerVars, budget, live>>

\* The batch is cancelled: report the message failed and count it as handled.
SkipCancelled(d, m) ==
  /\ Working(d, m, "todo")
  /\ TRUE \in RedisUp /\ cancelFlag
  /\ Publish(Outcome({m}, "failed", FALSE))
  /\ Move(d, m, "ok")
  /\ UNCHANGED <<dbVars, redisVars, dst, try, on, key, seqMap, bindVars, brokerVars,
                 budget, live>>

\* The row has left pending/queued, or this message was accepted upstream.
SkipDone(d, m) ==
  /\ Working(d, m, "todo")
  /\ cancelFlag => FALSE \in RedisUp
  /\ \/ TRUE \in DbUp /\ ~Open(m)
     \/ TRUE \in RedisUp /\ m \in submitDone
  /\ Move(d, m, "ok")
  /\ UNCHANGED <<dbVars, redisVars, dst, try, on, key, seqMap, bindVars, outVars,
                 brokerVars, budget, live>>

\* Every check passes, or fails open because its store does not answer.
PassGate(d, m) ==
  /\ Working(d, m, "todo")
  /\ cancelFlag => FALSE \in RedisUp
  /\ ~Open(m) => FALSE \in DbUp
  /\ m \in submitDone => FALSE \in RedisUp
  /\ Move(d, m, "gated")
  /\ UNCHANGED <<dbVars, redisVars, dst, try, on, key, seqMap, bindVars, outVars,
                 brokerVars, budget, live>>

-----------------------------------------------------------------------------
(* SendSMS *)

SeeConn(d, m) ==
  /\ Working(d, m, "gated")
  /\ pool # {}
  /\ Move(d, m, "conn")
  /\ UNCHANGED <<dbVars, redisVars, dst, try, on, key, seqMap, bindVars, outVars,
                 brokerVars, budget, live>>

NoConnTimeout(d, m) ==
  /\ Working(d, m, "gated")
  /\ pool = {}
  /\ Move(d, m, "transient")
  /\ UNCHANGED <<dbVars, redisVars, dst, try, on, key, seqMap, bindVars, outVars,
                 brokerVars, budget, live>>

\* The pool was emptied after the wait had seen a session.
PoolDrained(d, m) ==
  /\ Working(d, m, "conn")
  /\ pool = {}
  /\ Publish(Outcome({m}, "failed", FALSE))
  /\ Move(d, m, "permanent")
  /\ UNCHANGED <<dbVars, redisVars, dst, try, on, key, seqMap, bindVars, brokerVars,
                 budget, live>>

Pick(d, m, s) ==
  /\ Working(d, m, "conn")
  /\ s \in pool
  /\ Move(d, m, "picked")
  /\ on' = [on EXCEPT ![d][m] = s]
  /\ UNCHANGED <<dbVars, redisVars, dst, try, key, seqMap, bindVars, outVars,
                 brokerVars, budget, live>>

WindowOpen(d, m) ==
  /\ Working(d, m, "picked")
  /\ Cardinality(Entries) < MaxInflight
  /\ Move(d, m, "clear")
  /\ UNCHANGED <<dbVars, redisVars, dst, try, on, key, seqMap, bindVars, outVars,
                 brokerVars, budget, live>>

WindowFull(d, m) ==
  /\ Working(d, m, "picked")
  /\ Cardinality(Entries) >= MaxInflight
  /\ Move(d, m, "transient")
  /\ on' = [on EXCEPT ![d][m] = NoSession]
  /\ UNCHANGED <<dbVars, redisVars, dst, try, key, seqMap, bindVars, outVars,
                 brokerVars, budget, live>>

\* The message cannot be encoded, or the session has no transmitter.
LocalReject(d, m) ==
  /\ Working(d, m, "clear")
  /\ Publish(Outcome({m}, "failed", FALSE))
  /\ Move(d, m, "permanent")
  /\ on' = [on EXCEPT ![d][m] = NoSession]
  /\ UNCHANGED <<dbVars, redisVars, dst, try, key, seqMap, bindVars, brokerVars,
                 budget, live>>

\* submitOneAndTrack stores the entry first ...
Store(d, m, q) ==
  /\ Working(d, m, "clear")
  /\ seqMap[q] = NoEntry
  /\ ~Reserved(q)
  /\ seqMap' = [seqMap EXCEPT ![q] =
                  [m |-> m, try |-> try[d][m], s |-> on[d][m], aged |-> FALSE]]
  /\ key' = [key EXCEPT ![d][m] = q]
  /\ Move(d, m, "stored")
  /\ UNCHANGED <<dbVars, redisVars, dst, try, on, bindVars, outVars, brokerVars,
                 budget, live>>

\* What must not happen: the mark is set with the submission, so a throttled
\* message, which comes back, is taken for a duplicate.
SubmitMarks(d, m) ==
  /\ Working(d, m, "stored")
  /\ sess[on[d][m]] \in {"up", "doomed"}
  /\ Move(d, m, "ok")
  /\ on' = [on EXCEPT ![d][m] = NoSession]
  /\ key' = [key EXCEPT ![d][m] = NoSeq]
  /\ live' = [live EXCEPT ![m] = @ + 1]
  /\ submitDone' = submitDone \cup {m}
  /\ UNCHANGED <<dbVars, cancelFlag, redispatched, dst, try, seqMap, bindVars, outVars,
                 brokerVars, budget>>

\* ... and submits then: gosmpp takes the PDU into its write queue ...
Submit(d, m) ==
  /\ Working(d, m, "stored")
  /\ sess[on[d][m]] \in {"up", "doomed"}
  /\ Move(d, m, "ok")
  /\ on' = [on EXCEPT ![d][m] = NoSession]
  /\ key' = [key EXCEPT ![d][m] = NoSeq]
  /\ live' = [live EXCEPT ![m] = @ + 1]
  /\ UNCHANGED <<dbVars, redisVars, dst, try, seqMap, bindVars, outVars, brokerVars,
                 budget>>

\* ... or answers that the session is closing.
SubmitClosing(d, m) ==
  /\ Working(d, m, "stored")
  /\ sess[on[d][m]] \notin {"up", "doomed"}
  /\ Move(d, m, "transient")
  /\ seqMap' = [seqMap EXCEPT ![key[d][m]] = NoEntry]
  /\ on' = [on EXCEPT ![d][m] = NoSession]
  /\ key' = [key EXCEPT ![d][m] = NoSeq]
  /\ UNCHANGED <<dbVars, redisVars, dst, try, bindVars, outVars, brokerVars, budget,
                 live>>

-----------------------------------------------------------------------------
(* The end of a delivery *)

Finished(d) ==
  /\ dst[d] = "busy"
  /\ \A m \in Body(d) : step[d][m] \in {"ok", "transient", "permanent"}
Single(d) == \E m \in Msg : Body(d) = {m}
\* What must not happen: a transient error is acknowledged.
VerdictAcks == [ok |-> "ack", transient |-> "ack", permanent |-> "drop"]
Verdict == [ok |-> "ack", transient |-> "requeue", permanent |-> "drop"]

FinishSingle(d) ==
  /\ Finished(d)
  /\ \E m \in Msg : /\ Body(d) = {m}
                    /\ dst' = [dst EXCEPT ![d] = Verdict[step[d][m]]]
  /\ UNCHANGED <<dbVars, redisVars, step, try, on, key, seqMap, bindVars, outVars,
                 brokerVars, budget, live>>

FinishBulk(d) ==
  /\ Finished(d) /\ ~Single(d)
  /\ At(d, "transient") = {}
  /\ dst' = [dst EXCEPT ![d] = "ack"]
  /\ UNCHANGED <<dbVars, redisVars, step, try, on, key, seqMap, bindVars, outVars,
                 brokerVars, budget, live>>

\* What must not happen: the delivery goes back with everything in it.
FinishRepublishAll(d, e) ==
  /\ Finished(d) /\ ~Single(d)
  /\ At(d, "transient") # {}
  /\ pub
  /\ dst[e] = "none"
  /\ dst' = [dst EXCEPT ![d] = "ack", ![e] = "ready"]
  /\ step' = [step EXCEPT ![e] =
                [m \in Msg |-> IF m \in Body(d) THEN "todo" ELSE "absent"]]
  /\ try' = [try EXCEPT ![e] = try[d]]
  /\ UNCHANGED <<dbVars, redisVars, on, key, seqMap, bindVars, outVars, brokerVars,
                 budget, live>>

\* The transient payloads go back as a delivery e of their own.
FinishRepublish(d, e) ==
  /\ Finished(d) /\ ~Single(d)
  /\ At(d, "transient") # {}
  /\ pub
  /\ dst[e] = "none"
  /\ dst' = [dst EXCEPT ![d] = "ack", ![e] = "ready"]
  /\ step' = [step EXCEPT ![e] =
                [m \in Msg |-> IF step[d][m] = "transient" THEN "todo" ELSE "absent"]]
  /\ try' = [try EXCEPT ![e] =
                [m \in Msg |-> IF step[d][m] = "transient" THEN try[d][m] ELSE 0]]
  /\ UNCHANGED <<dbVars, redisVars, on, key, seqMap, bindVars, outVars, brokerVars,
                 budget, live>>

\* The republish failed: the whole delivery goes back if nothing of it was
\* handled, otherwise the transient payloads are given up.
FinishNoRepublish(d) ==
  /\ Finished(d) /\ ~Single(d)
  /\ At(d, "transient") # {}
  /\ ~pub
  /\ \/ /\ At(d, "transient") = Body(d)
        /\ dst' = [dst EXCEPT ![d] = "requeue"]
        /\ lost' = lost
     \/ /\ At(d, "transient") # Body(d)
        /\ dst' = [dst EXCEPT ![d] = "ack"]
        /\ lost' = lost \cup At(d, "transient")
  /\ UNCHANGED <<dbVars, redisVars, step, try, on, key, seqMap, bindVars, results,
                 brokerVars, budget, live>>

\* The ack goroutine tells the broker. Without a connection the broker has
\* taken the delivery back already and will deliver it again.
Settle(d) ==
  /\ dst[d] \in {"ack", "requeue", "drop"}
  /\ \/ /\ link /\ dst[d] # "requeue"
        /\ dst' = [dst EXCEPT ![d] = "none"]
        /\ step' = [step EXCEPT ![d] = [m \in Msg |-> "absent"]]
        /\ try' = [try EXCEPT ![d] = Fresh]
     \/ /\ ~link \/ dst[d] = "requeue"
        /\ dst' = [dst EXCEPT ![d] = "ready"]
        /\ step' = [step EXCEPT ![d] =
                      [m \in Msg |-> IF m \in Body(d) THEN "todo" ELSE "absent"]]
        /\ try' = try
  /\ UNCHANGED <<dbVars, redisVars, on, key, seqMap, bindVars, outVars, brokerVars,
                 budget, live>>

-----------------------------------------------------------------------------
(* OnPDU: the SubmitSMResp of the submission in slot q *)

Answerable(q) ==
  /\ seqMap[q] # NoEntry
  /\ ~Reserved(q)
  /\ sess[seqMap[q].s] \in {"up", "doomed"}

\* What must not happen: the entry outlives its response.
RespOkKeeps(q) ==
  /\ Answerable(q)
  /\ LET m == seqMap[q].m IN
       /\ \E redis \in RedisUp :
            submitDone' = IF redis THEN submitDone \cup {m} ELSE submitDone
       /\ Publish(Outcome({m}, "sent", TRUE))
  /\ UNCHANGED <<dbVars, cancelFlag, redispatched, jobVars, seqMap, bindVars, brokerVars,
                 budget, live>>

RespOk(q) ==
  /\ Answerable(q)
  /\ LET m == seqMap[q].m IN
       /\ \E redis \in RedisUp :
            submitDone' = IF redis THEN submitDone \cup {m} ELSE submitDone
       /\ Publish(Outcome({m}, "sent", TRUE))
  /\ seqMap' = [seqMap EXCEPT ![q] = NoEntry]
  /\ UNCHANGED <<dbVars, cancelFlag, redispatched, jobVars, bindVars, brokerVars,
                 budget, live>>

\* What must not happen: the retry is counted after the comparison with the
\* limit, so a payload goes round once more than SMPP_THROTTLE_MAX_RETRY.
RespThrottledLate(q, e) ==
  /\ Answerable(q)
  /\ seqMap[q].try <= MaxThrottle
  /\ pub
  /\ LET m == seqMap[q].m IN
       /\ Enqueue(e, {m}, [x \in Msg |-> seqMap[q].try + 1])
       /\ live' = [live EXCEPT ![m] = @ - 1]
  /\ seqMap' = [seqMap EXCEPT ![q] = NoEntry]
  /\ UNCHANGED <<dbVars, redisVars, on, key, bindVars, outVars, brokerVars, budget>>

\* Status 88: the payload goes back to the queue, one retry older.
RespThrottled(q, e) ==
  /\ Answerable(q)
  /\ seqMap[q].try < MaxThrottle
  /\ pub
  /\ LET m == seqMap[q].m IN
       /\ Enqueue(e, {m}, [x \in Msg |-> seqMap[q].try + 1])
       /\ live' = [live EXCEPT ![m] = @ - 1]
  /\ seqMap' = [seqMap EXCEPT ![q] = NoEntry]
  /\ UNCHANGED <<dbVars, redisVars, on, key, bindVars, outVars, brokerVars, budget>>

\* Any other status; also status 88 when the retries are used up or the
\* republish fails.
RespRefused(q) ==
  /\ Answerable(q)
  /\ LET m == seqMap[q].m IN
       /\ Publish(Outcome({m}, "failed", FALSE))
       /\ live' = [live EXCEPT ![m] = @ - 1]
  /\ seqMap' = [seqMap EXCEPT ![q] = NoEntry]
  /\ UNCHANGED <<dbVars, redisVars, jobVars, bindVars, brokerVars, budget>>

-----------------------------------------------------------------------------
(* Sessions: bind, stale monitor, OnClosed, watchdog *)

Dead(s) ==
  /\ sess[s] = "closed" /\ s \notin pool
  /\ EntriesOf(s) = {}
  /\ \A d \in Delivery, m \in Msg : on[d][m] # s

Bind(s) ==
  /\ sess[s] = "none" \/ Dead(s)
  /\ Cardinality(pool) < Concurrency
  /\ sess' = [sess EXCEPT ![s] = "up"]
  /\ pool' = pool \cup {s}
  /\ mon' = mon \cup {s}
  /\ UNCHANGED <<dbVars, redisVars, jobVars, seqMap, outVars, brokerVars, budget, live>>

\* What must not happen: the age counts before the submission.
AgeEarly(q) ==
  /\ "silence" \in FaultKinds
  /\ seqMap[q] # NoEntry
  /\ ~seqMap[q].aged
  /\ seqMap' = [seqMap EXCEPT ![q].aged = TRUE]
  /\ UNCHANGED <<dbVars, redisVars, jobVars, bindVars, outVars, brokerVars, budget, live>>

\* The upstream stays silent for staleTTL about the submission in slot q.
Age(q) ==
  /\ "silence" \in FaultKinds
  /\ seqMap[q] # NoEntry
  /\ ~seqMap[q].aged
  /\ Reserved(q) => SlowSubmit
  /\ seqMap' = [seqMap EXCEPT ![q].aged = TRUE]
  /\ UNCHANGED <<dbVars, redisVars, jobVars, bindVars, outVars, brokerVars, budget, live>>

StaleOf(s) == {q \in EntriesOf(s) : seqMap[q].aged}

\* What must not happen: the aged submissions count as failed.
StaleReapFails(s) ==
  /\ s \in mon
  /\ StaleOf(s) # {}
  /\ Publish(Outcome(Messages(StaleOf(s)), "failed", FALSE))
  /\ seqMap' = [q \in Seq |-> IF q \in StaleOf(s) THEN NoEntry ELSE seqMap[q]]
  /\ pool' = pool \ {s}
  /\ mon' = mon \ {s}
  /\ sess' = IF sess[s] = "up" THEN [sess EXCEPT ![s] = "doomed"] ELSE sess
  /\ UNCHANGED <<dbVars, redisVars, jobVars, brokerVars, budget, live>>

\* The stale monitor reports the aged submissions as sent, takes the session
\* out of the pool and ends ...
StaleReap(s) ==
  /\ s \in mon
  /\ StaleOf(s) # {}
  /\ Publish(Outcome(Messages(StaleOf(s)), "sent", FALSE))
  /\ seqMap' = [q \in Seq |-> IF q \in StaleOf(s) THEN NoEntry ELSE seqMap[q]]
  /\ pool' = pool \ {s}
  /\ mon' = mon \ {s}
  /\ sess' = IF sess[s] = "up" THEN [sess EXCEPT ![s] = "doomed"] ELSE sess
  /\ UNCHANGED <<dbVars, redisVars, jobVars, brokerVars, budget, live>>

\* ... after closing the session, for which gosmpp calls no OnClosed.
StaleClose(s) ==
  /\ sess[s] = "doomed"
  /\ sess' = [sess EXCEPT ![s] = "closed"]
  /\ UNCHANGED <<dbVars, redisVars, jobVars, seqMap, pool, mon, outVars, brokerVars,
                 budget, live>>

Fault(kind) ==
  /\ kind \in FaultKinds
  /\ faults < MaxFaults
  /\ faults' = faults + 1
  /\ ops' = ops

\* The connection of a session breaks and gosmpp notices ...
Cut(s) ==
  /\ Fault("cut")
  /\ sess[s] \in {"up", "doomed"}
  /\ sess' = [sess EXCEPT ![s] = "cut"]
  /\ UNCHANGED <<dbVars, redisVars, jobVars, seqMap, pool, mon, outVars, brokerVars, live>>

\* ... and calls OnClosed, which reports every submission of the session as
\* sent. The stale monitor of the session goes on.
OnClosed(s) ==
  /\ sess[s] = "cut"
  /\ Publish(Outcome(Messages(EntriesOf(s)), "sent", FALSE))
  /\ seqMap' = [q \in Seq |-> IF q \in EntriesOf(s) THEN NoEntry ELSE seqMap[q]]
  /\ pool' = pool \ {s}
  /\ sess' = [sess EXCEPT ![s] = "closed"]
  /\ UNCHANGED <<dbVars, redisVars, jobVars, mon, brokerVars, budget, live>>

\* The watchdog closes a session that has been silent for 90 s ...
WatchdogClose(s) ==
  /\ Fault("watchdog")
  /\ s \in pool /\ sess[s] = "up"
  /\ sess' = [sess EXCEPT ![s] = "closed"]
  /\ UNCHANGED <<dbVars, redisVars, jobVars, seqMap, pool, mon, outVars, brokerVars, live>>

\* What must not happen: the closed session stays in the pool.
WatchdogForgets(s) ==
  /\ s \in pool /\ sess[s] = "closed"
  /\ UNCHANGED vars

\* ... and takes it out of the pool 5 s later.
WatchdogSweep(s) ==
  /\ s \in pool /\ sess[s] = "closed"
  /\ pool' = pool \ {s}
  /\ UNCHANGED <<dbVars, redisVars, jobVars, seqMap, sess, mon, outVars, brokerVars,
                 budget, live>>

-----------------------------------------------------------------------------
(* Broker connection and process *)

LinkLoss ==
  /\ Fault("link")
  /\ link
  /\ link' = FALSE /\ pub' = FALSE
  /\ UNCHANGED <<dbVars, redisVars, jobVars, seqMap, bindVars, outVars, live>>

\* Only the publish channel dies. Nobody is notified of it.
PubDies ==
  /\ Fault("pub")
  /\ pub
  /\ pub' = FALSE
  /\ UNCHANGED <<dbVars, redisVars, jobVars, seqMap, bindVars, outVars, link, live>>

\* The next consumer session begins when the workers of the last one are done.
LinkUp ==
  /\ ~link
  /\ \A d \in Delivery : dst[d] \in {"none", "ready"}
  /\ link' = TRUE /\ pub' = TRUE
  /\ UNCHANGED <<dbVars, redisVars, jobVars, seqMap, bindVars, outVars, budget, live>>

\* The process dies and starts again: what it had not acknowledged is
\* delivered again, sequenceMap and the sessions are gone.
Crash ==
  /\ Fault("crash")
  /\ dst' = [d \in Delivery |-> IF dst[d] = "none" THEN "none" ELSE "ready"]
  /\ step' = [d \in Delivery |-> [m \in Msg |->
                IF step[d][m] = "absent" THEN "absent" ELSE "todo"]]
  /\ on' = [d \in Delivery |-> [m \in Msg |-> NoSession]]
  /\ key' = [d \in Delivery |-> [m \in Msg |-> NoSeq]]
  /\ lost' = lost \cup Messages(Entries)
  /\ seqMap' = [q \in Seq |-> NoEntry]
  /\ sess' = [s \in Session |-> "none"]
  /\ pool' = {} /\ mon' = {}
  /\ link' = TRUE /\ pub' = TRUE
  /\ UNCHANGED <<dbVars, redisVars, try, results, live>>

-----------------------------------------------------------------------------
(* The Python side *)

\* process_sms_result_task: the row takes the result, whatever it held.
WriteResult(r) ==
  /\ r \in results
  /\ row' = [row EXCEPT ![r.m] = r.st]
  /\ traced' = [traced EXCEPT ![r.m] = r.id]
  /\ results' = results \ {r}
  /\ UNCHANGED <<batch, tasks, retried, redisVars, jobVars, seqMap, bindVars, lost,
                 brokerVars, budget, live>>

\* send_sms_task hands an open message over to sms_send_smpp ...
SendTask(m, e) ==
  /\ m \in tasks
  /\ Open(m) /\ batch = "processing"
  /\ row' = [row EXCEPT ![m] = "queued"]
  /\ tasks' = tasks \ {m}
  /\ Enqueue(e, {m}, Fresh)
  /\ UNCHANGED <<traced, batch, retried, redisVars, on, key, seqMap, bindVars, outVars,
                 brokerVars, budget, live>>

\* ... fails it (batch cancelled, licence, blacklist, no channel, queue error) ...
SendTaskFails(m) ==
  /\ m \in tasks
  /\ Open(m)
  /\ row' = [row EXCEPT ![m] = "failed"]
  /\ tasks' = tasks \ {m}
  /\ UNCHANGED <<traced, batch, retried, redisVars, jobVars, seqMap, bindVars, outVars,
                 brokerVars, budget, live>>

\* ... or skips one that has been decided.
SendTaskSkips(m) ==
  /\ m \in tasks
  /\ ~Open(m)
  /\ tasks' = tasks \ {m}
  /\ UNCHANGED <<row, traced, batch, retried, redisVars, jobVars, seqMap, bindVars,
                 outVars, brokerVars, budget, live>>

Operation(kind) ==
  /\ kind \in OpKinds
  /\ ops < MaxOps
  /\ ops' = ops + 1
  /\ faults' = faults

\* The depth the inspector measures; -1 when the probe fails.
Lagging == Cardinality(results) > ResultAlive
InFlight == \E d \in Delivery : dst[d] # "none"

\* The inspector enqueues pending messages of the batch a second time.
Redispatch(M, e) ==
  /\ Operation("redispatch")
  /\ M # {} /\ \A m \in M : row[m] = "pending"
  /\ batch = "processing"
  /\ Lagging => FALSE \in ProbeUp
  /\ \/ TRUE \in RedisUp /\ M \cap redispatched = {} /\ redispatched' = redispatched \cup M
     \/ FALSE \in RedisUp /\ redispatched' = redispatched
  /\ Enqueue(e, M, Fresh)
  /\ UNCHANGED <<dbVars, cancelFlag, submitDone, on, key, seqMap, bindVars, outVars,
                 brokerVars, live>>

\* What must not happen: the inspector decides messages that are decided.
ExpireAll ==
  /\ batch = "processing"
  /\ \E m \in Msg : Open(m)
  /\ InFlight \/ Lagging => FALSE \in ProbeUp
  /\ row' = [m \in Msg |-> "expired"]
  /\ UNCHANGED <<traced, batch, tasks, retried, redisVars, jobVars, seqMap, bindVars,
                 outVars, brokerVars, budget, live>>

\* The inspector gives up on the open messages of an idle batch.
Expire ==
  /\ batch = "processing"
  /\ \E m \in Msg : Open(m)
  /\ InFlight \/ Lagging => FALSE \in ProbeUp
  /\ row' = [m \in Msg |-> IF Open(m) THEN "expired" ELSE row[m]]
  /\ UNCHANGED <<traced, batch, tasks, retried, redisVars, jobVars, seqMap, bindVars,
                 outVars, brokerVars, budget, live>>

\* cancel_batch: the row first, the Redis flag after it, if Redis answers.
Cancel ==
  /\ Operation("cancel")
  /\ batch' = "cancelled"
  /\ \E redis \in RedisUp : cancelFlag' = (cancelFlag \/ redis)
  /\ UNCHANGED <<row, traced, tasks, retried, submitDone, redispatched, jobVars, seqMap,
                 bindVars, outVars, brokerVars, live>>

\* retry-failed: messages that failed or expired are queued again, under
\* their old message_id.
RetryFailed(M) ==
  /\ Operation("retry")
  /\ batch = "processing"
  /\ M # {} /\ \A m \in M : row[m] \in {"failed", "expired"}
  /\ row' = [m \in Msg |-> IF m \in M THEN "queued" ELSE row[m]]
  /\ traced' = [m \in Msg |-> traced[m] /\ m \notin M]
  /\ tasks' = tasks \cup M
  /\ retried' = retried \cup M
  /\ UNCHANGED <<batch, redisVars, jobVars, seqMap, bindVars, outVars, brokerVars, live>>

\* requeue-queued: a task for every open message.
RequeueQueued ==
  /\ Operation("requeue")
  /\ batch = "processing"
  /\ \E m \in Msg : Open(m)
  /\ tasks' = tasks \cup {m \in Msg : Open(m)}
  /\ UNCHANGED <<row, traced, batch, retried, redisVars, jobVars, seqMap, bindVars,
                 outVars, brokerVars, live>>

\* A delivery report finds the row by its upstream id.
Receipt(m, verdict) ==
  /\ "receipt" \in OpKinds
  /\ row[m] = "sent" /\ traced[m]
  /\ row' = [row EXCEPT ![m] = verdict]
  /\ live' = IF verdict = "failed" THEN [live EXCEPT ![m] = @ - 1] ELSE live
  /\ UNCHANGED <<traced, batch, tasks, retried, redisVars, jobVars, seqMap, bindVars,
                 outVars, brokerVars, budget>>

-----------------------------------------------------------------------------
Consume(d, m) ==
  \/ SkipCancelled(d, m) \/ SkipDone(d, m) \/ PassGate(d, m)
  \/ SeeConn(d, m) \/ NoConnTimeout(d, m) \/ PoolDrained(d, m)
  \/ \E s \in Session : Pick(d, m, s)
  \/ WindowOpen(d, m) \/ WindowFull(d, m) \/ LocalReject(d, m)
  \/ \E q \in Seq : Store(d, m, q)
  \/ Submit(d, m) \/ SubmitClosing(d, m)

Deliver(d) ==
  \/ Take(d)
  \/ FinishSingle(d) \/ FinishBulk(d)
  \/ \E e \in Delivery : FinishRepublish(d, e)
  \/ FinishNoRepublish(d)
  \/ Settle(d)

Respond(q) ==
  \/ RespOk(q)
  \/ \E e \in Delivery : RespThrottled(q, e)
  \/ RespRefused(q)

SessionStep(s) ==
  \/ Bind(s) \/ StaleReap(s) \/ StaleClose(s)
  \/ Cut(s) \/ OnClosed(s)
  \/ WatchdogClose(s) \/ WatchdogSweep(s)

Python ==
  \/ \E r \in results : WriteResult(r)
  \/ \E m \in Msg, e \in Delivery : SendTask(m, e)
  \/ \E m \in Msg : SendTaskFails(m) \/ SendTaskSkips(m)
  \/ \E M \in SUBSET Msg, e \in Delivery : Redispatch(M, e)
  \/ Expire \/ Cancel \/ RequeueQueued
  \/ \E M \in SUBSET Msg : RetryFailed(M)
  \/ \E m \in Msg, verdict \in {"delivered", "failed"} : Receipt(m, verdict)

Next ==
  \/ \E d \in Delivery, m \in Msg : Consume(d, m)
  \/ \E d \in Delivery : Deliver(d)
  \/ \E q \in Seq : Respond(q) \/ Age(q)
  \/ \E s \in Session : SessionStep(s)
  \/ LinkLoss \/ PubDies \/ LinkUp \/ Crash
  \/ Python

Spec == Init /\ [][Next]_vars

\* The goroutines of the gateway run, the stale monitor ticks, binds are
\* retried until one succeeds, the broker connection comes back, the Celery
\* workers and the inspector run. Nothing is assumed of the upstream.
Fairness ==
  /\ \A d \in Delivery, m \in Msg : WF_vars(Consume(d, m))
  /\ \A d \in Delivery : WF_vars(Deliver(d))
  /\ \A q \in Seq : WF_vars(Age(q))
  /\ \A s \in Session : /\ WF_vars(StaleReap(s))
                        /\ WF_vars(StaleClose(s) \/ OnClosed(s) \/ WatchdogSweep(s))
  /\ WF_vars(\E s \in Session : Bind(s))
  /\ WF_vars(LinkUp)
  /\ \A m \in Msg : /\ WF_vars(\E r \in results : r.m = m /\ WriteResult(r))
                    /\ WF_vars(\/ \E e \in Delivery : SendTask(m, e)
                               \/ SendTaskFails(m) \/ SendTaskSkips(m))
  /\ WF_vars(Expire)

FairSpec == Spec /\ Fairness

-----------------------------------------------------------------------------
(* Properties *)

\* Every variable has its type; no payload, on its way or waiting for its
\* response, has been throttled more often than SMPP_THROTTLE_MAX_RETRY allows
\* (connector.go:856 compares the counter before it republishes).
TypeOK ==
  /\ row \in [Msg -> Status]
  /\ traced \in [Msg -> BOOLEAN]
  /\ batch \in BatchStatus
  /\ tasks \subseteq Msg
  /\ cancelFlag \in BOOLEAN
  /\ submitDone \subseteq Msg
  /\ redispatched \subseteq Msg
  /\ dst \in [Delivery -> DeliveryState]
  /\ step \in [Delivery -> [Msg -> Phase]]
  /\ try \in [Delivery -> [Msg -> 0..MaxThrottle]]
  /\ on \in [Delivery -> [Msg -> Session \cup {NoSession}]]
  /\ key \in [Delivery -> [Msg -> Seq \cup {NoSeq}]]
  /\ seqMap \in [Seq -> Entry \cup {NoEntry}]
  /\ sess \in [Session -> SessionState]
  /\ pool \subseteq Session
  /\ mon \subseteq Session
  /\ results \subseteq Result
  /\ link \in BOOLEAN
  /\ pub \in BOOLEAN
  /\ faults \in Nat
  /\ ops \in Nat
  /\ live \in [Msg -> Int]
  /\ lost \subseteq Msg
  /\ retried \subseteq Msg

\* Delivery d still has to bring message m to an end.
Holds(d, m) ==
  \/ dst[d] \in {"ready", "requeue"} /\ step[d][m] # "absent"
  \/ /\ dst[d] = "busy"
     /\ step[d][m] \in {"todo", "gated", "conn", "picked", "clear", "transient"}
Reported(m) == \E r \in results : r.m = m
Carried(m) == \/ m \in tasks
              \/ \E d \in Delivery : Holds(d, m)
              \/ \E q \in Entries : seqMap[q].m = m
              \/ Reported(m)

\* No message is forgotten (the accounting of consumer.go, connector.go and
\* the re-enqueueing paths): as long as its row is open, the message is in a
\* queue, at a worker, waiting for its response, or its result is on the way,
\* unless the gateway died with it or could not publish what became of it, or
\* it was retried in place.
OpenHasCarrier ==
  \A m \in Msg : Open(m) /\ m \notin lost /\ m \notin retried => Carried(m)

\* A message is in the hands of the upstream at most once: no second copy is
\* handed to gosmpp while one was handed over and not refused
\* (outbound_dedup.go:16).
AtMostOnceUpstream == \A m \in Msg : live[m] <= 1

\* A row says failed only of a message that no upstream session holds
\* (processSingleSMSData and OnPDU publish "failed" only for copies that were
\* not, or are no longer, with the upstream).
FailedNotUpstream == \A m \in Msg : row[m] = "failed" => live[m] <= 0

\* A row says sent only of a message that was handed to the upstream
\* (connector.go:997: the orphan is marked sent because its PDU has reached
\* the SMSC).
SentWasSubmitted == \A m \in Msg : row[m] = "sent" => live[m] >= 1

\* The upstream id of a message, once written, is not overwritten: a later
\* result would cut the message off from its delivery reports
\* (_apply_sms_result_row_to_db writes it unconditionally).
TraceNeverLost == [][\A m \in Msg : traced[m] => traced'[m]]_vars

\* A second copy is stopped once the first was accepted
\* (outbound_dedup.go:24-25: the check before the submission stops it).
NoSubmitAfterDone ==
  [][\A m \in Msg : m \in submitDone => live'[m] <= live[m]]_vars

\* Every submission that waits has someone to end the wait: its session is
\* alive, its OnClosed is due, or its stale monitor runs
\* (connector.go:1384: the stale monitor empties the window).
EntryIsWatched ==
  \A q \in Seq : seqMap[q] # NoEntry /\ ~Reserved(q) =>
    \/ sess[seqMap[q].s] \in {"up", "doomed", "cut"}
    \/ seqMap[q].s \in mon

\* A channel without sessions makes a message transient, not failed
\* (connector.go:1355).
NoConnIsTransient ==
  [][\A d \in Delivery, m \in Msg :
       step[d][m] \in {"gated", "conn"} /\ pool = {} => step'[d][m] # "permanent"]_vars

\* A message retried in place is sent again: it has a carrier until its row
\* is decided (outbound_dedup.go:37-38: the mark does not hit legal resends).
RetriedHasCarrier ==
  \A m \in retried : Open(m) /\ m \notin lost => Carried(m)

\* The rows follow the life cycle of MessageLifecycle: one result decides a
\* message, also after it expired, and a delivery report only what was sent.
Lifecycle == INSTANCE MessageLifecycle WITH status <- row
FollowsLifecycle == Lifecycle!Spec

\* Every message is decided in the end, by a result or by the inspector.
EventuallyResolved == \A m \in Msg : Open(m) ~> ~Open(m)

=============================================================================
