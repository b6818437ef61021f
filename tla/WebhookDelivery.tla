--------------------------- MODULE WebhookDelivery ---------------------------
(***************************************************************************)
(* Telling customers what became of their messages. A callback is a Celery *)
(* task, acknowledged when it starts. It passes the rate limit and the     *)
(* circuit breaker of its account, takes one of the account's slots and    *)
(* posts. Throttled it comes back soon; failed it climbs a ladder of delay *)
(* queues without consumers, whose messages return to webhook_tasks when   *)
(* their time is up; after the last rung it goes to the dead letter queue. *)
(*                                                                         *)
(* Slots and breakers are Redis keys shared by all workers. A command, and *)
(* the script of the token bucket, are atomic; counting a slot and giving  *)
(* the count an expiry are two commands, and so are reading a breaker and  *)
(* half opening it. Without Redis every gate is open. Elapsed time is      *)
(* nondeterministic.                                                       *)
(***************************************************************************)
EXTENDS Integers, FiniteSets

CONSTANTS
  Account, Callback, Of,   \* Of[c]: the customer c is for
  Healthy,                 \* accounts whose endpoint always answers 200
  Rungs, Slots, Threshold, Burst,
  FaultKinds, MaxFaults

ASSUME CallbackAssumption ==
  Of \in [Callback -> Account] /\ Healthy \subseteq Account
ASSUME BoundAssumption ==
  /\ IsFiniteSet(Callback)
  /\ {Rungs, Slots, Threshold, Burst} \subseteq Nat \ {0} /\ MaxFaults \in Nat

VARIABLES
  hook,      \* accounts with a webhook_url
  cache,     \* what _WEBHOOK_ACCT_CACHE believes of it
  place,     \* where a callback is
  rung,      \* retry_no of its task
  tokens,    \* the token bucket
  inflight,  \* wh:inflight:{account}, 0 when there is no such key
  armed,     \* who gave the key its expiry, Nobody when it has none
  breaker,   \* wh:cb:{account}
  faults,
  hurt,      \* history: accounts one of whose own tasks met a fault
  unarmed    \* history: accounts whose count was made 1 without an expiry

shared == <<hook, cache, tokens, inflight, armed, breaker>>
vars == <<shared, place, rung, faults, hurt, unarmed>>

Waiting == {"queue", "throttle", "retry"}
Running == {"gate", "probe", "slot", "arm", "back", "post", "bare", "failed"}
Settled == {"delivered", "dead", "skipped", "lost"}
Nobody == "nobody"
Closed == [state |-> "closed", fails |-> 0, cooled |-> FALSE]

Fault(kind) ==
  kind \in FaultKinds /\ faults < MaxFaults /\ faults' = faults + 1
Suffers(kind, c) == Fault(kind) /\ hurt' = hurt \cup {Of[c]}
Well == UNCHANGED <<faults, hurt>>

Init ==
  /\ hook \in SUBSET Account /\ Healthy \subseteq hook /\ cache = hook
  /\ place = [c \in Callback |-> "none"] /\ rung = [c \in Callback |-> 0]
  /\ tokens = Burst
  /\ inflight = [a \in Account |-> 0] /\ armed = [a \in Account |-> Nobody]
  /\ breaker = [a \in Account |-> Closed]
  /\ faults = 0 /\ hurt = {} /\ unarmed = {}

Move(c, to) == place' = [place EXCEPT ![c] = to]

-----------------------------------------------------------------------------

\* trigger_webhook enqueues only for accounts its cache knows a hook of, and
\* for any when the cache cannot be refreshed.
Trigger(c) ==
  /\ place[c] = "none"
  /\ \/ Well /\ Move(c, IF Of[c] \in cache THEN "queue" ELSE "skipped")
     \/ Suffers("db", c) /\ Move(c, "queue")
     \/ Suffers("broker", c) /\ Move(c, "lost")
  /\ UNCHANGED <<shared, rung, unarmed>>

\* A customer who is not among the healthy sets or removes the URL.
Configure(a) ==
  /\ Fault("url") /\ a \notin Healthy
  /\ hook' = IF a \in hook THEN hook \ {a} ELSE hook \cup {a}
  /\ UNCHANGED <<cache, place, rung, tokens, inflight, armed, breaker, hurt, unarmed>>

Refresh ==
  /\ cache # hook /\ cache' = hook
  /\ UNCHANGED <<hook, place, rung, tokens, inflight, armed, breaker, unarmed>> /\ Well

Take(c) ==
  /\ place[c] = "queue" /\ Move(c, "gate") /\ Well
  /\ UNCHANGED <<shared, rung, unarmed>>

\* A failed attempt goes to the rung retry_no names and is counted; after the
\* last one the callback is dead. A publication the broker refuses is logged.
RetryBy(c, counted, last) ==
  /\ place[c] = "failed"
  /\ \/ /\ rung[c] < last /\ Move(c, "retry") /\ Well
        /\ rung' = [rung EXCEPT ![c] = IF counted THEN @ + 1 ELSE @]
     \/ /\ rung[c] >= last /\ Move(c, "dead") /\ Well
        /\ rung' = [rung EXCEPT ![c] = 0]
     \/ Suffers("broker", c) /\ Move(c, "lost") /\ UNCHANGED rung
  /\ UNCHANGED <<shared, unarmed>>
\* What must not happen: the rung is never climbed.
RetryUncounted(c) == RetryBy(c, FALSE, Rungs)
\* What must not happen: one attempt more than there are queues.
RetryOnceMore(c) == RetryBy(c, TRUE, Rungs + 1)
Retry(c) == RetryBy(c, TRUE, Rungs)

\* An open breaker fails the attempt until it has cooled down.
Ahead(b) == IF b.state # "open" THEN "slot" ELSE IF b.cooled THEN "probe" ELSE "failed"

\* The task checks the URL, takes a token, and asks the breaker it looks at.
GateBy(c, a, dropped) ==
  /\ place[c] = "gate"
  /\ \/ Of[c] \notin hook /\ Move(c, "skipped") /\ UNCHANGED tokens /\ Well
     \/ /\ Of[c] \in hook /\ tokens = 0 /\ UNCHANGED tokens
        /\ \/ Move(c, IF dropped THEN "skipped" ELSE "throttle") /\ Well
           \/ Suffers("broker", c) /\ Move(c, "lost")
     \/ /\ Of[c] \in hook /\ tokens > 0 /\ tokens' = tokens - 1
        /\ Move(c, Ahead(breaker[a])) /\ Well
     \/ /\ Of[c] \in hook /\ Suffers("redis", c) /\ UNCHANGED tokens
        /\ \E to \in {Ahead(breaker[a]), "slot"} : Move(c, to)
  /\ UNCHANGED <<hook, cache, rung, inflight, armed, breaker, unarmed>>
\* What must not happen: one breaker for all endpoints.
GateShared(c) == \E a \in Account : GateBy(c, a, FALSE)
\* What must not happen: throttled is failed and not retriable.
GateDrops(c) == GateBy(c, Of[c], TRUE)
Gate(c) == GateBy(c, Of[c], FALSE)

\* The account is read before the gates and the message behind them. A database
\* that fails, or uses up the time of the task, fails the attempt; a row that is
\* gone, or a name that cannot be resolved or must not be called, drops it.
Unread(c) ==
  /\ place[c] \in {"gate", "slot"}
  /\ \/ Suffers("db", c) /\ Move(c, "failed")
     \/ Suffers("gone", c) /\ Move(c, "skipped")
     \/ place[c] = "gate" /\ Of[c] \in hook /\ Suffers("dns", c) /\ Move(c, "skipped")
  /\ UNCHANGED <<shared, rung, unarmed>>

\* The breaker half opens, whatever happened to it since it was read.
Probe(c) ==
  /\ place[c] = "probe" /\ Move(c, "slot")
  /\ \/ Well /\ breaker' = [breaker EXCEPT ![Of[c]].state = "half_open"]
     \/ Suffers("redis", c) /\ UNCHANGED breaker
  /\ UNCHANGED <<hook, cache, rung, tokens, inflight, armed, unarmed>>

\* A count of 1 is left without an expiry, unless the key still has one.
Unarmed(a) == unarmed' = IF armed[a] = Nobody THEN unarmed \cup {a} ELSE unarmed

\* INCR. An error, which may come before or after it is done, means to post
\* without a slot that is given back.
Slot(c) ==
  LET a == Of[c]
      n == inflight[a] + 1
      counted == inflight' = [inflight EXCEPT ![a] = n]
  IN
  /\ place[c] = "slot"
  /\ \/ /\ Well /\ counted /\ UNCHANGED unarmed
        /\ Move(c, IF n = 1 THEN "arm" ELSE IF n <= Slots THEN "post" ELSE "back")
     \/ Suffers("redis", c) /\ Move(c, "bare") /\ UNCHANGED <<inflight, unarmed>>
     \/ /\ Suffers("redis", c) /\ Move(c, "bare") /\ counted
        /\ IF n = 1 THEN Unarmed(a) ELSE UNCHANGED unarmed
  /\ UNCHANGED <<hook, cache, rung, tokens, armed, breaker>>

\* EXPIRE, by whoever made the count 1; the key it is for may have expired.
ArmBy(c, sets) ==
  LET a == Of[c] IN
  /\ place[c] = "arm"
  /\ \/ Well /\ Move(c, "post") /\ UNCHANGED unarmed
        /\ armed' \in {IF sets THEN [armed EXCEPT ![a] = c] ELSE armed}
                       \cup (IF inflight[a] = 0 THEN {armed} ELSE {})
     \/ Suffers("redis", c) /\ Move(c, "bare") /\ UNCHANGED armed /\ Unarmed(a)
     \/ /\ Suffers("redis", c) /\ Move(c, "bare") /\ UNCHANGED unarmed
        /\ armed' = [armed EXCEPT ![a] = c]
  /\ UNCHANGED <<hook, cache, rung, tokens, inflight, breaker>>
\* What must not happen: no expiry for what a dead worker leaves behind.
ArmForgets(c) == ArmBy(c, FALSE)
Arm(c) == ArmBy(c, TRUE)

Decr(a) == [inflight EXCEPT ![a] = @ - 1]

\* Above the limit the count is taken back and the callback climbs the ladder;
\* if that goes wrong it is posted after all.
Back(c) ==
  /\ place[c] = "back"
  /\ \/ Well /\ inflight' = Decr(Of[c]) /\ Move(c, "failed")
     \/ Suffers("redis", c) /\ inflight' \in {inflight, Decr(Of[c])} /\ Move(c, "bare")
  /\ UNCHANGED <<hook, cache, rung, tokens, armed, breaker, unarmed>>

\* Failures above the threshold open the breaker again and are not told apart.
Failure(b) ==
  IF b.fails + 1 >= Threshold
  THEN [state |-> "open", fails |-> Threshold, cooled |-> FALSE]
  ELSE [b EXCEPT !.fails = @ + 1]

Told(a, ok) == [breaker EXCEPT ![a] = IF ok THEN Closed ELSE Failure(@)]
Answers(a) == IF a \in Healthy THEN {TRUE} ELSE BOOLEAN
GivenBack(c) == IF place[c] = "post" THEN Decr(Of[c]) ELSE inflight

\* The endpoint answers 200, or anything else or not in time; the breaker is
\* told and the slot is given back, by a DECR that makes a key of its own if the
\* key has expired. Errors of either are swallowed.
Answer(c) ==
  /\ place[c] \in {"post", "bare"}
  /\ \E ok \in Answers(Of[c]) :
       /\ Move(c, IF ok THEN "delivered" ELSE "failed")
       /\ \/ Well /\ breaker' = Told(Of[c], ok) /\ inflight' = GivenBack(c)
          \/ /\ Suffers("redis", c) /\ breaker' \in {breaker, Told(Of[c], ok)}
             /\ inflight' \in {inflight, GivenBack(c)}
  /\ UNCHANGED <<hook, cache, rung, tokens, armed, unarmed>>

\* The whole task runs out of time, before or after the breaker was told: a slow
\* endpoint is enough for that, a healthy one takes a slow database too.
OutOfTime(c) ==
  /\ place[c] \in {"post", "bare"} /\ Move(c, "failed")
  /\ IF Of[c] \in Healthy THEN Suffers("db", c) ELSE Well
  /\ breaker' \in {breaker} \cup {Told(Of[c], ok) : ok \in Answers(Of[c])}
  /\ inflight' = GivenBack(c)
  /\ UNCHANGED <<hook, cache, rung, tokens, armed, unarmed>>

\* The worker dies: an acknowledged task is not delivered again, its slot stays
\* taken.
Kill(c) ==
  /\ place[c] \in Running /\ Suffers("kill", c) /\ Move(c, "lost")
  /\ IF place[c] = "arm" THEN Unarmed(Of[c]) ELSE UNCHANGED unarmed
  /\ UNCHANGED <<shared, rung>>

-----------------------------------------------------------------------------
(* Time *)

Return(c) ==
  /\ place[c] \in {"throttle", "retry"} /\ Move(c, "queue") /\ Well
  /\ UNCHANGED <<shared, rung, unarmed>>

Refill ==
  /\ tokens < Burst /\ tokens' = tokens + 1
  /\ UNCHANGED <<hook, cache, place, rung, inflight, armed, breaker, unarmed>> /\ Well

\* 60 s after it became 1 the count is forgotten: the post that made it 1 has
\* ended by then (the task's own timeout), those that came later may go on.
SlotsExpire(a) ==
  /\ armed[a] # Nobody /\ place[armed[a]] \notin {"post", "bare"}
  /\ inflight' = [inflight EXCEPT ![a] = 0]
  /\ armed' = [armed EXCEPT ![a] = Nobody]
  /\ UNCHANGED <<hook, cache, place, rung, tokens, breaker, unarmed>> /\ Well

CoolDown(a) ==
  /\ breaker[a].state = "open" /\ ~breaker[a].cooled
  /\ breaker' = [breaker EXCEPT ![a].cooled = TRUE]
  /\ UNCHANGED <<hook, cache, place, rung, tokens, inflight, armed, unarmed>> /\ Well

\* The key of a breaker expires 60 s after the cool-down.
BreakerExpires(a) ==
  /\ breaker[a] # Closed /\ (breaker[a].state = "open" => breaker[a].cooled)
  /\ breaker' = [breaker EXCEPT ![a] = Closed]
  /\ UNCHANGED <<hook, cache, place, rung, tokens, inflight, armed, unarmed>> /\ Well

-----------------------------------------------------------------------------

Run(c) ==
  \/ Take(c) \/ Gate(c) \/ Probe(c) \/ Slot(c) \/ Arm(c) \/ Back(c)
  \/ Answer(c) \/ OutOfTime(c) \/ Retry(c) \/ Return(c)
Elapse(a) == SlotsExpire(a) \/ CoolDown(a) \/ BreakerExpires(a)

Next ==
  \/ \E c \in Callback : Trigger(c) \/ Run(c) \/ Unread(c) \/ Kill(c)
  \/ \E a \in Account : Configure(a) \/ Elapse(a)
  \/ Refresh \/ Refill

Spec == Init /\ [][Next]_vars

\* Workers work, the broker returns what has waited, time passes. Nobody has to
\* trigger a callback or change a URL, and nothing has to fail.
FairSpec ==
  /\ Spec /\ WF_vars(Refill)
  /\ \A c \in Callback : WF_vars(Run(c))
  /\ \A a \in Account : WF_vars(SlotsExpire(a))

-----------------------------------------------------------------------------

\* Types; retry_no never names a rung the ladder does not have.
TypeOK ==
  /\ hook \subseteq Account /\ cache \subseteq Account
  /\ place \in [Callback -> {"none"} \cup Waiting \cup Running \cup Settled]
  /\ rung \in [Callback -> 0..Rungs] /\ tokens \in 0..Burst
  /\ inflight \in [Account -> Int] /\ armed \in [Account -> Callback \cup {Nobody}]
  /\ \A a \in Account : breaker[a].state \in {"closed", "open", "half_open"}
  /\ hurt \subseteq Account /\ unarmed \subseteq Account

Posting(a) == {c \in Callback : Of[c] = a /\ place[c] \in {"post", "bare"}}
Holding(a) == {c \in Callback : Of[c] = a /\ place[c] \in {"arm", "back", "post"}}
Fits(a) == Cardinality({c \in Callback : Of[c] = a}) <= Slots

\* A customer whose endpoint answers, with no more callbacks than slots, gets
\* each at the first attempt however badly the others' endpoints do: breaker
\* and slots are per account, throttling is not a failure. Only a fault of one
\* of its own tasks can harm it: an error or timeout of the database, a lost
\* worker or publication, or a Redis error that leaves a slot taken
\* (send_webhook_task, _send_webhook_async).
HealthyUnharmed ==
  \A c \in Callback :
    Of[c] \in Healthy /\ Fits(Of[c]) =>
      place[c] \notin {"failed", "retry", "dead"} \/ Of[c] \in hurt

\* And it gets them: whatever happens to the tasks of others, one that is
\* triggered is delivered unless a task of its own account meets a fault, by
\* which it may be dropped (_send_webhook_async) but still comes to an end.
HealthyServed ==
  <>[](\A c \in Callback :
         Of[c] \in Healthy /\ Fits(Of[c]) /\ place[c] # "none" =>
           place[c] = "delivered" \/ (Of[c] \in hurt /\ place[c] \in Settled))

\* Every callback comes to an end: delivered, dead after the last rung, or
\* dropped for want of a URL or a row (_requeue_delayed, _to_dlq).
EventuallySettled == <>[](\A c \in Callback : place[c] \in {"none"} \cup Settled)

\* The slots of dead workers, and those Redis did not give back, come back by
\* the expiry of the count (_acct_slot), unless it was made 1 by somebody who
\* died, or lost Redis, before setting the expiry.
SlotsComeBack ==
  \A a \in Account :
    []<>(inflight[a] <= Cardinality(Holding(a)) \/ a \in unarmed)

\* "The expiry that catches a counter leaked by a crash" (_acct_slot, the comment
\* of line 188), without that exception: it does not hold.
SlotsAlwaysComeBack ==
  \A a \in Account : []<>(inflight[a] <= Cardinality(Holding(a)))

\* An account posts no more than its slots allow (_acct_slot).
PostsBounded == \A a \in Account : Cardinality(Posting(a)) <= Slots
=============================================================================
