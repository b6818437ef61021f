---------------------------- MODULE ResultWriteback ----------------------------
(***************************************************************************)
(* How the results of submissions get from sms_result_queue into sms_logs  *)
(* (process_sms_result_task): a Celery process logs a result to the Redis  *)
(* stream sms_result_pending, puts it into a buffer and acknowledges it.   *)
(* A full buffer is flushed by the thread of the task, a buffer with       *)
(* something in it by a timer thread after a second. What was written      *)
(* leaves the buffer and then the stream. A process that starts reads the  *)
(* whole stream into its buffer, whoever wrote it.                         *)
(*                                                                         *)
(* A result is an Item; sms_logs is reduced to the result a row took last, *)
(* or to the delivery report that concluded it. An Entry is a result in a  *)
(* buffer: its stamp is its place in the stream and, within a process, in  *)
(* the buffer (a process replays before it takes tasks).                   *)
(***************************************************************************)
EXTENDS Integers, FiniteSets

CONSTANTS
  Item,         \* results of submissions
  Log,          \* rows of sms_logs
  LogOf,        \* the row of a result
  Accepted,     \* the results that carry an upstream id
  Worker,       \* Celery processes that import sms_worker
  Timer,        \* timer threads a process may have at the same time
  Main,         \* the thread of a process that runs tasks and signals
  NoItem, NoTimer, Concluded,
  BatchSize,    \* results in the buffer that make a task flush it (200)
  MaxLen,       \* _SMS_RESULT_STREAM_MAXLEN
  ReplayMax,    \* entries a starting process reads (2000)
  StopAttempts, \* flushes a stopping process tries (3)
  RedisUp,      \* what a Redis call may find: TRUE it answers, FALSE it fails
  FaultKinds, MaxFaults,   \* faults that may happen, and how many of them
  MaxStops      \* how often a process is recycled

Thread == Timer \cup {Main}
ProcState == {"down", "replay", "up", "stop"}
Phase == {"idle", "armed", "fired", "task", "bulk", "single", "remove", "clean", "ack"}
Entry == [item : Item, stamp : Nat, logged : BOOLEAN]

ASSUME KindAssumption ==
  /\ LogOf \in [Item -> Log]
  /\ Accepted \subseteq Item
  /\ RedisUp \subseteq BOOLEAN

ASSUME SentinelAssumption ==
  /\ Main \notin Timer /\ NoTimer \notin Timer
  /\ NoItem \notin Item /\ Concluded \notin Item

ASSUME BoundAssumption ==
  /\ {BatchSize, MaxLen, ReplayMax, MaxFaults, MaxStops} \subseteq Nat
  /\ StopAttempts \in Nat \ {0}

VARIABLES
  queue,     \* sms_result_queue, without the tasks that run
  stream,    \* sms_result_pending, as the entries it was made from
  row,       \* the result a row took last, or Concluded
  stamp,     \* the next stamp
  proc,      \* state of each process
  held,      \* the task a process runs and has not acknowledged
  buf,       \* _SMS_RESULT_BUFFER
  cur,       \* _SMS_RESULT_TIMER
  replay,    \* what a starting process has read from the stream
  ph,        \* what each thread is about to do
  todo,      \* the entries a flush has still to write
  ok, bad,   \* those it wrote, and those it could not write
  attempt,   \* flushes a stopping process has tried
  faults, stops, \* how many faults and stops have happened
  written,   \* history: results that were written to their row
  unlogged   \* history: results without a record in the stream, because
             \* Redis refused or trimmed it or the process was killed before

brokerVars == <<queue, held>>
logVars == <<stream, stamp, unlogged>>
rowVars == <<row, written>>
procVars == <<proc, attempt, replay>>
memVars == <<buf, cur>>
flushVars == <<ph, todo, ok, bad>>
budget == <<faults, stops>>
vars == <<brokerVars, logVars, rowVars, procVars, memVars, flushVars, budget>>

-----------------------------------------------------------------------------
(* Helpers *)

RowOf(e) == LogOf[e.item]
Rows(S) == {RowOf(e) : e \in S}
Items(S) == {e.item : e \in S}
First(S, n) == {e \in S : Cardinality({f \in S : f.stamp < e.stamp}) < n}
Newest(S, n) == {e \in S : Cardinality({f \in S : f.stamp > e.stamp}) < n}
LastFor(S, l) == {e \in S : /\ RowOf(e) = l
                            /\ \A f \in S : RowOf(f) = l => f.stamp <= e.stamp}

At(w, t, p) == proc[w] # "down" /\ ph[w][t] = p
Idle(w) == ph[w][Main] = "idle"
Answered(w) == IF held[w] = NoItem THEN "idle" ELSE "ack"

Fault(kind) ==
  /\ kind \in FaultKinds
  /\ faults < MaxFaults
  /\ faults' = faults + 1
  /\ stops' = stops

Init ==
  /\ queue = Item
  /\ held = [w \in Worker |-> NoItem]
  /\ stream = {} /\ stamp = 0 /\ unlogged = {}
  /\ row = [l \in Log |-> NoItem] /\ written = {}
  /\ proc = [w \in Worker |-> "down"]
  /\ attempt = [w \in Worker |-> 0]
  /\ replay = [w \in Worker |-> {}]
  /\ buf = [w \in Worker |-> {}]
  /\ cur = [w \in Worker |-> NoTimer]
  /\ ph = [w \in Worker |-> [t \in Thread |-> "idle"]]
  /\ todo = [w \in Worker |-> [t \in Thread |-> {}]]
  /\ ok = [w \in Worker |-> [t \in Thread |-> {}]]
  /\ bad = [w \in Worker |-> [t \in Thread |-> {}]]
  /\ faults = 0 /\ stops = 0

-----------------------------------------------------------------------------
(* Putting a result into the buffer *)

\* Under the lock: append, then flush a full buffer in this thread and cancel
\* the timer (one that has fired goes on), or see that there is a timer.
\* "next" is what the thread does if it need not flush.
Append(w, e, next) ==
  LET B == buf[w] \cup {e} IN
  /\ buf' = [buf EXCEPT ![w] = B]
  /\ \/ /\ Cardinality(B) >= BatchSize
        /\ ph' = [ph EXCEPT ![w] = [t \in Thread |->
                    IF t = Main THEN "bulk"
                    ELSE IF t = cur[w] /\ ph[w][t] = "armed" THEN "idle" ELSE ph[w][t]]]
        /\ cur' = [cur EXCEPT ![w] = NoTimer]
        /\ todo' = [todo EXCEPT ![w][Main] = First(B, BatchSize)]
     \/ /\ Cardinality(B) < BatchSize /\ cur[w] # NoTimer
        /\ ph' = [ph EXCEPT ![w][Main] = next]
        /\ UNCHANGED <<cur, todo>>
     \/ /\ Cardinality(B) < BatchSize /\ cur[w] = NoTimer
        /\ \E t \in Timer :
             /\ ph[w][t] = "idle"
             /\ ph' = [ph EXCEPT ![w][Main] = next, ![w][t] = "armed"]
             /\ cur' = [cur EXCEPT ![w] = t]
        /\ todo' = todo
  /\ UNCHANGED <<ok, bad>>

\* A process takes a task ...
Receive(w, i) ==
  /\ proc[w] = "up" /\ Idle(w)
  /\ i \in queue
  /\ queue' = queue \ {i}
  /\ held' = [held EXCEPT ![w] = i]
  /\ ph' = [ph EXCEPT ![w][Main] = "task"]
  /\ UNCHANGED <<logVars, rowVars, procVars, memVars, todo, ok, bad, budget>>

\* ... logs its result, if Redis answers (the stream may be cut to MaxLen) ...
Enqueue(w) ==
  /\ At(w, Main, "task")
  /\ \E logged \in RedisUp :
       LET e == [item |-> held[w], stamp |-> stamp, logged |-> logged]
           S == IF logged THEN stream \cup {e} ELSE stream
       IN /\ stream' \in {S, Newest(S, MaxLen)}
          /\ unlogged' = (unlogged \cup Items(S \ stream'))
                            \cup (IF logged THEN {} ELSE {held[w]})
          /\ Append(w, e, "ack")
  /\ stamp' = stamp + 1
  /\ UNCHANGED <<brokerVars, rowVars, procVars, budget>>

\* ... and ends: Celery acknowledges it.
Ack(w) ==
  /\ At(w, Main, "ack")
  /\ ph' = [ph EXCEPT ![w][Main] = "idle"]
  /\ held' = [held EXCEPT ![w] = NoItem]
  /\ UNCHANGED <<queue, logVars, rowVars, procVars, memVars, todo, ok, bad, budget>>

-----------------------------------------------------------------------------
(* Timers *)

\* A second has passed ...
TimerFires(w, t) ==
  /\ At(w, t, "armed")
  /\ ph' = [ph EXCEPT ![w][t] = "fired"]
  /\ UNCHANGED <<brokerVars, logVars, rowVars, procVars, memVars, todo, ok, bad, budget>>

\* What must not happen: the timer does not make room for the next one.
TimerRunsKeeps(w, t) ==
  /\ At(w, t, "fired")
  /\ cur' = cur
  /\ ph' = [ph EXCEPT ![w][t] = IF buf[w] = {} THEN "idle" ELSE "bulk"]
  /\ todo' = [todo EXCEPT ![w][t] = buf[w]]
  /\ UNCHANGED <<brokerVars, logVars, rowVars, procVars, buf, ok, bad, budget>>

\* ... and the timer gets the lock: whichever timer is the current one, there
\* is none from now on.
TimerRuns(w, t) ==
  /\ At(w, t, "fired")
  /\ cur' = [cur EXCEPT ![w] = NoTimer]
  /\ ph' = [ph EXCEPT ![w][t] = IF buf[w] = {} THEN "idle" ELSE "bulk"]
  /\ todo' = [todo EXCEPT ![w][t] = buf[w]]
  /\ UNCHANGED <<brokerVars, logVars, rowVars, procVars, buf, ok, bad, budget>>

-----------------------------------------------------------------------------
(* Writing to sms_logs *)

WriteRows(S) ==
  /\ row' = [l \in Log |-> IF LastFor(S, l) = {} THEN row[l]
                          ELSE (CHOOSE e \in LastFor(S, l) : TRUE).item]
  /\ written' = written \cup Items(S)

\* One transaction for all of them ...
Bulk(w, t) ==
  /\ At(w, t, "bulk")
  /\ WriteRows(todo[w][t])
  /\ ok' = [ok EXCEPT ![w][t] = todo[w][t]]
  /\ todo' = [todo EXCEPT ![w][t] = {}]
  /\ ph' = [ph EXCEPT ![w][t] = "remove"]
  /\ UNCHANGED <<brokerVars, logVars, procVars, memVars, bad, budget>>

\* ... or, when that fails (after a second try if it was a deadlock; a stopping
\* process that tries again may find the database still in trouble), ...
BulkFails(w, t) ==
  /\ At(w, t, "bulk")
  /\ \/ Fault("db")
     \/ t = Main /\ attempt[w] > 1 /\ UNCHANGED budget
  /\ ph' = [ph EXCEPT ![w][t] = "single"]
  /\ UNCHANGED <<brokerVars, logVars, rowVars, procVars, memVars, todo, ok, bad>>

\* ... a transaction for each.
Single(w, t) ==
  /\ At(w, t, "single")
  /\ \E e \in First(todo[w][t], 1) :
       /\ WriteRows({e})
       /\ todo' = [todo EXCEPT ![w][t] = @ \ {e}]
       /\ ok' = [ok EXCEPT ![w][t] = @ \cup {e}]
  /\ UNCHANGED <<brokerVars, logVars, procVars, memVars, ph, bad, budget>>

\* (any of them may fail while the database is in trouble)
SingleFails(w, t) ==
  /\ At(w, t, "single")
  /\ \E e \in First(todo[w][t], 1) :
       /\ todo' = [todo EXCEPT ![w][t] = @ \ {e}]
       /\ bad' = [bad EXCEPT ![w][t] = @ \cup {e}]
  /\ UNCHANGED <<brokerVars, logVars, rowVars, procVars, memVars, ph, ok, budget>>

SingleEnds(w, t) ==
  /\ At(w, t, "single")
  /\ todo[w][t] = {}
  /\ ph' = [ph EXCEPT ![w][t] = "remove"]
  /\ UNCHANGED <<brokerVars, logVars, rowVars, procVars, memVars, todo, ok, bad, budget>>

\* _run_async gives up after 60 s: what was committed stays, nothing is
\* removed, a task is acknowledged all the same.
Abort(w, t) ==
  /\ ph[w][t] \in {"bulk", "single", "remove"}
  /\ Fault("timeout")
  /\ ph' = [ph EXCEPT ![w][t] = IF t = Main THEN Answered(w) ELSE "idle"]
  /\ todo' = [todo EXCEPT ![w][t] = {}]
  /\ ok' = [ok EXCEPT ![w][t] = {}]
  /\ bad' = [bad EXCEPT ![w][t] = {}]
  /\ UNCHANGED <<brokerVars, logVars, rowVars, procVars, memVars>>

\* What must not happen: the whole flush leaves the buffer.
RemoveAll(w, t) ==
  /\ At(w, t, "remove")
  /\ buf' = [buf EXCEPT ![w] = {e \in @ : RowOf(e) \notin Rows(ok[w][t] \cup bad[w][t])}]
  /\ ph' = [ph EXCEPT ![w][t] = "clean"]
  /\ UNCHANGED <<brokerVars, logVars, rowVars, procVars, cur, todo, ok, bad, budget>>

\* What was written leaves the buffer, by the row it was written to (there is
\* nothing in the buffer of a process that stops) ...
Remove(w, t) ==
  /\ At(w, t, "remove")
  /\ buf' = [buf EXCEPT ![w] = {e \in @ : RowOf(e) \notin Rows(ok[w][t])}]
  /\ ph' = [ph EXCEPT ![w][t] = "clean"]
  /\ UNCHANGED <<brokerVars, logVars, rowVars, procVars, cur, todo, ok, bad, budget>>

\* What must not happen: the whole flush leaves the stream.
CleanAll(w, t) ==
  /\ At(w, t, "clean")
  /\ proc[w] # "stop" \/ t # Main
  /\ \E redis \in RedisUp :
       stream' = IF redis THEN stream \ (ok[w][t] \cup bad[w][t]) ELSE stream
  /\ ph' = [ph EXCEPT ![w][t] = IF t = Main THEN Answered(w) ELSE "idle"]
  /\ ok' = [ok EXCEPT ![w][t] = {}]
  /\ bad' = [bad EXCEPT ![w][t] = {}]
  /\ UNCHANGED <<brokerVars, stamp, unlogged, rowVars, procVars, memVars, todo, budget>>

\* ... and the stream, if Redis answers.
Clean(w, t) ==
  /\ At(w, t, "clean")
  /\ proc[w] # "stop" \/ t # Main
  /\ \E redis \in RedisUp : stream' = IF redis THEN stream \ ok[w][t] ELSE stream
  /\ ph' = [ph EXCEPT ![w][t] = IF t = Main THEN Answered(w) ELSE "idle"]
  /\ ok' = [ok EXCEPT ![w][t] = {}]
  /\ bad' = [bad EXCEPT ![w][t] = {}]
  /\ UNCHANGED <<brokerVars, stamp, unlogged, rowVars, procVars, memVars, todo, budget>>

-----------------------------------------------------------------------------
(* Start, end and death of a process *)

\* worker_process_init: read the oldest entries of the stream ...
Start(w) ==
  /\ proc[w] = "down"
  /\ proc' = [proc EXCEPT ![w] = "replay"]
  /\ \E redis \in RedisUp :
       replay' = [replay EXCEPT ![w] = IF redis THEN First(stream, ReplayMax) ELSE {}]
  /\ UNCHANGED <<brokerVars, logVars, rowVars, attempt, memVars, flushVars, budget>>

\* ... into the buffer ...
ReplayNext(w) ==
  /\ proc[w] = "replay" /\ Idle(w)
  /\ \E e \in First(replay[w], 1) :
       /\ Append(w, e, "idle")
       /\ replay' = [replay EXCEPT ![w] = @ \ {e}]
  /\ UNCHANGED <<brokerVars, logVars, rowVars, proc, attempt, budget>>

\* ... and take tasks then.
ReplayEnds(w) ==
  /\ proc[w] = "replay" /\ Idle(w)
  /\ replay[w] = {}
  /\ proc' = [proc EXCEPT ![w] = "up"]
  /\ UNCHANGED <<brokerVars, logVars, rowVars, attempt, replay, memVars, flushVars, budget>>

\* worker_process_shutdown, after max_tasks_per_child: flush what is left ...
Stop(w) ==
  /\ proc[w] = "up" /\ Idle(w)
  /\ stops < MaxStops
  /\ stops' = stops + 1 /\ faults' = faults
  /\ proc' = [proc EXCEPT ![w] = "stop"]
  /\ attempt' = [attempt EXCEPT ![w] = 1]
  /\ buf' = [buf EXCEPT ![w] = {}]
  /\ todo' = [todo EXCEPT ![w][Main] = buf[w]]
  /\ ph' = [ph EXCEPT ![w][Main] = IF buf[w] = {} THEN "idle" ELSE "bulk"]
  /\ UNCHANGED <<brokerVars, logVars, rowVars, replay, cur, ok, bad>>

\* What must not happen: the flush is repeated once more than range(3) allows.
StopCleansOnceMore(w) ==
  LET rest == {e \in bad[w][Main] : RowOf(e) \notin Rows(ok[w][Main])} IN
  /\ proc[w] = "stop" /\ At(w, Main, "clean")
  /\ \E redis \in RedisUp : stream' = IF redis THEN stream \ ok[w][Main] ELSE stream
  /\ ok' = [ok EXCEPT ![w][Main] = {}]
  /\ bad' = [bad EXCEPT ![w][Main] = {}]
  /\ \/ /\ rest # {} /\ attempt[w] <= StopAttempts
        /\ attempt' = [attempt EXCEPT ![w] = @ + 1]
        /\ ph' = [ph EXCEPT ![w][Main] = "bulk"]
        /\ todo' = [todo EXCEPT ![w][Main] = rest]
     \/ /\ rest = {} \/ attempt[w] > StopAttempts
        /\ attempt' = attempt /\ todo' = todo
        /\ ph' = [ph EXCEPT ![w][Main] = "idle"]
  /\ UNCHANGED <<brokerVars, stamp, unlogged, rowVars, proc, replay, memVars, budget>>

\* ... and again what could not be written, a few times ...
StopCleans(w) ==
  LET rest == {e \in bad[w][Main] : RowOf(e) \notin Rows(ok[w][Main])} IN
  /\ proc[w] = "stop" /\ At(w, Main, "clean")
  /\ \E redis \in RedisUp : stream' = IF redis THEN stream \ ok[w][Main] ELSE stream
  /\ ok' = [ok EXCEPT ![w][Main] = {}]
  /\ bad' = [bad EXCEPT ![w][Main] = {}]
  /\ \/ /\ rest # {} /\ attempt[w] < StopAttempts
        /\ attempt' = [attempt EXCEPT ![w] = @ + 1]
        /\ ph' = [ph EXCEPT ![w][Main] = "bulk"]
        /\ todo' = [todo EXCEPT ![w][Main] = rest]
     \/ /\ rest = {} \/ attempt[w] >= StopAttempts
        /\ attempt' = attempt /\ todo' = todo
        /\ ph' = [ph EXCEPT ![w][Main] = "idle"]
  /\ UNCHANGED <<brokerVars, stamp, unlogged, rowVars, proc, replay, memVars, budget>>

\* The process is gone, with its memory and its timers.
Gone(w) ==
  /\ proc' = [proc EXCEPT ![w] = "down"]
  /\ attempt' = [attempt EXCEPT ![w] = 0]
  /\ replay' = [replay EXCEPT ![w] = {}]
  /\ buf' = [buf EXCEPT ![w] = {}]
  /\ cur' = [cur EXCEPT ![w] = NoTimer]
  /\ ph' = [ph EXCEPT ![w] = [t \in Thread |-> "idle"]]
  /\ todo' = [todo EXCEPT ![w] = [t \in Thread |-> {}]]
  /\ ok' = [ok EXCEPT ![w] = [t \in Thread |-> {}]]
  /\ bad' = [bad EXCEPT ![w] = [t \in Thread |-> {}]]

\* ... then it ends.
Exit(w) ==
  /\ proc[w] = "stop" /\ Idle(w)
  /\ Gone(w)
  /\ UNCHANGED <<brokerVars, logVars, rowVars, budget>>

\* kill -9. Celery acknowledges the task of a lost process, the broker takes
\* it back when the whole worker is gone.
Kill(w) ==
  /\ proc[w] # "down"
  /\ Fault("kill")
  /\ Gone(w)
  /\ held' = [held EXCEPT ![w] = NoItem]
  /\ \/ /\ queue' = queue \cup ({held[w]} \ {NoItem})
        /\ unlogged' = unlogged
     \/ /\ queue' = queue
        /\ unlogged' = IF ph[w][Main] = "task" THEN unlogged \cup {held[w]} ELSE unlogged
  /\ UNCHANGED <<stream, stamp, rowVars>>

-----------------------------------------------------------------------------
\* A delivery report for the upstream id the row holds.
Receipt(l) ==
  /\ row[l] \in Accepted
  /\ row' = [row EXCEPT ![l] = Concluded]
  /\ UNCHANGED <<brokerVars, logVars, written, procVars, memVars, flushVars, budget>>

Flush(w, t) ==
  \/ Bulk(w, t) \/ BulkFails(w, t)
  \/ Single(w, t) \/ SingleFails(w, t) \/ SingleEnds(w, t)
  \/ Abort(w, t)
  \/ Remove(w, t) \/ Clean(w, t)

RunTask(w) ==
  \/ \E i \in Item : Receive(w, i)
  \/ Enqueue(w) \/ Ack(w)

RunSignal(w) ==
  \/ Start(w) \/ ReplayNext(w) \/ ReplayEnds(w)
  \/ StopCleans(w) \/ Exit(w)

RunTimer(w, t) == TimerFires(w, t) \/ TimerRuns(w, t)

Next ==
  \/ \E w \in Worker :
       \/ RunTask(w) \/ RunSignal(w) \/ Stop(w) \/ Kill(w)
       \/ \E t \in Timer : RunTimer(w, t)
       \/ \E t \in Thread : Flush(w, t)
  \/ \E l \in Log : Receipt(l)

Spec == Init /\ [][Next]_vars

\* Celery starts processes and gives them tasks, and their threads run. No
\* process has to stop, and no report has to come.
Fairness ==
  \A w \in Worker :
    /\ WF_vars(RunTask(w)) /\ WF_vars(RunSignal(w))
    /\ \A t \in Timer : WF_vars(RunTimer(w, t))
    /\ \A t \in Thread : WF_vars(Flush(w, t))

FairSpec == Spec /\ Fairness

-----------------------------------------------------------------------------
(* Properties *)

\* Every variable has its type; a process that stops flushes at most
\* StopAttempts times (sms_worker.py:2498).
TypeOK ==
  /\ queue \subseteq Item
  /\ held \in [Worker -> Item \cup {NoItem}]
  /\ stream \subseteq Entry
  /\ stamp \in Nat
  /\ unlogged \subseteq Item
  /\ row \in [Log -> Item \cup {NoItem, Concluded}]
  /\ written \subseteq Item
  /\ proc \in [Worker -> ProcState]
  /\ attempt \in [Worker -> 0..StopAttempts]
  /\ replay \in [Worker -> SUBSET Entry]
  /\ buf \in [Worker -> SUBSET Entry]
  /\ cur \in [Worker -> Timer \cup {NoTimer}]
  /\ ph \in [Worker -> [Thread -> Phase]]
  /\ todo \in [Worker -> [Thread -> SUBSET Entry]]
  /\ ok \in [Worker -> [Thread -> SUBSET Entry]]
  /\ bad \in [Worker -> [Thread -> SUBSET Entry]]
  /\ faults \in Nat /\ stops \in Nat

Recorded(i) == i \in written \/ i \in unlogged \/ \E e \in stream : e.item = i

\* A result whose task is over (acknowledged, or its process dead) was written
\* or is in the stream, from where a process that starts will write it, unless
\* the stream never got it or was cut (the write-ahead log of
\* _enqueue_sms_result_buffer and _wal_xdel_results).
NothingLost ==
  \A i \in Item :
    \/ i \in queue \/ Recorded(i)
    \/ \E w \in Worker : held[w] = i /\ ph[w][Main] = "task"

\* An entry leaves the buffer of a running process only when its result was
\* written (_sms_result_remove_flushed_from_buffer: nothing that is not
\* persisted is deleted).
KeptUntilWritten ==
  [][\A w \in Worker : proc'[w] = "up" =>
       \A e \in buf[w] \ buf'[w] : e.item \in written']_vars

\* Every result is written in the end, unless it has no record in the stream.
EventuallyWritten == \A i \in Item : <>(i \in written \/ i \in unlogged)

\* Writing a result once more does no harm: a row that a delivery report
\* concluded stays concluded (sms_worker.py:2267).
ReplayHarmless ==
  [][\A l \in Log : row[l] = Concluded => row'[l] = Concluded]_vars

=============================================================================
