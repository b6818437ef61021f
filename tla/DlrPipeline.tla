------------------------------ MODULE DlrPipeline ------------------------------
(***************************************************************************)
(* Delivery reports, from the PDU an upstream sends to the row of sms_logs *)
(* and to what a report sets off (the client's callback, the forward to an *)
(* inbound SMPP session, the follow-up task).                              *)
(*                                                                         *)
(* The gateway drops reports of ids it does not own and reports it has     *)
(* published already, and publishes the others to sms_dlr. A task          *)
(* (process_smpp_dlr_task), acknowledged when it starts, looks for the row *)
(* by the upstream id, which the result of the submission brings there. A  *)
(* report without a row waits in a Redis hash that                         *)
(* flush_dlr_retry_buffer_task goes through every five seconds. Three      *)
(* kinds of marks short-circuit retransmissions: published (dlr_dedup),    *)
(* settled (dlr_seen) and unmatched (dlr_unmatched); one claims the side   *)
(* effects (dlr_fx).                                                       *)
(*                                                                         *)
(* An upstream id stands for the message it was given to; a foreign id is  *)
(* a message whose submission is never answered. Marks live for hours,     *)
(* except dlr_unmatched, which may go at any time.                         *)
(***************************************************************************)
EXTENDS Integers, FiniteSets

CONSTANTS
  Msg,           \* messages submitted to one channel
  Status,        \* what a report may say
  Worker,        \* processes that run process_smpp_dlr_task
  Flush,         \* the process that runs flush_dlr_retry_buffer_task
  NoReport,
  MaxSends,      \* how many reports the upstream sends of a message
  MaxRetries,    \* flushes after which a buffered report is given up (20)
  MarkAttempts,  \* attempts to mark an id as owned (5)
  FaultKinds, MaxFaults

Actor == Worker \cup {Flush}
Report == Msg \X Status
Settled == {"delivered", "failed"}
RowState == {"queued", "sent", "expired"} \cup Settled
Step == {"idle", "match", "miss", "mark", "write", "claim", "dispatch",
         "end", "found", "missed"}

ASSUME StatusAssumption == Status \subseteq Settled \cup {"sent"}
ASSUME ActorAssumption == Flush \notin Worker /\ NoReport \notin Report \cup Status
ASSUME BoundAssumption ==
  /\ {MaxSends, MaxFaults} \subseteq Nat
  /\ {MaxRetries, MarkAttempts} \subseteq Nat \ {0}

VARIABLES
  row,         \* status of each row of sms_logs
  result,      \* results of submissions that are not written yet
  mapped,      \* rows that carry the upstream id
  owned,       \* dlr_owned
  ownTry,      \* attempts an entry of markRetryQueue has behind it, 0 none
  sends,       \* how many reports of a message are still to come
  marking,     \* reports published and not yet marked
  published,   \* the marks of dlr_dedup
  queue,       \* sms_dlr, without the tasks that run
  pc, rep,     \* what a task is about to do, and its report
  seen, unmatched, fx,   \* dlr_seen, dlr_unmatched, dlr_fx
  buffer,      \* dlr_pending_retry: the status that waits, or NoReport
  count,       \* retry_count of a buffered report
  todo,        \* what a running flush has still to look at
  expiring,    \* ids _expire_in_chunks has selected
  faults,
  came,        \* history: the reports that were published
  lost,        \* history: messages a report of which was given up, or died
               \* with the process that ran its task
  took,        \* history: the reports rows have taken
  dispatched   \* history: how often the effects of a report were set off

gatewayVars == <<owned, ownTry, marking, published>>
rowVars == <<row, mapped, took>>
taskVars == <<pc, rep>>
markVars == <<seen, unmatched, fx>>
bufferVars == <<buffer, count>>
vars == <<gatewayVars, rowVars, taskVars, markVars, bufferVars, result, sends,
          queue, todo, expiring, faults, came, lost, dispatched>>

Fault(kind) ==
  /\ kind \in FaultKinds
  /\ faults < MaxFaults
  /\ faults' = faults + 1

\* A call of Redis answers or, as one of the faults, fails.
Redis(up) == IF up THEN UNCHANGED faults ELSE Fault("redis")

Matchable(m) == m \in mapped /\ row[m] # "expired"

Init ==
  /\ row = [m \in Msg |-> "queued"] /\ mapped = {} /\ took = {}
  /\ result = {} /\ expiring = {}
  /\ owned = {} /\ ownTry = [m \in Msg |-> 0]
  /\ sends = [m \in Msg |-> MaxSends]
  /\ marking = {} /\ published = {}
  /\ queue = [r \in Report |-> 0]
  /\ pc = [a \in Actor |-> "idle"]
  /\ rep = [a \in Actor |-> NoReport]
  /\ seen = {} /\ unmatched = {} /\ fx = {}
  /\ buffer = [m \in Msg |-> NoReport]
  /\ count = [m \in Msg |-> 0]
  /\ todo = {}
  /\ faults = 0 /\ came = {} /\ lost = {}
  /\ dispatched = [r \in Report |-> 0]

-----------------------------------------------------------------------------
(* The gateway *)

\* SubmitSMResp: mark the id as owned, or leave that to the retry worker, and
\* publish the result of the submission.
Respond(m) ==
  /\ m \notin result \cup mapped /\ ownTry[m] = 0 /\ m \notin owned
  /\ \E up \in BOOLEAN :
       /\ Redis(up)
       /\ owned' = IF up THEN owned \cup {m} ELSE owned
       /\ ownTry' = [ownTry EXCEPT ![m] = IF up THEN 0 ELSE 1]
  /\ result' = result \cup {m}
  /\ UNCHANGED <<marking, published, rowVars, taskVars, markVars, bufferVars,
                 sends, queue, todo, expiring, came, lost, dispatched>>

\* markRetryWorker gives up after the fifth attempt.
RetryMark(m) ==
  /\ ownTry[m] > 0
  /\ \E up \in BOOLEAN :
       /\ Redis(up)
       /\ owned' = IF up THEN owned \cup {m} ELSE owned
       /\ ownTry' = [ownTry EXCEPT ![m] = IF up \/ @ = MarkAttempts THEN 0 ELSE @ + 1]
  /\ UNCHANGED <<marking, published, rowVars, taskVars, markVars, bufferVars, result,
                 sends, queue, todo, expiring, came, lost, dispatched>>

Publish(r) ==
  /\ queue' = [queue EXCEPT ![r] = @ + 1]
  /\ came' = came \cup {r} /\ marking' = marking \cup {r}

\* handleDeliverSM. A Redis call that fails lets the report pass. The upstream
\* has its deliver_sm_resp before this runs.
DeliverSM(r) ==
  LET m == r[1] IN
  /\ sends[m] > 0 /\ sends' = [sends EXCEPT ![m] = @ - 1]
  /\ \E owns, new \in BOOLEAN :
       /\ IF owns = (m \in owned) /\ new = (r \notin published)
          THEN UNCHANGED faults ELSE owns /\ new /\ Fault("redis")
       /\ lost' = IF owns THEN lost ELSE lost \cup {m}
       /\ IF owns /\ new THEN Publish(r) ELSE UNCHANGED <<queue, came, marking>>
  /\ UNCHANGED <<owned, ownTry, published, rowVars, taskVars, markVars, bufferVars,
                 result, todo, expiring, dispatched>>

\* The report got past both checks and the broker refuses it: no mark.
PublishFails(r) ==
  /\ sends[r[1]] > 0 /\ sends' = [sends EXCEPT ![r[1]] = @ - 1]
  /\ r[1] \in owned /\ r \notin published /\ Fault("publish")
  /\ UNCHANGED <<gatewayVars, rowVars, taskVars, markVars, bufferVars, result, queue,
                 todo, expiring, came, lost, dispatched>>

MarkDLRPublished(r) ==
  /\ r \in marking /\ marking' = marking \ {r}
  /\ \E up \in BOOLEAN :
       Redis(up) /\ published' = IF up THEN published \cup {r} ELSE published
  /\ UNCHANGED <<owned, ownTry, rowVars, taskVars, markVars, bufferVars, result,
                 sends, queue, todo, expiring, came, lost, dispatched>>

\* A restart forgets what it was to mark; backfillOwnership marks the ids of
\* the rows that carry one.
RestartGateway ==
  /\ Fault("restart")
  /\ marking' = {} /\ ownTry' = [m \in Msg |-> 0]
  /\ owned' = owned \cup mapped
  /\ UNCHANGED <<published, rowVars, taskVars, markVars, bufferVars, result, sends,
                 queue, todo, expiring, came, lost, dispatched>>

-----------------------------------------------------------------------------
(* The other writers of the row *)

\* The result of the submission brings the upstream id to the row, whatever
\* its status is.
WriteResult(m) ==
  /\ m \in result /\ result' = result \ {m}
  /\ mapped' = mapped \cup {m}
  /\ row' = [row EXCEPT ![m] = "sent"]
  /\ UNCHANGED <<gatewayVars, took, taskVars, markVars, bufferVars, sends, queue,
                 todo, expiring, faults, came, lost, dispatched>>

\* _expire_in_chunks reads the ids of rows that wait for too long and then
\* updates them by id, in the order of two statements of one session.
ExpireSelect(m) ==
  /\ "expire" \in FaultKinds
  /\ expiring = {} /\ row[m] \in {"queued", "sent"}
  /\ expiring' = {m}
  /\ UNCHANGED <<gatewayVars, rowVars, taskVars, markVars, bufferVars, result, sends,
                 queue, todo, faults, came, lost, dispatched>>

ExpireUpdate ==
  /\ expiring # {} /\ expiring' = {}
  /\ row' = [m \in Msg |-> IF m \in expiring THEN "expired" ELSE row[m]]
  /\ UNCHANGED <<gatewayVars, mapped, took, taskVars, markVars, bufferVars, result,
                 sends, queue, todo, faults, came, lost, dispatched>>

-----------------------------------------------------------------------------
(* _process_smpp_dlr_async, run by a task or for a buffered report *)

Goto(a, step) == pc' = [pc EXCEPT ![a] = step]
Finish(a, found) ==
  Goto(a, IF a # Flush THEN "end" ELSE IF found THEN "found" ELSE "missed")
MarkSeen(r, up) ==
  seen' = IF up /\ r[2] \in Settled THEN seen \cup {r} ELSE seen

\* A task starts. A report that was settled, or the id of which was looked for
\* in vain a moment ago, costs no query.
Receive(w, r) ==
  /\ pc[w] = "idle" /\ queue[r] > 0
  /\ queue' = [queue EXCEPT ![r] = @ - 1]
  /\ rep' = [rep EXCEPT ![w] = r]
  /\ IF r \in seen \/ r[1] \in unmatched
     THEN \E up \in BOOLEAN : Redis(up) /\ Goto(w, IF up THEN "end" ELSE "match")
     ELSE Goto(w, "match") /\ UNCHANGED faults
  /\ UNCHANGED <<gatewayVars, rowVars, markVars, bufferVars, result, sends, todo,
                 expiring, came, lost, dispatched>>

\* The row is read. The opposite of what it settled for is ignored.
Match(a) ==
  LET r == rep[a]  m == r[1]  s == row[m] IN
  /\ pc[a] = "match"
  /\ \/ /\ ~Matchable(m) /\ Goto(a, "miss") /\ UNCHANGED <<seen, faults>>
     \/ /\ Matchable(m) /\ {s, r[2]} \subseteq Settled /\ s # r[2]
        /\ \E up \in BOOLEAN : Redis(up) /\ MarkSeen(r, up)
        /\ Finish(a, TRUE)
     \/ /\ Matchable(m) /\ ~({s, r[2]} \subseteq Settled /\ s # r[2])
        /\ Goto(a, IF s = r[2] THEN "claim" ELSE "write") /\ UNCHANGED <<seen, faults>>
  /\ UNCHANGED <<gatewayVars, rowVars, rep, unmatched, fx, bufferVars, result, sends,
                 queue, todo, expiring, came, lost, dispatched>>

\* No row: drop the report of an id that was owned for hours, or buffer it
\* under its id if nothing waits there, and mark the id.
MissBy(a, keeps) ==
  LET m == rep[a][1] IN
  /\ pc[a] = "miss" /\ Goto(a, "mark")
  /\ \/ /\ m \in owned /\ Fault("orphan")
        /\ lost' = lost \cup {m} /\ UNCHANGED bufferVars
     \/ /\ buffer[m] # NoReport /\ keeps
        /\ UNCHANGED <<faults, lost, bufferVars>>
     \/ /\ ~(buffer[m] # NoReport /\ keeps)
        /\ buffer' = [buffer EXCEPT ![m] = rep[a][2]]
        /\ count' = [count EXCEPT ![m] = 0]
        /\ UNCHANGED <<faults, lost>>
     \/ /\ Redis(FALSE)
        /\ lost' = lost \cup {m} /\ UNCHANGED bufferVars
  /\ UNCHANGED <<gatewayVars, rowVars, rep, markVars, result, sends, queue, todo,
                 expiring, came, dispatched>>

\* What must not happen: what waits is written again, its count starts anew.
MissOverwrites(a) == MissBy(a, FALSE)
Miss(a) == MissBy(a, TRUE)

MarkUnmatched(a) ==
  /\ pc[a] = "mark" /\ Finish(a, FALSE)
  /\ \E up \in BOOLEAN :
       Redis(up) /\ unmatched' = IF up THEN unmatched \cup {rep[a][1]} ELSE unmatched
  /\ UNCHANGED <<gatewayVars, rowVars, rep, seen, fx, bufferVars, result, sends,
                 queue, todo, expiring, came, lost, dispatched>>

\* The commit: UPDATE ... WHERE id, whatever the row has become.
Write(a) ==
  /\ pc[a] = "write" /\ Goto(a, "claim")
  /\ row' = [row EXCEPT ![rep[a][1]] = rep[a][2]]
  /\ took' = took \cup {rep[a]}
  /\ UNCHANGED <<gatewayVars, mapped, rep, markVars, bufferVars, result, sends,
                 queue, todo, expiring, faults, came, lost, dispatched>>

\* SET NX of dlr_fx says who sets off the effects; nobody if Redis fails. The
\* report counts as seen from here on.
ClaimBy(a, open) ==
  /\ pc[a] = "claim"
  /\ \E upClaim, upMark \in BOOLEAN :
       /\ Redis(upClaim /\ upMark) /\ MarkSeen(rep[a], upMark)
       /\ IF (upClaim \/ open) /\ rep[a] \notin fx
          THEN /\ fx' = IF upClaim THEN fx \cup {rep[a]} ELSE fx
               /\ Goto(a, "dispatch")
          ELSE fx' = fx /\ Finish(a, TRUE)
  /\ UNCHANGED <<gatewayVars, rowVars, rep, unmatched, bufferVars, result, sends,
                 queue, todo, expiring, came, lost, dispatched>>

\* What must not happen: without Redis the effects are set off all the same.
ClaimUnchecked(a) == ClaimBy(a, TRUE)
Claim(a) == ClaimBy(a, FALSE)

Dispatch(a) ==
  /\ pc[a] = "dispatch" /\ Finish(a, TRUE)
  /\ dispatched' = [dispatched EXCEPT ![rep[a]] = @ + 1]
  /\ UNCHANGED <<gatewayVars, rowVars, rep, markVars, bufferVars, result, sends,
                 queue, todo, expiring, faults, came, lost>>

\* The task is over; the broker has its acknowledgement from its start.
TaskEnds(w) ==
  /\ pc[w] = "end" /\ w # Flush
  /\ Goto(w, "idle") /\ rep' = [rep EXCEPT ![w] = NoReport]
  /\ UNCHANGED <<gatewayVars, rowVars, markVars, bufferVars, result, sends, queue,
                 todo, expiring, faults, came, lost, dispatched>>

\* An error of the database or the soft time limit: the task answers that it
\* failed and is not repeated; a flush counts a retry.
Error(a) ==
  /\ Fault("db") /\ pc[a] \in {"match", "write"}
  /\ Finish(a, FALSE)
  /\ lost' = IF a = Flush THEN lost ELSE lost \cup {rep[a][1]}
  /\ UNCHANGED <<gatewayVars, rowVars, rep, markVars, bufferVars, result, sends,
                 queue, todo, expiring, came, dispatched>>

\* The report of a task that has got this far is in its row, or in the buffer,
\* or was given up before.
HandedOn(a) == pc[a] \in {"mark", "claim", "dispatch", "end"}

\* The process dies, or the hard time limit kills it. The task has neither
\* acks_late nor reject_on_worker_lost: it was acknowledged when it started, so
\* a report that only the process had is gone. A flush that dies is a flush
\* that ended (its lock expires): what it had not removed is still buffered.
Kill(a) ==
  /\ Fault("kill") /\ pc[a] # "idle"
  /\ lost' = IF a = Flush \/ HandedOn(a) THEN lost ELSE lost \cup {rep[a][1]}
  /\ Goto(a, "idle") /\ rep' = [rep EXCEPT ![a] = NoReport]
  /\ todo' = IF a = Flush THEN {} ELSE todo
  /\ UNCHANGED <<gatewayVars, rowVars, markVars, bufferVars, result, sends, queue,
                 expiring, came, dispatched>>

\* The key of an unmatched id lives for 90 s.
UnmatchedExpires(m) ==
  /\ m \in unmatched /\ unmatched' = unmatched \ {m}
  /\ UNCHANGED <<gatewayVars, rowVars, taskVars, seen, fx, bufferVars, result, sends,
                 queue, todo, expiring, faults, came, lost, dispatched>>

-----------------------------------------------------------------------------
(* flush_dlr_retry_buffer_task *)

\* Entries older than an hour go first; then it reads the others.
FlushStart ==
  LET waiting == {m \in Msg : buffer[m] # NoReport} IN
  /\ pc[Flush] = "idle" /\ todo = {} /\ waiting # {}
  /\ \/ /\ todo' = waiting /\ UNCHANGED <<bufferVars, faults, lost>>
     \/ \E m \in waiting :
          /\ Fault("old")
          /\ buffer' = [buffer EXCEPT ![m] = NoReport]
          /\ count' = [count EXCEPT ![m] = 0]
          /\ lost' = lost \cup {m}
          /\ todo' = waiting \ {m}
  /\ UNCHANGED <<gatewayVars, rowVars, taskVars, markVars, result, sends, queue,
                 expiring, came, dispatched>>

\* The next entry; the mark of its id is not looked at.
FlushNextBy(m, marks) ==
  LET r == <<m, buffer[m]>> IN
  /\ pc[Flush] = "idle" /\ m \in todo /\ todo' = todo \ {m}
  /\ rep' = [rep EXCEPT ![Flush] = r]
  /\ \E up \in BOOLEAN :
       Redis(up) /\ Goto(Flush, IF up /\ (r \in seen \/ m \in marks)
                            THEN "found" ELSE "match")
  /\ UNCHANGED <<gatewayVars, rowVars, markVars, bufferVars, result, sends, queue,
                 expiring, came, lost, dispatched>>

\* What must not happen: a flush runs into the mark of the report it retries.
FlushNextShortCircuits(m) == FlushNextBy(m, unmatched)
FlushNext(m) == FlushNextBy(m, {})

\* The time budget is used up: the rest is left to the next flush.
FlushStop ==
  /\ pc[Flush] = "idle" /\ todo # {} /\ todo' = {}
  /\ Fault("budget")
  /\ UNCHANGED <<gatewayVars, rowVars, taskVars, markVars, bufferVars, result, sends,
                 queue, expiring, came, lost, dispatched>>

\* remove_retry_item or increment_retry_count.
FlushEnds(limit) ==
  LET m == rep[Flush][1]  gaveUp == count[m] + 1 >= limit IN
  /\ pc[Flush] \in {"found", "missed"} /\ Goto(Flush, "idle")
  /\ rep' = [rep EXCEPT ![Flush] = NoReport]
  /\ \/ /\ Redis(FALSE) /\ UNCHANGED <<bufferVars, lost>>
     \/ /\ pc[Flush] = "found" \/ gaveUp
        /\ UNCHANGED faults
        /\ buffer' = [buffer EXCEPT ![m] = NoReport]
        /\ count' = [count EXCEPT ![m] = 0]
        /\ lost' = IF pc[Flush] = "missed" THEN lost \cup {m} ELSE lost
     \/ /\ pc[Flush] = "missed" /\ ~gaveUp
        /\ UNCHANGED faults
        /\ count' = [count EXCEPT ![m] = @ + 1] /\ UNCHANGED <<buffer, lost>>
  /\ UNCHANGED <<gatewayVars, rowVars, markVars, result, sends, queue, todo,
                 expiring, came, dispatched>>

\* What must not happen: one retry more than there are.
FlushDoneOnceMore == FlushEnds(MaxRetries + 1)
FlushDone == FlushEnds(MaxRetries)

Process(a) ==
  Match(a) \/ Miss(a) \/ MarkUnmatched(a) \/ Write(a) \/ Claim(a) \/ Dispatch(a)

Next ==
  \/ \E m \in Msg : Respond(m) \/ RetryMark(m) \/ WriteResult(m) \/ ExpireSelect(m)
                    \/ UnmatchedExpires(m) \/ FlushNext(m)
  \/ \E r \in Report : DeliverSM(r) \/ PublishFails(r) \/ MarkDLRPublished(r)
  \/ \E w \in Worker : TaskEnds(w) \/ \E r \in Report : Receive(w, r)
  \/ \E a \in Actor : Process(a) \/ Error(a) \/ Kill(a)
  \/ RestartGateway \/ ExpireUpdate \/ FlushStart \/ FlushStop \/ FlushDone

\* The Celery workers run their tasks, beat starts a flush every five seconds.
Fairness ==
  /\ \A w \in Worker : WF_vars(Process(w) \/ TaskEnds(w) \/ \E r \in Report : Receive(w, r))
  /\ WF_vars(Process(Flush))
  /\ WF_vars(FlushStart \/ FlushDone \/ \E m \in Msg : FlushNext(m))

Spec == Init /\ [][Next]_vars
FairSpec == Spec /\ Fairness

-----------------------------------------------------------------------------
(* Properties *)

Concluded(m) == row[m] \in Settled \cup {"expired"}

\* The variables keep their types; a task has a report exactly while it runs.
TypeOK ==
  /\ row \in [Msg -> RowState] /\ result \subseteq Msg /\ mapped \subseteq Msg
  /\ owned \subseteq Msg /\ ownTry \in [Msg -> 0..MarkAttempts]
  /\ sends \in [Msg -> 0..MaxSends]
  /\ marking \subseteq Report /\ published \subseteq Report
  /\ queue \in [Report -> Nat]
  /\ pc \in [Actor -> Step] /\ rep \in [Actor -> Report \cup {NoReport}]
  /\ \A a \in Actor : IF pc[a] = "idle" THEN rep[a] = NoReport ELSE rep[a] \in Report
  /\ seen \subseteq Report /\ unmatched \subseteq Msg /\ fx \subseteq Report
  /\ buffer \in [Msg -> Status \cup {NoReport}]
  /\ count \in [Msg -> 0..MaxRetries - 1]
  /\ todo \subseteq Msg /\ expiring \subseteq Msg
  /\ came \subseteq Report /\ lost \subseteq Msg /\ took \subseteq Report
  /\ dispatched \in [Report -> Nat] /\ faults \in 0..MaxFaults

\* A report that was published is in the queue, with a task, in the buffer or
\* has concluded its row, unless it was given up where the code gives up (an
\* error that is swallowed, a buffer that refuses it, its last retry) or its
\* process died before it was written or buffered (process_smpp_dlr_task is
\* acknowledged when it starts). No mark and no short-circuit on the way loses
\* one, nor does the death of a flush or of a task that was further than that.
\* Of final reports only: one that is not ("sent", for any other stat) settles
\* nothing and, waiting in the buffer, keeps a later one out of it.
Carried(m) ==
  \/ \E s \in Status : queue[<<m, s>>] > 0
  \/ \E w \in Worker : rep[w] # NoReport /\ rep[w][1] = m /\ pc[w] # "end"
  \/ buffer[m] # NoReport
Interim(m) == <<m, "sent">> \in came
ReportKept ==
  \A r \in came : LET m == r[1] IN
    Concluded(m) \/ m \in lost \/ Carried(m) \/ Interim(m)

\* However often the upstream retransmits and whoever dies or flushes beside a
\* task, the effects of a report are set off at most once, and only for a
\* status the row has taken (dlr_fx): from the report, or "sent" from its
\* result.
DispatchedOnce ==
  \A r \in Report : dispatched[r] > 0 =>
    /\ dispatched[r] = 1
    /\ r \in took \/ (r[1] \in mapped /\ r[2] = "sent")

\* A report that was published concludes its row in the end, or is given up, or
\* died with its process (see ReportKept): the buffer is gone through until it
\* is empty.
EventuallyConcluded ==
  \A r \in Report : LET m == r[1] IN
    r \in came ~> (Concluded(m) \/ m \in lost \/ Interim(m))

\* A row that is delivered or failed stays so. docs: P0-4, a terminal state
\* does not flip any more.
SettledStays ==
  [][\A m \in Msg : row[m] \in Settled /\ row'[m] \in Settled => row'[m] = row[m]]_vars
=============================================================================
