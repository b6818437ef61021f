----------------------------- MODULE BatchProgress -----------------------------
(***************************************************************************)
(* The row of sms_batches against the rows of sms_logs. Whoever changes a  *)
(* row of a batch calls update_batch_progress, which counts the rows and   *)
(* then writes counters and status; a task does so every thirty seconds,   *)
(* and the inspector closes what has stood still. Chunks bring the rows    *)
(* (BatchCharging), tasks and the SMPP gateway send them, the customer     *)
(* cancels, an administrator pauses, clears and resumes.                   *)
(*                                                                         *)
(* update_batch_progress reads counts and batch in one transaction and     *)
(* writes the columns that differ from what it read: a reader is a step, a *)
(* writer another. At most Tail rows are 2 % of a batch.                   *)
(***************************************************************************)
EXTENDS Integers, FiniteSets

CONSTANTS
  Row, Chunk, Of,   \* Of[r]: the chunk that writes r
  Smpp,             \* rows for an SMPP channel, the others for HTTP
  Updater,          \* processes inside update_batch_progress
  Tail,
  OpKinds, MaxOps,  \* what customer and administrator do, and how often
  FaultKinds, MaxFaults

Unsent == {"pending"}
Sent == {"sent", "delivered"}
Failed == {"failed", "expired"}
RowStatus == {"none", "cancelled"} \cup Unsent \cup Sent \cup Failed
BatchStatus == {"processing", "paused", "completed", "failed", "cancelled"}

ASSUME RowAssumption == Of \in [Row -> Chunk] /\ Smpp \subseteq Row
ASSUME BoundAssumption ==
  IsFiniteSet(Row) /\ {Tail, MaxOps, MaxFaults} \subseteq Nat

VARIABLES
  row,         \* sms_logs.status of each row, "none" before it is written
  batch,       \* sms_batches: status, total_count, the counters, completed_at
  chunk,       \* a chunk waits in Celery, has written or was skipped or lost
  task,        \* how often a row waits in the queue of its channel
  out,         \* rows with an upstream, their result not written yet
  flag,        \* batch:cancelled is set in Redis
  snap,        \* what an updater has read, or NoSnap
  ops, faults,
  cut          \* history: total_count was lowered with a chunk still to come

vars == <<row, batch, chunk, task, out, flag, snap, ops, faults, cut>>

NoSnap == [status |-> "none"]

Fault(kind) ==
  kind \in FaultKinds /\ faults < MaxFaults /\ faults' = faults + 1
Op(kind) == kind \in OpKinds /\ ops < MaxOps /\ ops' = ops + 1

Count(S) == Cardinality({r \in Row : row[r] \in S})
Counts == [sent |-> Count(Sent), delivered |-> Count({"delivered"}),
           failed |-> Count(Failed), pending |-> Count(Unsent),
           logs |-> Count(RowStatus \ {"none"})]

Init ==
  /\ row = [r \in Row |-> "none"]
  /\ batch = [status |-> "processing", total |-> Cardinality(Row), sent |-> 0,
              delivered |-> 0, failed |-> 0, closed |-> FALSE]
  /\ chunk = [c \in Chunk |-> "waiting"]
  /\ task = [r \in Row |-> 0] /\ out = {} /\ flag = FALSE
  /\ snap = [u \in Updater |-> NoSnap]
  /\ ops = 0 /\ faults = 0 /\ cut = FALSE

-----------------------------------------------------------------------------
(* update_batch_progress *)

\* What the counts n say about a batch b: status and completed_at. Nothing is
\* finished before all rows are there and have an outcome.
VerdictBy(b, n, waits) ==
  LET complete == n.logs >= b.total \/ ~waits
      stays == IF b.status = "completed" /\ (n.pending > 0 \/ n.logs > n.sent + n.failed)
               THEN "processing" ELSE b.status
  IN  IF complete /\ n.sent + n.failed >= n.logs
      THEN [status |-> IF n.failed > 0 /\ n.sent = 0 THEN "failed" ELSE "completed",
            closed |-> TRUE]
      ELSE IF complete /\ n.pending \in 1..Tail
      THEN [status |-> "processing", closed |-> FALSE]
      ELSE IF complete /\ b.status = "completed"
      THEN [status |-> stays, closed |-> b.closed /\ stays = "completed"]
      ELSE [status |-> IF stays \in {"completed", "failed", "cancelled"}
                       THEN stays ELSE "processing",
            closed |-> FALSE]

\* What must not happen: rows that are still to be written are not waited for.
VerdictEarly(b, n) == VerdictBy(b, n, FALSE)
Verdict(b, n) == VerdictBy(b, n, TRUE)

\* The columns that differ from what was seen are written; completed_at is
\* another one each time the batch is closed anew.
Update(seen, n) ==
  \E v \in {Verdict(seen, n)} :
    LET new == [seen EXCEPT !.status = v.status, !.closed = v.closed, !.sent = n.sent,
                            !.delivered = n.delivered, !.failed = n.failed]
        changed == {k \in DOMAIN seen : new[k] # seen[k]}
                     \cup (IF v.closed /\ v.status # seen.status THEN {"closed"} ELSE {})
    IN  batch' = [k \in DOMAIN batch |->
                    IF k \in changed THEN new[k] ELSE batch[k]]

Read(u) ==
  /\ snap[u] = NoSnap
  /\ snap' = [snap EXCEPT ![u] = [status |-> "read", batch |-> batch, counts |-> Counts]]
  /\ UNCHANGED <<row, batch, chunk, task, out, flag, ops, faults, cut>>

Write(u) ==
  /\ snap[u] # NoSnap /\ snap' = [snap EXCEPT ![u] = NoSnap]
  /\ Update(snap[u].batch, snap[u].counts)
  /\ UNCHANGED <<row, chunk, task, out, flag, ops, faults, cut>>

\* An error is logged and rolled back.
WriteFails(u) ==
  /\ snap[u] # NoSnap /\ snap' = [snap EXCEPT ![u] = NoSnap] /\ Fault("db")
  /\ UNCHANGED <<row, batch, chunk, task, out, flag, ops, cut>>

Recount == (\E n \in {Counts} : Update(batch, n)) /\ batch' # batch

\* sync_processing_batch_progress_task, for one batch at a time: those that are
\* processing, and those that were completed or cancelled in the last day.
SyncBy(open) ==
  /\ \/ batch.status \in open
     \/ batch.closed /\ batch.status \in {"completed", "cancelled"}
  /\ Recount
  /\ UNCHANGED <<row, chunk, task, out, flag, snap, ops, faults, cut>>

\* What must not happen: only what was finished is looked at.
SyncClosedOnly == SyncBy({})
Sync == SyncBy({"processing"})

-----------------------------------------------------------------------------
(* Chunks and senders *)

\* A chunk writes its rows and hands them over, or finds the batch cancelled or
\* failed.
RunChunk(c) ==
  /\ chunk[c] = "waiting"
  /\ IF batch.status \in {"cancelled", "failed"}
     THEN /\ chunk' = [chunk EXCEPT ![c] = "skipped"] /\ UNCHANGED <<row, task>>
     ELSE /\ chunk' = [chunk EXCEPT ![c] = "written"]
          /\ row' = [r \in Row |-> IF Of[r] = c THEN "pending" ELSE row[r]]
          /\ task' = [r \in Row |-> IF Of[r] = c THEN 1 ELSE task[r]]
  /\ UNCHANGED <<batch, out, flag, snap, ops, faults, cut>>

\* All its retries used up, or out of time.
LoseChunk(c) ==
  /\ chunk[c] = "waiting" /\ Fault("chunk")
  /\ chunk' = [chunk EXCEPT ![c] = "skipped"]
  /\ UNCHANGED <<row, batch, task, out, flag, snap, ops, cut>>

\* send_sms_task: a cancelled batch fails the row, a paused one leaves it.
Send(r) ==
  /\ r \notin Smpp /\ task[r] > 0
  /\ task' = [task EXCEPT ![r] = @ - 1]
  /\ IF row[r] \notin Unsent \/ batch.status = "paused"
     THEN UNCHANGED row
     ELSE \E s \in IF batch.status = "cancelled" THEN {"failed"} ELSE {"sent", "failed"} :
            row' = [row EXCEPT ![r] = s]
  /\ UNCHANGED <<batch, chunk, out, flag, snap, ops, faults, cut>>

\* The gateway does not look at the batch, but for the flag in Redis.
Take(r) ==
  /\ r \in Smpp /\ task[r] > 0
  /\ task' = [task EXCEPT ![r] = @ - 1]
  /\ IF flag /\ row[r] \in Unsent
     THEN row' = [row EXCEPT ![r] = "failed"] /\ UNCHANGED out
     ELSE out' = out \cup {r} /\ UNCHANGED row
  /\ UNCHANGED <<batch, chunk, flag, snap, ops, faults, cut>>

\* The result is written whatever the row has become.
Result(r) ==
  /\ r \in out /\ out' = out \ {r}
  /\ \E s \in {"sent", "failed"} : row' = [row EXCEPT ![r] = s]
  /\ UNCHANGED <<batch, chunk, task, flag, snap, ops, faults, cut>>

Report(r) ==
  /\ row[r] = "sent"
  /\ \E s \in {"delivered", "failed"} : row' = [row EXCEPT ![r] = s]
  /\ UNCHANGED <<batch, chunk, task, out, flag, snap, ops, faults, cut>>

-----------------------------------------------------------------------------
(* inspect_batches_task, of a batch that has stood still. The calls of        *)
(* update_batch_progress it goes on with are those of an updater.             *)

\* Half an hour: what waits for an outcome expires, unless the queue of the
\* gateway is not empty and the batch has rows there.
Expire ==
  /\ batch.status = "processing" /\ Count(Unsent) > 0
  /\ (\E r \in Smpp : row[r] \in Unsent) => \A r \in Smpp : task[r] = 0
  /\ row' = [r \in Row |-> IF row[r] \in Unsent THEN "expired" ELSE row[r]]
  /\ UNCHANGED <<batch, chunk, task, out, flag, snap, ops, faults, cut>>

\* As many rows as there should be have a final status, the others are not
\* looked at: the batch is completed, even if each of them failed.
Complete ==
  /\ batch.status = "processing"
  /\ Count({"delivered"} \cup Failed) >= batch.total
  /\ batch' = [batch EXCEPT !.status = "completed", !.closed = TRUE]
  /\ UNCHANGED <<row, chunk, task, out, flag, snap, ops, faults, cut>>

\* Five minutes, nothing waits and rows are missing: they will never come.
Align ==
  /\ batch.status = "processing" /\ Count(Unsent) = 0
  /\ Counts.logs \in 1..batch.total - 1
  /\ batch' = [batch EXCEPT !.total = Counts.logs]
  /\ cut' = (cut \/ \E c \in Chunk : chunk[c] = "waiting")
  /\ UNCHANGED <<row, chunk, task, out, flag, snap, ops, faults>>

\* A batch that failed has rows that were sent after all.
RevivalBy(revives) ==
  /\ revives /\ batch.status = "failed" /\ Count(Sent) > 0
  /\ Recount
  /\ UNCHANGED <<row, chunk, task, out, flag, snap, ops, faults, cut>>

\* What must not happen: the verdict on a batch is never looked at again.
NoRevival == RevivalBy(FALSE)
Revive == RevivalBy(TRUE)

-----------------------------------------------------------------------------
(* Customer and administrator *)

CancelAs(status) ==
  /\ Op("cancel") /\ batch.status \notin {"completed", "failed"}
  /\ batch' = [batch EXCEPT !.status = status] /\ flag' = TRUE
  /\ UNCHANGED <<row, chunk, task, out, snap, faults, cut>>

\* What must not happen: a status the others do not know.
CancelMisspelt == CancelAs("canceled")
Cancel == CancelAs("cancelled")

Pause ==
  /\ Op("pause") /\ batch.status = "processing"
  /\ batch' = [batch EXCEPT !.status = "paused"]
  /\ UNCHANGED <<row, chunk, task, out, flag, snap, faults, cut>>

\* The rows that wait are sent again, those whose tasks still wait as well.
Resume ==
  /\ Op("resume") /\ batch.status = "paused"
  /\ batch' = [batch EXCEPT !.status = "processing"]
  /\ task' = [r \in Row |-> IF row[r] \in Unsent THEN task[r] + 1 ELSE task[r]]
  /\ UNCHANGED <<row, chunk, out, flag, snap, faults, cut>>

\* No flag is set in Redis.
Clear ==
  /\ Op("clear") /\ batch.status = "paused"
  /\ batch' = [batch EXCEPT !.status = "cancelled"]
  /\ row' = [r \in Row |-> IF row[r] \in Unsent THEN "cancelled" ELSE row[r]]
  /\ UNCHANGED <<chunk, task, out, flag, snap, faults, cut>>

Inspect == Expire \/ Complete \/ Align \/ Revive

Next ==
  \/ \E u \in Updater : Read(u) \/ Write(u) \/ WriteFails(u)
  \/ \E c \in Chunk : RunChunk(c) \/ LoseChunk(c)
  \/ \E r \in Row : Send(r) \/ Take(r) \/ Result(r) \/ Report(r)
  \/ Sync \/ Inspect
  \/ Cancel \/ Pause \/ Resume \/ Clear

Spec == Init /\ [][Next]_vars

\* Celery runs its tasks and chunks, an updater that has read writes or fails,
\* beat starts the two periodic tasks.
FairSpec ==
  /\ Spec
  /\ \A u \in Updater : WF_vars(Write(u) \/ WriteFails(u))
  /\ \A c \in Chunk : WF_vars(RunChunk(c) \/ LoseChunk(c))
  /\ \A r \in Row : WF_vars(Send(r) \/ Take(r))
  /\ WF_vars(Sync) /\ WF_vars(Expire) /\ WF_vars(Align) /\ WF_vars(Revive)

-----------------------------------------------------------------------------
(* Properties *)

TypeOK ==
  /\ row \in [Row -> RowStatus]
  /\ batch \in [status : BatchStatus, total : 0..Cardinality(Row), closed : BOOLEAN,
                sent : 0..Cardinality(Row), delivered : 0..Cardinality(Row),
                failed : 0..Cardinality(Row)]
  /\ chunk \in [Chunk -> {"waiting", "written", "skipped"}]
  /\ task \in [Row -> Nat] /\ out \subseteq Row /\ flag \in BOOLEAN
  /\ DOMAIN snap = Updater /\ ops \in 0..MaxOps /\ faults \in 0..MaxFaults
  /\ cut \in BOOLEAN

\* A batch is completed or failed only when each of its rows is there and has
\* an outcome or will never come, even if the verdict was reached on counts
\* that are out of date; unless its total was lowered too early.
CompletedIsDone ==
  batch.status \in {"completed", "failed"} /\ ~cut
    => \A r \in Row : row[r] \in Sent \cup Failed \/ chunk[Of[r]] = "skipped"

Agrees ==
  /\ batch.sent = Counts.sent /\ batch.delivered = Counts.delivered
  /\ batch.failed = Counts.failed

\* No batch stays at "processing" for ever (352, 418) with nobody's hand on it,
\* as long as one of its chunks has written rows and none of them was cleared.
\* With a total that was lowered too early it may change sides for ever: the
\* inspector completes it, the next recount opens it again.
EventuallySettled ==
  <>[](\/ batch.status \in {"completed", "failed", "cancelled", "paused"}
       \/ cut
       \/ Counts.logs = 0
       \/ \E r \in Row : row[r] = "cancelled")

\* Its counters agree with the rows in the end, also when updates overtake
\* each other and when results and reports come afterwards (538, 1638), and
\* a batch that failed has no row that was sent. Nothing repairs the counters
\* of a batch that failed, or those of one that is cancelled or paused.
EventuallyAgrees ==
  <>[](\/ batch.status \in {"cancelled", "paused"}
       \/ batch.status = "failed" /\ Counts.sent = 0
       \/ batch.status # "failed" /\ Agrees
       \/ cut)

\* An administrator who pauses a batch decides when it goes on (batch_admin:
\* paused -> processing is resume_batch).
PauseHolds ==
  [][batch.status = "paused" /\ batch'.status # "paused" => ops' > ops]_vars
=============================================================================
