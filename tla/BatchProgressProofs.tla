-------------------------- MODULE BatchProgressProofs --------------------------
(***************************************************************************)
(* Theorems about BatchProgress, for every set of rows, chunks and         *)
(* updaters and every bound: the counters are counts of rows, and a batch  *)
(* that is completed or failed has no row that still waits for its         *)
(* outcome, although the verdict may be written on counts that are out of  *)
(* date. From RowAssumption and BoundAssumption.                           *)
(***************************************************************************)
EXTENDS BatchProgress, FiniteSetTheorems, TLAPS

-----------------------------------------------------------------------------
(* The invariants *)

Number == 0..Cardinality(Row)
Batch == [status : BatchStatus, total : Number, closed : BOOLEAN, sent : Number,
          delivered : Number, failed : Number]
Counted == [sent : Number, delivered : Number, failed : Number, pending : Number,
            logs : Number]
Snap == [status : {"read"}, batch : Batch, counts : Counted]

Typed == TypeOK /\ snap \in [Updater -> {NoSnap} \cup Snap]

(* A row is there exactly when its chunk has written it; only rows that are *)
(* there are sent.                                                          *)
ChunksWrite ==
  \A r \in Row : /\ row[r] = "none" <=> chunk[Of[r]] # "written"
                 /\ task[r] > 0 \/ r \in out => row[r] # "none"

(* The total is that of the customer as long as a chunk is to come, and     *)
(* never less than there are rows.                                          *)
TotalRight ==
  ~cut => /\ batch.total >= Counts.logs
          /\ (\E c \in Chunk : chunk[c] = "waiting") => batch.total = Cardinality(Row)

(* What the counts n say of a batch b when it is over, and what is true     *)
(* then and from then on.                                                   *)
Finished(b, n) == n.logs >= b.total /\ n.sent + n.failed >= n.logs
AllDone == \A r \in Row : row[r] \in Sent \cup Failed \/ chunk[Of[r]] = "skipped"

(* Who has read a batch that is over may write so at any time: counts that  *)
(* are out of date are not wrong about it.                                  *)
SnapsTrue ==
  \A u \in Updater : ~cut /\ snap[u] # NoSnap /\ Finished(snap[u].batch, snap[u].counts)
                       => AllDone

Justified == ChunksWrite /\ TotalRight /\ SnapsTrue /\ CompletedIsDone

-----------------------------------------------------------------------------
(* Counting rows *)

(* How many rows have a status of S is a number between none and all.       *)
LEMMA CountTyped ==
  ASSUME NEW S
  PROVE  /\ Count(S) \in Number /\ IsFiniteSet({r \in Row : row[r] \in S})
         /\ Cardinality(Row) \in Nat
         /\ Count(S) = Cardinality(Row) => \A r \in Row : row[r] \in S
<1> DEFINE T == {r \in Row : row[r] \in S}
<1>1. IsFiniteSet(Row) /\ T \in SUBSET Row
  BY BoundAssumption
<1>2. /\ IsFiniteSet(T) /\ Cardinality(T) <= Cardinality(Row)
      /\ Cardinality(Row) = Cardinality(T) => Row = T
  BY <1>1, FS_Subset
<1>3. Cardinality(Row) \in Nat /\ Cardinality(T) \in Nat
  BY <1>1, <1>2, FS_CardinalityType
<1>4. Row = T => \A r \in Row : row[r] \in S
  OBVIOUS
<1>5. Count(S) = Cardinality(T)
  BY DEF Count
<1> HIDE DEF T
<1> QED BY <1>2, <1>3, <1>4, <1>5 DEF Number, T

(* The counts are what an updater can read.                                 *)
LEMMA CountsTyped == Counts \in Counted
BY CountTyped DEF Counts, Counted

(* The same of the state a step leads to.                                   *)
LEMMA CountsTypedNext == Counts' \in Counted
<1>1. ASSUME NEW T \in SUBSET Row PROVE Cardinality(T) \in Number
  <2>1. IsFiniteSet(Row) /\ IsFiniteSet(T) /\ Cardinality(T) <= Cardinality(Row)
    BY BoundAssumption, FS_Subset
  <2> QED BY <2>1, FS_CardinalityType DEF Number
<1>2. \A S : Cardinality({r \in Row : row'[r] \in S}) \in Number
  BY <1>1
<1> QED BY <1>2 DEF Counts, Count, Counted

(* As many rows are sent or failed as there are: each one is.               *)
LEMMA OutcomesCounted ==
  ASSUME row \in [Row -> RowStatus], Counts.sent + Counts.failed >= Counts.logs
  PROVE  \A r \in Row : row[r] # "none" => row[r] \in Sent \cup Failed
<1> DEFINE A == {r \in Row : row[r] \in Sent}  B == {r \in Row : row[r] \in Failed}
           L == {r \in Row : row[r] \in RowStatus \ {"none"}}
<1>1. IsFiniteSet(A) /\ IsFiniteSet(B) /\ IsFiniteSet(L)
  BY CountTyped
<1>2. /\ Counts.sent = Cardinality(A) /\ Counts.failed = Cardinality(B)
      /\ Counts.logs = Cardinality(L)
  BY DEF Counts, Count
<1>3. A \cap B = {} /\ A \cup B \in SUBSET L
  BY DEF Sent, Failed, RowStatus
<1>4. \A r \in Row : row[r] # "none" => r \in L
  OBVIOUS
<1>5. \A r \in A \cup B : row[r] \in Sent \cup Failed
  OBVIOUS
<1> HIDE DEF A, B, L
<1>6. Cardinality(A \cup B) = Cardinality(A) + Cardinality(B)
  <2>1. Cardinality(A \cup B) = Cardinality(A) + Cardinality(B) - Cardinality({})
    BY <1>1, <1>3, FS_Union
  <2> QED BY <1>1, <2>1, FS_EmptySet, FS_CardinalityType
<1>7. /\ Cardinality(A) \in Nat /\ Cardinality(B) \in Nat /\ Cardinality(L) \in Nat
      /\ Cardinality(A \cup B) <= Cardinality(L)
      /\ Cardinality(L) = Cardinality(A \cup B) => L = A \cup B
  BY <1>1, <1>3, FS_Subset, FS_CardinalityType
<1>8. L = A \cup B
  BY <1>2, <1>6, <1>7
<1> QED BY <1>4, <1>5, <1>8

(* All rows are there that should be.                                       *)
LEMMA AllThere ==
  ASSUME NEW S, Count(S) >= Cardinality(Row)
  PROVE  \A r \in Row : row[r] \in S
<1>1. Count(S) \in Number /\ Cardinality(Row) \in Nat
  BY CountTyped
<1>2. Count(S) = Cardinality(Row)
  BY <1>1 DEF Number
<1> QED BY <1>2, CountTyped

(* A batch that is over by counts that are right has no row left to wait    *)
(* for.                                                                     *)
LEMMA FinishedDone ==
  ASSUME Typed, ChunksWrite, TotalRight, ~cut, Finished(batch, Counts)
  PROVE  AllDone
<1> USE DEF Typed, TypeOK
<1>1. \A r \in Row : row[r] # "none" => row[r] \in Sent \cup Failed
  BY OutcomesCounted DEF Finished
<1>2. CASE \E c \in Chunk : chunk[c] = "waiting"
  <2>1. Count(RowStatus \ {"none"}) >= Cardinality(Row)
    BY <1>2 DEF TotalRight, Finished, Counts
  <2>2. \A r \in Row : row[r] \in RowStatus \ {"none"}
    BY <2>1, AllThere
  <2> QED BY <1>1, <2>2 DEF AllDone
<1>3. CASE \A c \in Chunk : chunk[c] # "waiting"
  <2>1. \A r \in Row : row[r] = "none" => chunk[Of[r]] = "skipped"
    BY <1>3, RowAssumption DEF ChunksWrite
  <2> QED BY <1>1, <2>1 DEF AllDone
<1> QED BY <1>2, <1>3

-----------------------------------------------------------------------------
(* update_batch_progress *)

(* A verdict is a status the batch can have; it is a new final one only     *)
(* when the counts say that the batch is over.                              *)
LEMMA VerdictTyped ==
  ASSUME NEW b \in Batch, NEW n \in Counted
  PROVE  /\ Verdict(b, n).status \in BatchStatus /\ Verdict(b, n).closed \in BOOLEAN
         /\ Verdict(b, n).status \in {"completed", "failed"} =>
              Verdict(b, n).status = b.status \/ Finished(b, n)
<1> DEFINE stays == IF b.status = "completed" /\ (n.pending > 0 \/ n.logs > n.sent + n.failed)
                    THEN "processing" ELSE b.status
<1>0. b.status \in BatchStatus /\ b.closed \in BOOLEAN
  BY DEF Batch
<1>1. stays \in BatchStatus /\ (stays \in {"completed", "failed"} => stays = b.status)
  BY <1>0 DEF BatchStatus
<1>2. \/ /\ n.logs >= b.total /\ n.sent + n.failed >= n.logs
         /\ \E s \in {"failed", "completed"} : Verdict(b, n) = [status |-> s, closed |-> TRUE]
      \/ Verdict(b, n) = [status |-> "processing", closed |-> FALSE]
      \/ Verdict(b, n) = [status |-> stays, closed |-> b.closed /\ stays = "completed"]
      \/ Verdict(b, n) = [status |-> stays, closed |-> FALSE]
  BY DEF Verdict, VerdictBy
<1> HIDE DEF stays
<1>3. (b.closed /\ stays = "completed") \in BOOLEAN /\ {TRUE, FALSE} \subseteq BOOLEAN
  OBVIOUS
<1>4. \/ Verdict(b, n).closed = TRUE \/ Verdict(b, n).closed = FALSE
      \/ Verdict(b, n).closed = (b.closed /\ stays = "completed")
  BY <1>2
<1>5. Verdict(b, n).closed \in BOOLEAN
  BY <1>3, <1>4, Zenon
<1>6. \/ Verdict(b, n).status \in {"failed", "completed"} /\ Finished(b, n)
      \/ Verdict(b, n).status \in {"processing", stays}
  BY <1>2 DEF Finished
<1> QED BY <1>1, <1>5, <1>6 DEF BatchStatus

(* What an update leaves: the total, and a final status it has no counts    *)
(* for.                                                                     *)
LEMMA UpdateTyped ==
  ASSUME batch \in Batch, NEW seen \in Batch, NEW n \in Counted, Update(seen, n)
  PROVE  /\ batch' \in Batch /\ batch'.total = batch.total
         /\ batch'.status \in {"completed", "failed"} =>
              batch'.status = batch.status \/ Finished(seen, n)
<1> DEFINE v == Verdict(seen, n)
           new == [seen EXCEPT !.status = v.status, !.closed = v.closed, !.sent = n.sent,
                               !.delivered = n.delivered, !.failed = n.failed]
           changed == {k \in DOMAIN seen : new[k] # seen[k]}
                        \cup (IF v.closed /\ v.status # seen.status THEN {"closed"} ELSE {})
<1>1. batch' = [k \in DOMAIN batch |-> IF k \in changed THEN new[k] ELSE batch[k]]
  BY DEF Update
<1>2. /\ v.status \in BatchStatus /\ v.closed \in BOOLEAN
      /\ v.status \in {"completed", "failed"} => v.status = seen.status \/ Finished(seen, n)
  BY VerdictTyped
<1> HIDE DEF v
<1>3. new \in Batch /\ new.total = seen.total /\ new.status = v.status
  BY <1>2 DEF Batch, Counted
<1>4. "total" \notin changed
  BY <1>3
<1>5. "status" \in changed => v.status # seen.status
  BY <1>3
<1> HIDE DEF changed, new
<1>6. batch' \in Batch
  BY <1>1, <1>3 DEF Batch
<1>7. batch'.total = batch.total
  BY <1>1, <1>4 DEF Batch
<1>8. batch'.status = IF "status" \in changed THEN new.status ELSE batch.status
  BY <1>1 DEF Batch
<1> QED BY <1>2, <1>3, <1>5, <1>6, <1>7, <1>8

-----------------------------------------------------------------------------
(* The steps, by who takes them *)

UpdaterStep == \E u \in Updater : Read(u) \/ Write(u) \/ WriteFails(u)
SendStep ==
  \/ \E c \in Chunk : RunChunk(c) \/ LoseChunk(c)
  \/ \E r \in Row : Send(r) \/ Take(r) \/ Result(r) \/ Report(r)
InspectStep == Sync \/ Inspect
CustomerStep == Cancel \/ Pause \/ Resume \/ Clear

(* Every step is one of these.                                              *)
LEMMA NextSteps ==
  ASSUME Next
  PROVE  UpdaterStep \/ SendStep \/ InspectStep \/ CustomerStep
BY DEF Next, UpdaterStep, SendStep, InspectStep, CustomerStep

-----------------------------------------------------------------------------
(* Types *)

(* TypeOK by its parts: the row of the batch, and the rest.                 *)
LEMMA TypedParts ==
  Typed <=> /\ batch \in Batch /\ snap \in [Updater -> {NoSnap} \cup Snap]
            /\ row \in [Row -> RowStatus]
            /\ chunk \in [Chunk -> {"waiting", "written", "skipped"}]
            /\ task \in [Row -> Nat] /\ out \subseteq Row /\ flag \in BOOLEAN
            /\ ops \in 0..MaxOps /\ faults \in 0..MaxFaults /\ cut \in BOOLEAN
BY DEF Typed, TypeOK, Batch, Number

(* The same of the state a step leads to.                                   *)
LEMMA TypedNext ==
  ASSUME batch' \in Batch, snap' \in [Updater -> {NoSnap} \cup Snap],
         row' \in [Row -> RowStatus],
         chunk' \in [Chunk -> {"waiting", "written", "skipped"}],
         task' \in [Row -> Nat], out' \subseteq Row, flag' \in BOOLEAN,
         ops' \in 0..MaxOps, faults' \in 0..MaxFaults, cut' \in BOOLEAN
  PROVE  Typed'
BY DEF Typed, TypeOK, Batch, Number

(* An operation or a fault is counted within its bound.                     *)
LEMMA BoundsKept ==
  ASSUME Typed,
         ops' = ops \/ \E kind \in OpKinds : Op(kind),
         faults' = faults \/ \E kind \in FaultKinds : Fault(kind)
  PROVE  ops' \in 0..MaxOps /\ faults' \in 0..MaxFaults
BY BoundAssumption DEF Typed, TypeOK, Op, Fault

(* Updaters: what is read and written has its type.                         *)
LEMMA UpdaterTyped ==
  ASSUME Typed, UpdaterStep
  PROVE  Typed'
<1>0. PICK u \in Updater : Read(u) \/ Write(u) \/ WriteFails(u)
  BY DEF UpdaterStep
<1>1. UNCHANGED <<row, chunk, task, out, flag, ops, cut>>
  BY <1>0 DEF Read, Write, WriteFails
<1>2. ops' \in 0..MaxOps /\ faults' \in 0..MaxFaults
  BY <1>0, <1>1, BoundsKept DEF Read, Write, WriteFails, Fault
<1>3. CASE Read(u)
  <2>1. [status |-> "read", batch |-> batch, counts |-> Counts] \in Snap
    BY CountsTyped, TypedParts DEF Snap
  <2> QED BY <1>1, <1>2, <1>3, <2>1, TypedParts, TypedNext DEF Read
<1>4. CASE Write(u)
  <2>1. snap[u] \in Snap
    BY <1>4, TypedParts DEF Write
  <2>2. snap[u].batch \in Batch /\ snap[u].counts \in Counted
    BY <2>1 DEF Snap
  <2>3. batch' \in Batch
    BY <1>4, <2>2, UpdateTyped, TypedParts DEF Write
  <2> QED BY <1>1, <1>2, <1>4, <2>3, TypedParts, TypedNext DEF Write
<1>5. CASE WriteFails(u)
  BY <1>1, <1>2, <1>5, TypedParts, TypedNext DEF WriteFails
<1> QED BY <1>0, <1>3, <1>4, <1>5

(* Chunks and senders: a row goes from one status to another.               *)
LEMMA SendTyped ==
  ASSUME Typed, SendStep
  PROVE  Typed'
<1>1. UNCHANGED <<batch, flag, snap, ops, cut>>
  BY DEF SendStep, RunChunk, LoseChunk, Send, Take, Result, Report
<1>2. ops' \in 0..MaxOps /\ faults' \in 0..MaxFaults
  BY <1>1, BoundsKept DEF SendStep, RunChunk, LoseChunk, Send, Take, Result, Report, Fault
<1>3. row' \in [Row -> RowStatus] /\ out' \subseteq Row
  BY TypedParts DEF SendStep, RunChunk, LoseChunk, Send, Take, Result, Report, RowStatus,
     Unsent, Sent, Failed
<1>4. chunk' \in [Chunk -> {"waiting", "written", "skipped"}]
  BY TypedParts DEF SendStep, RunChunk, LoseChunk, Send, Take, Result, Report
<1>5. task' \in [Row -> Nat]
  <2>1. \/ task' = task
        \/ \E c \in Chunk : task' = [r \in Row |-> IF Of[r] = c THEN 1 ELSE task[r]]
        \/ \E r \in Row : task[r] > 0 /\ task' = [task EXCEPT ![r] = @ - 1]
    BY DEF SendStep, RunChunk, LoseChunk, Send, Take, Result, Report
  <2>2. \A r \in Row : task[r] > 0 => task[r] - 1 \in Nat
    BY TypedParts
  <2> QED BY <2>1, <2>2, TypedParts
<1> QED BY <1>1, <1>2, <1>3, <1>4, <1>5, TypedParts, TypedNext

(* The total that is aligned is a count of rows.                            *)
LEMMA InspectTyped ==
  ASSUME Typed, InspectStep
  PROVE  Typed'
<1>1. UNCHANGED <<chunk, task, out, flag, snap, ops, faults>>
  BY DEF InspectStep, Sync, SyncBy, Inspect, Expire, Complete, Align, Revive, RevivalBy
<1>2. row' \in [Row -> RowStatus]
  BY TypedParts DEF InspectStep, Sync, SyncBy, Inspect, Expire, Complete, Align, Revive,
     RevivalBy, RowStatus, Failed
<1>3. cut' \in BOOLEAN
  <2>1. cut' = cut \/ cut' = (cut \/ \E c \in Chunk : chunk[c] = "waiting")
    BY DEF InspectStep, Sync, SyncBy, Inspect, Expire, Complete, Align, Revive, RevivalBy
  <2>2. (cut \/ \E c \in Chunk : chunk[c] = "waiting") \in BOOLEAN
    OBVIOUS
  <2>3. cut \in BOOLEAN
    BY TypedParts
  <2> QED BY <2>1, <2>2, <2>3, Zenon
<1>4. batch' \in Batch
  <2>1. CASE Recount
    BY <2>1, UpdateTyped, CountsTyped, TypedParts DEF Recount
  <2>2. CASE Complete \/ Align
    <3>1. batch \in Batch /\ Counts.logs \in Number
      BY TypedParts, CountsTyped DEF Counted
    <3> QED BY <2>2, <3>1 DEF Complete, Align, Batch, BatchStatus
  <2>3. CASE Expire
    BY <2>3, TypedParts DEF Expire
  <2> QED BY <2>1, <2>2, <2>3 DEF InspectStep, Sync, SyncBy, Inspect, Revive, RevivalBy
<1> QED BY <1>1, <1>2, <1>3, <1>4, TypedParts, TypedNext

(* Customer and administrator set a status.                                 *)
LEMMA CustomerTyped ==
  ASSUME Typed, CustomerStep
  PROVE  Typed'
<1>1. UNCHANGED <<chunk, out, snap, faults, cut>> /\ flag' \in {flag, TRUE}
  BY DEF CustomerStep, Cancel, CancelAs, Pause, Resume, Clear
<1>2. ops' \in 0..MaxOps /\ faults' \in 0..MaxFaults
  BY <1>1, BoundsKept DEF CustomerStep, Cancel, CancelAs, Pause, Resume, Clear, Op
<1>3. batch' \in Batch
  BY TypedParts DEF CustomerStep, Cancel, CancelAs, Pause, Resume, Clear, Batch, BatchStatus
<1>4. row' \in [Row -> RowStatus]
  BY TypedParts DEF CustomerStep, Cancel, CancelAs, Pause, Resume, Clear, RowStatus
<1>5. task' \in [Row -> Nat]
  <2>1. \A r \in Row : task[r] + 1 \in Nat
    BY TypedParts
  <2> QED BY <2>1, TypedParts DEF CustomerStep, Cancel, CancelAs, Pause, Resume, Clear
<1>6. flag' \in BOOLEAN
  BY <1>1, TypedParts
<1> QED BY <1>1, <1>2, <1>3, <1>4, <1>5, <1>6, TypedParts, TypedNext

(* The types and what updaters have read, always.                           *)
LEMMA AlwaysTyped == Spec => []Typed
<1>1. Init => Typed
  <2>1. Cardinality(Row) \in Nat
    BY BoundAssumption, FS_CardinalityType
  <2> SUFFICES ASSUME Init PROVE Typed
    OBVIOUS
  <2>2. batch \in Batch
    BY <2>1 DEF Init, Batch, Number, BatchStatus
  <2>3. /\ row \in [Row -> RowStatus] /\ task \in [Row -> Nat] /\ out \subseteq Row
        /\ chunk \in [Chunk -> {"waiting", "written", "skipped"}]
        /\ snap \in [Updater -> {NoSnap} \cup Snap]
    BY DEF Init, RowStatus
  <2>4. flag \in BOOLEAN /\ cut \in BOOLEAN
    BY DEF Init
  <2>5. ops \in 0..MaxOps /\ faults \in 0..MaxFaults
    BY BoundAssumption DEF Init
  <2> QED BY <2>2, <2>3, <2>4, <2>5, TypedParts
<1>2. Typed /\ [Next]_vars => Typed'
  <2>1. Typed /\ UNCHANGED vars => Typed'
    BY TypedParts, TypedNext DEF vars
  <2> QED BY <2>1, NextSteps, UpdaterTyped, SendTyped, InspectTyped, CustomerTyped
<1> QED BY <1>1, <1>2, PTL DEF Spec

(* TypeOK: the columns of a batch stay within the number of its rows.       *)
THEOREM TypeCorrect == Spec => []TypeOK
<1>1. Typed => TypeOK
  BY DEF Typed
<1> QED BY <1>1, AlwaysTyped, PTL

-----------------------------------------------------------------------------
(* A verdict is justified *)

(* An outcome is not taken back, a chunk that was skipped stays skipped,    *)
(* and chunks that are done stay done: what was over is over.               *)
LEMMA DoneStays ==
  ASSUME Typed, ChunksWrite, Next, AllDone
  PROVE  AllDone'
<1>1. row \in [Row -> RowStatus] /\ chunk \in [Chunk -> {"waiting", "written", "skipped"}]
  BY TypedParts
<1>2. \A r \in Row : chunk[Of[r]] = "skipped" => chunk'[Of[r]] = "skipped"
  BY <1>1, RowAssumption DEF Next, Read, Write, WriteFails, RunChunk, LoseChunk, Send, Take,
     Result, Report, Sync, SyncBy, Inspect, Expire, Complete, Align, Revive, RevivalBy, Cancel,
     CancelAs, Pause, Resume, Clear
<1>3. ASSUME NEW r \in Row, row[r] \in Sent \cup Failed PROVE row'[r] \in Sent \cup Failed
  <2>1. chunk[Of[r]] # "waiting"
    BY <1>3 DEF ChunksWrite, Sent, Failed
  <2>2. CASE SendStep
    BY <1>1, <1>3, <2>1, <2>2 DEF SendStep, RunChunk, LoseChunk, Send, Take, Result, Report,
       Sent, Failed
  <2>3. CASE UpdaterStep \/ InspectStep \/ CustomerStep
    BY <1>1, <1>3, <2>3 DEF UpdaterStep, Read, Write, WriteFails, InspectStep, Sync, SyncBy,
       Inspect, Expire, Complete, Align, Revive, RevivalBy, CustomerStep, Cancel, CancelAs,
       Pause, Resume, Clear, Sent, Failed, Unsent
  <2> QED BY <2>2, <2>3, NextSteps
<1> QED BY <1>2, <1>3 DEF AllDone

(* A row appears with its chunk and stays; it is sent when it is there.     *)
LEMMA ChunksWriteStays ==
  ASSUME Typed, ChunksWrite, Next
  PROVE  ChunksWrite'
<1>1. /\ row \in [Row -> RowStatus] /\ chunk \in [Chunk -> {"waiting", "written", "skipped"}]
      /\ task \in [Row -> Nat]
  BY TypedParts
<1>2. ASSUME NEW c \in Chunk, RunChunk(c) \/ LoseChunk(c) PROVE ChunksWrite'
  BY <1>1, <1>2, RowAssumption DEF RunChunk, LoseChunk, ChunksWrite
<1>3. ASSUME NEW r \in Row, Send(r) \/ Take(r) PROVE ChunksWrite'
  <2>1. /\ chunk' = chunk /\ task[r] > 0 /\ task' = [task EXCEPT ![r] = @ - 1]
        /\ out' \subseteq out \cup {r}
        /\ row' = row \/ \E s \in {"sent", "failed"} : row' = [row EXCEPT ![r] = s]
    BY <1>3 DEF Send, Take
  <2>2. row[r] # "none"
    BY <2>1 DEF ChunksWrite
  <2>3. \A q \in Row : (row'[q] = "none" <=> row[q] = "none")
    BY <1>1, <2>1, <2>2
  <2>4. \A q \in Row : q # r => task'[q] = task[q]
    BY <1>1, <2>1
  <2> QED BY <2>1, <2>2, <2>3, <2>4 DEF ChunksWrite
<1>4. ASSUME NEW r \in Row, Result(r) \/ Report(r) PROVE ChunksWrite'
  <2>1. /\ chunk' = chunk /\ task' = task /\ out' \subseteq out
        /\ row[r] = "sent" \/ r \in out
        /\ \E s \in {"sent", "delivered", "failed"} : row' = [row EXCEPT ![r] = s]
    BY <1>4 DEF Result, Report
  <2>2. \A q \in Row : (row'[q] = "none" <=> row[q] = "none")
    BY <1>1, <2>1 DEF ChunksWrite
  <2> QED BY <2>1, <2>2 DEF ChunksWrite
<1>5. CASE UpdaterStep \/ InspectStep \/ CustomerStep
  <2>1. UNCHANGED <<chunk, out>>
    BY <1>5 DEF UpdaterStep, Read, Write, WriteFails, InspectStep, Sync, SyncBy, Inspect,
       Expire, Complete, Align, Revive, RevivalBy, CustomerStep, Cancel, CancelAs, Pause,
       Resume, Clear
  <2>2. \A q \in Row : (row'[q] = "none" <=> row[q] = "none")
    BY <1>1, <1>5 DEF UpdaterStep, Read, Write, WriteFails, InspectStep, Sync, SyncBy, Inspect,
       Expire, Complete, Align, Revive, RevivalBy, CustomerStep, Cancel, CancelAs, Pause,
       Resume, Clear, Unsent
  <2>3. \A q \in Row : task'[q] = task[q] \/ row[q] = "pending"
    BY <1>1, <1>5 DEF UpdaterStep, Read, Write, WriteFails, InspectStep, Sync, SyncBy, Inspect,
       Expire, Complete, Align, Revive, RevivalBy, CustomerStep, Cancel, CancelAs, Pause,
       Resume, Clear, Unsent
  <2> QED BY <2>1, <2>2, <2>3 DEF ChunksWrite
<1> QED BY <1>2, <1>3, <1>4, <1>5, NextSteps DEF SendStep

(* The total is right about the rows that are to come: it is lowered to     *)
(* what is there, and if a chunk was to come that is remembered (cut).      *)
LEMMA TotalStays ==
  ASSUME Typed, Typed', ChunksWrite, ChunksWrite', TotalRight, Next
  PROVE  TotalRight'
<1>1. /\ batch \in Batch /\ row \in [Row -> RowStatus] /\ row' \in [Row -> RowStatus]
  BY TypedParts DEF Typed, TypeOK
<1>2. /\ Counts.logs \in Number /\ Counts'.logs \in Number /\ Cardinality(Row) \in Nat
  BY CountsTyped, CountsTypedNext, CountTyped DEF Counted
<1>3. CASE chunk' # chunk
  <2>1. PICK c \in Chunk : RunChunk(c) \/ LoseChunk(c)
    BY <1>3 DEF Next, Read, Write, WriteFails, Send, Take, Result, Report, Sync, SyncBy,
       Inspect, Expire, Complete, Align, Revive, RevivalBy, Cancel, CancelAs, Pause, Resume,
       Clear
  <2>2. batch' = batch /\ cut' = cut /\ chunk[c] = "waiting"
    BY <2>1 DEF RunChunk, LoseChunk
  <2>3. ~cut => batch.total = Cardinality(Row)
    BY <2>2 DEF TotalRight
  <2> QED BY <1>2, <2>2, <2>3 DEF TotalRight, Number
<1>4. CASE chunk' = chunk
  <2>1. Counts'.logs = Counts.logs
    <3>1. \A r \in Row : row'[r] = "none" <=> row[r] = "none"
      BY <1>4 DEF ChunksWrite
    <3>2. {r \in Row : row'[r] \in RowStatus \ {"none"}} = {r \in Row : row[r] \in RowStatus \ {"none"}}
      BY <1>1, <3>1
    <3> QED BY <3>2 DEF Counts, Count
  <2>2. CASE Align
    <3>1. /\ batch' = [batch EXCEPT !.total = Counts.logs]
          /\ ~cut' => \A c \in Chunk : chunk[c] # "waiting"
      BY <2>2 DEF Align
    <3>2. batch'.total = Counts.logs
      BY <1>1, <3>1 DEF Batch
    <3> QED BY <1>2, <1>4, <2>1, <3>1, <3>2 DEF TotalRight, Number
  <2>3. CASE ~Align
    <3>1. cut' = cut
      BY <2>3 DEF Next, Read, Write, WriteFails, RunChunk, LoseChunk, Send, Take, Result,
         Report, Sync, SyncBy, Inspect, Expire, Complete, Revive, RevivalBy, Cancel, CancelAs,
         Pause, Resume, Clear
    <3>2. batch'.total = batch.total
      <4>1. ASSUME NEW u \in Updater, Write(u) PROVE batch'.total = batch.total
        <5>1. snap[u] \in Snap
          BY <4>1, TypedParts DEF Write
        <5>2. snap[u].batch \in Batch /\ snap[u].counts \in Counted
          BY <5>1 DEF Snap
        <5> QED BY <1>1, <4>1, <5>2, UpdateTyped DEF Write
      <4>2. CASE Recount
        BY <1>1, <4>2, UpdateTyped, CountsTyped DEF Recount
      <4>3. batch' = batch \/ (\E s : batch' = [batch EXCEPT !.status = s])
            \/ batch' = [batch EXCEPT !.status = "completed", !.closed = TRUE]
            \/ Recount \/ \E u \in Updater : Write(u)
        BY <2>3 DEF Next, Read, WriteFails, RunChunk, LoseChunk, Send, Take, Result,
           Report, Sync, SyncBy, Inspect, Expire, Complete, Revive, RevivalBy, Cancel,
           CancelAs, Pause, Resume, Clear
      <4> QED BY <1>1, <4>1, <4>2, <4>3 DEF Batch
    <3> QED BY <1>4, <2>1, <3>1, <3>2 DEF TotalRight
  <2> QED BY <2>2, <2>3
<1> QED BY <1>3, <1>4

(* The inspector completes a batch of which all rows that there are have a  *)
(* final status: none of them waits.                                        *)
LEMMA CompleteDone ==
  ASSUME Typed, ChunksWrite, TotalRight, ~cut, Complete
  PROVE  AllDone
<1> DEFINE S == {"delivered"} \cup Failed
           D == {r \in Row : row[r] \in S}  L == {r \in Row : row[r] \in RowStatus \ {"none"}}
<1>1. Count(S) >= batch.total /\ batch \in Batch /\ row \in [Row -> RowStatus]
      /\ chunk \in [Chunk -> {"waiting", "written", "skipped"}]
  BY TypedParts DEF Complete
<1>2. S \subseteq Sent \cup Failed /\ S \subseteq RowStatus \ {"none"}
  BY DEF Sent, Failed, RowStatus
<1>3. CASE \E c \in Chunk : chunk[c] = "waiting"
  <2>1. batch.total = Cardinality(Row)
    BY <1>3 DEF TotalRight
  <2> HIDE DEF S
  <2>2. \A r \in Row : row[r] \in S
    BY <1>1, <2>1, AllThere
  <2> QED BY <1>2, <2>2 DEF AllDone
<1>4. CASE \A c \in Chunk : chunk[c] # "waiting"
  <2>1. Count(S) >= Counts.logs
    <3>1. batch.total >= Counts.logs
      BY DEF TotalRight
    <3>2. Count(S) \in Number /\ Counts.logs \in Number /\ batch.total \in Number
      BY <1>1, CountTyped, CountsTyped DEF Counted, Batch
    <3>3. Cardinality(Row) \in Nat
      BY CountTyped
    <3> HIDE DEF S
    <3> QED BY <1>1, <3>1, <3>2, <3>3 DEF Number
  <2>2. IsFiniteSet(L) /\ IsFiniteSet(D) /\ Count(S) = Cardinality(D)
        /\ Counts.logs = Cardinality(L)
    BY CountTyped DEF Counts, Count
  <2>3. D \in SUBSET L
    BY <1>2
  <2>4. \A r \in Row : row[r] # "none" => r \in L
    BY <1>1
  <2>5. \A r \in D : row[r] \in Sent \cup Failed
    BY <1>2
  <2> HIDE DEF S, D, L
  <2>6. D = L
    <3>1. /\ Cardinality(D) <= Cardinality(L) /\ (Cardinality(L) = Cardinality(D) => L = D)
          /\ Cardinality(D) \in Nat /\ Cardinality(L) \in Nat
      BY <2>2, <2>3, FS_Subset, FS_CardinalityType
    <3> QED BY <2>1, <2>2, <3>1
  <2>7. \A r \in Row : row[r] = "none" => chunk[Of[r]] = "skipped"
    BY <1>1, <1>4, RowAssumption DEF ChunksWrite
  <2> QED BY <2>4, <2>5, <2>6, <2>7 DEF AllDone
<1> QED BY <1>3, <1>4

(* A final status is kept, or it was justified when it was read.            *)
LEMMA VerdictsHold ==
  ASSUME Typed, Justified, Next, ~cut, batch'.status \in {"completed", "failed"}
  PROVE  AllDone
<1> USE DEF Justified
<1>1. batch \in Batch
  BY TypedParts
<1>2. CASE batch'.status = batch.status
  BY <1>2 DEF CompletedIsDone, AllDone
<1>3. ASSUME NEW u \in Updater, Write(u), batch'.status # batch.status PROVE AllDone
  <2>1. snap[u] \in Snap
    BY <1>3, TypedParts DEF Write
  <2>2. snap[u].batch \in Batch /\ snap[u].counts \in Counted
    BY <2>1 DEF Snap
  <2>3. Finished(snap[u].batch, snap[u].counts)
    BY <1>1, <1>3, <2>2, UpdateTyped DEF Write
  <2> QED BY <1>3, <2>3 DEF SnapsTrue, Write
<1>4. ASSUME Recount, batch'.status # batch.status PROVE AllDone
  <2>1. Finished(batch, Counts)
    BY <1>1, <1>4, UpdateTyped, CountsTyped DEF Recount
  <2> QED BY <2>1, FinishedDone
<1>5. CASE Complete
  BY <1>5, CompleteDone
<1>6. CASE batch' = [batch EXCEPT !.total = Counts.logs] \/ batch' = batch
  BY <1>1, <1>2, <1>6 DEF Batch
<1>7. CASE \E s \in {"cancelled", "paused", "processing"} : batch' = [batch EXCEPT !.status = s]
  BY <1>1, <1>7 DEF Batch
<1>8. \/ batch' = batch \/ batch' = [batch EXCEPT !.total = Counts.logs]
      \/ \E s \in {"cancelled", "paused", "processing"} : batch' = [batch EXCEPT !.status = s]
      \/ Complete \/ Recount \/ \E u \in Updater : Write(u)
  BY DEF Next, Read, WriteFails, RunChunk, LoseChunk, Send, Take, Result, Report, Sync,
     SyncBy, Inspect, Expire, Align, Revive, RevivalBy, Cancel, CancelAs, Pause, Resume, Clear
<1> QED BY <1>2, <1>3, <1>4, <1>5, <1>6, <1>7, <1>8

(* What an updater has read stays true, and what it reads is.               *)
LEMMA SnapsStay ==
  ASSUME Typed, Justified, Next, NEW u \in Updater, ~cut,
         snap'[u] # NoSnap, Finished(snap'[u].batch, snap'[u].counts)
  PROVE  AllDone
<1> USE DEF Justified
<1>1. CASE snap'[u] = snap[u]
  BY <1>1 DEF SnapsTrue
<1>2. CASE snap'[u] # snap[u]
  <2>1. Read(u)
    <3>1. snap \in [Updater -> {NoSnap} \cup Snap]
      BY TypedParts
    <3>2. \/ snap' = snap
          \/ \E v \in Updater : Read(v) \/ snap' = [snap EXCEPT ![v] = NoSnap]
      BY DEF Next, Write, WriteFails, RunChunk, LoseChunk, Send, Take, Result, Report, Sync,
         SyncBy, Inspect, Expire, Complete, Align, Revive, RevivalBy, Cancel, CancelAs, Pause,
         Resume, Clear
    <3>3. PICK v \in Updater : Read(v) \/ snap' = [snap EXCEPT ![v] = NoSnap]
      BY <1>2, <3>2
    <3>4. v = u
      BY <1>2, <3>1, <3>3 DEF Read
    <3> QED BY <3>1, <3>3, <3>4
  <2>2. snap'[u].batch = batch /\ snap'[u].counts = Counts
    BY <2>1, TypedParts DEF Read
  <2> QED BY <2>2, FinishedDone
<1> QED BY <1>1, <1>2

(* CompletedIsDone: whatever counts a verdict was written on, a batch that  *)
(* is completed or failed has no row that is to come or to be sent, unless  *)
(* its total was lowered with a chunk still to come.                        *)
THEOREM CompletedCorrect == Spec => []CompletedIsDone
<1>1. Init => Justified
  <2> SUFFICES ASSUME Init PROVE Justified
    OBVIOUS
  <2>1. Counts.logs \in Number /\ Cardinality(Row) \in Nat
    BY CountsTyped, CountTyped DEF Counted
  <2>2. ChunksWrite /\ SnapsTrue /\ CompletedIsDone
    BY RowAssumption DEF Init, ChunksWrite, SnapsTrue, CompletedIsDone
  <2>3. TotalRight
    BY <2>1 DEF Init, TotalRight, Number
  <2> QED BY <2>2, <2>3 DEF Justified
<1>2. Typed /\ Typed' /\ Justified /\ [Next]_vars => Justified'
  <2> SUFFICES ASSUME Typed, Typed', Justified, [Next]_vars PROVE Justified'
    OBVIOUS
  <2>1. CASE UNCHANGED vars
    BY <2>1 DEF vars, Justified, ChunksWrite, TotalRight, SnapsTrue, CompletedIsDone, AllDone,
       Counts, Count
  <2>2. CASE Next
    <3>1. ChunksWrite'
      BY <2>2, ChunksWriteStays DEF Justified
    <3>2. TotalRight'
      BY <2>2, <3>1, TotalStays DEF Justified
    <3>3. AllDone => AllDone'
      BY <2>2, DoneStays DEF Justified
    <3>4. ~cut' => ~cut
      BY <2>2 DEF Next, Read, Write, WriteFails, RunChunk, LoseChunk, Send, Take, Result,
         Report, Sync, SyncBy, Inspect, Expire, Complete, Align, Revive, RevivalBy, Cancel,
         CancelAs, Pause, Resume, Clear
    <3>5. SnapsTrue'
      BY <2>2, <3>3, <3>4, SnapsStay DEF SnapsTrue
    <3>6. CompletedIsDone'
      <4>1. batch'.status \in {"completed", "failed"} /\ ~cut' => AllDone'
        BY <2>2, <3>3, <3>4, VerdictsHold
      <4> QED BY <4>1 DEF CompletedIsDone, AllDone
    <3> QED BY <3>1, <3>2, <3>5, <3>6 DEF Justified
  <2> QED BY <2>1, <2>2
<1>3. Justified => CompletedIsDone
  BY DEF Justified
<1> QED BY <1>1, <1>2, <1>3, AlwaysTyped, PTL DEF Spec
===============================================================================
