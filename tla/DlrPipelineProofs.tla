--------------------------- MODULE DlrPipelineProofs ---------------------------
(***************************************************************************)
(* Three theorems about DlrPipeline, for every set of messages, statuses   *)
(* and workers, every bound and every set of faults: the variables keep    *)
(* their types, the effects of a report are set off at most once and only  *)
(* for a status the row has taken, and no report that was published gets   *)
(* lost unseen. From StatusAssumption (a report says delivered, failed or  *)
(* sent), ActorAssumption (the flush is not a worker, NoReport is neither  *)
(* a report nor a status) and BoundAssumption (the bounds are numbers).    *)
(***************************************************************************)
EXTENDS DlrPipeline, TLAPS

-----------------------------------------------------------------------------
(* The invariants *)

(* What a flush has still to look at waits in the buffer, and is not the    *)
(* entry it retries: without this FlushNext could take a report that is no  *)
(* longer there.                                                            *)
TodoWaits ==
  \A m \in todo : /\ buffer[m] # NoReport
                  /\ pc[Flush] # "idle" => rep[Flush][1] # m

Typed == TypeOK /\ TodoWaits

(* The row has had the status of the report.                                *)
Taken(r) == r \in took \/ (r[1] \in mapped /\ r[2] = "sent")

(* The mark dlr_fx admits one task to the effects of a report: who is about *)
(* to set them off holds it, alone and for the first time.                  *)
EffectsClaimed ==
  /\ \A r \in Report : dispatched[r] > 0 => r \in fx /\ dispatched[r] = 1 /\ Taken(r)
  /\ \A a \in Actor : pc[a] = "dispatch" => rep[a] \in fx /\ dispatched[rep[a]] = 0
  /\ \A a, b \in Actor :
       pc[a] = "dispatch" /\ pc[b] = "dispatch" /\ rep[a] = rep[b] => a = b

(* A row that is delivered or failed took that from a report, and so did    *)
(* the report a task goes on with after the row.                            *)
StatusTaken ==
  /\ \A m \in Msg : row[m] \in Settled => <<m, row[m]>> \in took
  /\ \A a \in Actor : pc[a] \in {"claim", "dispatch"} => Taken(rep[a])

Once == EffectsClaimed /\ StatusTaken

(* The report of a message is settled for good: its row, which no result is *)
(* going to write any more, is concluded, or it was given up, or a report   *)
(* that is not final came for it.                                           *)
Over(m) == (m \in mapped /\ Concluded(m)) \/ m \in lost \/ Interim(m)
Waits(m) == Over(m) \/ buffer[m] # NoReport

(* What is queued, run or buffered was published; a result is written once. *)
Origins ==
  /\ \A r \in Report : queue[r] > 0 => r \in came
  /\ \A a \in Actor : pc[a] # "idle" => rep[a] \in came
  /\ \A m \in Msg : buffer[m] # NoReport => <<m, buffer[m]>> \in came
  /\ result \cap mapped = {}

(* What a mark stands for: a settled report is over, an unmatched one over  *)
(* or in the buffer.                                                        *)
MarksTrue ==
  /\ \A r \in seen : Over(r[1])
  /\ \A m \in unmatched : Waits(m)

(* What a task that has passed a step knows about its report.               *)
StepsTrue ==
  \A a \in Actor :
    /\ pc[a] \in {"claim", "dispatch", "found"} => Over(rep[a][1])
    /\ pc[a] \in {"mark", "end"} => Waits(rep[a][1])
    /\ pc[a] = "write" => rep[a][1] \in mapped
    /\ pc[a] = "end" => a # Flush

Kept == /\ \A r \in came : Over(r[1]) \/ Carried(r[1])
        /\ Origins /\ MarksTrue /\ StepsTrue

-----------------------------------------------------------------------------
(* The steps, by the process that takes them *)

GatewayStep ==
  \/ \E m \in Msg : Respond(m) \/ RetryMark(m)
  \/ \E r \in Report : DeliverSM(r) \/ PublishFails(r) \/ MarkDLRPublished(r)
  \/ RestartGateway
RowStep ==
  \/ \E m \in Msg : WriteResult(m) \/ ExpireSelect(m) \/ UnmatchedExpires(m)
  \/ ExpireUpdate
TaskStep == \E a \in Actor : Process(a) \/ Error(a)
DeliveryStep ==
  \/ \E w \in Worker : TaskEnds(w) \/ \E r \in Report : Receive(w, r)
  \/ \E a \in Actor : Kill(a)
FlushStep == FlushStart \/ FlushStop \/ FlushDone \/ \E m \in Msg : FlushNext(m)

(* Every step of the pipeline is one of these.                              *)
LEMMA NextSteps ==
  ASSUME Next
  PROVE  GatewayStep \/ RowStep \/ TaskStep \/ DeliveryStep \/ FlushStep
BY DEF Next, GatewayStep, RowStep, TaskStep, DeliveryStep, FlushStep

-----------------------------------------------------------------------------
(* Types *)

(* A fault is counted and stays within its bound.                           *)
LEMMA FaultTyped ==
  ASSUME faults \in 0..MaxFaults, NEW kind, Fault(kind) \/ UNCHANGED faults
  PROVE  faults' \in 0..MaxFaults
BY BoundAssumption DEF Fault

(* An actor goes on to a step, with the report it has or another one: a     *)
(* report exactly while it runs.                                            *)
LEMMA GotoTyped ==
  ASSUME Typed, NEW a \in Actor, NEW step \in Step, NEW r,
         IF step = "idle" THEN r = NoReport ELSE r \in Report,
         Goto(a, step), rep' = [rep EXCEPT ![a] = r] \/ (rep' = rep /\ r = rep[a])
  PROVE  /\ pc' \in [Actor -> Step] /\ rep' \in [Actor -> Report \cup {NoReport}]
         /\ \A b \in Actor : IF pc'[b] = "idle" THEN rep'[b] = NoReport ELSE rep'[b] \in Report
         /\ rep'[a] = r /\ \A b \in Actor \ {a} : rep'[b] = rep[b] /\ pc'[b] = pc[b]
BY DEF Typed, TypeOK, Goto

(* A running task goes on: its report is still that of its row, and what    *)
(* the flush has to look at still waits.                                    *)
LEMMA FinishTyped ==
  ASSUME Typed, NEW a \in Actor, pc[a] # "idle", rep' = rep, todo' = todo,
         \A m \in Msg : buffer[m] # NoReport => buffer'[m] # NoReport,
         \/ \E step \in Step \ {"idle"} : Goto(a, step)
         \/ \E found \in BOOLEAN : Finish(a, found)
  PROVE  /\ pc' \in [Actor -> Step] /\ rep' \in [Actor -> Report \cup {NoReport}]
         /\ \A b \in Actor : IF pc'[b] = "idle" THEN rep'[b] = NoReport ELSE rep'[b] \in Report
         /\ TodoWaits'
<1>1. PICK step \in Step \ {"idle"} : Goto(a, step)
  BY DEF Finish, Step
<1>2. rep[a] \in Report
  BY DEF Typed, TypeOK
<1> QED BY <1>1, <1>2, GotoTyped DEF Typed, TypeOK, TodoWaits, Actor

(* The gateway (connector.go, dlr_dedup.go, dlr_ownership.go) keeps the types. *)
LEMMA GatewayTyped ==
  ASSUME Typed, GatewayStep
  PROVE  Typed'
<1> USE BoundAssumption DEF Typed, TypeOK, TodoWaits, Redis, gatewayVars, rowVars,
      taskVars, markVars, bufferVars
<1>0. Fault("redis") \/ Fault("publish") \/ Fault("restart") \/ UNCHANGED faults
      => faults' \in 0..MaxFaults
  BY FaultTyped
<1>1. ASSUME NEW m \in Msg, Respond(m) PROVE Typed'
  BY <1>0, <1>1 DEF Respond
<1>2. ASSUME NEW m \in Msg, RetryMark(m) PROVE Typed'
  BY <1>0, <1>2 DEF RetryMark
<1>3. ASSUME NEW r \in Report, DeliverSM(r) PROVE Typed'
  BY <1>0, <1>3 DEF DeliverSM, Publish, Report
<1>4. ASSUME NEW r \in Report, PublishFails(r) PROVE Typed'
  BY <1>0, <1>4 DEF PublishFails, Report
<1>5. ASSUME NEW r \in Report, MarkDLRPublished(r) PROVE Typed'
  BY <1>0, <1>5 DEF MarkDLRPublished
<1>6. CASE RestartGateway
  BY <1>0, <1>6 DEF RestartGateway
<1> QED BY <1>1, <1>2, <1>3, <1>4, <1>5, <1>6 DEF GatewayStep

(* The other writers of the row (the result of the submission, the task     *)
(* that expires rows) and the mark that lapses keep the types.              *)
LEMMA RowTyped ==
  ASSUME Typed, RowStep
  PROVE  Typed'
<1> USE DEF Typed, TypeOK, TodoWaits, RowState, gatewayVars, rowVars, taskVars,
      markVars, bufferVars
<1>1. ASSUME NEW m \in Msg, WriteResult(m) PROVE Typed'
  BY <1>1 DEF WriteResult
<1>2. ASSUME NEW m \in Msg, ExpireSelect(m) PROVE Typed'
  BY <1>2 DEF ExpireSelect
<1>3. CASE ExpireUpdate
  BY <1>3 DEF ExpireUpdate
<1>4. ASSUME NEW m \in Msg, UnmatchedExpires(m) PROVE Typed'
  BY <1>4 DEF UnmatchedExpires
<1> QED BY <1>1, <1>2, <1>3, <1>4 DEF RowStep

(* A task (_process_smpp_dlr_async), run by a worker or for the flush, keeps *)
(* the types in each of its steps.                                           *)
LEMMA TaskTyped ==
  ASSUME Typed, TaskStep
  PROVE  Typed'
<1>0. PICK a \in Actor : Process(a) \/ Error(a)
  BY DEF TaskStep
<1>1. pc[a] # "idle" /\ rep' = rep /\ todo' = todo
  BY <1>0 DEF Process, Match, Miss, MissBy, MarkUnmatched, Write, Claim, ClaimBy, Dispatch,
         Error, bufferVars
<1>2. rep[a] \in Report /\ rep[a][1] \in Msg /\ rep[a][2] \in Status
  BY <1>1 DEF Typed, TypeOK, Report
<1>3. Redis(TRUE) \/ Redis(FALSE) \/ Fault("orphan") \/ Fault("db") \/ UNCHANGED faults
      => faults' \in 0..MaxFaults
  BY FaultTyped DEF Redis, Typed, TypeOK
<1> USE <1>1, <1>2, <1>3, FinishTyped
    DEF Typed, TypeOK, gatewayVars, rowVars, markVars, bufferVars
<1>4. CASE Match(a)
  BY <1>4 DEF Match, MarkSeen, Redis, Step
<1>5. CASE Miss(a)
  BY <1>5, ActorAssumption, BoundAssumption DEF Miss, MissBy, Redis, Step
<1>6. CASE MarkUnmatched(a)
  BY <1>6 DEF MarkUnmatched, Redis
<1>7. CASE Write(a)
  BY <1>7, StatusAssumption DEF Write, Step, RowState
<1>8. CASE Claim(a)
  BY <1>8 DEF Claim, ClaimBy, MarkSeen, Redis, Step
<1>9. CASE Dispatch(a)
  <2>1. dispatched' \in [Report -> Nat]
    BY <1>9 DEF Dispatch
  <2> QED BY <1>9, <2>1 DEF Dispatch
<1>10. CASE Error(a)
  BY <1>10 DEF Error
<1> QED BY <1>0, <1>4, <1>5, <1>6, <1>7, <1>8, <1>9, <1>10 DEF Process

(* A report that a worker takes is in the queue once less.                  *)
LEMMA OneLess ==
  ASSUME NEW q \in [Report -> Nat], NEW r \in Report, q[r] > 0
  PROVE  [q EXCEPT ![r] = @ - 1] \in [Report -> Nat]
<1>1. q[r] - 1 \in Nat
  OBVIOUS
<1> QED BY <1>1

(* A task starts, is acknowledged or dies: the types stay.                  *)
LEMMA DeliveryTyped ==
  ASSUME Typed, DeliveryStep
  PROVE  Typed'
<1> USE GotoTyped DEF Typed, TypeOK, Step, gatewayVars, rowVars, markVars, bufferVars
<1>0. \A w \in Worker : w \in Actor /\ w # Flush
  BY ActorAssumption DEF Actor
<1>1. ASSUME NEW w \in Worker, NEW r \in Report, Receive(w, r) PROVE Typed'
  <2>1. \E step \in {"end", "match"} : Goto(w, step)
    BY <1>1 DEF Receive
  <2>2. faults' \in 0..MaxFaults
    BY <1>1, FaultTyped DEF Receive, Redis
  <2>3. TodoWaits'
    BY <1>0, <1>1, <2>1 DEF Receive, TodoWaits, Goto, Actor
  <2>4. queue' \in [Report -> Nat]
    <3>1. queue[r] > 0 /\ queue' = [queue EXCEPT ![r] = @ - 1]
      BY <1>1 DEF Receive
    <3> QED BY <3>1, OneLess
  <2> QED BY <1>0, <1>1, <2>1, <2>2, <2>3, <2>4, ActorAssumption DEF Receive
<1>2. ASSUME NEW w \in Worker, TaskEnds(w) PROVE Typed'
  <2>1. TodoWaits'
    BY <1>0, <1>2 DEF TaskEnds, TodoWaits, Goto, Actor
  <2> QED BY <1>0, <1>2, <2>1 DEF TaskEnds
<1>3. ASSUME NEW a \in Actor, Kill(a) PROVE Typed'
  <2>1. TodoWaits'
    BY <1>3 DEF Kill, TodoWaits, Goto, Actor
  <2>2. lost' \subseteq Msg /\ faults' \in 0..MaxFaults
    BY <1>3, FaultTyped DEF Kill, Report
  <2> QED BY <1>3, <2>1, <2>2 DEF Kill
<1> QED BY <1>1, <1>2, <1>3 DEF DeliveryStep

(* The flush (flush_dlr_retry_buffer_task) keeps the types: what it takes   *)
(* from its list is in the buffer.                                          *)
LEMMA FlushTyped ==
  ASSUME Typed, FlushStep
  PROVE  Typed'
<1> USE BoundAssumption
    DEF Typed, TypeOK, Step, gatewayVars, rowVars, taskVars, markVars, bufferVars
<1>0. Flush \in Actor
  BY DEF Actor
<1>1. CASE FlushStart
  <2>1. faults' \in 0..MaxFaults
    BY <1>1, FaultTyped DEF FlushStart
  <2> QED BY <1>1, <2>1 DEF FlushStart, TodoWaits
<1>2. ASSUME NEW m \in Msg, FlushNext(m) PROVE Typed'
  <2>1. <<m, buffer[m]>> \in Report
    BY <1>2 DEF FlushNext, FlushNextBy, TodoWaits, Report
  <2>2. faults' \in 0..MaxFaults
    BY <1>2, FaultTyped DEF FlushNext, FlushNextBy, Redis
  <2>3. \E step \in {"found", "match"} : Goto(Flush, step)
    BY <1>2 DEF FlushNext, FlushNextBy
  <2>4. TodoWaits'
    BY <1>2, <2>1 DEF FlushNext, FlushNextBy, TodoWaits, Actor
  <2> QED BY <1>0, <1>2, <2>1, <2>2, <2>3, <2>4, GotoTyped DEF FlushNext, FlushNextBy
<1>3. CASE FlushStop
  BY <1>3, FaultTyped DEF FlushStop, TodoWaits
<1>4. CASE FlushDone
  <2>1. rep[Flush] \in Report /\ rep[Flush][1] \in Msg
    BY <1>0, <1>4 DEF FlushDone, FlushEnds, Report
  <2>2. faults' \in 0..MaxFaults
    BY <1>4, FaultTyped DEF FlushDone, FlushEnds, Redis
  <2>3. TodoWaits'
    BY <1>0, <1>4, <2>1 DEF FlushDone, FlushEnds, TodoWaits, Goto
  <2>4. /\ buffer' \in [Msg -> Status \cup {NoReport}] /\ lost' \subseteq Msg
        /\ count' \in [Msg -> 0..MaxRetries - 1]
    <3> DEFINE x == rep[Flush][1]
    <3>1. /\ buffer' = buffer \/ buffer' = [buffer EXCEPT ![x] = NoReport]
          /\ lost' = lost \/ lost' = lost \cup {x}
          /\ \/ count' = count \/ count' = [count EXCEPT ![x] = 0]
             \/ ~(count[x] + 1 >= MaxRetries) /\ count' = [count EXCEPT ![x] = @ + 1]
      BY <1>4 DEF FlushDone, FlushEnds
    <3>2. count[x] \in 0..MaxRetries - 1
      BY <2>1
    <3>3. count' \in [Msg -> 0..MaxRetries - 1]
      BY <2>1, <3>1, <3>2
    <3> QED BY <2>1, <3>1, <3>3
  <2> QED BY <1>0, <1>4, <2>1, <2>2, <2>3, <2>4, GotoTyped DEF FlushDone, FlushEnds
<1> QED BY <1>1, <1>2, <1>3, <1>4 DEF FlushStep

(* One step of the specification keeps the types.                           *)
LEMMA NextTyped ==
  ASSUME Typed, [Next]_vars
  PROVE  Typed'
<1>1. CASE Next
  BY <1>1, NextSteps, GatewayTyped, RowTyped, TaskTyped, DeliveryTyped, FlushTyped
<1>2. CASE UNCHANGED vars
  BY <1>2 DEF vars, Typed, TypeOK, TodoWaits, gatewayVars, rowVars, taskVars, markVars,
     bufferVars
<1> QED BY <1>1, <1>2

(* The variables keep their types; a task has a report exactly while it     *)
(* runs, and what a flush retries is in the buffer.                         *)
LEMMA AlwaysTyped == Spec => []Typed
<1>1. Init => Typed
  BY BoundAssumption, StatusAssumption
     DEF Init, Typed, TypeOK, TodoWaits, RowState, Step, Report
<1> QED BY <1>1, NextTyped, PTL DEF Spec

(* TypeOK: row, queue, marks and buffer keep their types, and a task has a  *)
(* report exactly while it runs.                                            *)
THEOREM TypeCorrect == Spec => []TypeOK
<1>1. Typed => TypeOK
  BY DEF Typed
<1> QED BY <1>1, AlwaysTyped, PTL

-----------------------------------------------------------------------------
(* The effects of a report are set off once *)

(* A step that admits nobody to the effects, sets none off and leaves every *)
(* settled row alone.                                                       *)
LEMMA QuietOnce ==
  ASSUME Once, fx \subseteq fx', dispatched' = dispatched,
         took \subseteq took', mapped \subseteq mapped',
         \A m \in Msg : row'[m] \in Settled => row'[m] = row[m],
         \A a \in Actor : pc'[a] \in {"claim", "dispatch"} =>
                            pc[a] = pc'[a] /\ rep[a] = rep'[a]
  PROVE  Once'
BY DEF Once, EffectsClaimed, StatusTaken, Taken

(* The gateway and the other writers of the row set off nothing.            *)
LEMMA OutsideOnce ==
  ASSUME Typed, Once, GatewayStep \/ RowStep
  PROVE  Once'
<1>1. CASE GatewayStep
  BY <1>1, QuietOnce DEF GatewayStep, Respond, RetryMark, DeliverSM, PublishFails,
     MarkDLRPublished, RestartGateway, rowVars, taskVars, markVars
<1>2. CASE RowStep
  <2>1. /\ UNCHANGED <<fx, dispatched, took, pc, rep>> /\ mapped \subseteq mapped'
    BY <1>2 DEF RowStep, WriteResult, ExpireSelect, ExpireUpdate, UnmatchedExpires,
       rowVars, taskVars, markVars
  <2>2. \A m \in Msg : row'[m] \in Settled => row'[m] = row[m]
    BY <1>2 DEF RowStep, WriteResult, ExpireSelect, ExpireUpdate, UnmatchedExpires,
       rowVars, Settled, Typed, TypeOK
  <2> QED BY <2>1, <2>2, QuietOnce
<1> QED BY <1>1, <1>2

(* A delivery, a death of a task and the flush's own steps bring nobody to  *)
(* the effects.                                                             *)
LEMMA DeliveryOnce ==
  ASSUME Typed, Once, DeliveryStep \/ FlushStep
  PROVE  Once'
<1>1. UNCHANGED <<fx, dispatched, took, mapped, row>>
  BY DEF DeliveryStep, Receive, TaskEnds, Kill, FlushStep, FlushStart, FlushNext, FlushNextBy,
     FlushStop, FlushDone, FlushEnds, rowVars, markVars
<1>2. UNCHANGED <<pc, rep>> \/ \E a \in Actor, step \in Step \ {"claim", "dispatch"} :
        Goto(a, step) /\ \A b \in Actor \ {a} : rep'[b] = rep[b]
  <2>1. CASE DeliveryStep
    BY <2>1 DEF DeliveryStep, Receive, TaskEnds, Kill, Actor, Step, Typed, TypeOK
  <2>2. CASE FlushStep
    BY <2>2 DEF FlushStep, FlushStart, FlushNext, FlushNextBy, FlushStop, FlushDone,
       FlushEnds, taskVars, Actor, Step, Typed, TypeOK
  <2> QED BY <2>1, <2>2
<1>3. \A a \in Actor : pc'[a] \in {"claim", "dispatch"} =>
                         pc[a] = pc'[a] /\ rep[a] = rep'[a]
  BY <1>2 DEF Goto, Typed, TypeOK
<1> QED BY <1>1, <1>3, QuietOnce

(* The steps of a task. Match goes on to the effects only when the row has  *)
(* the status of the report, Write gives it that status; SET NX of Claim    *)
(* finds the mark if another task was admitted before; Dispatch leaves.     *)
LEMMA TaskOnce ==
  ASSUME Typed, Once, TaskStep
  PROVE  Once'
<1>0. PICK a \in Actor : Process(a) \/ Error(a)
  BY DEF TaskStep
<1>1. pc[a] # "idle" /\ rep' = rep
  BY <1>0 DEF Process, Match, Miss, MissBy, MarkUnmatched, Write, Claim, ClaimBy, Dispatch,
         Error, bufferVars
<1>2. rep[a] \in Report /\ rep[a][1] \in Msg /\ rep[a] = <<rep[a][1], rep[a][2]>>
  BY <1>1 DEF Typed, TypeOK, Report
<1>3. pc \in [Actor -> Step] /\ dispatched \in [Report -> Nat] /\ row \in [Msg -> RowState]
  BY DEF Typed, TypeOK
<1>4. CASE Match(a)
  <2>1. UNCHANGED <<fx, dispatched, took, mapped, row>>
    BY <1>4 DEF Match, rowVars
  <2>2. CASE Goto(a, "claim") /\ Matchable(rep[a][1]) /\ row[rep[a][1]] = rep[a][2]
    <3>1. Taken(rep[a])
      BY <1>2, <1>3, <2>2, StatusAssumption
         DEF Once, StatusTaken, Taken, Matchable, Report, Settled
    <3> QED BY <1>1, <1>3, <2>1, <2>2, <3>1
            DEF Once, EffectsClaimed, StatusTaken, Taken, Goto
  <2>3. CASE \E step \in {"miss", "write"} : Goto(a, step)
    BY <1>1, <1>3, <2>1, <2>3, QuietOnce DEF Goto
  <2>4. CASE Finish(a, TRUE)
    BY <1>1, <1>3, <2>1, <2>4, QuietOnce DEF Finish, Goto
  <2> QED BY <1>4, <2>2, <2>3, <2>4 DEF Match
<1>5. CASE Miss(a)
  BY <1>1, <1>3, <1>5, QuietOnce DEF Miss, MissBy, Goto, rowVars, markVars
<1>6. CASE MarkUnmatched(a) \/ Error(a)
  BY <1>1, <1>3, <1>6, QuietOnce DEF MarkUnmatched, Error, Finish, Goto, rowVars, markVars
<1>7. CASE Write(a)
  <2>1. /\ UNCHANGED <<fx, dispatched, mapped>> /\ took' = took \cup {rep[a]}
        /\ row' = [row EXCEPT ![rep[a][1]] = rep[a][2]] /\ pc' = [pc EXCEPT ![a] = "claim"]
    BY <1>7 DEF Write, Goto, markVars
  <2> QED BY <1>1, <1>2, <1>3, <2>1 DEF Once, EffectsClaimed, StatusTaken, Taken
<1>8. CASE Claim(a)
  <2>1. UNCHANGED <<dispatched, row, took, mapped>> /\ pc[a] = "claim"
    BY <1>8 DEF Claim, ClaimBy, rowVars
  <2>2. CASE fx' = fx /\ Finish(a, TRUE)
    BY <1>1, <1>3, <2>1, <2>2, QuietOnce DEF Finish, Goto
  <2>3. CASE rep[a] \notin fx /\ fx' = fx \cup {rep[a]} /\ Goto(a, "dispatch")
    <3>1. dispatched[rep[a]] = 0
      BY <1>2, <1>3, <2>3 DEF Once, EffectsClaimed
    <3>2. \A b \in Actor : pc[b] = "dispatch" => rep[b] # rep[a]
      BY <2>3 DEF Once, EffectsClaimed
    <3>3. EffectsClaimed'
      BY <1>1, <1>3, <2>1, <2>3, <3>1, <3>2 DEF Once, EffectsClaimed, Taken, Goto
    <3> QED BY <1>1, <1>3, <2>1, <2>3, <3>3 DEF Once, StatusTaken, Taken, Goto
  <2> QED BY <1>8, <2>2, <2>3 DEF Claim, ClaimBy
<1>9. CASE Dispatch(a)
  <2>1. /\ UNCHANGED <<fx, row, took, mapped>> /\ pc[a] = "dispatch"
        /\ dispatched' = [dispatched EXCEPT ![rep[a]] = @ + 1]
        /\ \E step \in {"end", "found", "missed"} : pc' = [pc EXCEPT ![a] = step]
    BY <1>9 DEF Dispatch, Finish, Goto, rowVars, markVars
  <2>2. dispatched'[rep[a]] = 1 /\ rep[a] \in fx /\ Taken(rep[a])
    BY <1>2, <1>3, <2>1 DEF Once, EffectsClaimed, StatusTaken
  <2>3. \A b \in Actor : pc'[b] = "dispatch" => pc[b] = "dispatch" /\ rep[b] # rep[a]
    BY <1>3, <2>1 DEF Once, EffectsClaimed
  <2>4. EffectsClaimed'
    BY <1>1, <1>3, <2>1, <2>2, <2>3 DEF Once, EffectsClaimed, Taken
  <2> QED BY <1>1, <1>3, <2>1, <2>4 DEF Once, StatusTaken, Taken
<1> QED BY <1>0, <1>4, <1>5, <1>6, <1>7, <1>8, <1>9 DEF Process

(* DispatchedOnce: callbacks, forwards and follow-ups of a report are set   *)
(* off at most once and only for a status of the row, although reports come *)
(* again, processes die and flush and workers run side by side.             *)
THEOREM OnceCorrect == Spec => []DispatchedOnce
<1>1. Init => Once
  BY DEF Init, Once, EffectsClaimed, StatusTaken, Settled
<1>2. Typed /\ Once /\ [Next]_vars => Once'
  <2>1. ASSUME Once, UNCHANGED vars PROVE Once'
    BY <2>1 DEF vars, Once, EffectsClaimed, StatusTaken, Taken, rowVars, taskVars, markVars
  <2> QED BY <2>1, NextSteps, OutsideOnce, DeliveryOnce, TaskOnce
<1>3. Once => DispatchedOnce
  BY DEF Once, EffectsClaimed, Taken, DispatchedOnce
<1> QED BY <1>1, <1>2, <1>3, AlwaysTyped, PTL DEF Spec

-----------------------------------------------------------------------------
(* No report is lost *)

(* What is over stays over: a late result writes a row that no report has   *)
(* concluded yet, and only a report that is not final takes one back.       *)
LEMMA OverStays ==
  ASSUME Typed, Kept, Next
  PROVE  /\ came \subseteq came'
         /\ \A m \in Msg : Over(m) => Over(m)'
<1>1. came \subseteq came' /\ lost \subseteq lost' /\ mapped \subseteq mapped'
  <2>1. CASE GatewayStep
    BY <2>1 DEF GatewayStep, Respond, RetryMark, DeliverSM, Publish, PublishFails,
       MarkDLRPublished, RestartGateway, rowVars
  <2>2. CASE RowStep
    BY <2>2 DEF RowStep, WriteResult, ExpireSelect, ExpireUpdate, UnmatchedExpires, rowVars
  <2>3. CASE TaskStep
    BY <2>3 DEF TaskStep, Process, Match, Miss, MissBy, MarkUnmatched, Write, Claim,
       ClaimBy, Dispatch, Error, rowVars
  <2>4. CASE DeliveryStep \/ FlushStep
    BY <2>4 DEF DeliveryStep, Receive, TaskEnds, Kill, FlushStep, FlushStart, FlushNext,
       FlushNextBy, FlushStop, FlushDone, FlushEnds, rowVars
  <2> QED BY <2>1, <2>2, <2>3, <2>4, NextSteps
<1>2. ASSUME NEW m \in mapped, m \in Msg, Concluded(m)
      PROVE  Concluded(m)' \/ Interim(m)'
  <2>1. CASE GatewayStep \/ DeliveryStep \/ FlushStep
    <3>1. row' = row
      BY <2>1 DEF GatewayStep, Respond, RetryMark, DeliverSM, PublishFails, MarkDLRPublished,
         RestartGateway, DeliveryStep, Receive, TaskEnds, Kill, FlushStep, FlushStart, FlushNext,
         FlushNextBy, FlushStop, FlushDone, FlushEnds, rowVars
    <3> QED BY <1>2, <3>1 DEF Concluded
  <2>2. CASE RowStep
    <3>1. m \notin result
      BY <1>2 DEF Kept, Origins
    <3> QED BY <1>2, <2>2, <3>1 DEF RowStep, WriteResult, ExpireSelect, ExpireUpdate,
            UnmatchedExpires, rowVars, Concluded, Typed, TypeOK
  <2>3. CASE TaskStep
    <3>1. row' = row \/ \E a \in Actor : Write(a)
      BY <2>3 DEF TaskStep, Process, Match, Miss, MissBy, MarkUnmatched, Claim, ClaimBy,
         Dispatch, Error, rowVars
    <3>2. ASSUME NEW a \in Actor, Write(a) PROVE Concluded(m)' \/ Interim(m)'
      <4>1. /\ rep[a] \in came /\ rep[a][1] \in Msg /\ rep[a][2] \in Settled \cup {"sent"}
            /\ rep[a] = <<rep[a][1], rep[a][2]>>
        BY <3>2, StatusAssumption DEF Write, Kept, Origins, Typed, TypeOK, Report
      <4>2. row' = [row EXCEPT ![rep[a][1]] = rep[a][2]]
        BY <3>2 DEF Write
      <4> QED BY <1>1, <1>2, <4>1, <4>2 DEF Concluded, Interim, Typed, TypeOK
    <3> QED BY <1>2, <3>1, <3>2 DEF Concluded
  <2> QED BY <2>1, <2>2, <2>3, NextSteps
<1> QED BY <1>1, <1>2 DEF Over, Interim

(* An entry leaves the buffer when its report is over or given up, and it   *)
(* is never replaced by another one (HSETNX).                               *)
LEMMA WaitsStays ==
  ASSUME Typed, Kept, Next
  PROVE  \A m \in Msg : /\ Waits(m) => Waits(m)'
                        /\ buffer[m] # NoReport /\ ~Over(m)' => buffer'[m] = buffer[m]
<1>1. CASE GatewayStep \/ RowStep \/ DeliveryStep
  <2>1. buffer' = buffer
    BY <1>1 DEF GatewayStep, Respond, RetryMark, DeliverSM, PublishFails, MarkDLRPublished,
       RestartGateway, RowStep, WriteResult, ExpireSelect, ExpireUpdate, UnmatchedExpires,
       DeliveryStep, Receive, TaskEnds, Kill, bufferVars
  <2> QED BY <2>1, OverStays DEF Waits
<1>2. CASE TaskStep
  <2>1. \A m \in Msg : buffer[m] # NoReport => buffer'[m] = buffer[m]
    <3>1. PICK a \in Actor : Process(a) \/ Error(a)
      BY <1>2 DEF TaskStep
    <3>2. CASE Match(a) \/ MarkUnmatched(a) \/ Write(a) \/ Claim(a) \/ Dispatch(a) \/ Error(a)
      BY <3>2 DEF Match, MarkUnmatched, Write, Claim, ClaimBy, Dispatch, Error, bufferVars
    <3>3. CASE Miss(a)
      <4>1. \/ buffer' = buffer
            \/ /\ buffer[rep[a][1]] = NoReport
               /\ buffer' = [buffer EXCEPT ![rep[a][1]] = rep[a][2]]
        BY <3>3 DEF Miss, MissBy, bufferVars
      <4> QED BY <4>1 DEF Typed, TypeOK
    <3> QED BY <3>1, <3>2, <3>3 DEF Process
  <2> QED BY <2>1, OverStays DEF Waits
<1>3. CASE FlushStep
  <2>1. ASSUME NEW m \in Msg, buffer[m] # NoReport
        PROVE  buffer'[m] = buffer[m] \/ m \in lost' \/ Over(m)
    <3>1. CASE FlushStart \/ FlushStop \/ \E n \in Msg : FlushNext(n)
      BY <2>1, <3>1 DEF FlushStart, FlushStop, FlushNext, FlushNextBy, bufferVars, Typed, TypeOK
    <3>2. CASE FlushDone
      BY <2>1, <3>2 DEF FlushDone, FlushEnds, bufferVars, Typed, TypeOK, Kept, StepsTrue, Actor
    <3> QED BY <1>3, <3>1, <3>2 DEF FlushStep
  <2> QED BY <2>1, OverStays DEF Waits, Over
<1> QED BY <1>1, <1>2, <1>3, NextSteps

(* The gateway: what it publishes is in the queue before it is marked.      *)
LEMMA GatewayKept ==
  ASSUME Typed, Kept, Next, GatewayStep
  PROVE  Kept'
<1>1. UNCHANGED <<pc, rep, buffer, mapped, seen, unmatched>>
  BY DEF GatewayStep, Respond, RetryMark, DeliverSM, PublishFails, MarkDLRPublished,
     RestartGateway, rowVars, taskVars, markVars, bufferVars
<1>2. /\ result' \cap mapped = {}
      /\ (queue' = queue /\ came' = came)
         \/ \E r \in Report : Publish(r)
  BY DEF GatewayStep, Respond, RetryMark, DeliverSM, PublishFails, MarkDLRPublished,
     RestartGateway, Kept, Origins
<1>3. /\ \A r \in Report : queue[r] <= queue'[r]
      /\ \A r \in Report : queue'[r] > 0 => queue[r] > 0 \/ r \in came'
      /\ \A r \in came' : r \in came \/ (r \in Report /\ queue'[r] > 0)
  BY <1>2 DEF Publish, Typed, TypeOK
<1>4. Origins'
  BY <1>1, <1>2, <1>3, OverStays DEF Kept, Origins
<1>5. MarksTrue' /\ StepsTrue'
  BY <1>1, OverStays, WaitsStays DEF Kept, MarksTrue, StepsTrue, Typed, TypeOK, Report
<1>6. \A m \in Msg : Carried(m) => Carried(m)'
  <2>1. ASSUME NEW m \in Msg, NEW s \in Status, queue[<<m, s>>] > 0
        PROVE  queue'[<<m, s>>] > 0
    <3>1. <<m, s>> \in Report
      BY DEF Report
    <3> QED BY <1>3, <2>1, <3>1, NextTyped DEF Typed, TypeOK
  <2> QED BY <1>1, <2>1 DEF Carried
<1>7. ASSUME NEW r \in came' PROVE Over(r[1])' \/ Carried(r[1])'
  <2>1. CASE r \in came
    BY <1>6, <2>1, OverStays DEF Kept, Report, Typed, TypeOK
  <2>2. CASE r \in Report /\ queue'[r] > 0
    BY <2>2 DEF Carried, Report
  <2> QED BY <1>3, <2>1, <2>2
<1> QED BY <1>4, <1>5, <1>7 DEF Kept

(* The other writers of the row, and the unmatched mark that lapses: no     *)
(* report is touched, and a row that is mapped has no result to come.       *)
LEMMA RowKept ==
  ASSUME Typed, Kept, Next, RowStep
  PROVE  Kept'
<1>1. /\ UNCHANGED <<pc, rep, buffer, queue, came, seen>>
      /\ unmatched' \subseteq unmatched /\ mapped \subseteq mapped'
      /\ result' \cap mapped' = {}
  BY DEF RowStep, WriteResult, ExpireSelect, ExpireUpdate, UnmatchedExpires, rowVars,
     taskVars, markVars, bufferVars, Kept, Origins
<1>2. Origins'
  BY <1>1 DEF Kept, Origins
<1>3. MarksTrue' /\ StepsTrue'
  BY <1>1, OverStays, WaitsStays DEF Kept, MarksTrue, StepsTrue, Typed, TypeOK, Report
<1>4. \A r \in came' : Over(r[1])' \/ Carried(r[1])'
  BY <1>1, OverStays DEF Kept, Carried, Report, Typed, TypeOK
<1> QED BY <1>2, <1>3, <1>4 DEF Kept

(* The report of a step is one that was published, of a message.            *)
LEMMA OfStep ==
  ASSUME Typed, Kept, NEW a \in Actor, pc[a] # "idle"
  PROVE  /\ rep[a] \in came /\ rep[a] \in Report /\ rep[a][1] \in Msg
         /\ rep[a][2] \in Status /\ rep[a] = <<rep[a][1], rep[a][2]>>
BY DEF Typed, TypeOK, Report, Kept, Origins

(* The steps of a task: when it ends, its report is over or waits in the    *)
(* buffer; the marks it leaves say just that.                               *)
LEMMA TaskKept ==
  ASSUME Typed, Kept, Next, TaskStep
  PROVE  Kept'
<1>0. PICK a \in Actor : Process(a) \/ Error(a)
  BY DEF TaskStep
<1>1. /\ pc[a] # "idle"
      /\ UNCHANGED <<rep, queue, came, mapped, result>>
  BY <1>0 DEF Process, Match, Miss, MissBy, MarkUnmatched, Write, Claim, ClaimBy, Dispatch,
         Error, rowVars, bufferVars
<1>2. PICK m \in Msg : rep[a][1] = m /\ rep[a] \in came /\ rep[a] = <<m, rep[a][2]>>
  BY <1>1, OfStep
(* What the task knows about its report after the step.                     *)
<1>3. /\ pc' = [pc EXCEPT ![a] = pc'[a]]
      /\ pc'[a] \in {"claim", "dispatch", "found"} => Over(m)'
      /\ pc'[a] \in {"mark", "end"} => Waits(m)'
      /\ pc'[a] = "write" => m \in mapped
      /\ pc'[a] = "end" => a # Flush
  <2>0. /\ Over(m) => Over(m)' /\ Waits(m)'
        /\ \A step : Goto(a, step) => pc' = [pc EXCEPT ![a] = pc'[a]] /\ pc'[a] = step
    BY OverStays DEF Waits, Goto, Typed, TypeOK
  <2>1. CASE Match(a)
    <3>1. /\ row' = row /\ lost' = lost
          /\ Matchable(m) /\ row[m] \in Settled => Over(m)
          /\ Matchable(m) => m \in mapped
          /\ row[m] = rep[a][2] => row[m] \in Settled \/ Over(m)
      BY <1>1, <1>2, <2>1, StatusAssumption, OfStep
         DEF Match, rowVars, Matchable, Over, Concluded, Interim
    <3> QED BY <1>2, <2>0, <2>1, <3>1 DEF Match, Finish
  <2>2. CASE Miss(a)
    <3>1. Waits(m)'
      <4>1. rep[a][2] # NoReport /\ buffer \in [Msg -> Status \cup {NoReport}]
        BY <1>1, OfStep, ActorAssumption DEF Typed, TypeOK
      <4>2. m \in lost' \/ buffer'[m] # NoReport
        BY <1>2, <2>2, <4>1 DEF Miss, MissBy, bufferVars
      <4> QED BY <4>2 DEF Waits, Over
    <3> QED BY <2>0, <2>2, <3>1 DEF Miss, MissBy
  <2>3. CASE MarkUnmatched(a)
    <3>1. Waits(m)'
      BY <1>2, <2>3, WaitsStays DEF MarkUnmatched, Kept, StepsTrue
    <3> QED BY <2>0, <2>3, <3>1 DEF MarkUnmatched, Finish
  <2>4. CASE Write(a)
    <3>1. m \in mapped /\ row'[m] = rep[a][2]
      BY <1>2, <2>4 DEF Write, Kept, StepsTrue, Typed, TypeOK
    <3>2. Over(m)'
      BY <1>1, <1>2, <3>1, OfStep, StatusAssumption DEF Over, Concluded, Interim
    <3> QED BY <2>0, <2>4, <3>2 DEF Write
  <2>5. CASE Claim(a) \/ Dispatch(a)
    <3>1. Over(m)' /\ Waits(m)'
      BY <1>2, <2>0, <2>5 DEF Claim, ClaimBy, Dispatch, Kept, StepsTrue
    <3> QED BY <2>0, <2>5, <3>1 DEF Claim, ClaimBy, Dispatch, Finish
  <2>6. CASE Error(a)
    <3>1. a # Flush => Waits(m)'
      BY <1>2, <2>6 DEF Error, Waits, Over
    <3> QED BY <2>0, <2>6, <3>1 DEF Error, Finish
  <2> QED BY <1>0, <2>1, <2>2, <2>3, <2>4, <2>5, <2>6 DEF Process
(* What it leaves in the marks and in the buffer.                           *)
<1>4. \A r \in seen' : r \in seen \/ (r = rep[a] /\ Over(m)')
  <2>1. seen' = seen \/ (seen' = seen \cup {rep[a]} /\ rep[a][2] \in Settled
                           /\ (Match(a) \/ Claim(a)))
    BY <1>0 DEF Process, Match, Miss, MissBy, MarkUnmatched, Write, Claim, ClaimBy,
       Dispatch, Error, MarkSeen, markVars
  <2>2. CASE Match(a) /\ seen' # seen
    <3>1. m \in mapped /\ row[m] \in Settled
      BY <1>2, <2>2 DEF Match, Matchable
    <3> QED BY <1>2, <2>1, <3>1, OverStays DEF Over, Concluded
  <2>3. CASE Claim(a)
    BY <1>2, <2>1, <2>3, OverStays DEF Claim, ClaimBy, Kept, StepsTrue
  <2> QED BY <2>1, <2>2, <2>3
<1>5. \A n \in unmatched' : n \in unmatched \/ (n = m /\ Waits(m)')
  <2>1. unmatched' = unmatched \/ (unmatched' = unmatched \cup {m} /\ pc[a] = "mark")
    BY <1>0, <1>2 DEF Process, Match, Miss, MissBy, MarkUnmatched, Write, Claim, ClaimBy,
       Dispatch, Error, markVars
  <2> QED BY <1>2, <2>1, WaitsStays DEF Kept, StepsTrue
<1>6. \A n \in Msg : buffer'[n] = buffer[n] \/ (n = m /\ buffer'[n] = rep[a][2])
  BY <1>0, <1>2 DEF Process, Match, Miss, MissBy, MarkUnmatched, Write, Claim, ClaimBy,
     Dispatch, Error, bufferVars, Typed, TypeOK
<1>7. Origins'
  BY <1>1, <1>2, <1>3, <1>6 DEF Kept, Origins, Typed, TypeOK
<1>8. MarksTrue'
  BY <1>2, <1>4, <1>5, OverStays, WaitsStays DEF Kept, MarksTrue, Typed, TypeOK, Report
<1>9. ASSUME NEW b \in Actor
      PROVE  /\ pc'[b] \in {"claim", "dispatch", "found"} => Over(rep[b][1])'
             /\ pc'[b] \in {"mark", "end"} => Waits(rep[b][1])'
             /\ pc'[b] = "write" => rep'[b][1] \in mapped'
             /\ pc'[b] = "end" => b # Flush
  <2>1. CASE b = a
    BY <1>1, <1>2, <1>3, <2>1 DEF Over, Waits, Concluded, Interim
  <2>2. CASE b # a
    <3>1. pc'[b] = pc[b] /\ rep'[b] = rep[b]
      BY <1>1, <1>3, <2>2 DEF Typed, TypeOK
    <3> QED BY <1>1, <3>1, OfStep, OverStays, WaitsStays DEF Kept, StepsTrue
  <2> QED BY <2>1, <2>2
<1>10. ASSUME NEW r \in came' PROVE Over(r[1])' \/ Carried(r[1])'
  <2>1. r \in came /\ r[1] \in Msg
    BY <1>1, <1>10 DEF Typed, TypeOK, Report
  <2>2. CASE Over(r[1]) \/ buffer[r[1]] # NoReport
    BY <2>1, <2>2, OverStays, WaitsStays DEF Waits, Carried
  <2>3. CASE \E s \in Status : queue[<<r[1], s>>] > 0
    BY <1>1, <2>3 DEF Carried
  <2>4. ASSUME NEW w \in Worker, rep[w] # NoReport, rep[w][1] = r[1], pc[w] # "end"
        PROVE  Over(r[1])' \/ Carried(r[1])'
    <3>1. CASE pc'[w] # "end"
      BY <1>1, <2>4, <3>1 DEF Carried
    <3>2. CASE pc'[w] = "end"
      BY <1>9, <1>1, <2>4, <3>2, OverStays DEF Waits, Carried, Actor
    <3> QED BY <3>1, <3>2
  <2> QED BY <2>1, <2>2, <2>3, <2>4 DEF Kept, Carried
<1> QED BY <1>7, <1>8, <1>9, <1>10 DEF Kept, StepsTrue

(* A delivery starts, ends or dies. One that starts is cut short by a mark  *)
(* only if its report is over or waits in the buffer; so is the report of   *)
(* one that dies, unless it goes with the process.                          *)
LEMMA DeliveryKept ==
  ASSUME Typed, Kept, Next, DeliveryStep
  PROVE  Kept'
<1>1. UNCHANGED <<seen, unmatched, buffer, came, mapped, result>>
  BY DEF DeliveryStep, Receive, TaskEnds, Kill, rowVars, markVars, bufferVars
<1>2. MarksTrue'
  BY <1>1, OverStays, WaitsStays DEF Kept, MarksTrue, Typed, TypeOK, Report
(* A step of actor a, whose report was r.                                   *)
<1>3. PICK a \in Actor, r \in Report :
        /\ \A b \in Actor \ {a} : pc'[b] = pc[b] /\ rep'[b] = rep[b]
        /\ \/ /\ a # Flush /\ queue[r] > 0 /\ queue' = [queue EXCEPT ![r] = @ - 1]
              /\ rep'[a] = r /\ rep[a] = NoReport
              /\ pc'[a] = "match" \/ (pc'[a] = "end" /\ Waits(r[1]))
           \/ /\ a # Flush /\ pc[a] = "end" /\ pc'[a] = "idle" /\ queue' = queue
           \/ /\ a # Flush /\ rep[a] = r /\ pc'[a] = "idle" /\ queue' = queue
              /\ Waits(r[1])'
           \/ /\ a = Flush /\ pc'[a] = "idle" /\ queue' = queue
  <2>1. ASSUME NEW w \in Worker, NEW q \in Report, Receive(w, q)
        PROVE  /\ w \in Actor /\ w # Flush /\ queue[q] > 0 /\ rep[w] = NoReport
               /\ queue' = [queue EXCEPT ![q] = @ - 1]
               /\ \A b \in Actor \ {w} : pc'[b] = pc[b] /\ rep'[b] = rep[b]
               /\ rep'[w] = q
               /\ pc'[w] = "match" \/ (pc'[w] = "end" /\ Waits(q[1]))
    <3>1. w \in Actor /\ w # Flush
      BY ActorAssumption DEF Actor
    <3>2. q \in seen \/ q[1] \in unmatched => Waits(q[1])
      BY DEF Kept, MarksTrue, Waits
    <3> QED BY <2>1, <3>1, <3>2 DEF Receive, Goto, Typed, TypeOK
  <2>2. ASSUME NEW w \in Worker, TaskEnds(w)
        PROVE  /\ w \in Actor /\ w # Flush /\ rep[w] \in Report /\ pc[w] = "end"
               /\ pc'[w] = "idle" /\ queue' = queue
               /\ \A b \in Actor \ {w} : pc'[b] = pc[b] /\ rep'[b] = rep[b]
    BY <2>2, ActorAssumption DEF TaskEnds, Goto, Actor, Typed, TypeOK
  <2>3. ASSUME NEW b \in Actor, Kill(b), NEW q \in Report, rep[b] = q
        PROVE  /\ pc'[b] = "idle" /\ queue' = queue
               /\ b = Flush \/ Waits(q[1])'
               /\ \A c \in Actor \ {b} : pc'[c] = pc[c] /\ rep'[c] = rep[c]
    <3>1. /\ pc[b] # "idle" /\ pc'[b] = "idle" /\ queue' = queue
          /\ \A c \in Actor \ {b} : pc'[c] = pc[c] /\ rep'[c] = rep[c]
      BY <2>3 DEF Kill, Goto, Typed, TypeOK
    <3>2. CASE HandedOn(b)
      <4>1. Waits(q[1]) /\ q[1] \in Msg
        BY <2>3, <3>2 DEF HandedOn, Kept, StepsTrue, Waits, Report
      <4> QED BY <3>1, <4>1, WaitsStays
    <3>3. CASE b # Flush /\ ~HandedOn(b)
      <4>1. q[1] \in lost'
        BY <2>3, <3>3 DEF Kill
      <4> QED BY <3>1, <4>1 DEF Waits, Over
    <3> QED BY <3>1, <3>2, <3>3
  <2>4. ASSUME NEW b \in Actor, Kill(b)
        PROVE  rep[b] \in Report
    BY <2>4 DEF Kill, Typed, TypeOK
  <2>5. CASE \E w \in Worker : TaskEnds(w) \/ \E q \in Report : Receive(w, q)
    BY <2>1, <2>2, <2>5
  <2>6. CASE \E b \in Actor : Kill(b)
    BY <2>3, <2>4, <2>6
  <2> QED BY <2>5, <2>6 DEF DeliveryStep
<1>4. r[1] \in Msg /\ r = <<r[1], r[2]>> /\ r[2] \in Status
  BY DEF Report
<1>5. queue \in [Report -> Nat] /\ \A w \in Worker : w \in Actor /\ w # Flush
  BY ActorAssumption DEF Typed, TypeOK, Actor
<1>6. r \in came \/ queue' = queue
  BY <1>3 DEF Kept, Origins
<1>7. Origins'
  BY <1>1, <1>3, <1>5, <1>6 DEF Kept, Origins
<1>8. StepsTrue'
  <2>1. ASSUME NEW b \in Actor \ {a}
        PROVE  /\ pc'[b] \in {"claim", "dispatch", "found"} => Over(rep[b][1])'
               /\ pc'[b] \in {"mark", "end"} => Waits(rep[b][1])'
               /\ pc'[b] = "write" => rep'[b][1] \in mapped'
               /\ pc'[b] = "end" => b # Flush
    BY <1>1, <1>3, OfStep, OverStays, WaitsStays DEF Kept, StepsTrue
  <2>2. pc'[a] \in {"idle", "match"} \/ (pc'[a] = "end" /\ a # Flush /\ Waits(rep[a][1])')
    BY <1>3, <1>4, WaitsStays
  <2> QED BY <2>1, <2>2 DEF StepsTrue
<1>9. ASSUME NEW q \in came' PROVE Over(q[1])' \/ Carried(q[1])'
  <2>1. q \in came /\ q[1] \in Msg
    BY <1>1, <1>9 DEF Typed, TypeOK, Report
  <2>2. CASE Waits(q[1])
    BY <2>1, <2>2, WaitsStays DEF Waits, Carried
  <2>3. ASSUME NEW s \in Status, queue[<<q[1], s>>] > 0
        PROVE  Waits(q[1]) \/ Carried(q[1])'
    <3>1. CASE <<q[1], s>> = r /\ queue' = [queue EXCEPT ![r] = @ - 1]
      <4>1. q[1] = r[1] /\ a \in Worker /\ rep'[a] = r /\ r # NoReport
        BY <1>3, <1>4, <1>5, <3>1, ActorAssumption DEF Actor
      <4> QED BY <1>3, <4>1 DEF Carried
    <3>2. CASE <<q[1], s>> # r \/ queue' # [queue EXCEPT ![r] = @ - 1]
      <4>1. <<q[1], s>> \in Report
        BY <2>1 DEF Report
      <4>2. queue'[<<q[1], s>>] > 0
        BY <1>3, <1>5, <2>3, <3>2, <4>1
      <4> QED BY <4>2 DEF Carried
    <3> QED BY <3>1, <3>2
  <2>4. ASSUME NEW w \in Worker, rep[w] # NoReport, rep[w][1] = q[1], pc[w] # "end"
        PROVE  Over(q[1])' \/ Carried(q[1])'
    <3>1. CASE w # a
      BY <1>3, <1>5, <2>4, <3>1 DEF Carried
    <3>2. CASE w = a
      <4>1. rep[w] = r /\ Waits(r[1])'
        BY <1>3, <1>5, <2>4, <3>2
      <4> QED BY <1>4, <2>4, <4>1 DEF Waits, Carried
    <3> QED BY <3>1, <3>2
  <2> QED BY <2>1, <2>2, <2>3, <2>4, WaitsStays DEF Kept, Carried, Waits
<1> QED BY <1>2, <1>7, <1>8, <1>9 DEF Kept

(* The flush: it takes an entry out of the buffer only when its report is   *)
(* over or has had its last retry.                                          *)
LEMMA FlushKept ==
  ASSUME Typed, Kept, Next, FlushStep
  PROVE  Kept'
<1>1. UNCHANGED <<seen, unmatched, queue, came, mapped, result>>
  BY DEF FlushStep, FlushStart, FlushNext, FlushNextBy, FlushStop, FlushDone, FlushEnds,
     rowVars, markVars
<1>2. /\ \A b \in Actor \ {Flush} : pc'[b] = pc[b] /\ rep'[b] = rep[b]
      /\ \/ pc'[Flush] = "idle"
         \/ /\ \E m \in Msg : buffer[m] # NoReport /\ rep'[Flush] = <<m, buffer[m]>>
            /\ pc'[Flush] = "match" \/ (pc'[Flush] = "found" /\ rep'[Flush] \in seen)
  <2>1. CASE FlushStart \/ FlushStop
    BY <2>1 DEF FlushStart, FlushStop, taskVars
  <2>2. ASSUME NEW m \in Msg, FlushNext(m)
        PROVE  /\ buffer[m] # NoReport /\ rep'[Flush] = <<m, buffer[m]>>
               /\ pc'[Flush] = "match" \/ (pc'[Flush] = "found" /\ rep'[Flush] \in seen)
               /\ \A b \in Actor \ {Flush} : pc'[b] = pc[b] /\ rep'[b] = rep[b]
    BY <2>2 DEF FlushNext, FlushNextBy, Goto, Typed, TypeOK, TodoWaits, Actor
  <2>3. CASE FlushDone
    BY <2>3 DEF FlushDone, FlushEnds, Goto, Typed, TypeOK, Actor
  <2> QED BY <2>1, <2>2, <2>3 DEF FlushStep
<1>3. \A m \in Msg : buffer'[m] # NoReport => buffer'[m] = buffer[m]
  BY DEF FlushStep, FlushStart, FlushNext, FlushNextBy, FlushStop, FlushDone, FlushEnds,
     bufferVars, Typed, TypeOK
<1>4. MarksTrue'
  BY <1>1, OverStays, WaitsStays DEF Kept, MarksTrue, Typed, TypeOK, Report
<1>5. Origins'
  BY <1>1, <1>2, <1>3 DEF Kept, Origins
<1>6. StepsTrue'
  <2>1. ASSUME NEW b \in Actor \ {Flush}
        PROVE  /\ pc'[b] \in {"claim", "dispatch", "found"} => Over(rep[b][1])'
               /\ pc'[b] \in {"mark", "end"} => Waits(rep[b][1])'
               /\ pc'[b] = "write" => rep'[b][1] \in mapped'
    BY <1>1, <1>2, OfStep, OverStays, WaitsStays DEF Kept, StepsTrue
  <2>2. pc'[Flush] \in {"idle", "match"} \/ (pc'[Flush] = "found" /\ Over(rep[Flush][1])')
    BY <1>2, OverStays DEF Kept, MarksTrue, Typed, TypeOK, Report
  <2> QED BY <2>1, <2>2 DEF StepsTrue
<1>7. ASSUME NEW q \in came' PROVE Over(q[1])' \/ Carried(q[1])'
  <2>1. q \in came /\ q[1] \in Msg
    BY <1>1, <1>7 DEF Typed, TypeOK, Report
  <2>2. \A w \in Worker : rep'[w] = rep[w] /\ pc'[w] = pc[w]
    BY <1>2, ActorAssumption DEF Actor
  <2> QED BY <1>1, <2>1, <2>2, OverStays, WaitsStays DEF Kept, Carried, Waits
<1> QED BY <1>4, <1>5, <1>6, <1>7 DEF Kept

(* ReportKept: a report that was published is queued, with a task, in the   *)
(* buffer or over; the marks that cut retransmissions short (dlr_dedup,     *)
(* dlr_seen, dlr_unmatched) hide none, and a process that dies takes at most *)
(* the report it had neither written nor buffered.                          *)
THEOREM KeptCorrect == Spec => []ReportKept
<1>1. Init => Kept
  BY ActorAssumption DEF Init, Kept, Origins, MarksTrue, StepsTrue
<1>2. Typed /\ Kept /\ [Next]_vars => Kept'
  <2>1. ASSUME Kept, UNCHANGED vars PROVE Kept'
    BY <2>1 DEF vars, Kept, Origins, MarksTrue, StepsTrue, Over, Waits, Carried, Concluded,
       Interim, gatewayVars, rowVars, taskVars, markVars, bufferVars
  <2> QED BY <2>1, NextSteps, GatewayKept, RowKept, TaskKept, DeliveryKept, FlushKept
<1>3. Kept => ReportKept
  BY DEF Kept, ReportKept, Over
<1> QED BY <1>1, <1>2, <1>3, AlwaysTyped, PTL DEF Spec
===============================================================================
