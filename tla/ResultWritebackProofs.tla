------------------------ MODULE ResultWritebackProofs ------------------------
(***************************************************************************)
(* Theorems about ResultWriteback, for every set of results, rows,         *)
(* processes and timers and every bound: the variables keep their types, a *)
(* result whose task is over was written or is in the stream, and what     *)
(* leaves a buffer was written, by row in any case and by result if a row  *)
(* has one. From KindAssumption (each result has a row, Redis answers or   *)
(* does not), SentinelAssumption (the sentinels are not what they stand    *)
(* beside) and BoundAssumption (a stopping process flushes at least once). *)
(***************************************************************************)
EXTENDS ResultWriteback, TLAPS

-----------------------------------------------------------------------------
(* The invariants *)

(* A thread that is about to log a result has one: without this, Enqueue    *)
(* could make an entry of no result.                                        *)
TaskHeld == \A w \in Worker : ph[w][Main] = "task" => held[w] \in Item

Typed == TypeOK /\ TaskHeld

(* What a flush is going to delete from the stream was written.             *)
OkWritten == \A w \in Worker, t \in Thread : \A e \in ok[w][t] : e.item \in written

Safe == NothingLost /\ OkWritten

-----------------------------------------------------------------------------
(* Helpers *)

(* A cut of a set of entries is one of its subsets (the flush of the oldest *)
(* results, MAXLEN of the stream, the count of a replay).                   *)
LEMMA CutIsSubset ==
  ASSUME NEW S, NEW n
  PROVE  First(S, n) \subseteq S /\ Newest(S, n) \subseteq S
BY DEF First, Newest

(* A thread that goes on to something else than logging a result.           *)
LEMMA PhaseSet ==
  ASSUME Typed, NEW w \in Worker, NEW t \in Thread, NEW p \in Phase, p # "task",
         ph' = [ph EXCEPT ![w][t] = p]
  PROVE  /\ ph' \in [Worker -> [Thread -> Phase]]
         /\ \A v \in Worker : ph'[v][Main] = "task" => ph[v][Main] = "task"
<1>1. ph \in [Worker -> [Thread -> Phase]] /\ Main \in Thread
  BY DEF Typed, TypeOK, Thread
<1>2. ph' \in [Worker -> [Thread -> Phase]]
  BY <1>1
<1>3. \A v \in Worker : ph'[v][Main] = "task" => ph[v][Main] = "task"
  BY <1>1
<1> QED BY <1>2, <1>3

(* A set of entries of one thread changes (todo, ok, bad).                  *)
LEMMA EntriesSet ==
  ASSUME NEW f \in [Worker -> [Thread -> SUBSET Entry]], NEW w \in Worker,
         NEW t \in Thread, NEW S \in SUBSET Entry,
         NEW g, g = f \/ g = [f EXCEPT ![w][t] = S]
  PROVE  g \in [Worker -> [Thread -> SUBSET Entry]]
<1>1. CASE g = f
  BY <1>1
<1>2. CASE g = [f EXCEPT ![w][t] = S]
  BY <1>2
<1> QED BY <1>1, <1>2

(* A fault is counted.                                                      *)
LEMMA FaultTyped ==
  ASSUME Typed, NEW kind, Fault(kind)
  PROVE  faults' \in Nat /\ stops' = stops
BY DEF Fault, Typed, TypeOK

(* Writing entries keeps the types of the rows and of the history.          *)
LEMMA WriteTyped ==
  ASSUME Typed, NEW S \in SUBSET Entry, WriteRows(S)
  PROVE  row' \in [Log -> Item \cup {NoItem, Concluded}] /\ written' \subseteq Item
<1>1. \A e \in S : e.item \in Item
  BY DEF Entry
<1>2. \A l \in Log : LastFor(S, l) # {} => (CHOOSE e \in LastFor(S, l) : TRUE) \in S
  BY DEF LastFor
<1>3. row' \in [Log -> Item \cup {NoItem, Concluded}]
  BY <1>1, <1>2 DEF WriteRows, Typed, TypeOK
<1>4. written' \subseteq Item
  BY <1>1 DEF WriteRows, Items, Typed, TypeOK
<1> QED BY <1>3, <1>4

(* Putting an entry into the buffer keeps the types (the locked section of  *)
(* _enqueue_sms_result_buffer).                                             *)
LEMMA AppendTyped ==
  ASSUME Typed, NEW w \in Worker, NEW e \in Entry, NEW next \in {"idle", "ack"},
         Append(w, e, next)
  PROVE  /\ buf' \in [Worker -> SUBSET Entry]
         /\ cur' \in [Worker -> Timer \cup {NoTimer}]
         /\ ph' \in [Worker -> [Thread -> Phase]]
         /\ todo' \in [Worker -> [Thread -> SUBSET Entry]]
         /\ ok' = ok /\ bad' = bad
         /\ \A v \in Worker : ph'[v][Main] = "task" => v # w /\ ph[v][Main] = "task"
         /\ \A v \in Worker \ {w} : ph'[v] = ph[v]
<1> DEFINE B == buf[w] \cup {e}
<1>1. B \in SUBSET Entry
  BY DEF Typed, TypeOK
<1>2. First(B, BatchSize) \in SUBSET Entry
  BY <1>1, CutIsSubset
<1>3. Main \in Thread /\ Main \notin Timer
  BY SentinelAssumption DEF Thread
<1>4. buf' = [buf EXCEPT ![w] = B] /\ ok' = ok /\ bad' = bad
  BY DEF Append
<1> HIDE DEF B
<1>5. buf' \in [Worker -> SUBSET Entry]
  BY <1>1, <1>4 DEF Typed, TypeOK
<1>6. CASE /\ ph' = [ph EXCEPT ![w] = [t \in Thread |->
                    IF t = Main THEN "bulk"
                    ELSE IF t = cur[w] /\ ph[w][t] = "armed" THEN "idle" ELSE ph[w][t]]]
           /\ cur' = [cur EXCEPT ![w] = NoTimer]
           /\ todo' = [todo EXCEPT ![w][Main] = First(B, BatchSize)]
  BY <1>2, <1>3, <1>4, <1>5, <1>6 DEF Typed, TypeOK, Phase
<1>7. CASE ph' = [ph EXCEPT ![w][Main] = next] /\ cur' = cur /\ todo' = todo
  BY <1>3, <1>4, <1>5, <1>7 DEF Typed, TypeOK, Phase
<1>8. ASSUME NEW t \in Timer,
             ph' = [ph EXCEPT ![w][Main] = next, ![w][t] = "armed"],
             cur' = [cur EXCEPT ![w] = t], todo' = todo
      PROVE  /\ cur' \in [Worker -> Timer \cup {NoTimer}]
             /\ ph' \in [Worker -> [Thread -> Phase]]
             /\ todo' \in [Worker -> [Thread -> SUBSET Entry]]
             /\ \A v \in Worker : ph'[v][Main] = "task" => v # w /\ ph[v][Main] = "task"
             /\ \A v \in Worker \ {w} : ph'[v] = ph[v]
  <2>1. t \in Thread /\ t # Main
    BY <1>3 DEF Thread
  <2> QED BY <1>3, <1>8, <2>1 DEF Typed, TypeOK, Phase
<1> QED BY <1>4, <1>5, <1>6, <1>7, <1>8 DEF Append, B

-----------------------------------------------------------------------------
(* Types *)

(* What a process does with a task (process_sms_result_task): the types     *)
(* stay.                                                                    *)
LEMMA TaskTyped ==
  ASSUME Typed, NEW w \in Worker, RunTask(w)
  PROVE  Typed'
<1> USE SentinelAssumption DEF Typed, TypeOK, TaskHeld, Phase, ProcState, Thread,
      brokerVars, logVars, rowVars, procVars, memVars, flushVars, budget
<1>1. ASSUME NEW i \in Item, Receive(w, i) PROVE Typed'
  BY <1>1 DEF Receive
<1>2. CASE Enqueue(w)
  <2>1. held[w] \in Item
    BY <1>2 DEF Enqueue, At
  <2>2. PICK logged \in RedisUp :
          LET e == [item |-> held[w], stamp |-> stamp, logged |-> logged]
              S == IF logged THEN stream \cup {e} ELSE stream
          IN /\ stream' \in {S, Newest(S, MaxLen)}
             /\ unlogged' = (unlogged \cup Items(S \ stream'))
                               \cup (IF logged THEN {} ELSE {held[w]})
             /\ Append(w, e, "ack")
    BY <1>2 DEF Enqueue
  <2> DEFINE e == [item |-> held[w], stamp |-> stamp, logged |-> logged]
             S == IF logged THEN stream \cup {e} ELSE stream
  <2>3. e \in Entry
    BY <2>1, KindAssumption DEF Entry
  <2>4. S \subseteq Entry
    BY <2>3
  <2>5. /\ stream' \in {S, Newest(S, MaxLen)}
        /\ unlogged' = (unlogged \cup Items(S \ stream'))
                          \cup (IF logged THEN {} ELSE {held[w]})
        /\ Append(w, e, "ack")
    BY <2>2
  <2> HIDE DEF e, S
  <2>6. stream' \subseteq S
    BY <2>5, CutIsSubset
  <2>7. Items(S \ stream') \subseteq Item
    BY <2>4 DEF Items, Entry
  <2>8. unlogged' \subseteq Item
    BY <2>1, <2>5, <2>7
  <2>9. /\ buf' \in [Worker -> SUBSET Entry]
        /\ cur' \in [Worker -> Timer \cup {NoTimer}]
        /\ ph' \in [Worker -> [Thread -> Phase]]
        /\ todo' \in [Worker -> [Thread -> SUBSET Entry]]
        /\ ok' = ok /\ bad' = bad
        /\ \A v \in Worker : ph'[v][Main] = "task" => v # w /\ ph[v][Main] = "task"
    BY <2>3, <2>5, AppendTyped
  <2>10. UNCHANGED <<brokerVars, rowVars, procVars, budget>> /\ stamp' \in Nat
    BY <1>2 DEF Enqueue
  <2> QED BY <2>4, <2>6, <2>8, <2>9, <2>10
<1>3. CASE Ack(w)
  <2>1. ph' = [ph EXCEPT ![w][Main] = "idle"] /\ held' = [held EXCEPT ![w] = NoItem]
    BY <1>3 DEF Ack
  <2>2. /\ ph' \in [Worker -> [Thread -> Phase]]
        /\ \A v \in Worker : ph'[v][Main] = "task" => v # w /\ ph[v][Main] = "task"
    <3>1. Main \in Thread /\ "idle" \in Phase
      OBVIOUS
    <3>2. ph'[w][Main] # "task"
      BY <2>1, <3>1
    <3> QED BY <2>1, <3>1, <3>2, PhaseSet
  <2>3. held' \in [Worker -> Item \cup {NoItem}]
    BY <2>1
  <2>4. \A v \in Worker : ph'[v][Main] = "task" => held'[v] \in Item
    BY <2>1, <2>2
  <2>5. UNCHANGED <<queue, logVars, rowVars, procVars, memVars, todo, ok, bad, budget>>
    BY <1>3 DEF Ack
  <2> QED BY <2>2, <2>3, <2>4, <2>5
<1> QED BY <1>1, <1>2, <1>3 DEF RunTask

(* Timers: the types stay.                                                  *)
LEMMA TimerTyped ==
  ASSUME Typed, NEW w \in Worker, NEW t \in Timer, RunTimer(w, t)
  PROVE  Typed'
<1>1. t \in Thread
  BY DEF Thread
<1>2. PICK p \in {"fired", "idle", "bulk"} : ph' = [ph EXCEPT ![w][t] = p]
  BY DEF RunTimer, TimerFires, TimerRuns
<1>3. /\ ph' \in [Worker -> [Thread -> Phase]]
      /\ \A v \in Worker : ph'[v][Main] = "task" => ph[v][Main] = "task"
  BY <1>1, <1>2, PhaseSet DEF Phase
<1>4. cur' = cur \/ cur' = [cur EXCEPT ![w] = NoTimer]
  BY DEF RunTimer, TimerFires, TimerRuns, memVars
<1>5. cur' \in [Worker -> Timer \cup {NoTimer}]
  BY <1>4 DEF Typed, TypeOK
<1>6. todo' = todo \/ todo' = [todo EXCEPT ![w][t] = buf[w]]
  BY DEF RunTimer, TimerFires, TimerRuns
<1>7. todo' \in [Worker -> [Thread -> SUBSET Entry]]
  <2>1. todo \in [Worker -> [Thread -> SUBSET Entry]] /\ buf[w] \in SUBSET Entry
    BY DEF Typed, TypeOK
  <2> QED BY <1>1, <1>6, <2>1, EntriesSet
<1>8. UNCHANGED <<brokerVars, logVars, rowVars, procVars, buf, ok, bad, budget>>
  BY DEF RunTimer, TimerFires, TimerRuns, memVars
<1> QED BY <1>3, <1>5, <1>7, <1>8
        DEF Typed, TypeOK, TaskHeld, brokerVars, logVars, rowVars, procVars, budget

(* Flushes: the types stay.                                                 *)
LEMMA FlushTyped ==
  ASSUME Typed, NEW w \in Worker, NEW t \in Thread, Flush(w, t)
  PROVE  Typed'
<1>0. /\ todo[w][t] \in SUBSET Entry /\ ok[w][t] \in SUBSET Entry /\ bad[w][t] \in SUBSET Entry
      /\ {} \in SUBSET Entry
  BY DEF Typed, TypeOK
<1>1. PICK p \in {"single", "remove", "clean", "idle", "ack"} :
        ph' = ph \/ ph' = [ph EXCEPT ![w][t] = p]
  BY DEF Flush, Bulk, BulkFails, Single, SingleFails, SingleEnds, Abort, Remove, Clean, Answered
<1>2. p \in Phase /\ p # "task"
  BY DEF Phase
<1>3. \E T \in SUBSET Entry : todo' = todo \/ todo' = [todo EXCEPT ![w][t] = T]
  <2>1. \/ todo' = todo \/ todo' = [todo EXCEPT ![w][t] = {}]
        \/ \E e \in First(todo[w][t], 1) : todo' = [todo EXCEPT ![w][t] = @ \ {e}]
    BY DEF Flush, Bulk, BulkFails, Single, SingleFails, SingleEnds, Abort, Remove, Clean
  <2>2. \A e : todo[w][t] \ {e} \in SUBSET Entry
    BY <1>0
  <2> QED BY <1>0, <2>1, <2>2
<1>4. \A e \in First(todo[w][t], 1) : e \in Entry
  BY <1>0, CutIsSubset
<1>5. \E O \in SUBSET Entry : ok' = ok \/ ok' = [ok EXCEPT ![w][t] = O]
  <2>1. \/ ok' = ok \/ ok' = [ok EXCEPT ![w][t] = {}] \/ ok' = [ok EXCEPT ![w][t] = todo[w][t]]
        \/ \E e \in First(todo[w][t], 1) : ok' = [ok EXCEPT ![w][t] = @ \cup {e}]
    BY DEF Flush, Bulk, BulkFails, Single, SingleFails, SingleEnds, Abort, Remove, Clean
  <2>2. \A e \in First(todo[w][t], 1) : ok[w][t] \cup {e} \in SUBSET Entry
    BY <1>0, <1>4
  <2> QED BY <1>0, <2>1, <2>2
<1>6. \E D \in SUBSET Entry : bad' = bad \/ bad' = [bad EXCEPT ![w][t] = D]
  <2>1. \/ bad' = bad \/ bad' = [bad EXCEPT ![w][t] = {}]
        \/ \E e \in First(todo[w][t], 1) : bad' = [bad EXCEPT ![w][t] = @ \cup {e}]
    BY DEF Flush, Bulk, BulkFails, Single, SingleFails, SingleEnds, Abort, Remove, Clean
  <2>2. \A e \in First(todo[w][t], 1) : bad[w][t] \cup {e} \in SUBSET Entry
    BY <1>0, <1>4
  <2> QED BY <1>0, <2>1, <2>2
<1>7. row' \in [Log -> Item \cup {NoItem, Concluded}] /\ written' \subseteq Item
  <2>1. CASE \E S \in SUBSET Entry : WriteRows(S)
    BY <2>1, WriteTyped
  <2>2. CASE rowVars' = rowVars
    BY <2>2 DEF rowVars, Typed, TypeOK
  <2>3. CASE Bulk(w, t)
    BY <1>0, <2>1, <2>3 DEF Bulk
  <2>4. CASE Single(w, t)
    <3>1. PICK e \in First(todo[w][t], 1) : WriteRows({e})
      BY <2>4 DEF Single
    <3> QED BY <1>4, <2>1, <3>1
  <2> QED BY <2>2, <2>3, <2>4
          DEF Flush, BulkFails, SingleFails, SingleEnds, Abort, Remove, Clean
<1>8. stream' \subseteq Entry
  <2>1. stream' \subseteq stream
    BY DEF Flush, Bulk, BulkFails, Single, SingleFails, SingleEnds, Abort, Remove, Clean, logVars
  <2> QED BY <2>1 DEF Typed, TypeOK
<1>9. buf' \in [Worker -> SUBSET Entry]
  <2>1. CASE buf' = buf
    BY <2>1 DEF Typed, TypeOK
  <2>2. CASE buf' = [buf EXCEPT ![w] = {e \in @ : RowOf(e) \notin Rows(ok[w][t])}]
    BY <2>2 DEF Typed, TypeOK
  <2> QED BY <2>1, <2>2
          DEF Flush, Bulk, BulkFails, Single, SingleFails, SingleEnds, Abort, Remove, Clean, memVars
<1>10. faults' \in Nat /\ stops' = stops
  <2>1. CASE budget' = budget
    BY <2>1 DEF budget, Typed, TypeOK
  <2>2. CASE \E kind : Fault(kind)
    BY <2>2, FaultTyped
  <2> QED BY <2>1, <2>2
          DEF Flush, Bulk, BulkFails, Single, SingleFails, SingleEnds, Abort, Remove, Clean
<1>11. UNCHANGED <<brokerVars, stamp, unlogged, procVars, cur>>
  BY DEF Flush, Bulk, BulkFails, Single, SingleFails, SingleEnds, Abort, Remove, Clean,
         logVars, memVars
<1>12. PICK T \in SUBSET Entry : todo' = todo \/ todo' = [todo EXCEPT ![w][t] = T]
  BY <1>3
<1>13. PICK O \in SUBSET Entry : ok' = ok \/ ok' = [ok EXCEPT ![w][t] = O]
  BY <1>5
<1>14. PICK D \in SUBSET Entry : bad' = bad \/ bad' = [bad EXCEPT ![w][t] = D]
  BY <1>6
<1>15. /\ ph' \in [Worker -> [Thread -> Phase]]
       /\ \A v \in Worker : ph'[v][Main] = "task" => ph[v][Main] = "task"
  <2>1. CASE ph' = ph
    BY <2>1 DEF Typed, TypeOK
  <2>2. CASE ph' = [ph EXCEPT ![w][t] = p]
    BY <1>2, <2>2, PhaseSet
  <2> QED BY <1>1, <2>1, <2>2
<1>16. {todo, ok, bad} \subseteq [Worker -> [Thread -> SUBSET Entry]]
  BY DEF Typed, TypeOK
<1>17. todo' \in [Worker -> [Thread -> SUBSET Entry]]
  BY <1>12, <1>16, EntriesSet
<1>18. ok' \in [Worker -> [Thread -> SUBSET Entry]]
  BY <1>13, <1>16, EntriesSet
<1>19. bad' \in [Worker -> [Thread -> SUBSET Entry]]
  BY <1>14, <1>16, EntriesSet
<1> QED BY <1>7, <1>8, <1>9, <1>10, <1>11, <1>15, <1>17, <1>18, <1>19
        DEF Typed, TypeOK, TaskHeld, brokerVars, procVars

(* A process without memory: the types stay.                                *)
LEMMA GoneTyped ==
  ASSUME Typed, NEW w \in Worker, Gone(w)
  PROVE  /\ proc' \in [Worker -> ProcState] /\ attempt' \in [Worker -> 0..StopAttempts]
         /\ replay' \in [Worker -> SUBSET Entry] /\ buf' \in [Worker -> SUBSET Entry]
         /\ cur' \in [Worker -> Timer \cup {NoTimer}]
         /\ ph' \in [Worker -> [Thread -> Phase]]
         /\ todo' \in [Worker -> [Thread -> SUBSET Entry]]
         /\ ok' \in [Worker -> [Thread -> SUBSET Entry]]
         /\ bad' \in [Worker -> [Thread -> SUBSET Entry]]
         /\ \A v \in Worker : ph'[v][Main] = "task" => v # w /\ ph[v][Main] = "task"
         /\ \A v \in Worker, t \in Thread : ok'[v][t] \subseteq ok[v][t]
<1>1. attempt' \in [Worker -> 0..StopAttempts]
  <2>1. 0 \in 0..StopAttempts
    BY BoundAssumption
  <2> QED BY <2>1 DEF Typed, TypeOK, Gone
<1> QED BY <1>1 DEF Typed, TypeOK, Gone, ProcState, Phase, Thread

(* Start, end and death of a process: the types stay.                       *)
LEMMA ProcessTyped ==
  ASSUME Typed, NEW w \in Worker, RunSignal(w) \/ Stop(w) \/ Kill(w)
  PROVE  Typed'
<1> USE SentinelAssumption DEF Typed, TypeOK, TaskHeld, Phase, ProcState, Thread,
      brokerVars, logVars, rowVars, procVars, memVars, flushVars, budget
<1>1. CASE Start(w)
  <2>1. First(stream, ReplayMax) \subseteq Entry
    BY CutIsSubset
  <2>2. PICK R \in SUBSET Entry : replay' = [replay EXCEPT ![w] = R]
    BY <1>1, <2>1 DEF Start
  <2>3. replay' \in [Worker -> SUBSET Entry]
    BY <2>2
  <2>4. proc' = [proc EXCEPT ![w] = "replay"]
    BY <1>1 DEF Start
  <2>5. proc' \in [Worker -> ProcState]
    BY <2>4
  <2>6. UNCHANGED <<brokerVars, logVars, rowVars, attempt, memVars, flushVars, budget>>
    BY <1>1 DEF Start
  <2> QED BY <2>3, <2>5, <2>6
<1>2. CASE ReplayNext(w)
  <2>1. PICK e \in First(replay[w], 1) :
          /\ Append(w, e, "idle")
          /\ replay' = [replay EXCEPT ![w] = @ \ {e}]
    BY <1>2 DEF ReplayNext
  <2>2. e \in Entry
    BY CutIsSubset
  <2>3. /\ buf' \in [Worker -> SUBSET Entry]
        /\ cur' \in [Worker -> Timer \cup {NoTimer}]
        /\ ph' \in [Worker -> [Thread -> Phase]]
        /\ todo' \in [Worker -> [Thread -> SUBSET Entry]]
        /\ ok' = ok /\ bad' = bad
        /\ \A v \in Worker : ph'[v][Main] = "task" => v # w /\ ph[v][Main] = "task"
    BY <2>1, <2>2, AppendTyped
  <2>4. UNCHANGED <<brokerVars, logVars, rowVars, proc, attempt, budget>>
    BY <1>2 DEF ReplayNext
  <2> QED BY <2>1, <2>3, <2>4
<1>3. CASE ReplayEnds(w)
  BY <1>3 DEF ReplayEnds
<1>4. CASE StopCleans(w)
  <2> DEFINE rest == {e \in bad[w][Main] : RowOf(e) \notin Rows(ok[w][Main])}
  <2>1. rest \in SUBSET Entry
    OBVIOUS
  <2> HIDE DEF rest
  <2>2. /\ proc' = proc /\ UNCHANGED <<brokerVars, stamp, unlogged, rowVars, replay, memVars, budget>>
        /\ stream' \subseteq stream
        /\ ok' = [ok EXCEPT ![w][Main] = {}] /\ bad' = [bad EXCEPT ![w][Main] = {}]
    BY <1>4 DEF StopCleans, rest
  <2>3. /\ \/ attempt[w] < StopAttempts /\ attempt' = [attempt EXCEPT ![w] = @ + 1]
           \/ attempt' = attempt
        /\ todo' = [todo EXCEPT ![w][Main] = rest] \/ todo' = todo
        /\ \E p \in {"bulk", "idle"} : ph' = [ph EXCEPT ![w][Main] = p]
    BY <1>4 DEF StopCleans, rest
  <2>4. attempt' \in [Worker -> 0..StopAttempts]
    <3>1. CASE attempt[w] < StopAttempts /\ attempt' = [attempt EXCEPT ![w] = @ + 1]
      <4>1. attempt[w] + 1 \in 0..StopAttempts
        BY <3>1, BoundAssumption
      <4> QED BY <3>1, <4>1
    <3>2. CASE attempt' = attempt
      BY <3>2
    <3> QED BY <2>3, <3>1, <3>2
  <2>5. todo' \in [Worker -> [Thread -> SUBSET Entry]]
    <3>1. CASE todo' = [todo EXCEPT ![w][Main] = rest]
      BY <2>1, <3>1
    <3>2. CASE todo' = todo
      BY <3>2
    <3> QED BY <2>3, <3>1, <3>2
  <2>6. /\ ph' \in [Worker -> [Thread -> Phase]]
        /\ \A v \in Worker : ph'[v][Main] = "task" => ph[v][Main] = "task"
    <3>1. PICK p \in {"bulk", "idle"} : ph' = [ph EXCEPT ![w][Main] = p]
      BY <2>3
    <3>2. p \in Phase /\ p # "task" /\ Main \in Thread
      OBVIOUS
    <3> QED BY <3>1, <3>2, PhaseSet
  <2>7. /\ ok' \in [Worker -> [Thread -> SUBSET Entry]]
        /\ bad' \in [Worker -> [Thread -> SUBSET Entry]]
    BY <2>2
  <2> QED BY <2>2, <2>4, <2>5, <2>6, <2>7
<1>5. CASE Exit(w)
  BY <1>5, GoneTyped DEF Exit
<1>6. CASE Stop(w)
  <2>1. faults' \in Nat /\ stops' \in Nat
    BY <1>6 DEF Stop
  <2>2. attempt' \in [Worker -> 0..StopAttempts] /\ proc' \in [Worker -> ProcState]
    BY <1>6, BoundAssumption DEF Stop
  <2>3. buf' \in [Worker -> SUBSET Entry] /\ todo' \in [Worker -> [Thread -> SUBSET Entry]]
    BY <1>6 DEF Stop
  <2>4. /\ ph' \in [Worker -> [Thread -> Phase]]
        /\ \A v \in Worker : ph'[v][Main] = "task" => ph[v][Main] = "task"
    <3>1. PICK p \in {"idle", "bulk"} : ph' = [ph EXCEPT ![w][Main] = p]
      BY <1>6 DEF Stop
    <3>2. p \in Phase /\ p # "task" /\ Main \in Thread
      OBVIOUS
    <3> QED BY <3>1, <3>2, PhaseSet
  <2>5. UNCHANGED <<brokerVars, logVars, rowVars, replay, cur, ok, bad>>
    BY <1>6 DEF Stop
  <2> QED BY <2>1, <2>2, <2>3, <2>4, <2>5
<1>7. CASE Kill(w)
  <2>1. held' = [held EXCEPT ![w] = NoItem] /\ UNCHANGED <<stream, stamp, rowVars>>
    BY <1>7 DEF Kill
  <2>2. queue' \subseteq Item /\ unlogged' \subseteq Item
    BY <1>7 DEF Kill
  <2>3. faults' \in Nat /\ stops' = stops
    BY <1>7, FaultTyped DEF Kill
  <2>4. Gone(w)
    BY <1>7 DEF Kill
  <2> QED BY <2>1, <2>2, <2>3, <2>4, GoneTyped
<1> QED BY <1>1, <1>2, <1>3, <1>4, <1>5, <1>6, <1>7 DEF RunSignal

(* Every step keeps the types.                                              *)
LEMMA TypedStep == Typed /\ [Next]_vars => Typed'
<1> SUFFICES ASSUME Typed, [Next]_vars PROVE Typed'
  OBVIOUS
<1>1. ASSUME NEW w \in Worker, RunTask(w) PROVE Typed'
  BY <1>1, TaskTyped
<1>2. ASSUME NEW w \in Worker, RunSignal(w) \/ Stop(w) \/ Kill(w) PROVE Typed'
  BY <1>2, ProcessTyped
<1>3. ASSUME NEW w \in Worker, NEW t \in Timer, RunTimer(w, t) PROVE Typed'
  BY <1>3, TimerTyped
<1>4. ASSUME NEW w \in Worker, NEW t \in Thread, Flush(w, t) PROVE Typed'
  BY <1>4, FlushTyped
<1>5. ASSUME NEW l \in Log, Receipt(l) PROVE Typed'
  BY <1>5 DEF Receipt, Typed, TypeOK, TaskHeld, Phase, ProcState, Thread,
      brokerVars, logVars, rowVars, procVars, memVars, flushVars, budget
<1>6. CASE UNCHANGED vars
  BY <1>6 DEF vars, Typed, TypeOK, TaskHeld, Phase, ProcState, Thread,
      brokerVars, logVars, rowVars, procVars, memVars, flushVars, budget
<1> QED BY <1>1, <1>2, <1>3, <1>4, <1>5, <1>6 DEF Next

(* The initial state has its types.                                         *)
LEMMA InitTyped == Init => Typed
BY SentinelAssumption, BoundAssumption
   DEF Init, Typed, TypeOK, TaskHeld, Thread, ProcState, Phase, Entry

(* Every variable keeps its type, whatever the processes, Redis, the        *)
(* database and the broker do (ResultWriteback!TypeOK).                     *)
THEOREM TypeCorrect == Spec => []TypeOK
<1>1. Typed => TypeOK
  BY DEF Typed
<1> QED BY <1>1, InitTyped, TypedStep, PTL DEF Spec

-----------------------------------------------------------------------------
(* Records *)

(* A step that takes no task from the queue and from no thread that is      *)
(* about to log it, and that removes from the stream only what is written,  *)
(* loses nothing.                                                           *)
LEMMA QuietStep ==
  ASSUME NothingLost,
         queue' = queue, written \subseteq written', unlogged \subseteq unlogged',
         \A e \in stream : e \in stream' \/ e.item \in written' \cup unlogged',
         \A v \in Worker : ph[v][Main] = "task" =>
                              ph'[v][Main] = "task" /\ held'[v] = held[v]
  PROVE  NothingLost'
<1> SUFFICES ASSUME NEW i \in Item
             PROVE  \/ i \in queue' \/ Recorded(i)'
                    \/ \E w \in Worker : held'[w] = i /\ ph'[w][Main] = "task"
  BY DEF NothingLost
<1>1. CASE i \in queue
  BY <1>1
<1>2. CASE Recorded(i)
  BY <1>2 DEF Recorded
<1>3. CASE \E w \in Worker : held[w] = i /\ ph[w][Main] = "task"
  BY <1>3
<1> QED BY <1>1, <1>2, <1>3 DEF NothingLost

(* A step that writes rows and adds nothing to what a flush deletes.        *)
LEMMA QuietFlush ==
  ASSUME OkWritten, written \subseteq written',
         \A v \in Worker, t \in Thread : ok'[v][t] \subseteq ok[v][t]
  PROVE  OkWritten'
BY DEF OkWritten

(* Putting an entry into the buffer (the locked section of                  *)
(* _enqueue_sms_result_buffer) leaves other processes and what is going to  *)
(* be deleted alone.                                                        *)
LEMMA AppendSafe ==
  ASSUME Typed, NEW w \in Worker, NEW e \in Entry, NEW next \in {"idle", "ack"},
         Append(w, e, next)
  PROVE  ok' = ok /\ \A v \in Worker \ {w} : ph'[v] = ph[v]
BY AppendTyped

(* A process takes a task, logs its result and is done with it              *)
(* (process_sms_result_task): the result is in the stream before the task   *)
(* ends, or the stream refused it or cut it.                                *)
LEMMA TaskSafe ==
  ASSUME Typed, Safe, NEW w \in Worker, RunTask(w)
  PROVE  Safe'
<1>0. /\ Main \in Thread /\ queue \subseteq Item /\ held \in [Worker -> Item \cup {NoItem}]
      /\ ph \in [Worker -> [Thread -> Phase]]
  BY DEF Typed, TypeOK, Thread
<1>1. ASSUME NEW i \in Item, Receive(w, i) PROVE Safe'
  <2>1. /\ queue' = queue \ {i} /\ held' = [held EXCEPT ![w] = i]
        /\ ph' = [ph EXCEPT ![w][Main] = "task"] /\ ph[w][Main] = "idle"
        /\ stream' = stream /\ unlogged' = unlogged /\ written' = written /\ ok' = ok
    BY <1>1 DEF Receive, Idle, logVars, rowVars
  <2>2. held'[w] = i /\ ph'[w][Main] = "task"
    BY <1>0, <2>1
  <2>3. \A v \in Worker : ph[v][Main] = "task" => ph'[v][Main] = "task" /\ held'[v] = held[v]
    BY <1>0, <2>1
  <2>4. NothingLost'
    <3> SUFFICES ASSUME NEW j \in Item
                 PROVE  \/ j \in queue' \/ Recorded(j)'
                        \/ \E v \in Worker : held'[v] = j /\ ph'[v][Main] = "task"
      BY DEF NothingLost
    <3>1. CASE j = i
      BY <2>2, <3>1
    <3>2. CASE j \in queue /\ j # i
      BY <2>1, <3>2
    <3>3. CASE Recorded(j)
      BY <2>1, <3>3 DEF Recorded
    <3>4. CASE \E v \in Worker : held[v] = j /\ ph[v][Main] = "task"
      BY <2>3, <3>4
    <3> QED BY <3>1, <3>2, <3>3, <3>4 DEF Safe, NothingLost
  <2>5. OkWritten'
    BY <2>1 DEF Safe, OkWritten
  <2> QED BY <2>4, <2>5 DEF Safe
<1>2. CASE Enqueue(w)
  <2>1. ph[w][Main] = "task" /\ held[w] \in Item
    BY <1>2 DEF Enqueue, At, Typed, TaskHeld
  <2>2. PICK logged \in RedisUp :
          LET e == [item |-> held[w], stamp |-> stamp, logged |-> logged]
              S == IF logged THEN stream \cup {e} ELSE stream
          IN /\ stream' \in {S, Newest(S, MaxLen)}
             /\ unlogged' = (unlogged \cup Items(S \ stream'))
                               \cup (IF logged THEN {} ELSE {held[w]})
             /\ Append(w, e, "ack")
    BY <1>2 DEF Enqueue
  <2> DEFINE e == [item |-> held[w], stamp |-> stamp, logged |-> logged]
             S == IF logged THEN stream \cup {e} ELSE stream
  <2>3. e \in Entry /\ e.item = held[w]
    BY <2>1, KindAssumption DEF Entry, Typed, TypeOK
  <2>4. stream \subseteq S /\ (logged => e \in S)
    OBVIOUS
  <2>5. /\ unlogged' = (unlogged \cup Items(S \ stream'))
                         \cup (IF logged THEN {} ELSE {held[w]})
        /\ Append(w, e, "ack")
    BY <2>2
  <2> HIDE DEF e, S
  <2>6. ok' = ok /\ \A v \in Worker \ {w} : ph'[v] = ph[v]
    BY <2>3, <2>5, AppendSafe
  <2>7. queue' = queue /\ held' = held /\ written' = written
    BY <1>2 DEF Enqueue, brokerVars, rowVars
  <2>8. \A d \in S : d \in stream' \/ d.item \in unlogged'
    BY <2>5 DEF Items
  <2>9. Recorded(held[w])'
    <3>1. CASE logged
      BY <2>3, <2>4, <2>7, <2>8, <3>1 DEF Recorded
    <3>2. CASE ~logged
      BY <2>5, <2>7, <3>2 DEF Recorded
    <3> QED BY <3>1, <3>2
  <2>10. unlogged \subseteq unlogged'
    BY <2>5
  <2>11. NothingLost'
    <3> SUFFICES ASSUME NEW j \in Item
                 PROVE  \/ j \in queue' \/ Recorded(j)'
                        \/ \E v \in Worker : held'[v] = j /\ ph'[v][Main] = "task"
      BY DEF NothingLost
    <3>1. CASE j \in queue
      BY <2>7, <3>1
    <3>2. CASE Recorded(j)
      BY <2>4, <2>7, <2>8, <2>10, <3>2 DEF Recorded
    <3>3. CASE j = held[w]
      BY <2>7, <2>9, <3>3 DEF Recorded
    <3>4. CASE \E v \in Worker \ {w} : held[v] = j /\ ph[v][Main] = "task"
      BY <2>6, <2>7, <3>4
    <3> QED BY <3>1, <3>2, <3>3, <3>4 DEF Safe, NothingLost
  <2>12. OkWritten'
    BY <2>6, <2>7, QuietFlush DEF Safe
  <2> QED BY <2>11, <2>12 DEF Safe
<1>3. CASE Ack(w)
  <2>1. /\ queue' = queue /\ held' = [held EXCEPT ![w] = NoItem]
        /\ ph' = [ph EXCEPT ![w][Main] = "idle"] /\ ph[w][Main] = "ack"
        /\ stream' = stream /\ unlogged' = unlogged /\ written' = written /\ ok' = ok
    BY <1>3 DEF Ack, At, logVars, rowVars
  <2>2. \A v \in Worker : ph[v][Main] = "task" => ph'[v][Main] = "task" /\ held'[v] = held[v]
    BY <1>0, <2>1
  <2> QED BY <2>1, <2>2, QuietStep, QuietFlush DEF Safe
<1> QED BY <1>1, <1>2, <1>3 DEF RunTask

(* Timers lose nothing.                                                     *)
LEMMA TimerSafe ==
  ASSUME Typed, Safe, NEW w \in Worker, NEW t \in Timer, RunTimer(w, t)
  PROVE  Safe'
<1>1. /\ brokerVars' = brokerVars /\ logVars' = logVars /\ rowVars' = rowVars /\ ok' = ok
      /\ \E p \in Phase : ph' = [ph EXCEPT ![w][t] = p]
  BY DEF RunTimer, TimerFires, TimerRuns, Phase
<1>2. t # Main /\ t \in Thread /\ Main \in Thread
  BY SentinelAssumption DEF Thread
<1>3. \A v \in Worker : ph'[v][Main] = ph[v][Main]
  BY <1>1, <1>2 DEF Typed, TypeOK
<1> QED BY <1>1, <1>3, QuietStep, QuietFlush DEF Safe, brokerVars, logVars, rowVars

(* Flushes lose nothing: what they delete from the stream was written       *)
(* (_sms_result_flush_async).                                               *)
LEMMA FlushSafe ==
  ASSUME Typed, Safe, NEW w \in Worker, NEW t \in Thread, Flush(w, t)
  PROVE  Safe'
<1>1. brokerVars' = brokerVars /\ unlogged' = unlogged
  BY DEF Flush, Bulk, BulkFails, Single, SingleFails, SingleEnds, Abort, Remove, Clean, logVars
<1>2. \A v \in Worker : ph[v][Main] = "task" => ph'[v][Main] = "task"
  <2>1. \/ ph' = ph
        \/ /\ ph[w][t] \in {"bulk", "single", "remove", "clean"}
           /\ \E p \in Phase : ph' = [ph EXCEPT ![w][t] = p]
    BY DEF Flush, Bulk, BulkFails, Single, SingleFails, SingleEnds, Abort, Remove, Clean, At,
           Answered, Phase
  <2>2. CASE ph' = ph
    BY <2>2
  <2>3. ASSUME NEW p \in Phase, ph' = [ph EXCEPT ![w][t] = p],
               ph[w][t] \in {"bulk", "single", "remove", "clean"}
        PROVE  \A v \in Worker : ph[v][Main] = "task" => ph'[v][Main] = "task"
    <3>1. ph \in [Worker -> [Thread -> Phase]] /\ Main \in Thread
      BY DEF Typed, TypeOK, Thread
    <3> QED BY <2>3, <3>1
  <2> QED BY <2>1, <2>2, <2>3
<1>3. written \subseteq written'
  BY DEF Flush, Bulk, BulkFails, Single, SingleFails, SingleEnds, Abort, Remove, Clean,
         WriteRows, rowVars
<1>4. \A e \in stream : e \in stream' \/ e.item \in written'
  <2>1. CASE Clean(w, t)
    BY <1>3, <2>1 DEF Clean, Safe, OkWritten
  <2>2. CASE ~Clean(w, t)
    <3>1. stream' = stream
      BY <2>2 DEF Flush, Bulk, BulkFails, Single, SingleFails, SingleEnds, Abort, Remove, logVars
    <3> QED BY <3>1
  <2> QED BY <2>1, <2>2
<1>5. NothingLost'
  BY <1>1, <1>2, <1>3, <1>4, QuietStep DEF brokerVars, Safe
<1>6. OkWritten'
  <2>0. ok \in [Worker -> [Thread -> SUBSET Entry]]
    BY DEF Typed, TypeOK
  <2>1. CASE Bulk(w, t)
    <3>1. ok' = [ok EXCEPT ![w][t] = todo[w][t]] /\ Items(todo[w][t]) \subseteq written'
      BY <2>1 DEF Bulk, WriteRows
    <3>2. \A e \in todo[w][t] : e.item \in written'
      BY <3>1 DEF Items
    <3> QED BY <1>3, <2>0, <3>1, <3>2 DEF Safe, OkWritten
  <2>2. CASE Single(w, t)
    <3>1. PICK e : ok' = [ok EXCEPT ![w][t] = @ \cup {e}] /\ WriteRows({e})
      BY <2>2 DEF Single
    <3>2. e.item \in written'
      BY <3>1 DEF WriteRows, Items
    <3> QED BY <1>3, <2>0, <3>1, <3>2 DEF Safe, OkWritten
  <2>3. CASE ok' = ok \/ ok' = [ok EXCEPT ![w][t] = {}]
    <3>1. \A v \in Worker, u \in Thread : ok'[v][u] \subseteq ok[v][u]
      BY <2>0, <2>3
    <3> QED BY <1>3, <3>1, QuietFlush DEF Safe
  <2> QED BY <2>1, <2>2, <2>3
          DEF Flush, BulkFails, SingleFails, SingleEnds, Abort, Remove, Clean
<1> QED BY <1>5, <1>6 DEF Safe

(* Start, end and death of a process lose nothing: a task of a process that *)
(* is killed goes back to the queue, has its result in the stream, or       *)
(* belongs to the exceptions (unlogged).                                    *)
LEMMA ProcessSafe ==
  ASSUME Typed, Safe, NEW w \in Worker, RunSignal(w) \/ Stop(w) \/ Kill(w)
  PROVE  Safe'
<1>0. /\ Main \in Thread /\ ph \in [Worker -> [Thread -> Phase]]
      /\ held \in [Worker -> Item \cup {NoItem}]
      /\ ok \in [Worker -> [Thread -> SUBSET Entry]]
  BY DEF Typed, TypeOK, Thread
<1>1. CASE Start(w) \/ ReplayEnds(w)
  <2>1. UNCHANGED <<brokerVars, logVars, rowVars, flushVars>>
    BY <1>1 DEF Start, ReplayEnds
  <2> QED BY <2>1, QuietStep, QuietFlush
          DEF Safe, brokerVars, logVars, rowVars, flushVars
<1>2. CASE ReplayNext(w)
  <2>1. PICK e \in First(replay[w], 1) : Append(w, e, "idle")
    BY <1>2 DEF ReplayNext
  <2>2. e \in Entry
    BY CutIsSubset DEF Typed, TypeOK
  <2>3. ok' = ok /\ \A v \in Worker \ {w} : ph'[v] = ph[v]
    BY <2>1, <2>2, AppendSafe
  <2>4. UNCHANGED <<brokerVars, logVars, rowVars>> /\ ph[w][Main] = "idle"
    BY <1>2 DEF ReplayNext, Idle
  <2>5. \A v \in Worker : ph[v][Main] = "task" => ph'[v][Main] = "task"
    BY <2>3, <2>4
  <2> QED BY <2>3, <2>4, <2>5, QuietStep, QuietFlush DEF Safe, brokerVars, logVars, rowVars
<1>3. CASE StopCleans(w)
  <2>1. /\ brokerVars' = brokerVars /\ rowVars' = rowVars /\ unlogged' = unlogged
        /\ ok' = [ok EXCEPT ![w][Main] = {}] /\ ph[w][Main] = "clean"
        /\ \E p \in {"bulk", "idle"} : ph' = [ph EXCEPT ![w][Main] = p]
        /\ stream' = stream \/ stream' = stream \ ok[w][Main]
    BY <1>3 DEF StopCleans, At
  <2>2. \A v \in Worker : ph[v][Main] = "task" => ph'[v][Main] = "task"
    BY <1>0, <2>1
  <2>3. written' = written
    BY <2>1 DEF rowVars
  <2>4. \A e \in stream : e \in stream' \/ e.item \in written'
    BY <1>0, <2>1, <2>3 DEF Safe, OkWritten
  <2>5. \A v \in Worker, u \in Thread : ok'[v][u] \subseteq ok[v][u]
    BY <1>0, <2>1
  <2>6. queue' = queue /\ held' = held
    BY <2>1 DEF brokerVars
  <2>7. NothingLost'
    BY <2>1, <2>2, <2>3, <2>4, <2>6, QuietStep DEF Safe
  <2>8. OkWritten'
    BY <2>3, <2>5, QuietFlush DEF Safe
  <2> QED BY <2>7, <2>8 DEF Safe
<1>4. CASE Exit(w)
  <2>1. ph[w][Main] = "idle" /\ Gone(w) /\ UNCHANGED <<brokerVars, logVars, rowVars>>
    BY <1>4 DEF Exit, Idle
  <2>2. \A v \in Worker \ {w} : ph'[v] = ph[v]
    BY <1>0, <2>1 DEF Gone
  <2>3. \A v \in Worker, t \in Thread : ok'[v][t] \subseteq ok[v][t]
    BY <2>1, GoneTyped
  <2>4. \A v \in Worker : ph[v][Main] = "task" => ph'[v][Main] = "task"
    BY <2>1, <2>2
  <2> QED BY <2>1, <2>3, <2>4, QuietStep, QuietFlush DEF Safe, brokerVars, logVars, rowVars
<1>5. CASE Stop(w)
  <2>1. /\ UNCHANGED <<brokerVars, logVars, rowVars, ok>> /\ ph[w][Main] = "idle"
        /\ \E p \in Phase : ph' = [ph EXCEPT ![w][Main] = p]
    BY <1>5 DEF Stop, Idle, Phase
  <2>2. \A v \in Worker : ph[v][Main] = "task" => ph'[v][Main] = "task"
    BY <1>0, <2>1
  <2> QED BY <2>1, <2>2, QuietStep, QuietFlush DEF Safe, brokerVars, logVars, rowVars
<1>6. CASE Kill(w)
  <2>1. Gone(w) /\ UNCHANGED <<stream, stamp, rowVars>> /\ held' = [held EXCEPT ![w] = NoItem]
    BY <1>6 DEF Kill
  <2>2. /\ queue \subseteq queue' /\ unlogged \subseteq unlogged' /\ written' = written
        /\ ph[w][Main] = "task" => held[w] \in queue' \/ held[w] \in unlogged'
    BY <1>6, SentinelAssumption DEF Kill, rowVars, Typed, TaskHeld
  <2>3. \A v \in Worker \ {w} : ph'[v] = ph[v] /\ held'[v] = held[v]
    BY <1>0, <2>1 DEF Gone
  <2>4. NothingLost'
    <3> SUFFICES ASSUME NEW j \in Item
                 PROVE  \/ j \in queue' \/ Recorded(j)'
                        \/ \E v \in Worker : held'[v] = j /\ ph'[v][Main] = "task"
      BY DEF NothingLost
    <3>1. CASE j \in queue
      BY <2>2, <3>1
    <3>2. CASE Recorded(j)
      BY <2>1, <2>2, <3>2 DEF Recorded
    <3>3. CASE j = held[w] /\ ph[w][Main] = "task"
      BY <2>2, <3>3 DEF Recorded
    <3>4. CASE \E v \in Worker \ {w} : held[v] = j /\ ph[v][Main] = "task"
      BY <2>3, <3>4
    <3> QED BY <3>1, <3>2, <3>3, <3>4 DEF Safe, NothingLost
  <2>5. \A v \in Worker, t \in Thread : ok'[v][t] \subseteq ok[v][t]
    BY <2>1, GoneTyped
  <2>6. OkWritten'
    BY <2>2, <2>5, QuietFlush DEF Safe
  <2> QED BY <2>4, <2>6 DEF Safe
<1> QED BY <1>1, <1>2, <1>3, <1>4, <1>5, <1>6 DEF RunSignal

(* Every step keeps every result.                                           *)
LEMMA SafeStep == Typed /\ Safe /\ [Next]_vars => Safe'
<1> SUFFICES ASSUME Typed, Safe, [Next]_vars PROVE Safe'
  OBVIOUS
<1>1. ASSUME NEW w \in Worker, RunTask(w) PROVE Safe'
  BY <1>1, TaskSafe
<1>2. ASSUME NEW w \in Worker, RunSignal(w) \/ Stop(w) \/ Kill(w) PROVE Safe'
  BY <1>2, ProcessSafe
<1>3. ASSUME NEW w \in Worker, NEW t \in Timer, RunTimer(w, t) PROVE Safe'
  BY <1>3, TimerSafe
<1>4. ASSUME NEW w \in Worker, NEW t \in Thread, Flush(w, t) PROVE Safe'
  BY <1>4, FlushSafe
<1>5. ASSUME NEW l \in Log, Receipt(l) PROVE Safe'
  <2>1. UNCHANGED <<brokerVars, logVars, written, flushVars>>
    BY <1>5 DEF Receipt
  <2> QED BY <2>1, QuietStep, QuietFlush DEF Safe, brokerVars, logVars, flushVars
<1>6. CASE UNCHANGED vars
  BY <1>6, QuietStep, QuietFlush DEF vars, Safe, brokerVars, logVars, rowVars, flushVars
<1> QED BY <1>1, <1>2, <1>3, <1>4, <1>5, <1>6 DEF Next

(* In the beginning every result is in the queue.                           *)
LEMMA InitSafe == Init => Safe
BY DEF Init, Safe, NothingLost, OkWritten

(* A result whose task is over was written, is in the stream, or never got  *)
(* there or was cut from it: no interleaving of timers, tasks, replays,     *)
(* aborted flushes, stops and kills loses one (ResultWriteback!NothingLost).*)
THEOREM NoResultLost == Spec => []NothingLost
<1>1. Safe => NothingLost
  BY DEF Safe
<1> QED BY <1>1, InitTyped, TypedStep, InitSafe, SafeStep, PTL DEF Spec

-----------------------------------------------------------------------------
(* What leaves the buffer *)

(* A step takes an entry out of a buffer only with what was written to its  *)
(* row, or with the whole memory of a process that ends.                    *)
LEMMA BufferStep ==
  ASSUME Typed, Safe, [Next]_vars, NEW w \in Worker, NEW e \in buf[w] \ buf'[w]
  PROVE  proc'[w] # "up" \/ \E i \in written' : LogOf[i] = RowOf(e)
<1>0. /\ buf \in [Worker -> SUBSET Entry] /\ proc \in [Worker -> ProcState]
  BY DEF Typed, TypeOK
<1>1. ASSUME NEW v \in Worker, NEW f, NEW next, Append(v, f, next) PROVE FALSE
  BY <1>0, <1>1 DEF Append
<1>2. ASSUME NEW v \in Worker, Gone(v) PROVE proc'[w] # "up"
  BY <1>0, <1>2 DEF Gone
<1>3. ASSUME NEW v \in Worker, RunTask(v) \/ RunSignal(v) \/ Kill(v) PROVE proc'[w] # "up"
  BY <1>1, <1>2, <1>3 DEF RunTask, RunSignal, Receive, Enqueue, Ack, Start, ReplayNext,
     ReplayEnds, StopCleans, Exit, Kill, memVars
<1>4. ASSUME NEW v \in Worker, Stop(v) PROVE proc'[w] # "up"
  BY <1>0, <1>4 DEF Stop
<1>5. ASSUME NEW v \in Worker, NEW t \in Thread, Remove(v, t)
      PROVE  \E i \in written' : LogOf[i] = RowOf(e)
  <2>1. written' = written /\ buf' = [buf EXCEPT ![v] = {x \in @ : RowOf(x) \notin Rows(ok[v][t])}]
    BY <1>5 DEF Remove, rowVars
  <2>2. RowOf(e) \in Rows(ok[v][t])
    BY <1>0, <2>1
  <2>3. PICK f \in ok[v][t] : RowOf(e) = RowOf(f)
    BY <2>2 DEF Rows
  <2> QED BY <2>1, <2>3 DEF Safe, OkWritten, RowOf
<1>6. ASSUME NEW v \in Worker, NEW t \in Thread, Flush(v, t), ~Remove(v, t) PROVE FALSE
  BY <1>6 DEF Flush, Bulk, BulkFails, Single, SingleFails, SingleEnds, Abort, Clean, memVars
<1>7. ASSUME NEW v \in Worker, NEW t \in Timer, RunTimer(v, t) PROVE FALSE
  BY <1>7 DEF RunTimer, TimerFires, TimerRuns, memVars
<1>8. ASSUME NEW l \in Log, Receipt(l) PROVE FALSE
  BY <1>8 DEF Receipt, memVars
<1>9. CASE UNCHANGED vars
  BY <1>9 DEF vars, memVars
<1> QED BY <1>3, <1>4, <1>5, <1>6, <1>7, <1>8, <1>9 DEF Next

(* Whatever the rows of the results are, an entry leaves the buffer of a    *)
(* running process only when a result of its row was written                *)
(* (_sms_result_remove_flushed_from_buffer goes by log_id).                 *)
THEOREM RowKeptUntilWritten ==
  Spec => [][\A w \in Worker : proc'[w] = "up" =>
              \A e \in buf[w] \ buf'[w] : \E i \in written' : LogOf[i] = RowOf(e)]_vars
<1>1. Typed /\ Safe /\ [Next]_vars =>
        [\A w \in Worker : proc'[w] = "up" =>
           \A e \in buf[w] \ buf'[w] : \E i \in written' : LogOf[i] = RowOf(e)]_vars
  BY BufferStep
<1> QED BY <1>1, InitTyped, TypedStep, InitSafe, SafeStep, PTL DEF Spec

(* KeptUntilWritten, as long as a row has one result: a second one that came *)
(* after the snapshot of the flush would leave with the first.              *)
THEOREM KeptCorrect ==
  ASSUME \A i, j \in Item : LogOf[i] = LogOf[j] => i = j
  PROVE  Spec => KeptUntilWritten
<1>1. Typed /\ Safe /\ [Next]_vars =>
        [\A w \in Worker : proc'[w] = "up" =>
           \A e \in buf[w] \ buf'[w] : e.item \in written']_vars
  <2> SUFFICES ASSUME Typed, Safe, [Next]_vars, NEW w \in Worker, proc'[w] = "up",
                      NEW e \in buf[w] \ buf'[w]
               PROVE  e.item \in written'
    OBVIOUS
  <2>1. Typed'
    BY TypedStep
  <2>2. written' \subseteq Item /\ e.item \in Item
    BY <2>1 DEF Typed, TypeOK, Entry
  <2>3. PICK i \in written' : LogOf[i] = RowOf(e)
    BY BufferStep
  <2> QED BY <2>2, <2>3 DEF RowOf
<1> QED BY <1>1, InitTyped, TypedStep, InitSafe, SafeStep, PTL DEF Spec, KeptUntilWritten

=============================================================================
