------------------------- MODULE WebhookDeliveryProofs -------------------------
(***************************************************************************)
(* Theorems about WebhookDelivery, for every set of customers and          *)
(* callbacks, every ladder, every number of slots and every threshold: the *)
(* ladder is not left by its top, and a customer whose endpoint answers is *)
(* not harmed by the others, unless one of its own tasks met a fault. From *)
(* CallbackAssumption and BoundAssumption.                                 *)
(***************************************************************************)
EXTENDS WebhookDelivery, FiniteSetTheorems, TLAPS

-----------------------------------------------------------------------------
(* The invariants *)

Place == {"none"} \cup Waiting \cup Running \cup Settled
Breaker == [state : {"closed", "open", "half_open"}, fails : Nat, cooled : BOOLEAN]

Typed == TypeOK /\ breaker \in [Account -> Breaker]

(* The breaker of a customer whose endpoint answers stays closed: nobody    *)
(* probes it.                                                               *)
BreakersClosed ==
  /\ \A a \in Healthy : breaker[a] = Closed
  /\ \A c \in Callback : Of[c] \in Healthy => place[c] # "probe"

(* While no task of a customer met a fault, no slot is counted that is not  *)
(* in use.                                                                  *)
SlotsInUse ==
  \A a \in Account : a \notin hurt => inflight[a] <= Cardinality(Holding(a))

(* HealthyUnharmed, and nothing of such a customer is above the limit.      *)
NeverFailed ==
  \A c \in Callback :
    Of[c] \in Healthy /\ Fits(Of[c]) /\ Of[c] \notin hurt =>
      place[c] \notin {"back", "failed", "retry", "dead"}

Unharmed == BreakersClosed /\ SlotsInUse /\ NeverFailed

-----------------------------------------------------------------------------
(* The steps, by who takes them *)

TaskStep(c) == Trigger(c) \/ Run(c) \/ Unread(c) \/ Kill(c)
TimeStep ==
  \/ \E a \in Account : Configure(a) \/ Elapse(a)
  \/ Refresh \/ Refill

(* Every step is one of these.                                              *)
LEMMA NextSteps ==
  ASSUME Next
  PROVE  (\E c \in Callback : TaskStep(c)) \/ TimeStep
BY DEF Next, TaskStep, TimeStep

-----------------------------------------------------------------------------
(* Types *)

(* A callback that failed climbs a rung there is, or is dead.               *)
LEMMA RetryTyped ==
  ASSUME Typed, NEW c \in Callback, Retry(c)
  PROVE  /\ rung' \in [Callback -> 0..Rungs]
         /\ \E to \in {"retry", "dead", "lost"} : Move(c, to)
<1> USE DEF Typed, TypeOK
<1>1. Rungs \in Nat /\ rung[c] \in 0..Rungs
  BY BoundAssumption
<1>2. \/ rung[c] < Rungs /\ rung' = [rung EXCEPT ![c] = @ + 1]
      \/ rung' = [rung EXCEPT ![c] = 0]
      \/ rung' = rung
  BY DEF Retry, RetryBy
<1>3. rung[c] < Rungs => rung[c] + 1 \in 0..Rungs
  BY <1>1
<1>4. 0 \in 0..Rungs
  BY <1>1
<1>5. \E to \in {"retry", "dead", "lost"} : Move(c, to)
  BY DEF Retry, RetryBy
<1> QED BY <1>2, <1>3, <1>4, <1>5

(* A step of a task takes its callback, and no other, to another place; it  *)
(* climbs no rung there is not.                                             *)
LEMMA TaskMoves ==
  ASSUME Typed, NEW c \in Callback, TaskStep(c)
  PROVE  /\ \E to \in Place : Move(c, to)
         /\ rung' \in [Callback -> 0..Rungs]
<1>1. rung \in [Callback -> 0..Rungs]
  BY DEF Typed, TypeOK
<1>2. CASE Retry(c)
  BY <1>2, RetryTyped DEF Place, Waiting, Settled
<1>3. CASE Trigger(c) \/ Take(c) \/ Kill(c) \/ Unread(c)
  BY <1>1, <1>3 DEF Trigger, Take, Kill, Unread, Place, Waiting, Running, Settled
<1>4. CASE Return(c) \/ Probe(c) \/ Slot(c)
  BY <1>1, <1>4 DEF Return, Probe, Slot, Place, Waiting, Running
<1>5. CASE Gate(c)
  <2>1. Ahead(breaker[Of[c]]) \in Running /\ "slot" \in Running
    BY DEF Ahead, Running
  <2> QED BY <1>1, <1>5, <2>1 DEF Gate, GateBy, Place, Waiting, Settled
<1>6. CASE Arm(c) \/ Back(c)
  BY <1>1, <1>6 DEF Arm, ArmBy, Back, Place, Running
<1>7. CASE Answer(c) \/ OutOfTime(c)
  BY <1>1, <1>7 DEF Answer, OutOfTime, Place, Running, Settled
<1> QED BY <1>2, <1>3, <1>4, <1>5, <1>6, <1>7 DEF TaskStep, Run

(* What a task does to the key that counts the slots of its customer.       *)
LEMMA TaskCounts ==
  ASSUME NEW c \in Callback, TaskStep(c)
  PROVE  /\ hook' = hook /\ cache' = cache
         /\ \/ inflight' = inflight
            \/ inflight' = Decr(Of[c])
            \/ inflight' = [inflight EXCEPT ![Of[c]] = inflight[Of[c]] + 1]
         /\ armed' = armed \/ armed' = [armed EXCEPT ![Of[c]] = c]
         /\ unarmed' = unarmed \/ unarmed' = unarmed \cup {Of[c]}
         /\ hurt' = hurt \/ hurt' = hurt \cup {Of[c]}
<1> USE DEF Well, Suffers, shared
<1>1. CASE Trigger(c) \/ Take(c) \/ Gate(c) \/ Probe(c) \/ Return(c) \/ Retry(c) \/ Unread(c)
  BY <1>1 DEF Trigger, Take, Gate, GateBy, Probe, Return, Retry, RetryBy, Unread
<1>2. CASE Slot(c)
  BY <1>2 DEF Slot, Unarmed
<1>3. CASE Arm(c)
  BY <1>3 DEF Arm, ArmBy, Unarmed
<1>4. CASE Back(c)
  BY <1>4 DEF Back
<1>5. CASE Answer(c) \/ OutOfTime(c)
  BY <1>5 DEF Answer, OutOfTime, GivenBack
<1>6. CASE Kill(c)
  BY <1>6 DEF Kill, Unarmed
<1> QED BY <1>1, <1>2, <1>3, <1>4, <1>5, <1>6 DEF TaskStep, Run

(* What a task does to the breakers and to the token bucket.                *)
LEMMA TaskTells ==
  ASSUME NEW c \in Callback, TaskStep(c)
  PROVE  /\ \/ breaker' = breaker
            \/ place[c] = "probe" /\ breaker' = [breaker EXCEPT ![Of[c]].state = "half_open"]
            \/ \E ok \in Answers(Of[c]) : breaker' = Told(Of[c], ok)
         /\ tokens' = tokens \/ (tokens > 0 /\ tokens' = tokens - 1)
<1> USE DEF shared
<1>1. CASE Trigger(c) \/ Take(c) \/ Gate(c) \/ Probe(c) \/ Return(c) \/ Retry(c) \/ Unread(c)
  BY <1>1 DEF Trigger, Take, Gate, GateBy, Probe, Return, Retry, RetryBy, Unread
<1>2. CASE Slot(c) \/ Arm(c) \/ Back(c) \/ Kill(c)
  BY <1>2 DEF Slot, Arm, ArmBy, Back, Kill
<1>3. CASE Answer(c) \/ OutOfTime(c)
  BY <1>3 DEF Answer, OutOfTime
<1> QED BY <1>1, <1>2, <1>3 DEF TaskStep, Run

(* A failure told to a breaker leaves a breaker.                            *)
LEMMA FailureTyped ==
  ASSUME NEW b \in Breaker
  PROVE  Failure(b) \in Breaker
<1>1. Threshold \in Nat
  BY BoundAssumption
<1>2. PICK n \in Nat : n = b.fails + 1
  BY DEF Breaker
<1>3. [b EXCEPT !.fails = n] \in Breaker
  BY DEF Breaker
<1> QED BY <1>1, <1>2, <1>3 DEF Failure, Breaker

(* The types, after a step of a task.                                       *)
LEMMA TaskTyped ==
  ASSUME Typed, NEW c \in Callback, TaskStep(c)
  PROVE  Typed'
<1> USE DEF Typed, TypeOK
<1>0. Of[c] \in Account /\ Burst \in Nat
  BY CallbackAssumption, BoundAssumption
<1>1. place' \in [Callback -> Place] /\ rung' \in [Callback -> 0..Rungs]
  BY TaskMoves DEF Move, Place
<1>2. /\ hook' \subseteq Account /\ cache' \subseteq Account
      /\ hurt' \subseteq Account /\ unarmed' \subseteq Account
  BY <1>0, TaskCounts
<1>3. tokens' \in 0..Burst
  <2>1. tokens' = tokens \/ (tokens > 0 /\ tokens' = tokens - 1)
    BY TaskTells
  <2> QED BY <1>0, <2>1
<1>4. inflight' \in [Account -> Int]
  BY <1>0, TaskCounts DEF Decr
<1>5. armed' \in [Account -> Callback \cup {Nobody}]
  BY <1>0, TaskCounts
<1>6. breaker' \in [Account -> Breaker]
  <2>1. breaker \in [Account -> Breaker] /\ Closed \in Breaker
    BY DEF Closed, Breaker
  <2>2. \A b \in Breaker : [b EXCEPT !.state = "half_open"] \in Breaker
    BY DEF Breaker
  <2>3. \A ok \in BOOLEAN : Told(Of[c], ok) \in [Account -> Breaker]
    BY <1>0, <2>1, FailureTyped DEF Told
  <2>4. Answers(Of[c]) \subseteq BOOLEAN
    BY DEF Answers
  <2>5. \/ breaker' = breaker
        \/ breaker' = [breaker EXCEPT ![Of[c]].state = "half_open"]
        \/ \E ok \in BOOLEAN : breaker' = Told(Of[c], ok)
    BY <2>4, TaskTells
  <2> QED BY <1>0, <2>1, <2>2, <2>3, <2>5
<1>7. \A a \in Account : breaker'[a].state \in {"closed", "open", "half_open"}
  BY <1>6 DEF Breaker
<1> QED BY <1>1, <1>2, <1>3, <1>4, <1>5, <1>6, <1>7 DEF Place

(* URLs change, tokens come back, keys expire: the types stay.              *)
LEMMA TimeTyped ==
  ASSUME Typed, TimeStep
  PROVE  Typed'
<1> USE DEF Typed, TypeOK
<1>1. UNCHANGED <<place, rung, hurt, unarmed>> /\ hook' \subseteq Account /\ cache' \subseteq Account
  BY DEF TimeStep, Configure, Elapse, SlotsExpire, CoolDown, BreakerExpires, Refresh, Refill,
     Well
<1>2. tokens' \in 0..Burst
  <2>1. tokens' = tokens \/ (tokens < Burst /\ tokens' = tokens + 1)
    BY DEF TimeStep, Configure, Elapse, SlotsExpire, CoolDown, BreakerExpires, Refresh, Refill
  <2> QED BY <2>1, BoundAssumption
<1>3. inflight' \in [Account -> Int] /\ armed' \in [Account -> Callback \cup {Nobody}]
  BY DEF TimeStep, Configure, Elapse, SlotsExpire, CoolDown, BreakerExpires, Refresh, Refill
<1>4. breaker' \in [Account -> Breaker]
  <2>1. \/ breaker' = breaker
        \/ \E a \in Account : \/ breaker' = [breaker EXCEPT ![a].cooled = TRUE]
                              \/ breaker' = [breaker EXCEPT ![a] = Closed]
    BY DEF TimeStep, Configure, Elapse, SlotsExpire, CoolDown, BreakerExpires, Refresh, Refill
  <2>2. \A b \in Breaker : [b EXCEPT !.cooled = TRUE] \in Breaker
    BY DEF Breaker
  <2>3. Closed \in Breaker
    BY DEF Closed, Breaker
  <2> QED BY <2>1, <2>2, <2>3
<1>5. \A a \in Account : breaker'[a].state \in {"closed", "open", "half_open"}
  BY <1>4 DEF Breaker
<1> QED BY <1>1, <1>2, <1>3, <1>4, <1>5

(* The types and the shape of the breakers, always.                         *)
LEMMA AlwaysTyped == Spec => []Typed
<1>1. Init => Typed
  BY BoundAssumption DEF Init, Typed, TypeOK, Breaker, Closed
<1>2. Typed /\ [Next]_vars => Typed'
  <2>1. Typed /\ UNCHANGED vars => Typed'
    BY DEF vars, shared, Typed, TypeOK
  <2> QED BY <2>1, NextSteps, TaskTyped, TimeTyped
<1> QED BY <1>1, <1>2, PTL DEF Spec

(* TypeOK: retry_no names a rung of the ladder, the bucket holds no more    *)
(* than its burst.                                                          *)
THEOREM TypeCorrect == Spec => []TypeOK
<1>1. Typed => TypeOK
  BY DEF Typed
<1> QED BY <1>1, AlwaysTyped, PTL

-----------------------------------------------------------------------------
(* The healthy are not harmed *)

(* The callbacks of a customer are finitely many, so the slots it holds can *)
(* be counted.                                                              *)
LEMMA HoldingCounted ==
  ASSUME NEW a
  PROVE  IsFiniteSet(Holding(a)) /\ Cardinality(Holding(a)) \in Nat
<1>1. IsFiniteSet(Holding(a))
  BY BoundAssumption, FS_Subset DEF Holding
<1> QED BY <1>1, FS_CardinalityType

(* A step of a task changes nothing of other customers, and what has met a  *)
(* fault stays so.                                                          *)
LEMMA OthersStay ==
  ASSUME Typed, NEW c \in Callback, TaskStep(c)
  PROVE  /\ \A d \in Callback : d # c => place'[d] = place[d]
         /\ \A a \in Account : a # Of[c] =>
              /\ inflight'[a] = inflight[a] /\ breaker'[a] = breaker[a]
              /\ Holding(a)' = Holding(a)
         /\ hurt \subseteq hurt' /\ hurt' \subseteq hurt \cup {Of[c]}
<1> USE DEF Typed, TypeOK
<1>1. \A d \in Callback : d # c => place'[d] = place[d]
  <2>1. PICK to \in Place : Move(c, to)
    BY TaskMoves
  <2> QED BY <2>1 DEF Move
<1>2. \A a \in Account : a # Of[c] => Holding(a)' = Holding(a)
  BY <1>1 DEF Holding
<1>3. \A a \in Account : a # Of[c] => inflight'[a] = inflight[a]
  BY TaskCounts DEF Decr
<1>4. \A a \in Account : a # Of[c] => breaker'[a] = breaker[a]
  BY TaskTells DEF Told
<1>5. hurt \subseteq hurt' /\ hurt' \subseteq hurt \cup {Of[c]}
  BY TaskCounts
<1> QED BY <1>1, <1>2, <1>3, <1>4, <1>5

(* A callback that stops holding a slot leaves one less.                    *)
LEMMA SlotLeft ==
  ASSUME NEW a, NEW c \in Holding(a)
  PROVE  Cardinality(Holding(a) \ {c}) = Cardinality(Holding(a)) - 1
BY HoldingCounted, FS_RemoveElement

(* And one that starts to, one more.                                        *)
LEMMA SlotTaken ==
  ASSUME NEW a, NEW c, c \notin Holding(a)
  PROVE  Cardinality(Holding(a) \cup {c}) = Cardinality(Holding(a)) + 1
BY HoldingCounted, FS_AddElement

(* A slot is counted exactly while its task holds it, until a task of the   *)
(* customer meets a fault (_acct_slot).                                     *)
LEMMA TaskSlots ==
  ASSUME Typed, SlotsInUse, NEW c \in Callback, TaskStep(c)
  PROVE  SlotsInUse'
<1> USE DEF Typed, TypeOK
<1> DEFINE b == Of[c]
<1>0. b \in Account /\ c \in DOMAIN place
  BY CallbackAssumption
<1>1. /\ \A d \in Callback : d # c => place'[d] = place[d]
      /\ hurt \subseteq hurt'
  BY OthersStay
<1> SUFFICES ASSUME b \notin hurt' PROVE inflight'[b] <= Cardinality(Holding(b)')
  BY OthersStay DEF SlotsInUse
<1>2. inflight[b] <= Cardinality(Holding(b)) /\ inflight[b] \in Int
  BY <1>0, <1>1 DEF SlotsInUse
<1>3. Cardinality(Holding(b)) \in Nat
  BY HoldingCounted
<1>4. \A kind : ~Suffers(kind, c)
  BY DEF Suffers
<1>5. CASE Slot(c)
  <2>1. /\ place[c] = "slot" /\ inflight'[b] = inflight[b] + 1
        /\ place'[c] \in {"arm", "back", "post"}
    BY <1>0, <1>4, <1>5 DEF Slot, Move
  <2>2. c \notin Holding(b) /\ Holding(b)' = Holding(b) \cup {c}
    BY <1>1, <2>1 DEF Holding
  <2>3. Cardinality(Holding(b)') = Cardinality(Holding(b)) + 1
    <3> HIDE DEF b
    <3> QED BY <2>2, SlotTaken
  <2> QED BY <1>2, <1>3, <2>1, <2>3
<1>6. CASE Arm(c)
  <2>1. place[c] = "arm" /\ inflight' = inflight /\ place'[c] = "post"
    BY <1>0, <1>4, <1>6 DEF Arm, ArmBy, Move
  <2>2. Holding(b)' = Holding(b)
    BY <1>1, <2>1 DEF Holding
  <2> QED BY <1>2, <2>1, <2>2
<1>7. CASE Back(c) \/ ((Answer(c) \/ OutOfTime(c)) /\ place[c] = "post")
  <2>1. /\ place[c] \in {"back", "post"} /\ inflight'[b] = inflight[b] - 1
        /\ place'[c] \in {"delivered", "failed"}
    BY <1>0, <1>4, <1>7 DEF Back, Answer, OutOfTime, GivenBack, Decr, Move
  <2>2. c \in Holding(b) /\ Holding(b)' = Holding(b) \ {c}
    BY <1>1, <2>1 DEF Holding
  <2>3. Cardinality(Holding(b)') = Cardinality(Holding(b)) - 1
    <3> HIDE DEF b
    <3> QED BY <2>2, SlotLeft
  <2> QED BY <1>2, <1>3, <2>1, <2>3
<1>8. CASE (Answer(c) \/ OutOfTime(c)) /\ place[c] # "post"
  <2>1. /\ place[c] = "bare" /\ inflight' = inflight
        /\ place'[c] \in {"delivered", "failed"}
    BY <1>0, <1>4, <1>8 DEF Answer, OutOfTime, GivenBack, Move
  <2>2. Holding(b)' = Holding(b)
    BY <1>1, <2>1 DEF Holding
  <2> QED BY <1>2, <2>1, <2>2
<1>9. CASE Kill(c) \/ Unread(c)
  BY <1>4, <1>9 DEF Kill, Unread
<1>10. CASE Trigger(c) \/ Take(c) \/ Gate(c) \/ Probe(c) \/ Return(c) \/ Retry(c)
  <2>1. inflight' = inflight
    BY <1>10 DEF Trigger, Take, Gate, GateBy, Probe, Return, Retry, RetryBy, shared
  <2>2. place[c] \notin {"arm", "back", "post"} /\ place'[c] \notin {"arm", "back", "post"}
    BY <1>0, <1>10 DEF Trigger, Take, Gate, GateBy, Ahead, Probe, Return, Retry, RetryBy, Move
  <2>3. Holding(b)' = Holding(b)
    BY <1>1, <2>2 DEF Holding
  <2> QED BY <1>2, <2>1, <2>3
<1> QED BY <1>5, <1>6, <1>7, <1>8, <1>9, <1>10 DEF TaskStep, Run

(* Only the answers of an endpoint, and probes of an open breaker, change   *)
(* the breaker of a customer (_cb_record, _cb_allow).                       *)
LEMMA TaskBreakers ==
  ASSUME Typed, BreakersClosed, NEW c \in Callback, TaskStep(c)
  PROVE  BreakersClosed'
<1> USE DEF Typed, TypeOK
<1>0. Of[c] \in Account /\ Healthy \subseteq Account /\ c \in DOMAIN place
  BY CallbackAssumption
<1>1. ASSUME Of[c] \in Healthy PROVE breaker'[Of[c]] = Closed
  <2>1. breaker[Of[c]] = Closed /\ place[c] # "probe"
    BY <1>1 DEF BreakersClosed
  <2>2. breaker' = breaker \/ breaker' = Told(Of[c], TRUE)
    BY <1>1, <2>1, TaskTells DEF Answers
  <2>3. Told(Of[c], TRUE)[Of[c]] = Closed
    BY <1>0 DEF Told
  <2> QED BY <2>1, <2>2, <2>3
<1>2. Of[c] \in Healthy => place'[c] # "probe"
  <2> SUFFICES ASSUME Of[c] \in Healthy PROVE place'[c] # "probe"
    OBVIOUS
  <2>1. Ahead(breaker[Of[c]]) = "slot"
    BY DEF BreakersClosed, Closed, Ahead
  <2>2. CASE Gate(c)
    BY <1>0, <2>1, <2>2 DEF Gate, GateBy, Move
  <2>3. CASE Trigger(c) \/ Take(c) \/ Probe(c) \/ Return(c) \/ Retry(c) \/ Unread(c) \/ Kill(c)
    BY <1>0, <2>3 DEF Trigger, Take, Probe, Return, Retry, RetryBy, Unread, Kill, Move
  <2>4. CASE Slot(c) \/ Arm(c) \/ Back(c) \/ Answer(c) \/ OutOfTime(c)
    BY <1>0, <2>4 DEF Slot, Arm, ArmBy, Back, Answer, OutOfTime, Move
  <2> QED BY <2>2, <2>3, <2>4 DEF TaskStep, Run
<1> QED BY <1>0, <1>1, <1>2, OthersStay DEF BreakersClosed

(* A callback that waits for a slot finds one, if its customer has no more  *)
(* callbacks than slots.                                                    *)
LEMMA SlotFree ==
  ASSUME Typed, SlotsInUse, NEW c \in Callback, place[c] = "slot",
         Fits(Of[c]), Of[c] \notin hurt
  PROVE  inflight[Of[c]] + 1 <= Slots
<1> DEFINE b == Of[c]  All == {d \in Callback : Of[d] = b}
<1>1. IsFiniteSet(All) /\ c \in All
  BY BoundAssumption, FS_Subset
<1>2. IsFiniteSet(All \ {c}) /\ Cardinality(All \ {c}) = Cardinality(All) - 1
  BY <1>1, FS_RemoveElement
<1>3. Holding(b) \subseteq All \ {c}
  BY DEF Holding
<1>4. Cardinality(Holding(b)) <= Cardinality(All \ {c})
  BY <1>2, <1>3, FS_Subset
<1>5. Cardinality(Holding(b)) \in Nat /\ Cardinality(All) \in Nat /\ Slots \in Nat
  BY <1>1, HoldingCounted, FS_CardinalityType, BoundAssumption
<1>6. inflight[b] <= Cardinality(Holding(b)) /\ inflight[b] \in Int
  BY CallbackAssumption DEF SlotsInUse, Typed, TypeOK
<1>7. Cardinality(All) <= Slots
  BY DEF Fits
<1> HIDE DEF All, b
<1>8. inflight[b] + 1 <= Slots
  BY <1>2, <1>4, <1>5, <1>6, <1>7
<1> QED BY <1>8 DEF b

(* With a closed breaker, a slot that is free and an endpoint that answers, *)
(* what fails is the task itself.                                           *)
LEMMA TaskUnharmed ==
  ASSUME Typed, Unharmed, NEW c \in Callback, TaskStep(c)
  PROVE  Unharmed'
<1> USE DEF Typed, TypeOK
<1> DEFINE Bad == {"back", "failed", "retry", "dead"}
<1>0. c \in DOMAIN place /\ Of[c] \in Account
  BY CallbackAssumption
<1>1. ASSUME Of[c] \in Healthy, Fits(Of[c]), Of[c] \notin hurt'
      PROVE  place'[c] \notin Bad
  <2>1. \A kind : ~Suffers(kind, c)
    BY <1>1 DEF Suffers
  <2>2. Of[c] \notin hurt
    BY <1>1, OthersStay
  <2>3. place[c] \notin Bad
    BY <1>1, <2>2 DEF Unharmed, NeverFailed
  <2>4. CASE Gate(c)
    <3>1. Ahead(breaker[Of[c]]) = "slot"
      BY <1>1 DEF Unharmed, BreakersClosed, Closed, Ahead
    <3> QED BY <1>0, <2>4, <3>1 DEF Gate, GateBy, Move
  <2>5. CASE Slot(c)
    <3>1. place[c] = "slot"
      BY <2>5 DEF Slot
    <3>2. inflight[Of[c]] + 1 <= Slots
      BY <1>1, <2>2, <3>1, SlotFree DEF Unharmed
    <3> QED BY <1>0, <2>1, <2>5, <3>2 DEF Slot, Move
  <2>6. CASE Answer(c)
    BY <1>0, <1>1, <2>6 DEF Answer, Answers, Move
  <2>7. CASE OutOfTime(c) \/ Kill(c) \/ Unread(c)
    BY <1>1, <2>1, <2>7 DEF OutOfTime, Kill, Unread
  <2>8. CASE Retry(c) \/ Back(c)
    BY <2>3, <2>8 DEF Retry, RetryBy, Back
  <2>9. CASE Trigger(c) \/ Take(c) \/ Probe(c) \/ Return(c) \/ Arm(c)
    BY <1>0, <2>9 DEF Trigger, Take, Probe, Return, Arm, ArmBy, Move
  <2> QED BY <2>4, <2>5, <2>6, <2>7, <2>8, <2>9 DEF TaskStep, Run
<1>2. ASSUME NEW d \in Callback, d # c,
             Of[d] \in Healthy, Fits(Of[d]), Of[d] \notin hurt'
      PROVE  place'[d] \notin Bad
  BY <1>2, OthersStay DEF Unharmed, NeverFailed
<1>3. NeverFailed'
  BY <1>1, <1>2 DEF NeverFailed, Fits
<1> QED BY <1>3, TaskSlots, TaskBreakers DEF Unharmed

(* Time gives slots back, and closes or cools breakers.                     *)
LEMMA TimeUnharmed ==
  ASSUME Typed, Unharmed, TimeStep
  PROVE  Unharmed'
<1> USE DEF Typed, TypeOK
<1>1. place' = place /\ hurt' = hurt
  BY DEF TimeStep, Configure, Elapse, SlotsExpire, CoolDown, BreakerExpires, Refresh, Refill,
     Well
<1>2. \A a \in Healthy : breaker[a] = Closed => breaker'[a] = Closed
  <2> SUFFICES ASSUME NEW a \in Healthy, breaker[a] = Closed PROVE breaker'[a] = Closed
    OBVIOUS
  <2>1. a \in Account
    BY CallbackAssumption
  <2>2. \/ breaker' = breaker
        \/ \E e \in Account : \/ breaker' = [breaker EXCEPT ![e] = Closed]
                              \/ /\ breaker[e].state = "open"
                                 /\ breaker' = [breaker EXCEPT ![e].cooled = TRUE]
    BY DEF TimeStep, Configure, Elapse, SlotsExpire, CoolDown, BreakerExpires, Refresh,
       Refill
  <2>3. Closed.state # "open"
    BY DEF Closed
  <2> QED BY <2>1, <2>2, <2>3
<1>3. \A a \in Account : inflight'[a] \in {0, inflight[a]}
  BY DEF TimeStep, Configure, Elapse, SlotsExpire, CoolDown, BreakerExpires, Refresh, Refill
<1>4. SlotsInUse'
  <2> SUFFICES ASSUME NEW a \in Account, a \notin hurt
               PROVE  inflight'[a] <= Cardinality(Holding(a))
    BY <1>1 DEF SlotsInUse, Holding
  <2>1. Cardinality(Holding(a)) \in Nat
    BY HoldingCounted
  <2> QED BY <1>3, <2>1 DEF Unharmed, SlotsInUse
<1> QED BY <1>1, <1>2, <1>4 DEF Unharmed, BreakersClosed, NeverFailed, Fits

(* HealthyUnharmed: breakers and slots are per customer, so an endpoint     *)
(* that answers gets each callback at the first attempt whatever the        *)
(* others' do, unless one of its own tasks met a fault.                     *)
THEOREM HealthyCorrect == Spec => []HealthyUnharmed
<1>1. Init => Unharmed
  <2> SUFFICES ASSUME Init PROVE Unharmed
    OBVIOUS
  <2>1. BreakersClosed /\ NeverFailed
    BY CallbackAssumption DEF Init, BreakersClosed, NeverFailed
  <2>2. ASSUME NEW a \in Account PROVE inflight[a] <= Cardinality(Holding(a))
    <3>1. inflight[a] = 0
      BY DEF Init
    <3> QED BY <3>1, HoldingCounted
  <2> QED BY <2>1, <2>2 DEF Unharmed, SlotsInUse
<1>2. Typed /\ Unharmed /\ [Next]_vars => Unharmed'
  <2>1. Unharmed /\ UNCHANGED vars => Unharmed'
    BY DEF vars, shared, Unharmed, BreakersClosed, SlotsInUse, NeverFailed, Holding, Fits
  <2> QED BY <2>1, NextSteps, TaskUnharmed, TimeUnharmed
<1>3. Unharmed => HealthyUnharmed
  BY DEF Unharmed, NeverFailed, HealthyUnharmed
<1> QED BY <1>1, <1>2, <1>3, AlwaysTyped, PTL DEF Spec
===============================================================================
