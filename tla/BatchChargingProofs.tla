-------------------------- MODULE BatchChargingProofs --------------------------
(***************************************************************************)
(* Theorems about BatchCharging, for every set of chunks, numbers and      *)
(* requests and every bound: no balance goes below zero and there is a row *)
(* for every time a number is written, no money is missing but for what    *)
(* rows have cost, a row is refunded once and never without having been    *)
(* paid for, and a number is handed over once however often its chunk is   *)
(* run again. From NumberAssumption and BoundAssumption.                   *)
(***************************************************************************)
EXTENDS BatchCharging, FiniteSetTheorems, TLAPS

-----------------------------------------------------------------------------
(* The invariants *)

Typed ==
  /\ TypeOK
  /\ charges \in [Row -> Nat] /\ refunds \in [Row -> Nat] /\ handed \in [Number -> Nat]

(* A chunk deals with numbers of its own; what it hands over, what a        *)
(* request is about and what waits in the queue has been written.           *)
WrittenFirst ==
  /\ \A c \in Chunk : /\ \A p \in todo[c] : Of[p] = c
                      /\ \A r \in own[c] : Of[r[1]] = c /\ status[r] # "none"
  /\ \A q \in Request : \A r \in pick[q] : status[r] # "none"
  /\ \A r \in Row : inqueue[r] > 0 => status[r] # "none"

(* A number has no more rows than there were faults, and one more from the  *)
(* moment the present run of its chunk has written it.                      *)
RowsCounted ==
  \A p \in Number :
    Cardinality(Written(p)) <= IF pc[Of[p]] \in {"queued", "failing"} \/ p \in todo[Of[p]]
                               THEN faults ELSE faults + 1

Rows == WrittenFirst /\ RowsCounted

(* A row is refunded when refunded_at says so, and only if it has a price,  *)
(* that is, if it was paid for.                                             *)
Paid ==
  /\ \A r \in Row : refunds[r] = IF r \in refunded THEN 1 ELSE 0
  /\ \A r \in priced : charges[r] >= 1
  /\ refunded \subseteq priced
  /\ \A q \in Request : rpc[q] = "push" => pick[q] \subseteq priced

(* What is still to do has not been written, and what was handed over has   *)
(* been and is not in anybody's hands.                                      *)
Handed ==
  \A p \in Number \ Bare :
    /\ p \in todo[Of[p]] => Written(p) = {}
    /\ \/ handed[p] = 0
       \/ handed[p] = 1 /\ Written(p) # {} /\ \A r \in own[Of[p]] : r[1] # p

-----------------------------------------------------------------------------
(* Rows *)

(* The rows of a number are counted.                                        *)
LEMMA WrittenCounted ==
  ASSUME NEW p \in Number
  PROVE  /\ IsFiniteSet(Written(p)) /\ Cardinality(Written(p)) \in Nat
         /\ Written(p) \subseteq 1..MaxFaults + 1
         /\ Cardinality(Written(p)) = 0 <=> Written(p) = {}
<1>0. 1 \in Int /\ MaxFaults + 1 \in Int
  BY BoundAssumption
<1>1. IsFiniteSet(1..MaxFaults + 1)
  BY <1>0, FS_Interval
<1>2. Written(p) \in SUBSET (1..MaxFaults + 1)
  BY DEF Written
<1>3. IsFiniteSet(Written(p))
  BY <1>1, <1>2, FS_Subset
<1> QED BY <1>2, <1>3, FS_CardinalityType, FS_EmptySet

(* What a chunk has to do and what a request is about are finite sets.      *)
LEMMA WorkFinite ==
  ASSUME Typed
  PROVE  /\ \A c \in Chunk : \A P \in SUBSET todo[c] :
              IsFiniteSet(P) /\ Cardinality(P) \in Nat
         /\ \A q \in Request : \A R \in SUBSET pick[q] :
              IsFiniteSet(R) /\ Cardinality(R) \in Nat
<1>0. 1 \in Int /\ MaxFaults + 1 \in Int
  BY BoundAssumption
<1>1. IsFiniteSet(1..MaxFaults + 1) /\ IsFiniteSet(Number)
  BY <1>0, BoundAssumption, FS_Interval
<1>2. IsFiniteSet(Row)
  BY <1>1, FS_Product DEF Row
<1>3. \A P \in SUBSET Number : IsFiniteSet(P) /\ Cardinality(P) \in Nat
  BY <1>1, FS_Subset, FS_CardinalityType
<1>4. \A R \in SUBSET Row : IsFiniteSet(R) /\ Cardinality(R) \in Nat
  BY <1>2, FS_Subset, FS_CardinalityType
<1>5. /\ \A c \in Chunk : todo[c] \in SUBSET Number
      /\ \A q \in Request : pick[q] \in SUBSET Row
  BY DEF Typed, TypeOK
<1> QED BY <1>3, <1>4, <1>5

(* A run of a chunk finds a place for the row of each number it has still   *)
(* to do.                                                                   *)
LEMMA FreshPlaces ==
  ASSUME Typed, Rows, NEW c \in Chunk, NEW P \in SUBSET todo[c]
  PROVE  /\ Fresh(P) \subseteq Row
         /\ \A r \in Fresh(P) : r[1] \in P /\ Of[r[1]] = c
         /\ \A p \in P : p \in Number /\ Of[p] = c
         /\ \A r \in Row : r \in Fresh(P) <=>
                             r[1] \in P /\ r[2] = Cardinality(Written(r[1])) + 1
<1>1. \A p \in P : p \in Number /\ Of[p] = c
  BY DEF Typed, TypeOK, Rows, WrittenFirst
<1>2. \A p \in P : Cardinality(Written(p)) \in Nat /\ Cardinality(Written(p)) <= MaxFaults
  <2>1. SUFFICES ASSUME NEW p \in P
                 PROVE  Cardinality(Written(p)) \in Nat /\ Cardinality(Written(p)) <= MaxFaults
    OBVIOUS
  <2>2. Cardinality(Written(p)) \in Nat
    BY <1>1, WrittenCounted
  <2>3. p \in todo[Of[p]]
    BY <1>1
  <2>4. Cardinality(Written(p)) <= faults
    BY <1>1, <2>3 DEF Rows, RowsCounted
  <2> QED BY <2>2, <2>4, BoundAssumption DEF Typed, TypeOK
<1>3. \A p \in P : Cardinality(Written(p)) + 1 \in 1..MaxFaults + 1
  BY <1>2, BoundAssumption
<1>4. Fresh(P) = {<<p, Cardinality(Written(p)) + 1>> : p \in P}
  BY DEF Fresh
<1>5. Fresh(P) \subseteq Row
  BY <1>1, <1>3, <1>4 DEF Row
<1>6. \A r \in Row : r = <<r[1], r[2]>>
  BY DEF Row
<1> QED BY <1>1, <1>4, <1>5, <1>6

(* It writes these rows: each of the numbers has one more, and nothing else *)
(* changes.                                                                 *)
LEMMA FreshWritten ==
  ASSUME Typed, Rows, NEW c \in Chunk, NEW P \in SUBSET todo[c],
         NEW s \in RowStatus \ {"none"},
         status' = [r \in Row |-> IF r \in Fresh(P) THEN s ELSE status[r]]
  PROVE  /\ status' \in [Row -> RowStatus]
         /\ \A r \in Row : status[r] # "none" => status'[r] # "none"
         /\ \A r \in Fresh(P) : status'[r] # "none"
         /\ \A p \in P : /\ Cardinality(Written(p))' <= Cardinality(Written(p)) + 1
                         /\ Written(p)' # {}
         /\ \A p \in Number \ P : Written(p)' = Written(p)
<1>1. Fresh(P) \subseteq Row /\ status \in [Row -> RowStatus]
  BY FreshPlaces DEF Typed, TypeOK
<1>2. /\ status' \in [Row -> RowStatus]
      /\ \A r \in Row : status[r] # "none" => status'[r] # "none"
      /\ \A r \in Fresh(P) : status'[r] # "none"
  BY <1>1
<1>3. \A p \in Number, k \in 1..MaxFaults + 1 :
        /\ <<p, k>> \in Row
        /\ <<p, k>> \in Fresh(P) <=> p \in P /\ k = Cardinality(Written(p)) + 1
  BY FreshPlaces DEF Row
<1>4. ASSUME NEW p \in Number \ P
      PROVE  Written(p)' = Written(p)
  BY <1>3, <1>4 DEF Written
<1>5. ASSUME NEW p \in P
      PROVE  Cardinality(Written(p))' <= Cardinality(Written(p)) + 1 /\ Written(p)' # {}
  <2> DEFINE n == Cardinality(Written(p)) + 1
             more == {k \in 1..MaxFaults + 1 : status'[<<p, k>>] # "none"}
  <2>0. <<p, n>> \in Fresh(P)
    BY DEF Fresh
  <2>1. p \in Number /\ <<p, n>> \in Fresh(P) /\ n \in 1..MaxFaults + 1
    <3>1. <<p, n>> \in Row
      BY <1>1, <2>0
    <3> HIDE DEF n
    <3> QED BY <2>0, <3>1 DEF Row
  <2>2. Written(p)' = more
    BY DEF Written
  <2>3. n \in more
    BY <1>2, <2>1
  <2>4. \A k \in 1..MaxFaults + 1 : k # n => status'[<<p, k>>] = status[<<p, k>>]
    BY <1>3, <2>1
  <2>5. Written(p) = {k \in 1..MaxFaults + 1 : status[<<p, k>>] # "none"}
    BY DEF Written
  <2>6. more \in SUBSET (Written(p) \cup {n})
    BY <2>4, <2>5
  <2>7. IsFiniteSet(Written(p)) /\ Cardinality(Written(p)) \in Nat
    BY <2>1, WrittenCounted
  <2>8. /\ IsFiniteSet(Written(p) \cup {n})
        /\ Cardinality(Written(p) \cup {n}) <= Cardinality(Written(p)) + 1
        /\ Cardinality(Written(p) \cup {n}) \in Nat
    <3> HIDE DEF n
    <3>1. /\ IsFiniteSet(Written(p) \cup {n})
          /\ Cardinality(Written(p) \cup {n}) =
               IF n \in Written(p) THEN Cardinality(Written(p)) ELSE Cardinality(Written(p)) + 1
      BY <2>7, FS_AddElement
    <3> QED BY <2>7, <3>1
  <2>9. Cardinality(more) <= Cardinality(Written(p) \cup {n}) /\ Cardinality(more) \in Nat
    <3> HIDE DEF n, more
    <3> QED BY <2>6, <2>8, FS_Subset, FS_CardinalityType
  <2>10. Cardinality(more) <= Cardinality(Written(p)) + 1 /\ more # {}
    <3> HIDE DEF n, more
    <3> QED BY <2>3, <2>7, <2>8, <2>9
  <2> QED BY <2>2, <2>10
<1> QED BY <1>2, <1>4, <1>5

(* A row that is there keeps its place whatever becomes of it.              *)
LEMMA WrittenKept ==
  ASSUME \A r \in Row : status[r] = "none" <=> status'[r] = "none"
  PROVE  \A p \in Number : Written(p)' = Written(p)
BY DEF Written, Row

-----------------------------------------------------------------------------
(* The steps, by what they do to the rows of a chunk *)

\* They write rows for numbers that were to do.
WriterStep(c) == Prefail(c) \/ Write(c) \/ ChargeSome(c) \/ Rest(c)
\* They leave every row as it is.
QuietStep(c) ==
  \/ Start(c) \/ Charge(c) \/ Push(c) \/ Close(c) \/ Fail(c)
  \/ DbError(c) \/ Kill(c) \/ Timeout(c)
\* They are none of a chunk's.
OtherStep ==
  \/ \E r \in Row : Submit(r) \/ AdminRefund(r)
  \/ \E q \in Request : RetryRead(q) \/ RetryCharge(q) \/ RetryPush(q) \/ RetryEnd(q)
  \/ Cancel \/ LockExpires

(* Every step is one of these.                                              *)
LEMMA NextSteps ==
  ASSUME Next
  PROVE  OtherStep \/ \E c \in Chunk : WriterStep(c) \/ QuietStep(c)
BY DEF Next, ChunkNext, OtherStep, WriterStep, QuietStep

(* What one transaction of the loop does: P are charged and get rows, E are *)
(* passed over, F of them charged.                                          *)
LEMMA SomeCharged ==
  ASSUME Typed, NEW c \in Chunk, ChargeSome(c)
  PROVE  \E P, E, F \in SUBSET todo[c] :
           /\ P \cap E = {} /\ F \subseteq E
           /\ {Cardinality(P), Cardinality(F), balance'} \subseteq Nat
           /\ balance' = balance - (Cardinality(P) + Cardinality(F))
           /\ burnt' = burnt + Cardinality(F) /\ (E = {} => burnt' = burnt)
           /\ skipped' = skipped \cup E
           /\ PayFor(Fresh(P))
           /\ own' = [own EXCEPT ![c] = Fresh(P)]
           /\ todo' = [todo EXCEPT ![c] = todo[c] \ (P \cup E)]
           /\ faults' \in 0..MaxFaults /\ faults' >= faults
           /\ \E step \in {"pushpart", "pushlast"} : pc' = [pc EXCEPT ![c] = step]
<1>1. PICK P, E, F \in SUBSET todo[c] :
           /\ F \subseteq E /\ P \cap E = {} /\ Cardinality(P) + Cardinality(F) <= balance
           /\ balance' = balance - (Cardinality(P) + Cardinality(F))
           /\ \/ Goto(c, "pushpart")
              \/ Goto(c, "pushlast")
           /\ PayFor(Fresh(P))
           /\ own' = [own EXCEPT ![c] = Fresh(P)]
           /\ todo' = [todo EXCEPT ![c] = @ \ (P \cup E)]
           /\ skipped' = skipped \cup E /\ burnt' = burnt + Cardinality(F)
           /\ IF E = {} THEN UNCHANGED faults ELSE Fault("item")
  BY DEF ChargeSome
<1>2. F \subseteq E
  BY <1>1
<1>3. Cardinality(P) \in Nat /\ Cardinality(F) \in Nat
  BY WorkFinite
<1>4. {balance, burnt} \subseteq Nat /\ faults \in 0..MaxFaults /\ MaxFaults \in Nat
  BY BoundAssumption DEF Typed, TypeOK
<1>5. balance' \in Nat
  BY <1>1, <1>3, <1>4
<1>6. E = {} => burnt' = burnt
  <2>1. SUFFICES ASSUME E = {} PROVE Cardinality(F) = 0
    BY <1>1, <1>4
  <2>2. F = {}
    BY <1>2, <2>1
  <2> QED BY <2>2, FS_EmptySet
<1>7. faults' \in 0..MaxFaults /\ faults' >= faults
  BY <1>1, <1>4 DEF Fault
<1>8. \E step \in {"pushpart", "pushlast"} : pc' = [pc EXCEPT ![c] = step]
  BY <1>1 DEF Goto
<1>9. /\ todo' = [todo EXCEPT ![c] = todo[c] \ (P \cup E)]
      /\ {Cardinality(P), Cardinality(F), balance'} \subseteq Nat
  BY <1>1, <1>3, <1>5
<1> QED BY <1>1, <1>2, <1>6, <1>7, <1>8, <1>9

(* What a step that writes rows does: P get one, and only T is still to do. *)
LEMMA WriterWrites ==
  ASSUME Typed, NEW c \in Chunk, WriterStep(c)
  PROVE  \E P, T \in SUBSET todo[c], s \in {"pending", "failed"} :
           /\ status' = [r \in Row |-> IF r \in Fresh(P) THEN s ELSE status[r]]
           /\ todo' = [todo EXCEPT ![c] = T] /\ P \cap T = {}
           /\ own' = own \/ own' = [own EXCEPT ![c] = Fresh(P)]
           /\ \/ UNCHANGED <<priced, charges>>
              \/ /\ priced' = priced \cup Fresh(P)
                 /\ charges' = [r \in Row |-> IF r \in Fresh(P) THEN charges[r] + 1
                                              ELSE charges[r]]
<1>1. CASE Prefail(c)
  <2>1. todo' = [todo EXCEPT ![c] = todo[c] \ Bad]
    BY <1>1 DEF Prefail
  <2>2. /\ todo[c] \ Bad \in SUBSET todo[c] /\ todo[c] \cap Bad \in SUBSET todo[c]
        /\ (todo[c] \cap Bad) \cap (todo[c] \ Bad) = {}
    OBVIOUS
  <2>3. /\ status' = [r \in Row |-> IF r \in Fresh(todo[c] \cap Bad) THEN "failed" ELSE status[r]]
        /\ UNCHANGED <<own, priced, charges>>
    BY <1>1 DEF Prefail
  <2> QED BY <2>1, <2>2, <2>3
<1>2. CASE Write(c)
  <2>1. /\ status' = [r \in Row |-> IF r \in Fresh(todo[c]) THEN "pending" ELSE status[r]]
        /\ own' = [own EXCEPT ![c] = Fresh(todo[c])]
        /\ todo' = [todo EXCEPT ![c] = {}]
        /\ priced' = priced \cup Fresh(todo[c])
        /\ charges' = [r \in Row |-> IF r \in Fresh(todo[c]) THEN charges[r] + 1
                                     ELSE charges[r]]
    BY <1>2 DEF Write, PayFor
  <2>2. todo[c] \in SUBSET todo[c] /\ {} \in SUBSET todo[c] /\ todo[c] \cap {} = {}
    OBVIOUS
  <2> QED BY <2>1, <2>2
<1>3. CASE ChargeSome(c)
  <2>1. PICK P, E \in SUBSET todo[c] :
          /\ P \cap E = {} /\ PayFor(Fresh(P))
          /\ own' = [own EXCEPT ![c] = Fresh(P)]
          /\ todo' = [todo EXCEPT ![c] = todo[c] \ (P \cup E)]
    BY <1>3, SomeCharged
  <2>2. todo[c] \ (P \cup E) \in SUBSET todo[c] /\ P \cap (todo[c] \ (P \cup E)) = {}
    OBVIOUS
  <2>3. /\ status' = [r \in Row |-> IF r \in Fresh(P) THEN "pending" ELSE status[r]]
        /\ priced' = priced \cup Fresh(P)
        /\ charges' = [r \in Row |-> IF r \in Fresh(P) THEN charges[r] + 1 ELSE charges[r]]
    BY <2>1 DEF PayFor
  <2> QED BY <2>1, <2>2, <2>3
<1>4. CASE Rest(c)
  <2>1. /\ status' = [r \in Row |-> IF r \in Fresh(todo[c]) THEN "failed" ELSE status[r]]
        /\ todo' = [todo EXCEPT ![c] = {}]
        /\ UNCHANGED <<own, priced, charges>>
    BY <1>4 DEF Rest
  <2>2. todo[c] \in SUBSET todo[c] /\ {} \in SUBSET todo[c] /\ todo[c] \cap {} = {}
    OBVIOUS
  <2> QED BY <2>1, <2>2
<1> QED BY <1>1, <1>2, <1>3, <1>4 DEF WriterStep

(* A step that writes rows keeps the types.                                 *)
LEMMA WriterTyped ==
  ASSUME Typed, Rows, NEW c \in Chunk, WriterStep(c)
  PROVE  Typed'
<1>1. PICK P, T \in SUBSET todo[c], s \in {"pending", "failed"} :
           /\ status' = [r \in Row |-> IF r \in Fresh(P) THEN s ELSE status[r]]
           /\ todo' = [todo EXCEPT ![c] = T] /\ P \cap T = {}
           /\ own' = own \/ own' = [own EXCEPT ![c] = Fresh(P)]
           /\ \/ UNCHANGED <<priced, charges>>
              \/ /\ priced' = priced \cup Fresh(P)
                 /\ charges' = [r \in Row |-> IF r \in Fresh(P) THEN charges[r] + 1
                                              ELSE charges[r]]
  BY WriterWrites
<1>2. Fresh(P) \subseteq Row /\ todo[c] \subseteq Number
  BY FreshPlaces DEF Typed, TypeOK
<1>3. /\ status' \in [Row -> RowStatus] /\ todo' \in [Chunk -> SUBSET Number]
      /\ own' \in [Chunk -> SUBSET Row] /\ priced' \subseteq Row
      /\ charges' \in [Row -> Nat]
  BY <1>1, <1>2 DEF Typed, TypeOK, RowStatus
<1>4. /\ UNCHANGED <<batch, refunded, refunds, inqueue, tries, charged, good, lock, rpc, pick,
                     free, crashed, handed>>
      /\ held' \in [Chunk -> Nat]
  BY DEF WriterStep, Prefail, Write, ChargeSome, Rest, PayFor, requestVars, Typed, TypeOK
<1>5. CASE ChargeSome(c)
  <2>1. PICK P1, E, F \in SUBSET todo[c] :
          /\ {Cardinality(F), balance'} \subseteq Nat
          /\ burnt' = burnt + Cardinality(F) /\ skipped' = skipped \cup E
          /\ faults' \in 0..MaxFaults
          /\ \E step \in {"pushpart", "pushlast"} : pc' = [pc EXCEPT ![c] = step]
    BY <1>5, SomeCharged
  <2>2. /\ pc' \in [Chunk -> ChunkStep] /\ {balance', burnt'} \subseteq Nat
        /\ skipped' \subseteq Number /\ faults' \in 0..MaxFaults
    BY <1>2, <2>1 DEF Typed, TypeOK, ChunkStep
  <2> QED BY <1>3, <1>4, <2>2 DEF Typed, TypeOK
<1>6. CASE Prefail(c) \/ Write(c) \/ Rest(c)
  <2>1. UNCHANGED <<balance, faults, burnt, skipped>>
    BY <1>6 DEF Prefail, Write, Rest
  <2>2. pc' \in [Chunk -> ChunkStep]
    BY <1>6 DEF Prefail, Write, Rest, Goto, Typed, TypeOK, ChunkStep
  <2> QED BY <1>3, <1>4, <2>1, <2>2 DEF Typed, TypeOK
<1> QED BY <1>5, <1>6 DEF WriterStep

(* A step that leaves the rows keeps the types; no charge goes below zero.  *)
LEMMA QuietTyped ==
  ASSUME Typed, NEW c \in Chunk, QuietStep(c)
  PROVE  Typed'
<1> USE DEF Typed, TypeOK
<1>1. UNCHANGED <<batch, rowVars, lock, rpc, pick>>
  BY DEF QuietStep, Start, StartBy, Charge, ChargeBy, Push, Close, Fail, FailBy, DbError, Kill,
     Timeout, requestVars
<1>2. faults' \in 0..MaxFaults
  BY BoundAssumption DEF QuietStep, Start, StartBy, Charge, ChargeBy, Push, Close, Fail, FailBy,
     DbError, Kill, Timeout, Fault
<1>3. pc' \in [Chunk -> ChunkStep]
  BY DEF QuietStep, Start, StartBy, Charge, ChargeBy, Push, Close, Fail, FailBy, DbError, Kill,
     Timeout, Goto, ChunkStep
<1>4. /\ tries' \in [Chunk -> 0..MaxTries] /\ todo' \in [Chunk -> SUBSET Number]
      /\ own' \in [Chunk -> SUBSET Row]
  BY BoundAssumption DEF QuietStep, Start, StartBy, Charge, ChargeBy, Push, Close, Fail, FailBy,
     DbError, Kill, Timeout
<1>5. /\ inqueue' \in [Row -> Nat] /\ handed' \in [Number -> Nat] /\ good' \subseteq Chunk
  BY DEF QuietStep, Start, StartBy, Charge, ChargeBy, Push, Close, Fail, FailBy, DbError, Kill,
     Timeout
<1>6. crashed' = crashed \/ crashed' = TRUE
  BY DEF QuietStep, Start, StartBy, Charge, ChargeBy, Push, Close, Fail, FailBy, DbError, Kill,
     Timeout
<1>7. crashed' \in BOOLEAN
  BY <1>6, Zenon
<1>8. Cardinality(todo[c]) \in Nat
  BY WorkFinite
<1>9. /\ charged' \in [Chunk -> Nat] /\ held' \in [Chunk -> Nat]
  BY <1>8 DEF QuietStep, Start, StartBy, Charge, ChargeBy, Push, Close, Fail, FailBy, DbError,
     Kill, Timeout
<1>10. balance' \in Nat /\ burnt' \in Nat /\ free' \in Nat /\ skipped' = skipped
  BY <1>8 DEF QuietStep, Start, StartBy, Charge, ChargeBy, Push, Close, Fail, FailBy, DbError,
     Kill, Timeout
<1> QED BY <1>1, <1>2, <1>3, <1>4, <1>5, <1>9, <1>10, <1>7 DEF rowVars

(* So does the customer, the administrator and the gateway; a retry charges *)
(* no more than the balance has.                                            *)
LEMMA OtherTyped ==
  ASSUME Typed, OtherStep
  PROVE  Typed'
<1> USE DEF Typed, TypeOK
<1>1. UNCHANGED <<chunkVars, handed>>
  BY DEF OtherStep, Submit, AdminRefund, RetryRead, RetryCharge, RetryPush, RetryEnd, Cancel,
     LockExpires
<1>2. faults' \in 0..MaxFaults /\ batch' \in {"processing", "cancelled"}
  BY BoundAssumption DEF OtherStep, Submit, AdminRefund, RetryRead, RetryCharge, RetryPush,
     RetryEnd, Cancel, LockExpires, Fault, requestVars
<1>3. lock' = lock \/ lock' = TRUE \/ lock' = FALSE
  BY DEF OtherStep, Submit, AdminRefund, RetryRead, RetryCharge, RetryPush, RetryEnd, Cancel,
     LockExpires, requestVars
<1>4. lock' \in BOOLEAN
  BY <1>3, Zenon
<1>5. /\ rpc' \in [Request -> {"new", "charge", "push", "unlock", "end"}]
      /\ pick' \in [Request -> SUBSET Row]
  BY DEF OtherStep, Submit, AdminRefund, RetryRead, RetryCharge, RetryPush, RetryEnd, Cancel,
     LockExpires, requestVars, kSubset
<1>6. /\ status' \in [Row -> RowStatus] /\ priced' \subseteq Row /\ charges' \in [Row -> Nat]
  BY DEF OtherStep, Submit, AdminRefund, RetryRead, RetryCharge, RetryPush, RetryEnd, Cancel,
     LockExpires, rowVars, kSubset, RowStatus
<1>7. /\ refunded' \subseteq Row /\ refunds' \in [Row -> Nat] /\ inqueue' \in [Row -> Nat]
  BY DEF OtherStep, Submit, AdminRefund, RetryRead, RetryCharge, RetryPush, RetryEnd, Cancel,
     LockExpires, rowVars, Refund, RefundBy
<1>8. balance' \in Nat
  <2>1. ASSUME NEW q \in Request, RetryCharge(q) PROVE balance' \in Nat
    <3>1. PICK R \in kSubset(IF balance < Cardinality(pick[q]) THEN balance
                             ELSE Cardinality(pick[q]), pick[q]) :
            balance' = balance - Cardinality(R)
      BY <2>1 DEF RetryCharge
    <3>2. Cardinality(pick[q]) \in Nat /\ balance \in Nat
      BY WorkFinite
    <3>3. Cardinality(R) = IF balance < Cardinality(pick[q]) THEN balance
                           ELSE Cardinality(pick[q])
      BY DEF kSubset
    <3> QED BY <3>1, <3>2, <3>3
  <2>2. ASSUME \A q \in Request : ~RetryCharge(q) PROVE balance' \in Nat
    BY <2>2 DEF OtherStep, Submit, AdminRefund, RetryRead, RetryPush, RetryEnd, Cancel,
       LockExpires, Refund, RefundBy
  <2> QED BY <2>1, <2>2
<1> QED BY <1>1, <1>2, <1>5, <1>6, <1>7, <1>8, <1>4 DEF chunkVars

-----------------------------------------------------------------------------
(* Rows are written in their places *)

(* Of a step that writes rows: the numbers that get one are no longer to    *)
(* do, and their rows are the chunk's to hand over.                         *)
LEMMA WriterRows ==
  ASSUME Typed, Rows, NEW c \in Chunk, WriterStep(c)
  PROVE  Rows'
<1>1. PICK P, T \in SUBSET todo[c], s \in {"pending", "failed"} :
           /\ status' = [r \in Row |-> IF r \in Fresh(P) THEN s ELSE status[r]]
           /\ todo' = [todo EXCEPT ![c] = T] /\ P \cap T = {}
           /\ own' = own \/ own' = [own EXCEPT ![c] = Fresh(P)]
           /\ \/ UNCHANGED <<priced, charges>>
              \/ /\ priced' = priced \cup Fresh(P)
                 /\ charges' = [r \in Row |-> IF r \in Fresh(P) THEN charges[r] + 1
                                              ELSE charges[r]]
  BY WriterWrites
<1>2. s \in RowStatus \ {"none"}
  BY DEF RowStatus
<1>3. /\ \A r \in Row : status[r] # "none" => status'[r] # "none"
      /\ \A r \in Fresh(P) : status'[r] # "none"
      /\ \A p \in P : Cardinality(Written(p))' <= Cardinality(Written(p)) + 1
      /\ \A p \in Number \ P : Written(p)' = Written(p)
  BY <1>1, <1>2, FreshWritten
<1>4. /\ Fresh(P) \subseteq Row /\ \A r \in Fresh(P) : Of[r[1]] = c
      /\ \A p \in P : p \in Number /\ Of[p] = c
  BY FreshPlaces
<1>5. UNCHANGED <<pick, inqueue>> /\ pc[c] \notin {"queued", "failing"}
  BY DEF WriterStep, Prefail, Write, ChargeSome, Rest, requestVars
<1>9. faults' >= faults /\ faults \in Nat /\ faults' \in Nat
  <2>1. faults \in Nat
    BY BoundAssumption DEF Typed, TypeOK
  <2>2. CASE ChargeSome(c)
    <3>1. faults' \in 0..MaxFaults /\ faults' >= faults
      BY <2>2, SomeCharged
    <3> QED BY <2>1, <3>1, BoundAssumption
  <2>3. CASE Prefail(c) \/ Write(c) \/ Rest(c)
    BY <2>1, <2>3 DEF Prefail, Write, Rest
  <2> QED BY <2>2, <2>3 DEF WriterStep
<1>6. /\ \A d \in Chunk : d # c => pc'[d] = pc[d]
      /\ pc'[c] \notin {"queued", "failing"}
  BY DEF WriterStep, Prefail, Write, ChargeSome, Rest, Goto, Typed, TypeOK
<1>7. WrittenFirst'
  <2>1. /\ \A d \in Chunk : todo'[d] \subseteq todo[d]
        /\ \A d \in Chunk : own'[d] = own[d] \/ (d = c /\ own'[d] = Fresh(P))
    BY <1>1 DEF Typed, TypeOK
  <2> QED BY <1>3, <1>4, <1>5, <2>1 DEF Rows, WrittenFirst, Typed, TypeOK
<1>8. ASSUME NEW p \in Number
      PROVE  Cardinality(Written(p))' <= IF pc'[Of[p]] \in {"queued", "failing"} \/ p \in todo'[Of[p]]
                                         THEN faults' ELSE faults' + 1
  <2>1. Of[p] \in Chunk /\ Cardinality(Written(p)) \in Nat /\ faults \in Nat
    BY NumberAssumption, WrittenCounted, BoundAssumption DEF Typed, TypeOK
  <2>2. Cardinality(Written(p)) <= IF pc[Of[p]] \in {"queued", "failing"} \/ p \in todo[Of[p]]
                                   THEN faults ELSE faults + 1
    BY DEF Rows, RowsCounted
  <2>3. CASE p \in P
    <3>1. Of[p] = c /\ p \in todo[c] /\ p \notin todo'[c]
      BY <1>1, <1>4, <2>3 DEF Typed, TypeOK
    <3>2. Cardinality(Written(p)) <= faults
      BY <2>2, <3>1
    <3>3. Cardinality(Written(p))' <= faults + 1
      <4>1. Cardinality(Written(p))' <= Cardinality(Written(p)) + 1
        BY <1>3, <2>3
      <4>2. Cardinality(Written(p))' \in Nat
        <5>1. Written(p)' \in SUBSET (1..MaxFaults + 1)
          BY DEF Written
        <5>2. 1 \in Int /\ MaxFaults + 1 \in Int
          BY BoundAssumption
        <5>3. IsFiniteSet(1..MaxFaults + 1)
          BY <5>2, FS_Interval
        <5> QED BY <5>1, <5>3, FS_Subset, FS_CardinalityType
      <4> QED BY <2>1, <3>2, <4>1, <4>2
    <3>4. Cardinality(Written(p))' <= faults' + 1
      <4>1. Cardinality(Written(p))' \in Nat
        <5>1. Written(p)' \in SUBSET (1..MaxFaults + 1)
          BY DEF Written
        <5>2. 1 \in Int /\ MaxFaults + 1 \in Int
          BY BoundAssumption
        <5>3. IsFiniteSet(1..MaxFaults + 1)
          BY <5>2, FS_Interval
        <5> QED BY <5>1, <5>3, FS_Subset, FS_CardinalityType
      <4> QED BY <1>9, <3>3, <4>1
    <3> QED BY <1>6, <3>1, <3>4
  <2>4. CASE p \notin P
    <3>1. Written(p)' = Written(p)
      BY <1>3, <2>4
    <3>2. p \in todo'[Of[p]] => p \in todo[Of[p]]
      BY <1>1, <2>1, <2>4 DEF Typed, TypeOK
    <3>3. pc'[Of[p]] \in {"queued", "failing"} <=> pc[Of[p]] \in {"queued", "failing"}
      BY <1>5, <1>6, <2>1
    <3> QED BY <1>9, <2>1, <2>2, <3>1, <3>2, <3>3
  <2> QED BY <2>3, <2>4
<1> QED BY <1>7, <1>8 DEF Rows, RowsCounted

(* A chunk starts again after a fault, and what it then finds to do is its  *)
(* own.                                                                     *)
LEMMA QuietRows ==
  ASSUME Typed, Rows, NEW c \in Chunk, QuietStep(c)
  PROVE  Rows'
<1>1. UNCHANGED <<status, pick>>
  BY DEF QuietStep, Start, StartBy, Charge, ChargeBy, Push, Close, Fail, FailBy, DbError, Kill,
     Timeout, requestVars, rowVars
<1>2. \A p \in Number : Written(p)' = Written(p)
  BY <1>1, WrittenKept
<1>3. /\ \A d \in Chunk : todo'[d] = todo[d] \/ \A p \in todo'[d] : Of[p] = d
      /\ \A d \in Chunk : own'[d] \subseteq own[d]
      /\ \A r \in Row : inqueue'[r] > 0 => inqueue[r] > 0 \/ r \in own[c]
  BY DEF QuietStep, Start, StartBy, Charge, ChargeBy, Push, Close, Fail, FailBy, DbError, Kill,
     Timeout, Typed, TypeOK
<1>4. WrittenFirst'
  BY <1>1, <1>3 DEF Rows, WrittenFirst
<1>5. \A d \in Chunk : d # c => pc'[d] = pc[d] /\ todo'[d] = todo[d]
  BY DEF QuietStep, Start, StartBy, Charge, ChargeBy, Push, Close, Fail, FailBy, DbError, Kill,
     Timeout, Goto, Typed, TypeOK
<1>6. faults \in Nat /\ faults' \in Nat
  BY QuietTyped, BoundAssumption DEF Typed, TypeOK
<1>7. \/ faults' = faults /\ pc[c] \in {"queued", "failing"}
      \/ /\ faults' >= faults
         /\ pc'[c] \in {"queued", "failing"} => faults' = faults + 1
         /\ todo'[c] = todo[c]
  BY <1>6 DEF QuietStep, Start, StartBy, Charge, ChargeBy, Push, Close, Fail, FailBy, DbError,
     Kill, Timeout, Goto, Fault, Typed, TypeOK
<1>8. ASSUME NEW p \in Number
      PROVE  Cardinality(Written(p)) <= IF pc'[Of[p]] \in {"queued", "failing"} \/ p \in todo'[Of[p]]
                                        THEN faults' ELSE faults' + 1
  <2>1. Of[p] \in Chunk /\ Cardinality(Written(p)) \in Nat
    BY NumberAssumption, WrittenCounted
  <2>2. Cardinality(Written(p)) <= IF pc[Of[p]] \in {"queued", "failing"} \/ p \in todo[Of[p]]
                                   THEN faults ELSE faults + 1
    BY DEF Rows, RowsCounted
  <2>3. faults' >= faults
    BY <1>6, <1>7
  <2>4. CASE Of[p] # c
    BY <1>5, <1>6, <2>1, <2>2, <2>3, <2>4
  <2>5. CASE Of[p] = c
    BY <1>6, <1>7, <2>1, <2>2, <2>3, <2>5
  <2> QED BY <2>4, <2>5
<1>9. RowsCounted'
  BY <1>2, <1>8 DEF RowsCounted
<1> QED BY <1>4, <1>9 DEF Rows

(* Nobody else makes or unmakes a row.                                      *)
LEMMA OtherRows ==
  ASSUME Typed, Rows, OtherStep
  PROVE  Rows'
<1>1. UNCHANGED <<pc, todo, own>>
  BY DEF OtherStep, Submit, AdminRefund, RetryRead, RetryCharge, RetryPush, RetryEnd, Cancel,
     LockExpires, chunkVars
<1>2. faults \in Nat /\ faults' \in Nat /\ faults' >= faults
  <2>1. faults \in Nat /\ faults' \in Nat
    BY OtherTyped, BoundAssumption DEF Typed, TypeOK
  <2> QED BY <2>1 DEF OtherStep, Submit, AdminRefund, RetryRead, RetryCharge, RetryPush,
     RetryEnd, Cancel, LockExpires, Fault
<1>3. \A r \in Row : status'[r] = status[r]
                       \/ (status[r] # "none" /\ status'[r] # "none")
  BY DEF OtherStep, Submit, AdminRefund, RetryRead, RetryCharge, RetryPush, RetryEnd, Cancel,
     LockExpires, rowVars, kSubset, Typed, TypeOK, Rows, WrittenFirst
<1>4. \A p \in Number : Written(p)' = Written(p)
  BY <1>3, WrittenKept
<1>5. /\ \A q \in Request : \A r \in pick'[q] : status[r] # "none"
      /\ \A r \in Row : inqueue'[r] > 0 => status[r] # "none"
  BY DEF OtherStep, Submit, AdminRefund, RetryRead, RetryCharge, RetryPush, RetryEnd, Cancel,
     LockExpires, kSubset, requestVars, Typed, TypeOK, Rows, WrittenFirst
<1>6. WrittenFirst'
  <2>1. pick' \in [Request -> SUBSET Row]
    BY OtherTyped DEF Typed, TypeOK
  <2> QED BY <1>1, <1>3, <1>5, <2>1 DEF Rows, WrittenFirst, Typed, TypeOK
<1>7. ASSUME NEW p \in Number
      PROVE  Cardinality(Written(p)) <= IF pc'[Of[p]] \in {"queued", "failing"} \/ p \in todo'[Of[p]]
                                        THEN faults' ELSE faults' + 1
  <2>1. Cardinality(Written(p)) \in Nat
    BY WrittenCounted
  <2>2. Cardinality(Written(p)) <= IF pc[Of[p]] \in {"queued", "failing"} \/ p \in todo[Of[p]]
                                   THEN faults ELSE faults + 1
    BY DEF Rows, RowsCounted
  <2> QED BY <1>1, <1>2, <2>1, <2>2
<1>8. RowsCounted'
  BY <1>4, <1>7 DEF RowsCounted
<1> QED BY <1>6, <1>8 DEF Rows

(* A step that changes nothing keeps the invariants.                        *)
LEMMA Stutters ==
  ASSUME UNCHANGED vars
  PROVE  /\ UNCHANGED <<batch, balance, status, priced, refunded, charges, refunds, inqueue>>
         /\ UNCHANGED <<pc, tries, todo, own, charged, good, held, burnt, free, skipped, crashed>>
         /\ UNCHANGED <<lock, rpc, pick, faults, handed>>
         /\ \A p \in Number : Written(p)' = Written(p)
BY DEF vars, rowVars, chunkVars, requestVars, Written

(* The types and the places hold initially and every step keeps them.       *)
THEOREM RowsCorrect == Spec => [](Typed /\ Rows)
<1>1. Init => Typed /\ Rows
  <2>1. Init => Typed
    <3>1. SUFFICES ASSUME Init PROVE Typed
      OBVIOUS
    <3>2. 0 \in 0..MaxTries /\ 0 \in 0..MaxFaults /\ 0 \in Nat /\ Balance \in Nat
      BY BoundAssumption
    <3>3. /\ batch \in {"processing", "cancelled"} /\ {balance, burnt, free} \subseteq Nat
          /\ status \in [Row -> RowStatus] /\ inqueue \in [Row -> Nat]
          /\ priced \subseteq Row /\ refunded \subseteq Row
          /\ charges \in [Row -> Nat] /\ refunds \in [Row -> Nat] /\ handed \in [Number -> Nat]
      BY <3>1, <3>2 DEF Init, RowStatus
    <3>4. /\ pc \in [Chunk -> ChunkStep] /\ tries \in [Chunk -> 0..MaxTries]
          /\ todo \in [Chunk -> SUBSET Number] /\ own \in [Chunk -> SUBSET Row]
          /\ charged \in [Chunk -> Nat] /\ held \in [Chunk -> Nat] /\ good \subseteq Chunk
          /\ skipped \subseteq Number
      BY <3>1, <3>2 DEF Init, ChunkStep
    <3>5. /\ rpc \in [Request -> {"new", "charge", "push", "unlock", "end"}]
          /\ pick \in [Request -> SUBSET Row] /\ faults \in 0..MaxFaults
      BY <3>1, <3>2 DEF Init
    <3>6. {lock, crashed} \subseteq BOOLEAN
      BY <3>1 DEF Init
    <3> QED BY <3>3, <3>4, <3>5, <3>6 DEF Typed, TypeOK
  <2>2. Init => WrittenFirst
    BY DEF Init, WrittenFirst
  <2>3. Init => RowsCounted
    <3>1. SUFFICES ASSUME Init, NEW p \in Number
                   PROVE  Cardinality(Written(p)) = 0 /\ faults = 0
      BY DEF RowsCounted
    <3>2. Written(p) = {}
      BY <3>1 DEF Init, Written, Row
    <3> QED BY <3>1, <3>2, FS_EmptySet DEF Init
  <2> QED BY <2>1, <2>2, <2>3 DEF Rows
<1>2. Typed /\ Rows /\ [Next]_vars => (Typed /\ Rows)'
  <2>1. SUFFICES ASSUME Typed, Rows, [Next]_vars
                 PROVE  Typed' /\ Rows'
    OBVIOUS
  <2>2. CASE Next
    BY <2>1, <2>2, NextSteps, WriterTyped, WriterRows, QuietTyped, QuietRows, OtherTyped,
       OtherRows
  <2>3. CASE UNCHANGED vars
    BY <2>1, <2>3, Stutters DEF Typed, TypeOK, Rows, WrittenFirst, RowsCounted
  <2> QED BY <2>1, <2>2, <2>3
<1> QED BY <1>1, <1>2, PTL DEF Spec

(* The variables keep their types, for every number of chunks, numbers and  *)
(* requests: no balance is charged below zero, and no chunk runs out of     *)
(* places for its rows.                                                     *)
THEOREM TypeCorrect == Spec => []TypeOK
<1>1. Typed => TypeOK
  BY DEF Typed
<1> QED BY <1>1, RowsCorrect, PTL

-----------------------------------------------------------------------------
(* Refunds *)

(* Rows that a chunk writes and charges are priced and paid for.            *)
LEMMA WriterPaid ==
  ASSUME Typed, Rows, Paid, NEW c \in Chunk, WriterStep(c)
  PROVE  Paid'
<1>1. PICK P \in SUBSET todo[c] :
           \/ UNCHANGED <<priced, charges>>
           \/ /\ priced' = priced \cup Fresh(P)
              /\ charges' = [r \in Row |-> IF r \in Fresh(P) THEN charges[r] + 1
                                           ELSE charges[r]]
  BY WriterWrites
<1>2. Fresh(P) \subseteq Row
  BY FreshPlaces
<1>3. UNCHANGED <<refunded, refunds, rpc, pick>>
  BY DEF WriterStep, Prefail, Write, ChargeSome, Rest, PayFor, requestVars
<1>4. \A r \in priced' : charges'[r] >= 1
  BY <1>1, <1>2 DEF Typed, TypeOK, Paid
<1>5. priced \subseteq priced'
  BY <1>1
<1> QED BY <1>3, <1>4, <1>5 DEF Paid

(* A step that leaves the rows charges and refunds none.                    *)
LEMMA QuietPaid ==
  ASSUME Paid, NEW c \in Chunk, QuietStep(c)
  PROVE  Paid'
<1>1. UNCHANGED <<priced, refunded, charges, refunds, rpc, pick>>
  BY DEF QuietStep, Start, StartBy, Charge, ChargeBy, Push, Close, Fail, FailBy, DbError, Kill,
     Timeout, requestVars, rowVars
<1> QED BY <1>1 DEF Paid

(* _do_refund refunds a row whose refunded_at is not set, and sets it.      *)
LEMMA RefundPaid ==
  ASSUME Typed, Paid, NEW r \in priced, Refund(r)
  PROVE  /\ \A s \in Row : refunds'[s] = IF s \in refunded' THEN 1 ELSE 0
         /\ refunded' \subseteq priced
<1>1. r \in Row
  BY DEF Typed, TypeOK
<1>2. CASE r \in refunded
  BY <1>2 DEF Refund, RefundBy, Paid
<1>3. CASE r \notin refunded
  <2>1. refunded' = refunded \cup {r} /\ refunds' = [refunds EXCEPT ![r] = @ + 1]
    BY <1>3 DEF Refund, RefundBy
  <2> QED BY <1>1, <1>3, <2>1 DEF Typed, TypeOK, Paid
<1> QED BY <1>2, <1>3

(* A retry charges a row before it hands it over, and refunds only then.    *)
LEMMA OtherPaid ==
  ASSUME Typed, Paid, OtherStep
  PROVE  Paid'
<1>1. ASSUME NEW r \in Row, AdminRefund(r) PROVE Paid'
  <2>1. r \in priced /\ Refund(r) /\ UNCHANGED <<priced, charges, rpc, pick>>
    BY <1>1 DEF AdminRefund, requestVars
  <2> QED BY <2>1, RefundPaid DEF Paid
<1>2. ASSUME NEW q \in Request, RetryCharge(q) PROVE Paid'
  <2>1. PICK R \in SUBSET pick[q] :
           /\ priced' = priced \cup R
           /\ charges' = [r \in Row |-> IF r \in R THEN charges[r] + 1 ELSE charges[r]]
           /\ pick' = [pick EXCEPT ![q] = R]
           /\ rpc' = [rpc EXCEPT ![q] = IF R = {} THEN "unlock" ELSE "push"]
    BY <1>2 DEF RetryCharge, kSubset
  <2>2. UNCHANGED <<refunded, refunds>> /\ R \subseteq Row
    BY <1>2 DEF RetryCharge, Typed, TypeOK
  <2>3. \A r \in priced' : charges'[r] >= 1
    BY <2>1, <2>2 DEF Typed, TypeOK, Paid
  <2>4. \A p \in Request : rpc'[p] = "push" => pick'[p] \subseteq priced'
    BY <2>1 DEF Typed, TypeOK, Paid
  <2> QED BY <2>1, <2>2, <2>3, <2>4 DEF Paid
<1>3. ASSUME NEW q \in Request, RetryPush(q) PROVE Paid'
  <2>1. PICK r \in pick[q] :
           /\ pick' = [pick EXCEPT ![q] = @ \ {r}]
           /\ rpc' = [rpc EXCEPT ![q] = IF pick[q] = {r} THEN "unlock" ELSE "push"]
           /\ Refund(r) \/ UNCHANGED <<refunded, refunds>>
    BY <1>3 DEF RetryPush
  <2>2. rpc[q] = "push" /\ UNCHANGED <<priced, charges>> /\ r \in priced
    BY <1>3, <2>1 DEF RetryPush, Paid
  <2>3. \A p \in Request : rpc'[p] = "push" => pick'[p] \subseteq priced'
    BY <2>1, <2>2 DEF Typed, TypeOK, Paid
  <2> QED BY <2>1, <2>2, <2>3, RefundPaid DEF Paid
<1>4. ASSUME NEW q \in Request, RetryRead(q) \/ RetryEnd(q) PROVE Paid'
  BY <1>4 DEF RetryRead, RetryEnd, rowVars, Typed, TypeOK, Paid
<1>5. ASSUME Cancel \/ LockExpires \/ \E r \in Row : Submit(r) PROVE Paid'
  BY <1>5 DEF Cancel, LockExpires, Submit, rowVars, requestVars, Paid
<1> QED BY <1>1, <1>2, <1>3, <1>4, <1>5 DEF OtherStep

(* What is refunded is refunded once, and has a price.                      *)
LEMMA AlwaysPaid == Spec => []Paid
<1>1. Init => Paid
  BY DEF Init, Paid
<1>2. Typed /\ Rows /\ Paid /\ [Next]_vars => Paid'
  <2>1. SUFFICES ASSUME Typed, Rows, Paid, [Next]_vars
                 PROVE  Paid'
    OBVIOUS
  <2>2. CASE Next
    BY <2>1, <2>2, NextSteps, WriterPaid, QuietPaid, OtherPaid
  <2>3. CASE UNCHANGED vars
    BY <2>1, <2>3, Stutters DEF Paid
  <2> QED BY <2>1, <2>2, <2>3
<1> QED BY <1>1, <1>2, RowsCorrect, PTL DEF Spec

(* A row is refunded once and never without having been paid for, however   *)
(* many administrators and retries notice its failures.                     *)
THEOREM RefundCorrect == Spec => []RefundedOnce
<1>1. Typed /\ Paid => RefundedOnce
  BY DEF Typed, Paid, RefundedOnce
<1> QED BY <1>1, RowsCorrect, AlwaysPaid, PTL

-----------------------------------------------------------------------------
(* Handing over *)

(* What is written was still to do, and not written or handed over before.  *)
LEMMA WriterHanded ==
  ASSUME Typed, Rows, Handed, NEW c \in Chunk, WriterStep(c)
  PROVE  Handed'
<1>1. PICK P, T \in SUBSET todo[c], s \in {"pending", "failed"} :
           /\ status' = [r \in Row |-> IF r \in Fresh(P) THEN s ELSE status[r]]
           /\ todo' = [todo EXCEPT ![c] = T] /\ P \cap T = {}
           /\ own' = own \/ own' = [own EXCEPT ![c] = Fresh(P)]
           /\ \/ UNCHANGED <<priced, charges>>
              \/ /\ priced' = priced \cup Fresh(P)
                 /\ charges' = [r \in Row |-> IF r \in Fresh(P) THEN charges[r] + 1
                                              ELSE charges[r]]
  BY WriterWrites
<1>2. s \in RowStatus \ {"none"}
  BY DEF RowStatus
<1>3. /\ \A p \in P : Written(p)' # {}
      /\ \A p \in Number \ P : Written(p)' = Written(p)
  BY <1>1, <1>2, FreshWritten
<1>4. /\ \A r \in Fresh(P) : r[1] \in P
      /\ \A p \in P : p \in Number /\ Of[p] = c
  BY FreshPlaces
<1>5. handed' = handed
  BY DEF WriterStep, Prefail, Write, ChargeSome, Rest
<1>6. ASSUME NEW p \in Number \ Bare
      PROVE  /\ p \in todo'[Of[p]] => Written(p)' = {}
             /\ \/ handed'[p] = 0
                \/ handed'[p] = 1 /\ Written(p)' # {} /\ \A r \in own'[Of[p]] : r[1] # p
  <2>1. /\ p \in todo[Of[p]] => Written(p) = {}
        /\ \/ handed[p] = 0
           \/ handed[p] = 1 /\ Written(p) # {} /\ \A r \in own[Of[p]] : r[1] # p
    BY DEF Handed
  <2>2. Of[p] \in Chunk
    BY NumberAssumption
  <2>3. CASE p \in P
    <3>1. p \in todo[Of[p]] /\ p \notin todo'[Of[p]]
      BY <1>1, <1>4, <2>3 DEF Typed, TypeOK
    <3>2. handed[p] = 0
      BY <2>1, <3>1
    <3> QED BY <1>5, <3>1, <3>2
  <2>4. CASE p \notin P
    <3>1. Written(p)' = Written(p)
      BY <1>3, <2>4
    <3>2. p \in todo'[Of[p]] => p \in todo[Of[p]]
      BY <1>1, <2>2 DEF Typed, TypeOK
    <3>3. \A r \in own'[Of[p]] : r \in own[Of[p]] \/ r[1] # p
      BY <1>1, <1>4, <2>2, <2>4 DEF Typed, TypeOK
    <3> QED BY <1>5, <2>1, <3>1, <3>2, <3>3
  <2> QED BY <2>3, <2>4
<1> QED BY <1>6 DEF Handed

(* A chunk that starts again leaves out the numbers that have a row in      *)
(* their spelling; one that is handed over leaves the chunk's hands.        *)
LEMMA QuietHanded ==
  ASSUME Typed, Rows, Handed, NEW c \in Chunk, QuietStep(c)
  PROVE  Handed'
<1>1. status' = status
  BY DEF QuietStep, Start, StartBy, Charge, ChargeBy, Push, Close, Fail, FailBy, DbError, Kill,
     Timeout, rowVars
<1>2. \A p \in Number : Written(p)' = Written(p)
  BY <1>1, WrittenKept
<1>3. \A d \in Chunk : own'[d] \subseteq own[d]
  BY DEF QuietStep, Start, StartBy, Charge, ChargeBy, Push, Close, Fail, FailBy, DbError, Kill,
     Timeout, Typed, TypeOK
<1>4. \A d \in Chunk : \A p \in todo'[d] :
         p \in todo[d] \/ p \notin {n \in Number \ Bare : Written(n) # {}}
  BY DEF QuietStep, Start, StartBy, Charge, ChargeBy, Push, Close, Fail, FailBy, DbError, Kill,
     Timeout, Typed, TypeOK
<1>5. ASSUME NEW p \in Number \ Bare
      PROVE  \/ handed'[p] = 0
             \/ handed'[p] = 1 /\ Written(p) # {} /\ \A r \in own'[Of[p]] : r[1] # p
  <2>1. \/ handed[p] = 0
        \/ handed[p] = 1 /\ Written(p) # {} /\ \A r \in own[Of[p]] : r[1] # p
    BY DEF Handed
  <2>2. Of[p] \in Chunk
    BY NumberAssumption
  <2>3. CASE handed' = handed
    BY <1>3, <2>1, <2>2, <2>3
  <2>4. CASE Push(c) /\ \E r \in own[c] : r[1] = p
    <3>1. PICK r \in own[c] : r[1] = p
      BY <2>4
    <3>2. r \in Row /\ status[r] # "none" /\ Of[p] = c
      BY <3>1 DEF Typed, TypeOK, Rows, WrittenFirst
    <3>3. Written(p) # {}
      BY <3>1, <3>2 DEF Written, Row
    <3>4. handed[p] = 0
      BY <2>1, <3>1, <3>2
    <3>5. own'[Of[p]] = {}
      BY <2>4, <3>2 DEF Push, Typed, TypeOK
    <3>6. handed'[p] \in {0, 1}
      BY <2>4, <3>4 DEF Push, Typed, TypeOK
    <3> QED BY <3>3, <3>5, <3>6
  <2>5. CASE Push(c) /\ ~\E r \in own[c] : r[1] = p
    <3>1. handed'[p] = handed[p]
      BY <2>5 DEF Push, Typed, TypeOK
    <3> QED BY <1>3, <2>1, <2>2, <3>1
  <2>6. handed' = handed \/ Push(c)
    BY DEF QuietStep, Start, StartBy, Charge, ChargeBy, Close, Fail, FailBy, DbError, Kill,
       Timeout
  <2> QED BY <2>3, <2>4, <2>5, <2>6
<1>6. \A p \in Number : Of[p] \in Chunk
  BY NumberAssumption
<1> QED BY <1>2, <1>4, <1>5, <1>6 DEF Handed

(* Nobody else writes a row or hands one over for a chunk.                  *)
LEMMA OtherHanded ==
  ASSUME Typed, Rows, Handed, OtherStep
  PROVE  Handed'
<1>1. UNCHANGED <<todo, own, handed>>
  BY DEF OtherStep, Submit, AdminRefund, RetryRead, RetryCharge, RetryPush, RetryEnd, Cancel,
     LockExpires, chunkVars
<1>2. \A r \in Row : status'[r] = status[r]
                       \/ (status[r] # "none" /\ status'[r] # "none")
  BY DEF OtherStep, Submit, AdminRefund, RetryRead, RetryCharge, RetryPush, RetryEnd, Cancel,
     LockExpires, rowVars, kSubset, Typed, TypeOK, Rows, WrittenFirst
<1>3. \A p \in Number : Written(p)' = Written(p)
  BY <1>2, WrittenKept
<1> QED BY <1>1, <1>3 DEF Handed

(* However often a chunk is run again after a crash or an error, it hands   *)
(* a number over at most once.                                              *)
THEOREM HandedCorrect == Spec => []HandedOnce
<1>1. Init => Handed
  BY NumberAssumption DEF Init, Handed
<1>2. Typed /\ Rows /\ Handed /\ [Next]_vars => Handed'
  <2>1. SUFFICES ASSUME Typed, Rows, Handed, [Next]_vars
                 PROVE  Handed'
    OBVIOUS
  <2>2. CASE Next
    BY <2>1, <2>2, NextSteps, WriterHanded, QuietHanded, OtherHanded
  <2>3. CASE UNCHANGED vars
    BY <2>1, <2>3, Stutters DEF Handed
  <2> QED BY <2>1, <2>2, <2>3
<1>3. Handed => HandedOnce
  BY DEF Handed, HandedOnce
<1> QED BY <1>1, <1>2, <1>3, RowsCorrect, PTL DEF Spec

-----------------------------------------------------------------------------
(* Money *)

(* A chunk holds money from its charge until its rows are written: all that *)
(* it has charged, for the numbers it has to do.                            *)
HeldBy ==
  \A c \in Chunk : /\ held[c] > 0 => /\ pc[c] \in {"write", "failing"}
                                     /\ held[c] = charged[c]
                   /\ pc[c] = "write" => held[c] = Cardinality(todo[c])

(* A chunk that takes itself for successful before it has handed anything   *)
(* over was run before, and an earlier run has written rows.                *)
SomeWritten(c) == \E p \in Number \ Bare : Of[p] = c /\ Written(p) # {}
RunAgain(c) == crashed \/ tries[c] > 0
GoodBefore ==
  /\ \A c \in Chunk : pc[c] = "queued" /\ SomeWritten(c) => RunAgain(c)
  /\ \A c \in good : pc[c] \in {"prefail", "charge", "write"} \/ held[c] > 0
                       => RunAgain(c) /\ SomeWritten(c)
  /\ burnt > 0 => \/ crashed \/ skipped # {}
                  \/ \E c \in good : tries[c] > 0 /\ SomeWritten(c)

(* Unit by unit, nothing else is missing from the balance.                  *)
Accounts ==
  /\ IsFiniteSet(Spent) /\ IsFiniteSet(InHand)
  /\ Balance = balance - free + burnt + Cardinality(Spent) + Cardinality(InHand)

Money == HeldBy /\ GoodBefore /\ Accounts

(* Naming the elements of a finite set by pairs does not change their       *)
(* number.                                                                  *)
LEMMA PairsCounted ==
  ASSUME NEW S, IsFiniteSet(S), NEW f
  PROVE  /\ IsFiniteSet({<<x, f[x]>> : x \in S})
         /\ Cardinality({<<x, f[x]>> : x \in S}) = Cardinality(S)
<1> DEFINE T == {<<x, f[x]>> : x \in S}
           g == [x \in S |-> <<x, f[x]>>]
<1>1. g \in Bijection(S, T)
  <2>1. g \in [S -> T] /\ \A x, y \in S : g[x] = g[y] => x = y
    OBVIOUS
  <2>2. \A t \in T : \E x \in S : g[x] = t
    OBVIOUS
  <2> HIDE DEF g, T
  <2> QED BY <2>1, <2>2 DEF Bijection, Injection, Surjection, IsInjective
<1>2. ExistsBijection(S, T)
  BY <1>1 DEF ExistsBijection
<1> HIDE DEF T, g
<1>3. IsFiniteSet(T) /\ Cardinality(T) = Cardinality(S)
  BY <1>2, FS_Bijection
<1> QED BY <1>3 DEF T

(* A chunk writes one row for each number it pays for.                      *)
LEMMA FreshCounted ==
  ASSUME NEW P, IsFiniteSet(P)
  PROVE  IsFiniteSet(Fresh(P)) /\ Cardinality(Fresh(P)) = Cardinality(P)
<1> DEFINE f == [p \in P |-> Cardinality(Written(p)) + 1]
<1>1. Fresh(P) = {<<p, f[p]>> : p \in P}
  BY DEF Fresh
<1> HIDE DEF f
<1> QED BY <1>1, PairsCounted

(* What is spent, element by element ...                                    *)
LEMMA SpentElements ==
  ASSUME Typed, NEW e
  PROVE  e \in Spent <=> \E r \in Row, k \in Nat : /\ e = <<r, k>>
                                                   /\ refunds[r] < k /\ k <= charges[r]
<1>1. \A r \in Row : \A k : k \in refunds[r] + 1 .. charges[r] <=>
                              k \in Nat /\ refunds[r] < k /\ k <= charges[r]
  BY DEF Typed
<1> QED BY <1>1 DEF Spent

(* ... and after a step.                                                    *)
LEMMA SpentElementsNext ==
  ASSUME Typed', NEW e
  PROVE  e \in Spent' <=> \E r \in Row, k \in Nat : /\ e = <<r, k>>
                                                    /\ refunds'[r] < k /\ k <= charges'[r]
<1>1. \A r \in Row : \A k : k \in refunds'[r] + 1 .. charges'[r] <=>
                              k \in Nat /\ refunds'[r] < k /\ k <= charges'[r]
  BY DEF Typed
<1> QED BY <1>1 DEF Spent

(* Charging rows spends a unit for each ...                                 *)
LEMMA ChargedSpent ==
  ASSUME Typed, Typed', Paid, IsFiniteSet(Spent), refunds' = refunds,
         NEW R \in SUBSET Row, IsFiniteSet(R),
         charges' = [r \in Row |-> IF r \in R THEN charges[r] + 1 ELSE charges[r]]
  PROVE  IsFiniteSet(Spent)' /\ Cardinality(Spent)' = Cardinality(Spent) + Cardinality(R)
<1> DEFINE f == [r \in R |-> charges[r] + 1]
           N == {<<r, f[r]>> : r \in R}
<1>1. \A r \in Row : /\ charges[r] \in Nat /\ refunds[r] \in Nat /\ refunds[r] <= charges[r]
                     /\ charges'[r] = IF r \in R THEN charges[r] + 1 ELSE charges[r]
  BY DEF Typed, Paid
<1>2. \A r \in Row, k \in Nat : <<r, k>> \in N <=> r \in R /\ k = charges[r] + 1
  OBVIOUS
<1>3. \A e \in N : \E r \in Row, k \in Nat : e = <<r, k>>
  BY <1>1
<1> HIDE DEF N
<1>4. ASSUME NEW e PROVE e \in Spent' <=> e \in Spent \cup N
  <2>1. e \in Spent' <=> \E r \in Row, k \in Nat : /\ e = <<r, k>>
                                                   /\ refunds'[r] < k /\ k <= charges'[r]
    BY SpentElementsNext
  <2> QED BY <1>1, <1>2, <1>3, <2>1, SpentElements
<1>5. ASSUME NEW e \in N PROVE e \notin Spent
  BY <1>1, <1>2, <1>3, <1>5, SpentElements
<1>6. Spent' = Spent \cup N /\ Spent \cap N = {}
  BY <1>4, <1>5
<1>7. IsFiniteSet(N) /\ Cardinality(N) = Cardinality(R)
  <2> HIDE DEF f
  <2> QED BY PairsCounted DEF N
<1>8. /\ IsFiniteSet(Spent \cup N)
      /\ Cardinality(Spent \cup N) = Cardinality(Spent) + Cardinality(N) - Cardinality({})
  BY <1>6, <1>7, FS_Union
<1>9. Cardinality(Spent) \in Nat /\ Cardinality(N) \in Nat /\ Cardinality({}) = 0
  BY <1>7, FS_CardinalityType, FS_EmptySet
<1> QED BY <1>6, <1>7, <1>8, <1>9

(* ... and refunding one takes a unit back.                                 *)
LEMMA RefundedSpent ==
  ASSUME Typed, Typed', IsFiniteSet(Spent), charges' = charges,
         NEW r \in Row, refunds[r] < charges[r], refunds' = [refunds EXCEPT ![r] = @ + 1]
  PROVE  /\ IsFiniteSet(Spent)' /\ Cardinality(Spent)' = Cardinality(Spent) - 1
         /\ Cardinality(Spent) \in Nat
<1>1. \A s \in Row : /\ charges[s] \in Nat /\ refunds[s] \in Nat
                     /\ refunds'[s] = IF s = r THEN refunds[r] + 1 ELSE refunds[s]
  BY DEF Typed
<1> DEFINE u == <<r, refunds[r] + 1>>
<1>2. u \in Spent
  BY <1>1, SpentElements
<1>3. ASSUME NEW e PROVE e \in Spent' <=> e \in Spent \ {u}
  <2>1. e \in Spent' <=> \E s \in Row, k \in Nat : /\ e = <<s, k>>
                                                   /\ refunds'[s] < k /\ k <= charges'[s]
    BY SpentElementsNext
  <2> QED BY <1>1, <2>1, SpentElements
<1>4. Spent' = Spent \ {u}
  BY <1>3
<1> HIDE DEF u
<1> QED BY <1>2, <1>4, FS_RemoveElement, FS_CardinalityType

(* What a chunk holds are as many units.                                    *)
LEMMA UnitsCounted ==
  ASSUME NEW c, NEW n \in Nat
  PROVE  IsFiniteSet({c} \X (1 .. n)) /\ Cardinality({c} \X (1 .. n)) = n
<1>1. IsFiniteSet(1 .. n) /\ Cardinality(1 .. n) = n
  BY FS_Interval
<1>2. IsFiniteSet({c}) /\ Cardinality({c}) = 1
  BY FS_Singleton
<1>3. /\ IsFiniteSet({c} \X (1 .. n))
      /\ Cardinality({c} \X (1 .. n)) = Cardinality({c}) * Cardinality(1 .. n)
  BY <1>1, <1>2, FS_Product
<1>4. Cardinality({c} \X (1 .. n)) = 1 * n
  BY <1>1, <1>2, <1>3
<1> QED BY <1>3, <1>4

(* A chunk that takes or gives up money changes its own part.               *)
LEMMA HeldChanges ==
  ASSUME Typed, IsFiniteSet(InHand), NEW c \in Chunk, NEW n \in Nat,
         held' = [held EXCEPT ![c] = n]
  PROVE  /\ IsFiniteSet(InHand)'
         /\ Cardinality(InHand)' = Cardinality(InHand) - held[c] + n
         /\ Cardinality(InHand) \in Nat /\ held[c] \in Nat
<1> DEFINE others == UNION {{d} \X (1 .. held[d]) : d \in Chunk \ {c}}
           old == {c} \X (1 .. held[c])
           new == {c} \X (1 .. n)
<1>1. held[c] \in Nat /\ held'[c] = n /\ \A d \in Chunk \ {c} : held'[d] = held[d]
  BY DEF Typed, TypeOK
<1>2. InHand = others \cup old
  BY DEF InHand
<1>3. InHand' = others \cup new
  BY <1>1 DEF InHand
<1>4. others \cap old = {} /\ others \cap new = {}
  OBVIOUS
<1>5. /\ IsFiniteSet(old) /\ Cardinality(old) = held[c]
      /\ IsFiniteSet(new) /\ Cardinality(new) = n
  BY <1>1, UnitsCounted
<1> HIDE DEF others, old, new
<1>6. IsFiniteSet(others)
  <2>1. others \in SUBSET InHand
    BY <1>2
  <2> QED BY <2>1, FS_Subset
<1>7. Cardinality(others) \in Nat /\ Cardinality({}) = 0
  BY <1>6, FS_CardinalityType, FS_EmptySet
<1>8. Cardinality(InHand) = Cardinality(others) + held[c]
  <2>1. Cardinality(others \cup old) = Cardinality(others) + Cardinality(old) - Cardinality({})
    BY <1>4, <1>5, <1>6, FS_Union
  <2> QED BY <1>1, <1>2, <1>5, <1>7, <2>1
<1>9. IsFiniteSet(InHand)' /\ Cardinality(InHand)' = Cardinality(others) + n
  <2>1. /\ IsFiniteSet(others \cup new)
        /\ Cardinality(others \cup new) = Cardinality(others) + Cardinality(new) - Cardinality({})
    BY <1>4, <1>5, <1>6, FS_Union
  <2> QED BY <1>3, <1>5, <1>7, <2>1
<1> QED BY <1>1, <1>7, <1>8, <1>9

(* A chunk that writes rows pays for them with what it holds, or with what  *)
(* is left of the balance; what it pays for a number it passes over burns.  *)
LEMMA WriterAccounts ==
  ASSUME Typed, Typed', Rows, Paid, HeldBy, Accounts, NEW c \in Chunk, WriterStep(c)
  PROVE  Accounts'
<1>1. /\ UNCHANGED <<free, refunds>> /\ {balance, balance', free, burnt, burnt'} \subseteq Nat
      /\ Balance \in Nat
  BY BoundAssumption DEF WriterStep, Prefail, Write, ChargeSome, Rest, PayFor, Typed, TypeOK
<1>2. /\ IsFiniteSet(Spent) /\ IsFiniteSet(InHand)
      /\ Cardinality(Spent) \in Nat /\ Cardinality(InHand) \in Nat
      /\ Balance = balance - free + burnt + Cardinality(Spent) + Cardinality(InHand)
  BY FS_CardinalityType DEF Accounts
<1>3. CASE Prefail(c) \/ Rest(c)
  <2>1. UNCHANGED <<balance, charges, refunds, held, burnt>>
    BY <1>3 DEF Prefail, Rest
  <2>2. Spent' = Spent /\ InHand' = InHand
    BY <2>1 DEF Spent, InHand
  <2> QED BY <1>1, <1>2, <2>1, <2>2 DEF Accounts
<1>4. CASE Write(c)
  <2>1. /\ held' = [held EXCEPT ![c] = 0] /\ held[c] = Cardinality(todo[c])
        /\ balance' = balance /\ burnt' = burnt
        /\ charges' = [r \in Row |-> IF r \in Fresh(todo[c]) THEN charges[r] + 1
                                     ELSE charges[r]]
    BY <1>4 DEF Write, PayFor, HeldBy
  <2>2. todo[c] \in SUBSET todo[c] /\ IsFiniteSet(todo[c])
    BY WorkFinite
  <2>3. Fresh(todo[c]) \in SUBSET Row
    BY <2>2, FreshPlaces
  <2>4. IsFiniteSet(Fresh(todo[c])) /\ Cardinality(Fresh(todo[c])) = Cardinality(todo[c])
    BY <2>2, FreshCounted
  <2>5. IsFiniteSet(Spent)' /\ Cardinality(Spent)' = Cardinality(Spent) + held[c]
    BY <1>1, <1>2, <2>1, <2>3, <2>4, ChargedSpent
  <2>6. /\ IsFiniteSet(InHand)' /\ Cardinality(InHand)' = Cardinality(InHand) - held[c] + 0
        /\ held[c] \in Nat
    BY <1>2, <2>1, HeldChanges
  <2> QED BY <1>1, <1>2, <2>1, <2>5, <2>6 DEF Accounts
<1>5. CASE ChargeSome(c)
  <2>1. PICK P, E, F \in SUBSET todo[c] :
          /\ {Cardinality(P), Cardinality(F)} \subseteq Nat
          /\ balance' = balance - (Cardinality(P) + Cardinality(F))
          /\ burnt' = burnt + Cardinality(F) /\ PayFor(Fresh(P))
    BY <1>5, SomeCharged
  <2>2. charges' = [r \in Row |-> IF r \in Fresh(P) THEN charges[r] + 1 ELSE charges[r]]
    BY <2>1 DEF PayFor
  <2>3. IsFiniteSet(P)
    BY WorkFinite
  <2>4. Fresh(P) \in SUBSET Row
    BY FreshPlaces
  <2>5. IsFiniteSet(Fresh(P)) /\ Cardinality(Fresh(P)) = Cardinality(P)
    BY <2>3, FreshCounted
  <2>6. IsFiniteSet(Spent)' /\ Cardinality(Spent)' = Cardinality(Spent) + Cardinality(P)
    BY <1>1, <1>2, <2>2, <2>4, <2>5, ChargedSpent
  <2>7. InHand' = InHand
    BY <1>5 DEF ChargeSome, InHand
  <2> QED BY <1>1, <1>2, <2>1, <2>6, <2>7 DEF Accounts
<1> QED BY <1>3, <1>4, <1>5 DEF WriterStep

(* A charge is held, a failed chunk gives it back or it burns.              *)
LEMMA QuietAccounts ==
  ASSUME Typed, Typed', HeldBy, Accounts, NEW c \in Chunk, QuietStep(c)
  PROVE  Accounts'
<1>1. Spent' = Spent
  BY DEF QuietStep, Start, StartBy, Charge, ChargeBy, Push, Close, Fail, FailBy, DbError, Kill,
     Timeout, rowVars, Spent
<1>2. /\ IsFiniteSet(Spent) /\ IsFiniteSet(InHand)
      /\ Cardinality(Spent) \in Nat /\ Cardinality(InHand) \in Nat
      /\ Balance = balance - free + burnt + Cardinality(Spent) + Cardinality(InHand)
  BY FS_CardinalityType DEF Accounts
<1>3. /\ {balance, free, burnt, balance', free', burnt'} \subseteq Nat /\ Balance \in Nat
      /\ held[c] \in Nat /\ charged[c] \in Nat
  BY BoundAssumption DEF Typed, TypeOK
<1>4. CASE Start(c) \/ Push(c) \/ Close(c) \/ DbError(c)
  <2>1. UNCHANGED <<balance, free, burnt, held>>
    BY <1>4 DEF Start, StartBy, Push, Close, DbError
  <2> QED BY <1>1, <1>2, <2>1 DEF Accounts, InHand
<1>5. CASE Charge(c)
  <2>1. /\ balance' = balance - Cardinality(todo[c]) /\ UNCHANGED <<free, burnt>>
        /\ held' = [held EXCEPT ![c] = Cardinality(todo[c])] /\ held[c] = 0
    BY <1>3, <1>5 DEF Charge, ChargeBy, HeldBy
  <2>2. Cardinality(todo[c]) \in Nat
    BY WorkFinite
  <2>3. /\ IsFiniteSet(InHand)'
        /\ Cardinality(InHand)' = Cardinality(InHand) - held[c] + Cardinality(todo[c])
    BY <1>2, <2>1, <2>2, HeldChanges
  <2> QED BY <1>1, <1>2, <1>3, <2>1, <2>2, <2>3 DEF Accounts
<1>6. CASE Fail(c) \/ Kill(c) \/ Timeout(c)
  <2>1. held' = [held EXCEPT ![c] = 0]
    BY <1>6 DEF Fail, FailBy, Kill, Timeout
  <2>2. IsFiniteSet(InHand)' /\ Cardinality(InHand)' = Cardinality(InHand) - held[c] + 0
    BY <1>2, <2>1, HeldChanges
  <2>3. held[c] > 0 => held[c] = charged[c]
    BY DEF HeldBy
  <2>4. balance' - free' + burnt' = balance - free + burnt + held[c]
    <3>1. CASE Kill(c) \/ Timeout(c)
      BY <1>3, <3>1 DEF Kill, Timeout
    <3>2. CASE Fail(c)
      BY <1>3, <2>3, <3>2 DEF Fail, FailBy
    <3> QED BY <1>6, <3>1, <3>2
  <2> QED BY <1>1, <1>2, <1>3, <2>2, <2>4 DEF Accounts
<1> QED BY <1>4, <1>5, <1>6 DEF QuietStep

(* A refund gives back what a row has cost, unless it was refunded.         *)
LEMMA RefundAccounts ==
  ASSUME Typed, Typed', Paid, Accounts, NEW r \in priced, Refund(r),
         UNCHANGED <<charges, held, free, burnt>>
  PROVE  Accounts'
<1>1. /\ IsFiniteSet(Spent) /\ IsFiniteSet(InHand)
      /\ Cardinality(Spent) \in Nat /\ Cardinality(InHand) \in Nat
      /\ Balance = balance - free + burnt + Cardinality(Spent) + Cardinality(InHand)
  BY FS_CardinalityType DEF Accounts
<1>2. {balance, free, burnt} \subseteq Nat /\ Balance \in Nat /\ r \in Row
  BY BoundAssumption DEF Typed, TypeOK
<1>3. InHand' = InHand
  BY DEF InHand
<1>4. CASE r \in refunded
  <2>1. UNCHANGED <<balance, refunds>>
    BY <1>4 DEF Refund, RefundBy
  <2> QED BY <1>1, <1>3, <2>1 DEF Accounts, Spent
<1>5. CASE r \notin refunded
  <2>1. refunds' = [refunds EXCEPT ![r] = @ + 1] /\ balance' = balance + 1
    BY <1>5 DEF Refund, RefundBy
  <2>2. refunds[r] < charges[r]
    BY <1>2, <1>5 DEF Paid, Typed
  <2>3. /\ IsFiniteSet(Spent)' /\ Cardinality(Spent)' = Cardinality(Spent) - 1
    BY <1>1, <1>2, <2>1, <2>2, RefundedSpent
  <2> QED BY <1>1, <1>2, <1>3, <2>1, <2>3 DEF Accounts
<1> QED BY <1>4, <1>5

(* Retries charge row by row, administrators and the queue's refusals       *)
(* refund.                                                                  *)
LEMMA OtherAccounts ==
  ASSUME Typed, Typed', Paid, Accounts, OtherStep
  PROVE  Accounts'
<1>1. UNCHANGED <<held, free, burnt>>
  BY DEF OtherStep, Submit, AdminRefund, RetryRead, RetryCharge, RetryPush, RetryEnd, Cancel,
     LockExpires, chunkVars
<1>2. CASE UNCHANGED <<balance, charges, refunds>>
  BY <1>1, <1>2 DEF Accounts, Spent, InHand
<1>3. ASSUME NEW r \in Row, AdminRefund(r) PROVE Accounts'
  <2>1. r \in priced /\ Refund(r) /\ charges' = charges
    BY <1>3 DEF AdminRefund
  <2> QED BY <1>1, <2>1, RefundAccounts
<1>4. ASSUME NEW q \in Request, RetryPush(q) PROVE Accounts'
  <2>1. PICK r \in pick[q] : Refund(r) \/ UNCHANGED <<balance, refunds>>
    BY <1>4 DEF RetryPush
  <2>2. charges' = charges /\ r \in priced
    BY <1>4, <2>1 DEF RetryPush, Paid
  <2> QED BY <1>1, <1>2, <2>1, <2>2, RefundAccounts
<1>5. ASSUME NEW q \in Request, RetryCharge(q) PROVE Accounts'
  <2>1. PICK R \in SUBSET pick[q] :
          /\ balance' = balance - Cardinality(R)
          /\ charges' = [r \in Row |-> IF r \in R THEN charges[r] + 1 ELSE charges[r]]
    BY <1>5 DEF RetryCharge, kSubset
  <2>2. refunds' = refunds /\ R \in SUBSET Row
    BY <1>5 DEF RetryCharge, Typed, TypeOK
  <2>3. IsFiniteSet(R) /\ Cardinality(R) \in Nat
    BY WorkFinite
  <2>4. IsFiniteSet(Spent) /\ Cardinality(Spent) \in Nat /\ Cardinality(InHand) \in Nat
    BY FS_CardinalityType DEF Accounts
  <2>5. IsFiniteSet(Spent)' /\ Cardinality(Spent)' = Cardinality(Spent) + Cardinality(R)
    BY <2>1, <2>2, <2>3, <2>4, ChargedSpent
  <2>6. {balance, free, burnt} \subseteq Nat /\ InHand' = InHand
    BY <1>1 DEF Typed, TypeOK, InHand
  <2> QED BY <1>1, <2>1, <2>3, <2>4, <2>5, <2>6 DEF Accounts
<1>6. ASSUME NEW q \in Request, RetryRead(q) \/ RetryEnd(q) PROVE Accounts'
  <2>1. UNCHANGED <<balance, charges, refunds>>
    BY <1>6 DEF RetryRead, RetryEnd, rowVars
  <2> QED BY <1>2, <2>1
<1>7. ASSUME Cancel \/ LockExpires \/ \E r \in Row : Submit(r) PROVE Accounts'
  <2>1. UNCHANGED <<balance, charges, refunds>>
    BY <1>7 DEF Cancel, LockExpires, Submit, rowVars
  <2> QED BY <1>2, <2>1
<1> QED BY <1>3, <1>4, <1>5, <1>6, <1>7 DEF OtherStep

(* Only a charge makes a chunk hold money, and only its rows or the end of  *)
(* the run make it let go.                                                  *)
LEMMA ChunkHeld ==
  ASSUME Typed, HeldBy, NEW c \in Chunk, WriterStep(c) \/ QuietStep(c)
  PROVE  HeldBy'
<1>1. \A d \in Chunk : d # c => /\ pc'[d] = pc[d] /\ held'[d] = held[d]
                                /\ charged'[d] = charged[d] /\ todo'[d] = todo[d]
  BY DEF WriterStep, Prefail, Write, ChargeSome, Rest, QuietStep, Start, StartBy, Charge,
     ChargeBy, Push, Close, Fail, FailBy, DbError, Kill, Timeout, Goto, Typed, TypeOK
<1>2. Cardinality(todo[c]) \in Nat
  BY WorkFinite
<1>3. /\ held'[c] > 0 => pc'[c] \in {"write", "failing"} /\ held'[c] = charged'[c]
      /\ pc'[c] = "write" => held'[c] = Cardinality(todo'[c])
  BY <1>2 DEF WriterStep, Prefail, Write, ChargeSome, Rest, QuietStep, Start, StartBy, Charge,
     ChargeBy, Push, Close, Fail, FailBy, DbError, Kill, Timeout, Goto, Typed, TypeOK, HeldBy
<1> QED BY <1>1, <1>3 DEF HeldBy

(* What a step that writes rows leaves alone of other chunks' numbers.      *)
LEMMA WriterKeeps ==
  ASSUME Typed, Rows, NEW c \in Chunk, WriterStep(c)
  PROVE  /\ \A d \in Chunk : SomeWritten(d) => SomeWritten(d)'
         /\ \A d \in Chunk \ {c} : SomeWritten(d)' => SomeWritten(d)
<1>1. PICK P \in SUBSET todo[c], s \in {"pending", "failed"} :
           status' = [r \in Row |-> IF r \in Fresh(P) THEN s ELSE status[r]]
  BY WriterWrites
<1>2. s \in RowStatus \ {"none"}
  BY DEF RowStatus
<1>3. /\ \A p \in P : Written(p)' # {}
      /\ \A p \in Number \ P : Written(p)' = Written(p)
  BY <1>1, <1>2, FreshWritten
<1>4. \A p \in P : Of[p] = c
  BY FreshPlaces
<1> QED BY <1>3, <1>4 DEF SomeWritten

(* A chunk is good at its start for what an earlier run has written.        *)
LEMMA ChunkGood ==
  ASSUME Typed, Typed', Rows, HeldBy, GoodBefore, NEW c \in Chunk, WriterStep(c) \/ QuietStep(c)
  PROVE  GoodBefore'
<1>1. \A d \in Chunk : SomeWritten(d) => SomeWritten(d)'
  <2>1. CASE QuietStep(c)
    <3>1. status' = status
      BY <2>1 DEF QuietStep, Start, StartBy, Charge, ChargeBy, Push, Close, Fail, FailBy,
         DbError, Kill, Timeout, rowVars
    <3>2. \A p \in Number : Written(p)' = Written(p)
      BY <3>1, WrittenKept
    <3> QED BY <3>2 DEF SomeWritten
  <2> QED BY <2>1, WriterKeeps
<1>2. \A d \in Chunk : d # c /\ SomeWritten(d)' => SomeWritten(d)
  <2>1. CASE QuietStep(c)
    <3>1. status' = status
      BY <2>1 DEF QuietStep, Start, StartBy, Charge, ChargeBy, Push, Close, Fail, FailBy,
         DbError, Kill, Timeout, rowVars
    <3>2. \A p \in Number : Written(p)' = Written(p)
      BY <3>1, WrittenKept
    <3> QED BY <3>2 DEF SomeWritten
  <2> QED BY <2>1, WriterKeeps
<1>3. \A d \in Chunk : d # c => /\ pc'[d] = pc[d] /\ held'[d] = held[d]
                                /\ tries'[d] = tries[d] /\ (d \in good' <=> d \in good)
  BY DEF WriterStep, Prefail, Write, ChargeSome, Rest, QuietStep, Start, StartBy, Charge,
     ChargeBy, Push, Close, Fail, FailBy, DbError, Kill, Timeout, Goto, Typed, TypeOK
<1>4. /\ crashed => crashed'
      /\ tries[c] > 0 => tries'[c] > 0
      /\ skipped \subseteq skipped'
  BY DEF WriterStep, Prefail, Write, ChargeSome, Rest, QuietStep, Start, StartBy, Charge,
     ChargeBy, Push, Close, Fail, FailBy, DbError, Kill, Timeout, Typed, TypeOK
<1>5. pc'[c] = "queued" => RunAgain(c)'
  BY BoundAssumption DEF WriterStep, Prefail, Write, ChargeSome, Rest, QuietStep, Start, StartBy,
     Charge, ChargeBy, Push, Close, Fail, FailBy, DbError, Kill, Timeout, Goto, Typed, TypeOK,
     RunAgain
<1>6. c \in good' /\ (pc'[c] \in {"prefail", "charge", "write"} \/ held'[c] > 0)
        => RunAgain(c) /\ SomeWritten(c)
  <2>1. SUFFICES ASSUME c \in good', pc'[c] \in {"prefail", "charge", "write"} \/ held'[c] > 0
                 PROVE  RunAgain(c) /\ SomeWritten(c)
    OBVIOUS
  <2>2. CASE Start(c)
    <3>1. pc[c] = "queued" /\ held'[c] = held[c] /\ held[c] = 0
      BY <2>2 DEF Start, StartBy, HeldBy, Typed, TypeOK
    <3>2. \E p \in Number \ Bare : Written(p) # {} /\ Of[p] = c
      BY <2>1, <2>2, <3>1 DEF Start, StartBy, Goto, Typed, TypeOK
    <3> QED BY <3>1, <3>2 DEF GoodBefore, SomeWritten
  <2>3. CASE ~Start(c)
    <3>1. /\ c \in good
          /\ pc[c] \in {"prefail", "charge", "write"} \/ held[c] > 0
      BY <2>1, <2>3 DEF WriterStep, Prefail, Write, ChargeSome, Rest, QuietStep, Charge, ChargeBy,
         Push, Close, Fail, FailBy, DbError, Kill, Timeout, Goto, HeldBy, Typed, TypeOK
    <3> QED BY <3>1 DEF GoodBefore
  <2> QED BY <2>2, <2>3
<1>7. burnt' > 0 => \/ crashed' \/ skipped' # {}
                    \/ \E d \in good' : tries'[d] > 0 /\ SomeWritten(d)'
  <2>1. SUFFICES ASSUME burnt' > 0, ~crashed', skipped' = {}
                 PROVE  \E d \in good' : tries'[d] > 0 /\ SomeWritten(d)'
    OBVIOUS
  <2>2. CASE burnt > 0
    <3>1. PICK d \in good : tries[d] > 0 /\ SomeWritten(d)
      BY <1>4, <2>1, <2>2 DEF GoodBefore
    <3>2. d \in Chunk /\ tries'[d] > 0 /\ SomeWritten(d)'
      BY <1>1, <1>3, <1>4, <3>1 DEF Typed, TypeOK
    <3>3. d \in good'
      BY <3>1, <3>2 DEF WriterStep, Prefail, Write, ChargeSome, Rest, QuietStep, Start, StartBy,
         Charge, ChargeBy, Push, Close, Fail, FailBy, DbError, Kill, Timeout, SomeWritten
    <3> QED BY <3>2, <3>3
  <2>3. CASE ~(burnt > 0)
    <3>0. ~ChargeSome(c)
      <4>1. SUFFICES ASSUME ChargeSome(c) PROVE FALSE
        OBVIOUS
      <4>2. PICK E \in SUBSET todo[c] : (E = {} => burnt' = burnt) /\ skipped' = skipped \cup E
        BY <4>1, SomeCharged
      <4> QED BY <2>1, <2>3, <4>2
    <3>1. Fail(c) /\ held[c] > 0 /\ c \in good /\ good' = good
      BY <2>1, <2>3, <3>0 DEF WriterStep, Prefail, Write, Rest, QuietStep, Start, StartBy,
         Charge, ChargeBy, Push, Close, Fail, FailBy, DbError, Kill, Timeout, HeldBy, Typed, TypeOK
    <3>2. RunAgain(c) /\ SomeWritten(c)
      BY <3>1 DEF GoodBefore
    <3>3. tries[c] > 0
      BY <1>4, <2>1, <3>2 DEF RunAgain
    <3> QED BY <1>1, <1>4, <3>1, <3>2, <3>3
  <2> QED BY <2>2, <2>3
<1>8. \A d \in Chunk : RunAgain(d) => RunAgain(d)'
  BY <1>3, <1>4 DEF RunAgain
<1>9. ASSUME NEW d \in Chunk, pc'[d] = "queued", SomeWritten(d)' PROVE RunAgain(d)'
  BY <1>2, <1>3, <1>5, <1>8, <1>9 DEF GoodBefore
<1>10. ASSUME NEW d \in good', pc'[d] \in {"prefail", "charge", "write"} \/ held'[d] > 0
       PROVE  RunAgain(d)' /\ SomeWritten(d)'
  <2>1. d \in Chunk
    BY DEF Typed, TypeOK
  <2> QED BY <1>1, <1>3, <1>6, <1>8, <1>10, <2>1 DEF GoodBefore
<1> QED BY <1>7, <1>9, <1>10 DEF GoodBefore

(* Nobody else touches what a chunk has and knows.                          *)
LEMMA OtherMoney ==
  ASSUME Typed, Rows, HeldBy, GoodBefore, OtherStep
  PROVE  HeldBy' /\ GoodBefore'
<1>1. UNCHANGED chunkVars
  BY DEF OtherStep, Submit, AdminRefund, RetryRead, RetryCharge, RetryPush, RetryEnd, Cancel,
     LockExpires
<1>2. \A r \in Row : status'[r] = status[r]
                       \/ (status[r] # "none" /\ status'[r] # "none")
  BY DEF OtherStep, Submit, AdminRefund, RetryRead, RetryCharge, RetryPush, RetryEnd, Cancel,
     LockExpires, rowVars, kSubset, Typed, TypeOK, Rows, WrittenFirst
<1>3. \A p \in Number : Written(p)' = Written(p)
  BY <1>2, WrittenKept
<1>4. \A c \in Chunk : /\ SomeWritten(c)' <=> SomeWritten(c)
                       /\ RunAgain(c)' <=> RunAgain(c)
  BY <1>1, <1>3 DEF chunkVars, SomeWritten, RunAgain
<1>5. HeldBy'
  BY <1>1 DEF chunkVars, HeldBy
<1>6. GoodBefore'
  <2>1. good \subseteq Chunk
    BY DEF Typed, TypeOK
  <2> QED BY <1>1, <1>4, <2>1 DEF chunkVars, GoodBefore
<1> QED BY <1>5, <1>6

(* What is gone from the balance is the price of rows that were not paid    *)
(* back, or held by a chunk that is about to write them; only a crash, a    *)
(* number passed over, or a chunk whose earlier run has written rows, burns *)
(* money.                                                                   *)
THEOREM MoneyCorrect == Spec => []MoneyBack
<1>1. Init => Money
  <2>1. SUFFICES ASSUME Init PROVE Money
    OBVIOUS
  <2>2. HeldBy
    BY <2>1 DEF Init, HeldBy
  <2>3. GoodBefore
    <3>1. \A p \in Number : Written(p) = {}
      BY <2>1 DEF Init, Written, Row
    <3> QED BY <2>1, <3>1 DEF Init, GoodBefore, SomeWritten
  <2>4. Accounts
    <3>1. Spent = {}
      <4>1. \A r \in Row : refunds[r] + 1 .. charges[r] = {}
        BY <2>1 DEF Init
      <4> QED BY <4>1 DEF Spent
    <3>2. InHand = {}
      <4>1. \A c \in Chunk : 1 .. held[c] = {}
        BY <2>1 DEF Init
      <4> QED BY <4>1 DEF InHand
    <3>3. Balance = Balance - 0 + 0 + 0 + 0
      BY BoundAssumption
    <3> QED BY <2>1, <3>1, <3>2, <3>3, FS_EmptySet DEF Init, Accounts
  <2> QED BY <2>2, <2>3, <2>4 DEF Money
<1>2. ASSUME Typed, Typed', Rows, Paid, Money, [Next]_vars PROVE Money'
  <2>1. CASE OtherStep
    BY <1>2, <2>1, OtherMoney, OtherAccounts DEF Money
  <2>2. ASSUME NEW c \in Chunk, WriterStep(c) \/ QuietStep(c) PROVE Money'
    BY <1>2, <2>2, ChunkHeld, ChunkGood, WriterAccounts, QuietAccounts DEF Money
  <2>3. CASE UNCHANGED vars
    <3>1. Spent' = Spent /\ InHand' = InHand
      BY <2>3, Stutters DEF Spent, InHand
    <3>2. Accounts' /\ HeldBy'
      BY <1>2, <2>3, <3>1, Stutters DEF Money, Accounts, HeldBy
    <3>3. GoodBefore'
      BY <1>2, <2>3, Stutters DEF Money, GoodBefore, SomeWritten, RunAgain
    <3> QED BY <3>2, <3>3 DEF Money
  <2> QED BY <1>2, <2>1, <2>2, <2>3, NextSteps
<1>3. Money => MoneyBack
  BY DEF Money, Accounts, GoodBefore, MoneyBack
<1>4. Typed /\ Rows /\ (Typed /\ Rows)' /\ Paid /\ Money /\ [Next]_vars => Money'
  BY <1>2
<1> QED BY <1>1, <1>3, <1>4, RowsCorrect, AlwaysPaid, PTL DEF Spec
===============================================================================
