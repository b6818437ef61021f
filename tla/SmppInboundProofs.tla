--------------------------- MODULE SmppInboundProofs ---------------------------
(***************************************************************************)
(* Theorems about SmppInbound, for every set of sessions and submissions   *)
(* and every bound: the registry holds a bound session once and no other,  *)
(* and no delivery report gets out of sight. From SessionAssumption and    *)
(* BoundAssumption.                                                        *)
(***************************************************************************)
EXTENDS SmppInbound, SequenceTheorems, TLAPS

-----------------------------------------------------------------------------
(* The invariants *)

Step == {"idle", "pick", "push", "save", "ack"}

(* What a dispatcher has in hand is a report there is; only the consumer    *)
(* has something to acknowledge.                                            *)
Dealing ==
  /\ hand \in [Dispatcher -> made \cup {NoReport}] /\ at \in [Dispatcher -> Step]
  /\ \A p \in Dispatcher : at[p] = "ack" => p = "consumer"

Typed == TypeOK /\ Dealing

(* Its two halves: the registry, and the reports with those who carry them. *)
RegistryOK ==
  /\ pc \in [Session -> {"none", "admit", "evict", "add", "bound"}]
  /\ gone \subseteq Session /\ closed \subseteq Session
  /\ reg \in Seq(Session) /\ IsInjective(reg) /\ \A s \in ToSet(reg) : pc[s] = "bound"
ReportsOK ==
  /\ job \in [Job -> {"none", "grouped", "queued", "posted", "done"}]
  /\ made \subseteq Report /\ broker \subseteq made /\ pending \subseteq made
  /\ \A p \in Dispatcher : (hand[p] = NoReport) = (at[p] = "idle")
  /\ Dealing

(* The consumer acknowledges a report that was written to the customer or   *)
(* to the database, or lost in the attempt.                                 *)
Settled == at["consumer"] = "ack" => hand["consumer"] \in pending \cup got \cup lost

Kept == Settled /\ ReportKept

-----------------------------------------------------------------------------
(* The steps, by who takes them *)

SessionStep == \E s \in Session : Connect(s) \/ Leave(s) \/ Serve(s)
DispatchStep == \E p \in Dispatcher : Dispatch(p)
ReportStep ==
  \/ \E r \in Report : Expire(r) \/ Consume(r)
  \/ \E j \in Job : RealReport(j)
  \/ Ack \/ LinkLoss
JobStep ==
  \/ \E j \in Job : Work(j) \/ EvictGroup(j)
  \/ \E s \in Session, j \in Job : SubmitSM(s, j) \/ FirstSegment(s, j)

(* Every step is one of these.                                              *)
LEMMA NextSteps ==
  ASSUME Next
  PROVE  SessionStep \/ DispatchStep \/ ReportStep \/ JobStep \/ Restart
BY DEF Next, SessionStep, DispatchStep, ReportStep, JobStep

(* TypeOK is about the registry and the reports, and about nothing else.    *)
LEMMA TypedParts == Typed <=> RegistryOK /\ ReportsOK
BY DEF Typed, TypeOK, RegistryOK, ReportsOK

(* A report is never taken for no report.                                   *)
LEMMA ReportIsSome == \A r \in Report : r # NoReport
<1> SUFFICES ASSUME NEW j \in Job, NEW k \in {"rejected", "real"} PROVE <<j, k>> # <<>>
  BY DEF Report, NoReport
<1> QED OBVIOUS

-----------------------------------------------------------------------------
(* The registry: a sequence without repetition *)

(* The oldest session goes (EvictOldest).                                   *)
LEMMA TailOfDistinct ==
  ASSUME NEW q \in Seq(Session), IsInjective(q), q # <<>>
  PROVE  /\ Tail(q) \in Seq(Session) /\ IsInjective(Tail(q))
         /\ ToSet(Tail(q)) \subseteq ToSet(q)
<1>1. /\ Tail(q) \in Seq(Session) /\ Len(Tail(q)) = Len(q) - 1 /\ Len(q) \in Nat
      /\ \A i \in 1..Len(Tail(q)) : Tail(q)[i] = q[i + 1]
  BY HeadTailProperties, LenProperties
<1>2. DOMAIN q = 1..Len(q) /\ DOMAIN Tail(q) = 1..Len(Tail(q))
  BY <1>1, LenProperties
<1>3. \A i \in DOMAIN Tail(q) : i + 1 \in DOMAIN q
  BY <1>1, <1>2
<1>4. IsInjective(Tail(q))
  <2> SUFFICES ASSUME NEW a \in DOMAIN Tail(q), NEW b \in DOMAIN Tail(q),
                      Tail(q)[a] = Tail(q)[b]
               PROVE  a = b
    BY DEF IsInjective
  <2>1. a + 1 = b + 1
    BY <1>1, <1>2, <1>3 DEF IsInjective
  <2> QED BY <1>1, <1>2, <2>1
<1> QED BY <1>1, <1>2, <1>3, <1>4 DEF ToSet

(* A session is added that is not there (Add).                              *)
LEMMA AppendToDistinct ==
  ASSUME NEW q \in Seq(Session), IsInjective(q), NEW s \in Session, s \notin ToSet(q)
  PROVE  /\ Append(q, s) \in Seq(Session) /\ IsInjective(Append(q, s))
         /\ ToSet(Append(q, s)) = ToSet(q) \cup {s}
<1> DEFINE t == Append(q, s)
<1>1. /\ t \in Seq(Session) /\ Len(t) = Len(q) + 1 /\ Len(q) \in Nat
      /\ \A i \in 1..Len(q) : t[i] = q[i]
      /\ t[Len(q) + 1] = s
  BY AppendProperties, LenProperties
<1>2. DOMAIN q = 1..Len(q) /\ DOMAIN t = 1..(Len(q) + 1)
  BY <1>1, LenProperties
<1>3. \A i \in DOMAIN t : \/ i \in DOMAIN q /\ t[i] = q[i] /\ t[i] # s
                          \/ i = Len(q) + 1 /\ t[i] = s
  BY <1>1, <1>2 DEF ToSet
<1>4. IsInjective(t)
  BY <1>3 DEF IsInjective
<1>5. ToSet(t) = ToSet(q) \cup {s}
  <2>1. ToSet(t) \subseteq ToSet(q) \cup {s}
    BY <1>3 DEF ToSet
  <2>2. \A i \in DOMAIN q : i \in DOMAIN t /\ t[i] = q[i]
    BY <1>1, <1>2
  <2>3. Len(q) + 1 \in DOMAIN t
    BY <1>1, <1>2
  <2> QED BY <1>1, <2>1, <2>2, <2>3 DEF ToSet
<1> QED BY <1>1, <1>4, <1>5

(* A session goes that has ended, or it is not there any more (Remove).     *)
LEMMA RemoveFromDistinct ==
  ASSUME NEW q \in Seq(Session), IsInjective(q), NEW s \in Session
  PROVE  /\ RemoveFirst(q, s) \in Seq(Session) /\ IsInjective(RemoveFirst(q, s))
         /\ ToSet(RemoveFirst(q, s)) = ToSet(q) \ {s}
<1>1. Len(q) \in Nat /\ DOMAIN q = 1..Len(q) /\ \A i \in 1..Len(q) : q[i] \in Session
  BY LenProperties
<1>2. CASE s \notin ToSet(q)
  <2>1. RemoveFirst(q, s) = q
    BY <1>1, <1>2 DEF RemoveFirst, ToSet
  <2> QED BY <1>2, <2>1
<1>3. CASE s \in ToSet(q)
  <2>1. PICK k \in 1..Len(q) : q[k] = s
    BY <1>1, <1>3 DEF ToSet
  <2> DEFINE u == SubSeq(q, 1, k - 1)  v == SubSeq(q, k + 1, Len(q))
  <2>2. RemoveFirst(q, s) = u \o v
    <3>1. {i \in 1..Len(q) : q[i] = s} = {k}
      BY <1>1, <2>1 DEF IsInjective
    <3>2. (CHOOSE x \in {k} : \A y \in {k} : x <= y) = k
      BY <2>1
    <3> QED BY <2>1, <3>1, <3>2 DEF RemoveFirst, RemoveAt, SelectInSeq, Min
  <2>3. /\ u \in Seq(Session) /\ Len(u) = k - 1
        /\ \A i \in 1..(k - 1) : u[i] = q[i]
    BY <1>1, SubSeqProperties
  <2>4. /\ v \in Seq(Session) /\ Len(v) = Len(q) - k
        /\ \A i \in 1..(Len(q) - k) : v[i] = q[i + k]
    <3>1. k + 1 \in Int /\ Len(q) \in Int /\ \A i \in (k + 1)..Len(q) : q[i] \in Session
      BY <1>1
    <3>2. /\ v \in Seq(Session)
          /\ Len(v) = IF k + 1 <= Len(q) THEN Len(q) - (k + 1) + 1 ELSE 0
          /\ \A i \in 1..(Len(q) - (k + 1) + 1) : v[i] = q[(k + 1) + i - 1]
      BY <3>1, SubSeqProperties
    <3> HIDE DEF v
    <3>3. Len(v) = Len(q) - k
      <4>1. CASE k + 1 <= Len(q)
        BY <1>1, <3>2, <4>1
      <4>2. CASE ~(k + 1 <= Len(q))
        <5>1. Len(v) = 0 /\ k = Len(q)
          <6>1. Len(v) = 0
            BY <3>2, <4>2
          <6>2. k = Len(q)
            <7>1. \A n \in Nat : \A j \in 1..n : j + 1 <= n \/ j = n
              OBVIOUS
            <7> QED BY <1>1, <4>2, <7>1
          <6> QED BY <6>1, <6>2
        <5> QED BY <1>1, <5>1
      <4> QED BY <4>1, <4>2
    <3>4. ASSUME NEW i \in 1..(Len(q) - k) PROVE v[i] = q[i + k]
      <4>1. i \in 1..(Len(q) - (k + 1) + 1) /\ (k + 1) + i - 1 = i + k
        BY <1>1
      <4> QED BY <3>2, <4>1
    <3> QED BY <3>2, <3>3, <3>4
  <2> DEFINE t == u \o v
  <2>5. /\ t \in Seq(Session) /\ Len(t) = Len(q) - 1
        /\ \A i \in 1..(Len(q) - 1) : t[i] = IF i < k THEN q[i] ELSE q[i + 1]
    <3> HIDE DEF u, v
    <3>1. /\ t \in Seq(Session) /\ Len(t) = Len(u) + Len(v)
          /\ \A i \in 1..(Len(u) + Len(v)) : t[i] = IF i <= Len(u) THEN u[i] ELSE v[i - Len(u)]
      BY <2>3, <2>4, ConcatProperties
    <3>2. Len(t) = Len(q) - 1
      BY <1>1, <2>3, <2>4, <3>1
    <3> SUFFICES ASSUME NEW i \in 1..(Len(q) - 1)
                 PROVE  t[i] = IF i < k THEN q[i] ELSE q[i + 1]
      BY <3>1, <3>2
    <3>3. t[i] = IF i <= k - 1 THEN u[i] ELSE v[i - (k - 1)]
      BY <1>1, <2>3, <2>4, <3>1
    <3>4. CASE i < k
      BY <2>3, <3>3, <3>4
    <3>5. CASE ~(i < k)
      <4>1. i - (k - 1) \in 1..(Len(q) - k) /\ (i - (k - 1)) + k = i + 1
        BY <1>1, <3>5
      <4> QED BY <2>4, <3>3, <3>5, <4>1
    <3> QED BY <3>4, <3>5
  <2> HIDE DEF t
  <2>6. DOMAIN t = 1..(Len(q) - 1)
    BY <2>5, LenProperties
  <2>7. IsInjective(t)
    <3> SUFFICES ASSUME NEW a \in 1..(Len(q) - 1), NEW b \in 1..(Len(q) - 1), t[a] = t[b]
                 PROVE  a = b
      BY <2>6 DEF IsInjective
    <3>1. \A i \in 1..(Len(q) - 1) : i \in DOMAIN q /\ i + 1 \in DOMAIN q
      BY <1>1
    <3>2. \E i, j \in DOMAIN q : /\ q[i] = q[j]
                              /\ i = (IF a < k THEN a ELSE a + 1)
                              /\ j = (IF b < k THEN b ELSE b + 1)
      <4>1. (IF a < k THEN a ELSE a + 1) \in DOMAIN q /\ (IF b < k THEN b ELSE b + 1) \in DOMAIN q
        BY <3>1
      <4>2. t[a] = q[IF a < k THEN a ELSE a + 1] /\ t[b] = q[IF b < k THEN b ELSE b + 1]
        BY <2>5
      <4> QED BY <4>1, <4>2
    <3>3. (IF a < k THEN a ELSE a + 1) = (IF b < k THEN b ELSE b + 1)
      BY <3>2 DEF IsInjective
    <3> QED BY <1>1, <3>3
  <2>8. ToSet(t) = ToSet(q) \ {s}
    <3>1. ASSUME NEW i \in DOMAIN t PROVE t[i] \in ToSet(q) \ {s}
      <4>1. PICK j \in 1..Len(q) : j # k /\ t[i] = q[j]
        BY <1>1, <2>5, <2>6
      <4> QED BY <1>1, <2>1, <4>1 DEF IsInjective, ToSet
    <3>2. ASSUME NEW j \in 1..Len(q), j # k PROVE \E i \in DOMAIN t : t[i] = q[j]
      <4>1. CASE j < k
        BY <1>1, <2>5, <2>6, <4>1
      <4>2. CASE j > k
        <5>1. j - 1 \in 1..(Len(q) - 1) /\ ~(j - 1 < k) /\ (j - 1) + 1 = j
          BY <1>1, <4>2
        <5> QED BY <2>5, <2>6, <5>1
      <4> QED BY <3>2, <4>1, <4>2
    <3> QED BY <1>1, <2>1, <3>1, <3>2 DEF ToSet
  <2> QED BY <2>2, <2>5, <2>7, <2>8 DEF t
<1> QED BY <1>2, <1>3

-----------------------------------------------------------------------------
(* Types *)

(* Binding, eviction, draining and the end of a session (handleSession):    *)
(* whoever adds itself to the registry was not in it.                       *)
LEMMA SessionTyped ==
  ASSUME RegistryOK, SessionStep
  PROVE  RegistryOK'
<1> USE DEF RegistryOK
<1>1. PICK s \in Session : Connect(s) \/ Leave(s) \/ Serve(s)
  BY DEF SessionStep
<1>0. ToSet(reg) \subseteq Session
  BY LenProperties DEF ToSet
<1>2. CASE Connect(s)
  <2>1. /\ pc[s] = "none" /\ pc' = [pc EXCEPT ![s] = "admit"]
        /\ closed' = closed \ {s} /\ gone' = gone /\ reg' = reg
    BY <1>2 DEF Connect, At
  <2> QED BY <2>1
<1>3. CASE Leave(s)
  BY <1>3 DEF Leave
<1>4. CASE SeeFull(s) \/ SeeRoom(s)
  <2>1. /\ pc[s] = "admit" /\ (pc' = [pc EXCEPT ![s] = "evict"] \/ pc' = [pc EXCEPT ![s] = "add"])
        /\ UNCHANGED <<closed, gone, reg>>
    BY <1>4 DEF SeeFull, SeeRoom, At
  <2> QED BY <1>0, <2>1
<1>5. CASE EvictOldest(s)
  <2>1. /\ pc[s] = "evict" /\ gone' = gone
        /\ (pc' = [pc EXCEPT ![s] = "add"] \/ pc' = [pc EXCEPT ![s] = "admit"])
    BY <1>5 DEF EvictOldest, At
  <2>2. CASE reg = <<>>
    <3>1. reg' = reg /\ closed' = closed
      BY <1>5, <2>2 DEF EvictOldest
    <3> QED BY <1>0, <2>1, <3>1
  <2>3. CASE reg # <<>>
    <3>1. reg' = Tail(reg) /\ closed' = closed \cup {Head(reg)}
      BY <1>5, <2>3 DEF EvictOldest
    <3>2. Head(reg) \in Session
      BY <2>3, HeadTailProperties
    <3>3. /\ reg' \in Seq(Session) /\ IsInjective(reg') /\ ToSet(reg') \subseteq ToSet(reg)
      BY <2>3, <3>1, TailOfDistinct
    <3>4. \A r \in ToSet(reg') : pc'[r] = "bound"
      BY <1>0, <2>1, <3>3
    <3> QED BY <2>1, <3>1, <3>2, <3>3, <3>4
  <2> QED BY <2>2, <2>3
<1>6. CASE Add(s)
  <2>1. /\ pc[s] = "add" /\ pc' = [pc EXCEPT ![s] = "bound"]
        /\ reg' = Append(reg, s) /\ UNCHANGED <<closed, gone>>
    BY <1>6 DEF Add, At
  <2>2. s \notin ToSet(reg)
    BY <2>1
  <2>3. /\ reg' \in Seq(Session) /\ IsInjective(reg') /\ ToSet(reg') = ToSet(reg) \cup {s}
    BY <2>1, <2>2, AppendToDistinct
  <2> QED BY <2>1, <2>3
<1>7. CASE End(s)
  <2>1. /\ pc' = [pc EXCEPT ![s] = "none"] /\ reg' = RemoveFirst(reg, s)
        /\ closed' = closed \cup {s} /\ gone' = gone \ {s}
    BY <1>7 DEF End, EndBy, At
  <2>2. /\ reg' \in Seq(Session) /\ IsInjective(reg') /\ ToSet(reg') = ToSet(reg) \ {s}
    BY <2>1, RemoveFromDistinct
  <2> QED BY <2>1, <2>2
<1>8. CASE Load(s) \/ DrainStops(s) \/ Drain(s)
  BY <1>8 DEF Load, DrainStops, Drain, DrainBy
<1> QED BY <1>1, <1>2, <1>3, <1>4, <1>5, <1>6, <1>7, <1>8 DEF Serve

(* A session carries no report: it deletes rows of the database.            *)
LEMMA SessionReports ==
  ASSUME ReportsOK, SessionStep
  PROVE  ReportsOK'
<1>1. UNCHANGED <<job, made, broker, hand, at>> /\ pending' \subseteq pending
  <2>1. PICK s \in Session : Connect(s) \/ Leave(s) \/ Serve(s)
    BY DEF SessionStep
  <2>2. CASE Drain(s)
    BY <2>2 DEF Drain, DrainBy, jobVars, dlrVars
  <2> QED BY <2>1, <2>2 DEF Connect, Leave, Serve, SeeFull, EvictOldest, SeeRoom, Add, End,
       EndBy, Load, DrainStops, jobVars, dlrVars
<1> QED BY <1>1 DEF ReportsOK, Dealing

(* A dispatcher takes its report to a session, to the database, and lets go *)
(* of it.                                                                   *)
LEMMA DispatchReports ==
  ASSUME ReportsOK, DispatchStep
  PROVE  ReportsOK'
<1> USE DEF ReportsOK, Dealing
<1>1. PICK p \in Dispatcher : Pick(p) \/ Push(p) \/ Save(p)
  BY DEF DispatchStep, Dispatch
<1>2. UNCHANGED <<job, made, broker>> /\ pending' \in {pending, pending \cup {hand[p]}}
  BY <1>1 DEF Pick, Push, Save, jobVars
<1>3. hand[p] # NoReport
  BY <1>1 DEF Pick, Push, Save, Turn
<1>4. PICK to \in Step : /\ at' = [at EXCEPT ![p] = to] /\ (to = "ack" => p = "consumer")
                         /\ hand' = [hand EXCEPT ![p] = IF to = "idle" THEN NoReport ELSE @]
  <2>1. CASE Pick(p)
    BY <2>1 DEF Pick, Turn, Step
  <2>2. CASE Push(p)
    <3>1. PICK ok \in BOOLEAN : LET to == IF ok THEN After(p) ELSE "save"
                                IN Turn(p, "push", to) /\ Held(p, to)
      BY <2>2 DEF Push
    <3> QED BY <3>1 DEF Turn, Held, After, Step
  <2>3. CASE Save(p)
    BY <2>3 DEF Save, Turn, Held, After, Step
  <2> QED BY <1>1, <2>1, <2>2, <2>3
<1>5. /\ hand' \in [Dispatcher -> made' \cup {NoReport}] /\ at' \in [Dispatcher -> Step]
      /\ \A q \in Dispatcher : at'[q] = "ack" => q = "consumer"
  BY <1>2, <1>4
<1>6. \A q \in Dispatcher : (hand'[q] = NoReport) = (at'[q] = "idle")
  BY <1>3, <1>4
<1>7. pending' \subseteq made'
  BY <1>2, <1>3
<1> QED BY <1>2, <1>5, <1>6, <1>7

(* Reports are made, delivered to the consumer, acknowledged, delivered     *)
(* again, and expire.                                                       *)
LEMMA ReportReports ==
  ASSUME ReportsOK, ReportStep
  PROVE  ReportsOK'
<1> USE DEF ReportsOK, Dealing
<1>1. ASSUME NEW r \in Report, Expire(r) PROVE ReportsOK'
  BY <1>1 DEF Expire, jobVars, dlrVars
<1>2. ASSUME NEW r \in Report, Consume(r) PROVE ReportsOK'
  <2>1. /\ UNCHANGED <<job, made, pending>> /\ r \in made /\ broker' \subseteq broker
        /\ at' = [at EXCEPT !["consumer"] = "pick"]
        /\ hand' = [hand EXCEPT !["consumer"] = r]
    BY <1>2 DEF Consume, jobVars, Turn
  <2>2. r # NoReport
    BY ReportIsSome
  <2> QED BY <2>1, <2>2 DEF Step
<1>3. ASSUME NEW j \in Job, RealReport(j) PROVE ReportsOK'
  <2>1. <<j, "real">> \in Report
    BY DEF Report
  <2> QED BY <1>3, <2>1 DEF RealReport, jobVars, dlrVars
<1>4. CASE Ack
  <2>1. /\ UNCHANGED <<job, made, broker, pending>>
        /\ at' = [at EXCEPT !["consumer"] = "idle"]
        /\ hand' = [hand EXCEPT !["consumer"] = NoReport]
    BY <1>4 DEF Ack, jobVars, Turn, Held
  <2> QED BY <2>1 DEF Step
<1>5. CASE LinkLoss
  <2>1. hand["consumer"] \in made
    BY <1>5 DEF LinkLoss, Dispatcher
  <2> QED BY <1>5, <2>1 DEF LinkLoss, jobVars, dlrVars
<1> QED BY <1>1, <1>2, <1>3, <1>4, <1>5 DEF ReportStep

(* A dispatcher that is free begins with a report of its own                *)
(* (publishRejectDLR).                                                      *)
LEMMA RejectReports ==
  ASSUME ReportsOK, NEW p \in Dispatcher, NEW j \in Job, Reject(p, "idle", j),
         job' \in [Job -> {"none", "grouped", "queued", "posted", "done"}],
         UNCHANGED <<broker, pending>>
  PROVE  ReportsOK'
<1> DEFINE r == <<j, "rejected">>
<1>1. r \in Report /\ r # NoReport
  BY ReportIsSome DEF Report
<1>2. /\ at' = [at EXCEPT ![p] = "pick"] /\ hand' = [hand EXCEPT ![p] = r]
      /\ made' = made \cup {r}
  BY DEF Reject, Turn
<1> HIDE DEF r
<1> QED BY <1>1, <1>2 DEF ReportsOK, Dealing, Step

(* A submission is taken, forwarded, posted, or rejected by a report.       *)
LEMMA JobReports ==
  ASSUME ReportsOK, JobStep
  PROVE  ReportsOK'
<1> USE DEF ReportsOK, Dealing
<1>1. ASSUME NEW s \in Session, NEW j \in Job, SubmitSM(s, j) \/ FirstSegment(s, j)
      PROVE  ReportsOK'
  BY <1>1 DEF SubmitSM, FirstSegment, dlrVars
<1>2. ASSUME NEW j \in Job, EvictGroup(j) \/ TakeJob(j) \/ Accepted(j) PROVE ReportsOK'
  BY <1>2 DEF EvictGroup, TakeJob, Accepted, dlrVars
<1>3. ASSUME NEW j \in Job, Forward(j) PROVE ReportsOK'
  <2>1. /\ job' \in [Job -> {"none", "grouped", "queued", "posted", "done"}]
        /\ UNCHANGED <<broker, pending>>
        /\ UNCHANGED <<hand, at, made>> \/ Reject("reassembly", "idle", j)
    BY <1>3 DEF Forward, ForwardBy
  <2> QED BY <2>1, RejectReports DEF Dispatcher
<1>4. ASSUME NEW j \in Job, Refused(j) PROVE ReportsOK'
  <2>1. /\ job' \in [Job -> {"none", "grouped", "queued", "posted", "done"}]
        /\ UNCHANGED <<broker, pending>> /\ Reject("worker", "idle", j)
    BY <1>4 DEF Refused
  <2> QED BY <2>1, RejectReports DEF Dispatcher
<1> QED BY <1>1, <1>2, <1>3, <1>4 DEF JobStep, Work

(* Only sessions change the registry, except for the end of the process.    *)
LEMMA RegistryStays ==
  ASSUME DispatchStep \/ ReportStep \/ JobStep
  PROVE  UNCHANGED sessVars
BY DEF DispatchStep, Dispatch, Pick, Push, Save, ReportStep, Expire, Consume, RealReport, Ack,
   LinkLoss, JobStep, Work, Forward, ForwardBy, TakeJob, Accepted, Refused, EvictGroup,
   SubmitSM, FirstSegment

(* The process ends: what the consumer had in hand is delivered again.      *)
LEMMA RestartTyped ==
  ASSUME RegistryOK, ReportsOK, Restart
  PROVE  RegistryOK' /\ ReportsOK'
<1>1. RegistryOK'
  <2>1. ToSet(<<>>) = {} /\ IsInjective(<<>>) /\ <<>> \in Seq(Session)
    BY DEF ToSet, IsInjective
  <2> QED BY <2>1 DEF Restart, RegistryOK
<1>2. ReportsOK'
  <2>1. /\ made' = made /\ pending' = pending /\ broker' = broker \cup ({hand["consumer"]} \ {NoReport})
        /\ at' = [p \in Dispatcher |-> "idle"] /\ hand' = [p \in Dispatcher |-> NoReport]
    BY DEF Restart
  <2>2. hand["consumer"] \in made \cup {NoReport}
    BY DEF ReportsOK, Dealing, Dispatcher
  <2>3. job' \in [Job -> {"none", "grouped", "queued", "posted", "done"}]
    BY DEF Restart, ReportsOK
  <2> QED BY <2>1, <2>2, <2>3 DEF ReportsOK, Dealing, Step
<1> QED BY <1>1, <1>2

(* The types, and what the dispatchers deal with, always.                   *)
LEMMA AlwaysTyped == Spec => []Typed
<1>1. Init => Typed
  <2> SUFFICES ASSUME Init PROVE Typed
    OBVIOUS
  <2>1. ToSet(<<>>) = {} /\ IsInjective(<<>>) /\ <<>> \in Seq(Session)
    BY DEF ToSet, IsInjective
  <2>2. RegistryOK
    BY <2>1 DEF Init, RegistryOK
  <2>3. ReportsOK
    BY DEF Init, ReportsOK, Dealing, Step
  <2> QED BY <2>2, <2>3, TypedParts
<1>2. Typed /\ [Next]_vars => Typed'
  <2> SUFFICES ASSUME Typed, [Next]_vars PROVE Typed'
    OBVIOUS
  <2>0. RegistryOK /\ ReportsOK
    BY TypedParts
  <2> SUFFICES RegistryOK' /\ ReportsOK'
    BY DEF Typed, TypeOK, RegistryOK, ReportsOK, Dealing
  <2>1. CASE UNCHANGED vars
    <3>1. UNCHANGED <<pc, gone, closed, reg>> /\ UNCHANGED <<job, made, broker, pending, hand, at>>
      BY <2>1 DEF vars, sessVars, jobVars, dlrVars
    <3> QED BY <2>0, <3>1 DEF RegistryOK, ReportsOK, Dealing
  <2>2. CASE SessionStep
    BY <2>0, <2>2, SessionTyped, SessionReports
  <2>3. CASE DispatchStep \/ ReportStep \/ JobStep
    <3>1. UNCHANGED <<pc, gone, closed, reg>>
      BY <2>3, RegistryStays DEF sessVars
    <3>2. RegistryOK'
      BY <2>0, <3>1 DEF RegistryOK
    <3> QED BY <2>0, <2>3, <3>2, DispatchReports, ReportReports, JobReports
  <2>4. CASE Restart
    BY <2>0, <2>4, RestartTyped
  <2> QED BY <2>1, <2>2, <2>3, <2>4, NextSteps
<1> QED BY <1>1, <1>2, PTL DEF Spec

(* TypeOK: the registry holds no session twice and none that has ended, and *)
(* a dispatcher is busy exactly as long as it has a report.                 *)
THEOREM TypeCorrect == Spec => []TypeOK
<1>1. Typed => TypeOK
  BY DEF Typed
<1> QED BY <1>1, AlwaysTyped, PTL

-----------------------------------------------------------------------------
(* No report gets out of sight *)

Stored == pending \cup got \cup lost

(* A write to a session leaves the report with the customer or loses it.    *)
LEMMA PushedStored ==
  ASSUME NEW s, NEW r, NEW ok \in BOOLEAN, Pushed(s, r, ok)
  PROVE  /\ got \subseteq got' /\ lost \subseteq lost'
         /\ ok => r \in got' \cup lost'
BY DEF Pushed

(* A row is deleted when it has been pushed, and not before                 *)
(* (drainPendingDLRs).                                                      *)
LEMMA SessionKept ==
  ASSUME Kept, SessionStep
  PROVE  Kept'
<1>1. UNCHANGED <<made, broker, hand, at>> /\ Stored \subseteq Stored'
  <2>1. PICK s \in Session : Connect(s) \/ Leave(s) \/ Serve(s)
    BY DEF SessionStep
  <2>2. CASE Drain(s)
    <3>1. PICK ok \in BOOLEAN :
            /\ Pushed(s, Head(drain[s]), ok)
            /\ pending' = IF ok THEN pending \ {Head(drain[s])} ELSE pending
      BY <2>2 DEF Drain, DrainBy
    <3>2. Stored \subseteq Stored'
      BY <3>1, PushedStored DEF Stored
    <3> QED BY <2>2, <3>2 DEF Drain, DrainBy, dlrVars
  <2> QED BY <2>1, <2>2 DEF Connect, Leave, Serve, SeeFull, EvictOldest, SeeRoom, Add, End,
       EndBy, Load, DrainStops, dlrVars, Stored
<1> QED BY <1>1 DEF Kept, Settled, ReportKept, Stored

(* Whoever lets go of a report has written it (dispatchDLRPayload).         *)
LEMMA DispatchKept ==
  ASSUME Typed, Kept, DispatchStep
  PROVE  Kept'
<1>1. PICK p \in Dispatcher : Pick(p) \/ Push(p) \/ Save(p)
  BY DEF DispatchStep, Dispatch
<1>2. UNCHANGED <<made, broker>>
  BY <1>1 DEF Pick, Push, Save
<1>3. /\ Stored \subseteq Stored'
      /\ \A q \in Dispatcher \ {p} : hand'[q] = hand[q] /\ at'[q] = at[q]
      /\ \/ hand'[p] = hand[p] /\ at'[p] \notin {"ack", "idle"}
         \/ hand'[p] \in {hand[p], NoReport} /\ hand[p] \in Stored'
            /\ (at'[p] = "ack" => hand'[p] = hand[p])
  <2> USE DEF Typed, Dealing
  <2>1. CASE Pick(p)
    BY <2>1 DEF Pick, Turn, Stored
  <2>2. CASE Push(p)
    <3>1. PICK ok \in BOOLEAN :
            /\ Pushed(sel[p], hand[p], ok)
            /\ Turn(p, "push", IF ok THEN After(p) ELSE "save")
            /\ Held(p, IF ok THEN After(p) ELSE "save")
      BY <2>2 DEF Push
    <3>2. Stored \subseteq Stored' /\ (ok => hand[p] \in Stored')
      BY <2>2, <3>1, PushedStored DEF Push, Stored
    <3> QED BY <3>1, <3>2 DEF Turn, Held, After
  <2>3. CASE Save(p)
    BY <2>3 DEF Save, Turn, Held, After, Stored
  <2> QED BY <1>1, <2>1, <2>2, <2>3
<1>4. Settled'
  BY <1>3 DEF Kept, Settled, Dispatcher, Stored
<1>5. ReportKept'
  <2> SUFFICES ASSUME NEW r \in made
               PROVE  r \in broker \cup {hand'[q] : q \in Dispatcher} \cup Stored'
    BY <1>2 DEF ReportKept, Stored
  <2>1. r \in broker \cup {hand[q] : q \in Dispatcher} \cup Stored
    BY DEF Kept, ReportKept, Stored
  <2>2. CASE r = hand[p]
    BY <1>3, <2>2
  <2>3. CASE r # hand[p]
    BY <1>3, <2>1, <2>3
  <2> QED BY <2>2, <2>3
<1> QED BY <1>4, <1>5 DEF Kept

(* The consumer takes up a report and lets go of it when it is settled.     *)
LEMMA ReportStepKept ==
  ASSUME Typed, Kept, ReportStep
  PROVE  Kept'
<1> USE DEF Typed, TypeOK, Dealing
<1>1. ASSUME NEW r \in Report, Expire(r) PROVE Kept'
  BY <1>1 DEF Expire, dlrVars, Kept, Settled, ReportKept
<1>2. ASSUME NEW r \in Report, Consume(r) PROVE Kept'
  <2>1. /\ UNCHANGED <<made, pending, got, lost>> /\ broker' = broker \ {r}
        /\ at["consumer"] = "idle" /\ at' = [at EXCEPT !["consumer"] = "pick"]
        /\ hand' = [hand EXCEPT !["consumer"] = r]
    BY <1>2 DEF Consume, Turn
  <2>2. hand["consumer"] = NoReport /\ NoReport \notin made
    BY <2>1, ReportIsSome DEF Dispatcher
  <2>3. \A q \in Dispatcher : hand'[q] = IF q = "consumer" THEN r ELSE hand[q]
    BY <2>1
  <2>4. ReportKept'
    <3> SUFFICES ASSUME NEW x \in made
                 PROVE  x \in broker' \cup {hand'[q] : q \in Dispatcher} \cup Stored
      BY <2>1 DEF ReportKept, Stored
    <3>1. x \in broker \cup {hand[q] : q \in Dispatcher} \cup Stored
      BY DEF Kept, ReportKept, Stored
    <3>2. CASE x = r
      BY <2>3, <3>2 DEF Dispatcher
    <3>3. CASE x # r
      BY <2>1, <2>2, <2>3, <3>1, <3>3
    <3> QED BY <3>2, <3>3
  <2>5. Settled'
    BY <2>1 DEF Settled, Dispatcher
  <2> QED BY <2>4, <2>5 DEF Kept
<1>3. ASSUME NEW j \in Job, RealReport(j) PROVE Kept'
  <2>1. /\ made' = made \cup {<<j, "real">>} /\ broker' = broker \cup {<<j, "real">>}
        /\ UNCHANGED <<hand, at, pending, got, lost>>
    BY <1>3 DEF RealReport, dlrVars
  <2> QED BY <2>1 DEF Kept, Settled, ReportKept
<1>4. CASE Ack
  <2>1. /\ UNCHANGED <<made, broker, pending, got, lost>> /\ at["consumer"] = "ack"
        /\ at' = [at EXCEPT !["consumer"] = "idle"]
        /\ hand' = [hand EXCEPT !["consumer"] = NoReport]
    BY <1>4 DEF Ack, Turn, Held
  <2>2. hand["consumer"] \in Stored
    BY <2>1 DEF Kept, Settled, Stored
  <2>3. \A q \in Dispatcher : q # "consumer" => hand'[q] = hand[q]
    BY <2>1
  <2>4. ReportKept'
    <3> SUFFICES ASSUME NEW x \in made
                 PROVE  x \in broker \cup {hand'[q] : q \in Dispatcher} \cup Stored
      BY <2>1 DEF ReportKept, Stored
    <3>1. x \in broker \cup {hand[q] : q \in Dispatcher} \cup Stored
      BY DEF Kept, ReportKept, Stored
    <3> QED BY <2>2, <2>3, <3>1
  <2> QED BY <2>1, <2>4 DEF Kept, Settled, Dispatcher
<1>5. CASE LinkLoss
  BY <1>5 DEF LinkLoss, dlrVars, Kept, Settled, ReportKept
<1> QED BY <1>1, <1>2, <1>3, <1>4, <1>5 DEF ReportStep

(* A dispatcher that begins with a report of its own had none.              *)
LEMMA JobKept ==
  ASSUME Typed, Kept, JobStep
  PROVE  Kept'
<1> USE DEF Typed, TypeOK, Dealing
<1>1. UNCHANGED <<broker, pending, got, lost>>
  BY DEF JobStep, Work, Forward, ForwardBy, TakeJob, Accepted, Refused, EvictGroup, SubmitSM,
     FirstSegment
<1>2. \/ UNCHANGED <<hand, at, made>>
      \/ \E p \in {"worker", "reassembly"}, j \in Job : Reject(p, "idle", j)
  BY DEF JobStep, Work, Forward, ForwardBy, TakeJob, Accepted, Refused, EvictGroup, SubmitSM,
     FirstSegment, dlrVars
<1>3. CASE UNCHANGED <<hand, at, made>>
  BY <1>1, <1>3 DEF Kept, Settled, ReportKept
<1>4. ASSUME NEW p \in {"worker", "reassembly"}, NEW j \in Job, Reject(p, "idle", j)
      PROVE  Kept'
  <2> DEFINE r == <<j, "rejected">>
  <2>1. /\ p \in Dispatcher /\ p # "consumer" /\ at[p] = "idle"
        /\ at' = [at EXCEPT ![p] = "pick"] /\ hand' = [hand EXCEPT ![p] = r]
        /\ made' = made \cup {r}
    BY <1>4 DEF Reject, Turn, Dispatcher
  <2> HIDE DEF r
  <2>2. hand[p] = NoReport /\ NoReport \notin made
    BY <2>1, ReportIsSome
  <2>3. \A q \in Dispatcher : hand'[q] = IF q = p THEN r ELSE hand[q]
    BY <2>1
  <2>4. ReportKept'
    <3> SUFFICES ASSUME NEW x \in made \cup {r}
                 PROVE  x \in broker \cup {hand'[q] : q \in Dispatcher} \cup Stored
      BY <1>1, <2>1 DEF ReportKept, Stored
    <3>1. CASE x = r
      BY <2>1, <2>3, <3>1
    <3>2. CASE x # r
      <4>1. x \in broker \cup {hand[q] : q \in Dispatcher} \cup Stored /\ x # NoReport
        BY <2>2, <3>2 DEF Kept, ReportKept, Stored
      <4> QED BY <2>2, <2>3, <4>1
    <3> QED BY <3>1, <3>2
  <2> QED BY <1>1, <2>1, <2>4 DEF Kept, Settled, Dispatcher
<1> QED BY <1>2, <1>3, <1>4

(* Kept holds of every state.                                               *)
LEMMA AlwaysKept == Spec => []Kept
<1>1. Init => Kept
  BY DEF Init, Kept, Settled, ReportKept, Dispatcher
<1>2. Typed /\ Kept /\ [Next]_vars => Kept'
  <2> SUFFICES ASSUME Typed, Kept, [Next]_vars PROVE Kept'
    OBVIOUS
  <2>1. CASE UNCHANGED vars
    BY <2>1 DEF vars, dlrVars, Kept, Settled, ReportKept
  <2>2. CASE Restart
    <3>1. /\ at' = [q \in Dispatcher |-> "idle"] /\ UNCHANGED <<made, pending, got>>
          /\ broker' = broker \cup ({hand["consumer"]} \ {NoReport})
          /\ lost' = lost \cup ({hand["worker"], hand["reassembly"]} \ {NoReport})
      BY <2>2 DEF Restart
    <3>2. NoReport \notin made
      BY ReportIsSome DEF Typed, TypeOK
    <3>3. ReportKept'
      BY <3>1, <3>2 DEF Kept, ReportKept, Dispatcher
    <3> QED BY <3>1, <3>3 DEF Kept, Settled, Dispatcher
  <2> QED BY <2>1, <2>2, NextSteps, SessionKept, DispatchKept, ReportStepKept, JobKept
<1> QED BY <1>1, <1>2, AlwaysTyped, PTL DEF Spec

(* ReportKept: a report the customer has not got is in the broker, in       *)
(* somebody's hands or in smpp_pending_dlrs, or is accounted for as lost,   *)
(* through evictions, broken links and restarts.                            *)
THEOREM KeptCorrect == Spec => []ReportKept
<1>1. Kept => ReportKept
  BY DEF Kept
<1> QED BY <1>1, AlwaysKept, PTL
===============================================================================
