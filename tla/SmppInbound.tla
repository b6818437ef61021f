----------------------------- MODULE SmppInbound -----------------------------
(***************************************************************************)
(* The gateway as the SMSC of a customer: the sessions one system_id has   *)
(* bound, the submissions it makes over them and the delivery reports it   *)
(* is sent. A submission is answered once it is in the memory of the       *)
(* gateway; workers post it to the backend, and what fails there is told   *)
(* the customer by a REJECTD report. The backend's own reports come over   *)
(* RabbitMQ. A report goes to a session that can receive, or into          *)
(* smpp_pending_dlrs until the customer binds again.                       *)
(*                                                                         *)
(* The registry is behind a mutex, so each of its methods is one step. A   *)
(* session has a goroutine that reads and one that drains the pending      *)
(* reports. deliver_sm_resp is ignored: what was written counts as pushed. *)
(***************************************************************************)
EXTENDS Integers, Sequences, FiniteSets, SequencesExt

CONSTANTS
  Session, NoSession,
  Job,                    \* message ids the gateway has given out
  MaxBinds, DrainLimit,
  Kinds,                  \* the bind types the sessions may have
  FaultKinds, MaxFaults

ASSUME SessionAssumption == IsFiniteSet(Session) /\ NoSession \notin Session
ASSUME JobAssumption == IsFiniteSet(Job)
ASSUME BoundAssumption ==
  /\ {MaxBinds, DrainLimit} \subseteq Nat \ {0}
  /\ MaxFaults \in Nat
  /\ Kinds \subseteq [Session -> {"TX", "RX", "TRX"}]

Report == Job \X {"rejected", "real"}
NoReport == <<>>
\* The consumer of sms_inbound_dlr, the submit worker, and the goroutine that
\* hands a reassembled message to the queue.
Dispatcher == {"consumer", "worker", "reassembly"}

VARIABLES
  pc,        \* what handleSession is at
  kind,      \* bind type of each session
  gone,      \* sessions whose customer is no longer there
  closed,    \* sessions the gateway has closed
  reg,       \* inboundReg.bySystem, oldest first
  drain,     \* reports a draining session has yet to push
  job,       \* where each submission is
  charged,   \* submissions the backend has accepted
  made,      \* reports there are
  broker,    \* reports in sms_inbound_dlr
  hand,      \* the report each dispatcher deals with
  at,        \* and how far it has got
  sel,       \* the session it has picked
  pending,   \* smpp_pending_dlrs
  got,       \* reports that reached the customer
  lostJobs,  \* history: submissions and reports given up for a fault
  lost,
  faults     \* kinds of faults that have happened

sessVars == <<pc, kind, gone, closed, reg, drain>>
jobVars == <<job, charged, lostJobs>>
dlrVars == <<hand, at, sel>>
vars == <<sessVars, jobVars, dlrVars, made, broker, pending, got, lost, faults>>

\* A drain that is off, and one that has yet to load its rows.
Off == <<>>
Loading == <<NoReport>>

Fault(k) ==
  k \in FaultKinds \ faults /\ Cardinality(faults) < MaxFaults /\ faults' = faults \cup {k}

Init ==
  /\ pc = [s \in Session |-> "none"] /\ kind \in Kinds
  /\ gone = {} /\ closed = Session /\ reg = <<>> /\ drain = [s \in Session |-> Off]
  /\ job = [j \in Job |-> "none"] /\ charged = {} /\ made = {} /\ broker = {} /\ pending = {} /\ got = {}
  /\ hand = [p \in Dispatcher |-> NoReport] /\ at = [p \in Dispatcher |-> "idle"]
  /\ sel = [p \in Dispatcher |-> NoSession]
  /\ lostJobs = {} /\ lost = {} /\ faults = {}

-----------------------------------------------------------------------------
(* Sessions *)

At(s, here, there) == pc[s] = here /\ pc' = [pc EXCEPT ![s] = there]

Quiet(s) == drain[s] = Off /\ \A p \in Dispatcher : sel[p] # s

\* A customer connects and authenticates.
Connect(s) ==
  /\ Quiet(s) /\ At(s, "none", "admit")
  /\ closed' = closed \ {s}
  /\ UNCHANGED <<kind, gone, reg, drain, jobVars, dlrVars, made, broker, pending, got,
                 lost, faults>>

\* The bind limit: count, and while it is reached evict the oldest, each under
\* a lock of its own.
SeeFull(s) ==
  /\ Len(reg) >= MaxBinds /\ At(s, "admit", "evict")
  /\ UNCHANGED <<kind, gone, closed, reg, drain, jobVars, dlrVars, made, broker,
                 pending, got, lost, faults>>

EvictOldest(s) ==
  /\ At(s, "evict", IF reg = <<>> THEN "add" ELSE "admit")
  /\ reg' = IF reg = <<>> THEN reg ELSE Tail(reg)
  /\ closed' = IF reg = <<>> THEN closed ELSE closed \cup {Head(reg)}
  /\ UNCHANGED <<kind, gone, drain, jobVars, dlrVars, made, broker, pending, got,
                 lost, faults>>

SeeRoom(s) ==
  /\ Len(reg) < MaxBinds /\ At(s, "admit", "add")
  /\ UNCHANGED <<kind, gone, closed, reg, drain, jobVars, dlrVars, made, broker,
                 pending, got, lost, faults>>

\* A receiver starts to drain unless the reply cannot be written.
Add(s) ==
  /\ At(s, "add", "bound")
  /\ reg' = Append(reg, s)
  /\ \E replied \in IF s \in gone THEN BOOLEAN ELSE {TRUE} :
       drain' = IF replied /\ kind[s] # "TX" THEN [drain EXCEPT ![s] = Loading] ELSE drain
  /\ UNCHANGED <<kind, gone, closed, jobVars, dlrVars, made, broker, pending, got,
                 lost, faults>>

\* The customer unbinds, or its connection breaks and writes may still succeed.
Leave(s) ==
  /\ Fault("leave")
  /\ pc[s] \notin {"none"} /\ s \notin gone /\ gone' = gone \cup {s}
  /\ UNCHANGED <<pc, kind, closed, reg, drain, jobVars, dlrVars, made, broker, pending, got,
                 lost>>

\* Remove keeps every other session; the registry has this one at most once.
\* What must not happen: it stays in the registry.
EndBy(s, forgets) ==
  /\ s \in gone \cup closed /\ At(s, "bound", "none")
  /\ reg' = IF forgets THEN reg ELSE RemoveFirst(reg, s)
  /\ closed' = closed \cup {s} /\ gone' = gone \ {s}
  /\ UNCHANGED <<kind, drain, jobVars, dlrVars, made, broker, pending, got,
                 lost, faults>>
EndStays(s) == EndBy(s, TRUE)
End(s) == EndBy(s, FALSE)

-----------------------------------------------------------------------------
(* Pushing *)

Reached(s) == s \notin gone \cup closed

\* A write to s: it arrives, or fails, or is lost on its way to a customer who
\* has gone.
Pushed(s, r, ok) ==
  /\ (ok => s \notin closed) /\ (~ok => ~Reached(s))
  /\ got' = IF ok /\ Reached(s) THEN got \cup {r} ELSE got
  /\ lost' = IF ok /\ ~Reached(s) THEN lost \cup {r} ELSE lost

Load(s) ==
  /\ drain[s] = Loading
  /\ \/ \E some \in SUBSET pending :
          /\ Cardinality(some) <= DrainLimit
          /\ Cardinality(some) = DrainLimit \/ some = pending
          /\ drain' = [drain EXCEPT ![s] = SetToSeq(some)]
          /\ faults' = faults
     \/ Fault("load") /\ drain' = [drain EXCEPT ![s] = Off]
  /\ UNCHANGED <<pc, kind, gone, closed, reg, jobVars, dlrVars, made, broker,
                 pending, got, lost>>

Draining(s) == drain[s] \notin {Off, Loading}

DrainStops(s) ==
  /\ Draining(s) /\ s \in closed
  /\ drain' = [drain EXCEPT ![s] = Off]
  /\ UNCHANGED <<pc, kind, gone, closed, reg, jobVars, dlrVars, made, broker,
                 pending, got, lost, faults>>

\* A row is deleted when it has been pushed; the first failure ends the drain.
\* What must not happen: the row is deleted whatever becomes of the push, or
\* the drain ends with the first row.
DrainBy(s, deletes, once) ==
  /\ Draining(s)
  /\ \E ok \in BOOLEAN :
       /\ Pushed(s, Head(drain[s]), ok)
       /\ pending' = IF ok \/ deletes THEN pending \ {Head(drain[s])} ELSE pending
       /\ drain' = [drain EXCEPT ![s] = IF ok /\ ~once THEN Tail(@) ELSE Off]
  /\ UNCHANGED <<pc, kind, gone, closed, reg, jobVars, dlrVars, made, broker, faults>>
DrainDeletes(s) == DrainBy(s, TRUE, FALSE)
DrainOne(s) == DrainBy(s, FALSE, TRUE)
Drain(s) == DrainBy(s, FALSE, FALSE)

\* smpp_pending_dlr_cleanup, 24 h later.
Expire(r) ==
  /\ r \in pending /\ pending' = pending \ {r} /\ lost' = lost \cup {r}
  /\ UNCHANGED <<sessVars, jobVars, dlrVars, made, broker, got, faults>>

Turn(p, from, to) == at[p] = from /\ at' = [at EXCEPT ![p] = to]

\* PickReceiver: an RX session before a TRX session, no TX session, none that
\* is closed.
Receivers(k) == SelectSeq(reg, LAMBDA s : kind[s] = k /\ s \notin closed)
Receiver ==
  CASE Receivers("RX") # <<>> -> Head(Receivers("RX"))
    [] Receivers("RX") = <<>> /\ Receivers("TRX") # <<>> -> Head(Receivers("TRX"))
    [] OTHER -> NoSession

Pick(p) ==
  /\ Turn(p, "pick", IF Receiver = NoSession THEN "save" ELSE "push")
  /\ sel' = [sel EXCEPT ![p] = Receiver]
  /\ UNCHANGED <<sessVars, jobVars, hand, made, broker, pending, got, lost, faults>>

After(p) == IF p = "consumer" THEN "ack" ELSE "idle"
Held(p, to) == hand' = [hand EXCEPT ![p] = IF to = "idle" THEN NoReport ELSE @]

Push(p) ==
  /\ \E ok \in BOOLEAN :
       LET to == IF ok THEN After(p) ELSE "save" IN
         Pushed(sel[p], hand[p], ok) /\ Turn(p, "push", to) /\ Held(p, to)
  /\ sel' = [sel EXCEPT ![p] = NoSession]
  /\ UNCHANGED <<sessVars, jobVars, made, broker, pending, faults>>

\* InsertPendingDLR; an error of the database is logged.
Save(p) ==
  /\ Turn(p, "save", After(p)) /\ Held(p, After(p))
  /\ \/ /\ pending' = pending \cup {hand[p]}
        /\ lost' = lost /\ faults' = faults
     \/ /\ Fault("insert") /\ lost' = lost \cup {hand[p]}
        /\ pending' = pending
  /\ UNCHANGED <<sessVars, jobVars, sel, made, broker, got>>

-----------------------------------------------------------------------------
(* The reports of the backend *)

\* The final state of a message the backend accepted, from process_dlr_task or
\* send_sms_task.
RealReport(j) ==
  /\ j \in charged /\ <<j, "real">> \notin made
  /\ made' = made \cup {<<j, "real">>} /\ broker' = broker \cup {<<j, "real">>}
  /\ UNCHANGED <<sessVars, jobVars, dlrVars, pending, got, lost, faults>>

\* The consumer acknowledges after the dispatch.
Consume(r) ==
  /\ r \in broker /\ broker' = broker \ {r}
  /\ Turn("consumer", "idle", "pick") /\ hand' = [hand EXCEPT !["consumer"] = r]
  /\ UNCHANGED <<sessVars, jobVars, sel, made, pending, got, lost, faults>>

Ack ==
  /\ Turn("consumer", "ack", "idle") /\ Held("consumer", "idle")
  /\ UNCHANGED <<sessVars, jobVars, sel, made, broker, pending, got, lost, faults>>

\* The connection to RabbitMQ is lost: the delivery comes back while the
\* consumer still deals with it.
LinkLoss ==
  /\ at["consumer"] # "idle" /\ Fault("link")
  /\ broker' = broker \cup {hand["consumer"]}
  /\ UNCHANGED <<sessVars, jobVars, dlrVars, made, pending, got, lost>>

-----------------------------------------------------------------------------
(* Submissions *)

Submits(s) == pc[s] = "bound" /\ Reached(s) /\ kind[s] # "RX"

\* publishRejectDLR, as the beginning of a dispatch.
Reject(p, from, j) ==
  /\ Turn(p, from, "pick")
  /\ hand' = [hand EXCEPT ![p] = <<j, "rejected">>]
  /\ made' = made \cup {<<j, "rejected">>}

\* One PDU. All customers share the queue; at its high water mark trySubmit
\* refuses, and the customer is told so at once.
SubmitSM(s, j) ==
  /\ Submits(s) /\ job[j] = "none" /\ job' = [job EXCEPT ![j] = "queued"]
  /\ UNCHANGED <<sessVars, lostJobs, charged, dlrVars, made, broker, pending, got, lost,
                 faults>>

\* The first of the two segments of a long message.
FirstSegment(s, j) ==
  /\ Submits(s) /\ job[j] = "none" /\ job' = [job EXCEPT ![j] = "grouped"]
  /\ UNCHANGED <<sessVars, lostJobs, charged, dlrVars, made, broker, pending, got, lost,
                 faults>>

\* The second one comes, or the reaper finds the group 60 s old. The message has
\* been answered, so the customer is sent a report when the queue is full.
\* What must not happen: it is not.
ForwardBy(j, silent) ==
  /\ job[j] = "grouped"
  /\ \/ job' = [job EXCEPT ![j] = "queued"] /\ UNCHANGED <<hand, at, made>>
     \/ /\ job' = [job EXCEPT ![j] = "done"]
        /\ IF silent THEN UNCHANGED <<hand, at, made>> ELSE Reject("reassembly", "idle", j)
  /\ UNCHANGED <<sessVars, lostJobs, charged, sel, broker, pending, got, lost, faults>>
ForwardSilently(j) == ForwardBy(j, TRUE)
Forward(j) == ForwardBy(j, FALSE)

\* There are reassemblyMaxGroups groups and another message begins: the oldest
\* group is dropped.
EvictGroup(j) ==
  /\ job[j] = "grouped" /\ job' = [job EXCEPT ![j] = "done"]
  /\ lostJobs' = lostJobs \cup {j}
  /\ UNCHANGED <<sessVars, charged, dlrVars, made, broker, pending, got, lost,
                 faults>>

\* A submit worker posts the job. The backend accepts it, refuses it, cannot
\* be reached, or accepts it too late for the worker to hear.
TakeJob(j) ==
  /\ job[j] = "queued" /\ at["worker"] = "idle" /\ \A k \in Job : job[k] # "posted"
  /\ job' = [job EXCEPT ![j] = "posted"]
  /\ UNCHANGED <<sessVars, lostJobs, charged, dlrVars, made, broker, pending, got,
                 lost, faults>>

Accepted(j) ==
  /\ job[j] = "posted" /\ job' = [job EXCEPT ![j] = "done"]
  /\ charged' = charged \cup {j}
  /\ UNCHANGED <<sessVars, lostJobs, dlrVars, made, broker, pending, got, lost, faults>>

Refused(j) ==
  /\ job[j] = "posted" /\ job' = [job EXCEPT ![j] = "done"]
  /\ charged' \in {charged, charged \cup {j}}
  /\ Reject("worker", "idle", j)
  /\ UNCHANGED <<sessVars, lostJobs, sel, broker, pending, got, lost, faults>>

\* The gateway dies and starts again. What was in its memory is lost.
Restart ==
  /\ Fault("crash")
  /\ pc' = [s \in Session |-> "none"] /\ closed' = Session /\ gone' = {}
  /\ reg' = <<>> /\ drain' = [s \in Session |-> Off]
  /\ at' = [p \in Dispatcher |-> "idle"] /\ sel' = [p \in Dispatcher |-> NoSession]
  /\ hand' = [p \in Dispatcher |-> NoReport]
  /\ broker' = broker \cup ({hand["consumer"]} \ {NoReport})
  /\ LET died == {j \in Job : job[j] \in {"grouped", "queued", "posted"}} IN
       /\ job' = [j \in Job |-> IF j \in died THEN "done" ELSE job[j]]
       /\ lostJobs' = lostJobs \cup died
  /\ lost' = lost \cup ({hand["worker"], hand["reassembly"]} \ {NoReport})
  /\ UNCHANGED <<kind, charged, made, pending, got>>

-----------------------------------------------------------------------------

Serve(s) ==
  \/ SeeFull(s) \/ EvictOldest(s) \/ SeeRoom(s) \/ Add(s) \/ End(s)
  \/ Load(s) \/ DrainStops(s) \/ Drain(s)

Dispatch(p) == Pick(p) \/ Push(p) \/ Save(p)
Work(j) == Forward(j) \/ TakeJob(j) \/ Accepted(j) \/ Refused(j)

Next ==
  \/ \E s \in Session : Connect(s) \/ Leave(s) \/ Serve(s)
  \/ \E p \in Dispatcher : Dispatch(p)
  \/ \E r \in Report : Expire(r) \/ Consume(r)
  \/ \E j \in Job : RealReport(j) \/ Work(j) \/ EvictGroup(j)
  \/ \E s \in Session, j \in Job : SubmitSM(s, j) \/ FirstSegment(s, j)
  \/ Ack \/ LinkLoss \/ Restart

Spec == Init /\ [][Next]_vars

\* The goroutines of the gateway run. The customer need not connect or submit,
\* the upstream need not report, and nothing has to fail.
FairSpec ==
  /\ Spec /\ WF_vars(Ack)
  /\ \A s \in Session : WF_vars(Serve(s))
  /\ \A p \in Dispatcher : WF_vars(Dispatch(p))
  /\ \A j \in Job : WF_vars(Work(j))
  /\ WF_vars(\E r \in Report : Consume(r))

-----------------------------------------------------------------------------

\* Types; no session is registered twice, and none that has ended.
TypeOK ==
  /\ pc \in [Session -> {"none", "admit", "evict", "add", "bound"}]
  /\ gone \subseteq Session /\ closed \subseteq Session
  /\ reg \in Seq(Session) /\ IsInjective(reg) /\ \A s \in ToSet(reg) : pc[s] = "bound"
  /\ job \in [Job -> {"none", "grouped", "queued", "posted", "done"}]
  /\ made \subseteq Report /\ broker \subseteq made /\ pending \subseteq made
  /\ \A p \in Dispatcher : (hand[p] = NoReport) = (at[p] = "idle")

\* A report the customer has not got is on its way or waits for the next bind,
\* unless the database refused it, it expired, the customer had gone, or the
\* process died with it (handleInboundDLRDelivery, drainPendingDLRs).
ReportKept ==
  made \subseteq broker \cup {hand[p] : p \in Dispatcher} \cup pending \cup got \cup lost

\* What the customer was told is accepted goes to the backend or is rejected
\* by a report, which the customer gets or finds at its next bind, unless the
\* process died with it (submitWorkerLoop, reap).
EventuallyConcluded ==
  /\ \A j \in Job : job[j] # "none" ~> \/ j \in charged \cup lostJobs
                                      \/ <<j, "rejected">> \in made
  /\ \A r \in Report : r \in made ~> r \in got \cup pending \cup lost

\* A customer who binds a receiver gets what is waiting for it, unless it
\* leaves or is evicted, or the rows cannot be read (drainPendingDLRs).
BindGetsWaiting ==
  \A s \in Session, r \in Report :
    drain[s] = Loading /\ r \in pending ~>
      r \in got \cup lost \/ s \in gone \cup closed \/ "load" \in faults

\* A system_id has no more bindings than it may (handleSession).
BindsBounded == Len(reg) <= MaxBinds
=============================================================================
