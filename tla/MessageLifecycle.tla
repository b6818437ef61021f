--------------------------- MODULE MessageLifecycle ---------------------------
(***************************************************************************)
(* What the outbound pipeline promises of the row of a message, whatever   *)
(* happens behind it: the row is open until one result or the inspector    *)
(* decides it, the inspector's "expired" gives way to the true result, a   *)
(* delivery report ends a row whose upstream id is known, and an upstream  *)
(* id that was written stays.                                              *)
(***************************************************************************)
CONSTANT Msg

VARIABLES
  status,  \* sms_logs.status of each message
  traced   \* whether sms_logs.upstream_message_id is set

Open == {"pending", "queued"}
Undecided == Open \cup {"expired"}

Init ==
  /\ status \in [Msg -> Open]
  /\ traced = [m \in Msg |-> FALSE]

\* The upstream has the message; its id is known unless the answer was lost.
Accept(m) ==
  /\ status[m] \in Undecided
  /\ status' = [status EXCEPT ![m] = "sent"]
  /\ \E known \in BOOLEAN : traced' = [traced EXCEPT ![m] = known]

\* The message was refused, by the upstream or before it got there.
Refuse(m) ==
  /\ status[m] \in Undecided
  /\ status' = [status EXCEPT ![m] = "failed"]
  /\ traced' = traced

\* The batch has been idle for too long.
GiveUp ==
  /\ status' = [m \in Msg |-> IF status[m] \in Open THEN "expired" ELSE status[m]]
  /\ traced' = traced

\* A delivery report decides a message whose upstream id is known.
Conclude(m, verdict) ==
  /\ status[m] = "sent" /\ traced[m]
  /\ status' = [status EXCEPT ![m] = verdict]
  /\ traced' = traced

Next ==
  \/ \E m \in Msg : \/ Accept(m) \/ Refuse(m)
                    \/ \E verdict \in {"delivered", "failed"} : Conclude(m, verdict)
  \/ GiveUp

Spec == Init /\ [][Next]_<<status, traced>>

=============================================================================
