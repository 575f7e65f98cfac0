------------------------ MODULE NotificationLifecycle ------------------------
(***************************************************************************)
(* What Pulse Notify promises of one notification, whoever processes it    *)
(* and however often: it is created pending, becomes sent or failed, never *)
(* goes back to pending, and is called sent only after the provider has    *)
(* accepted it.  A redelivered event may be sent again, and its row may be *)
(* recorded again with either outcome.                                     *)
(***************************************************************************)
CONSTANT Notification

VARIABLES
  status,    \* status[n], the status column of n's row
  accepted   \* the notifications the provider has accepted

vars == <<status, accepted>>

Init ==
  /\ status = [n \in Notification |-> "absent"]
  /\ accepted = {}

\* Create: a row is inserted in the pending state.
Create(n) ==
  /\ status[n] = "absent"
  /\ status' = [status EXCEPT ![n] = "pending"]
  /\ UNCHANGED accepted

\* Send returns nil: only what was enqueued is ever delivered.
Accept(n) ==
  /\ status[n] # "absent"
  /\ accepted' = accepted \cup {n}
  /\ UNCHANGED status

MarkSent(n) ==
  /\ n \in accepted
  /\ status' = [status EXCEPT ![n] = "sent"]
  /\ UNCHANGED accepted

MarkFailed(n) ==
  /\ status[n] # "absent"
  /\ status' = [status EXCEPT ![n] = "failed"]
  /\ UNCHANGED accepted

Next ==
  \E n \in Notification : Create(n) \/ Accept(n) \/ MarkSent(n) \/ MarkFailed(n)

Spec == Init /\ [][Next]_vars
==============================================================================
