--------------------------- MODULE MessageDelivery ---------------------------
(***************************************************************************)
(* What the sent-message registry promises the user: a message that was    *)
(* sent stays pending until a peer has received it and the confirmation    *)
(* has come back, or until the user gives it up.  How often it is sent,    *)
(* when, and what the network does to the datagrams is left open.          *)
(***************************************************************************)
CONSTANT Messages

VARIABLES
  status,      \* of every message, as its sender knows it
  delivered    \* messages that a peer has shown to its user

vars == <<status, delivered>>

Statuses == {"unsent", "pending", "acked", "abandoned"}

Init ==
  /\ status = [m \in Messages |-> "unsent"]
  /\ delivered = {}

Becomes(m, from, to) ==
  /\ status[m] = from
  /\ status' = [status EXCEPT ![m] = to]
  /\ UNCHANGED delivered

Send(m) == Becomes(m, "unsent", "pending")

(* Also after the sender has given the message up. *)
Arrive(m) ==
  /\ status[m] # "unsent"
  /\ delivered' = delivered \cup {m}
  /\ UNCHANGED status

Confirm(m) == m \in delivered /\ Becomes(m, "pending", "acked")

GiveUp(m) == Becomes(m, "pending", "abandoned")

Next == \E m \in Messages : Send(m) \/ Arrive(m) \/ Confirm(m) \/ GiveUp(m)

Spec == Init /\ [][Next]_vars
=============================================================================
