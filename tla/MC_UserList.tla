----------------------------- MODULE MC_UserList -----------------------------
EXTENDS UserList

CONSTANTS a, w

(* Every broadcast reaches every other host. *)
Others == [i \in Hosts |-> Hosts \ {i}]
=============================================================================
