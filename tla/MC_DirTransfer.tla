---------------------------- MODULE MC_DirTransfer ----------------------------
EXTENDS DirTransfer

CONSTANTS t, d, e, f, g

Tree == [n \in Dirs |-> CASE n = t -> {d, e, f} [] n = d -> {g} [] n = e -> {}]

(* A piece of a file, or what is left of a header, read as a header. *)
Garbled ==
  {[kind |-> "DIR", node |-> d, size |-> 0, excess |-> 0],
   [kind |-> "RETPARENT", node |-> t, size |-> 0, excess |-> 0],
   [kind |-> "REGULAR", node |-> g, size |-> 1, excess |-> 0]}
=============================================================================
