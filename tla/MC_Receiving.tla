----------------------------- MODULE MC_Receiving -----------------------------
(***************************************************************************)
(* Any two arrivals of three messages: a locked one with a file, a plain   *)
(* one with a file of the same name and a directory, and a sealed one not  *)
(* to be logged whose attachments cannot be read; and a longer old file of *)
(* the name that is offered.                                               *)
(***************************************************************************)
EXTENDS Receiving, TLC

Attached(type, name, size) == [fields |-> 5, type |-> type, name |-> name, size |-> size]
CutShort == [fields |-> 3, type |-> "regular", name |-> 1, size |-> 1]

MCOpts  == 1 :> {"secret", "password", "attach"} @@ 2 :> {"attach"}
           @@ 3 :> {"secret", "attach", "nolog"}
MCOffer == 1 :> <<Attached("regular", 1, 2)>>
           @@ 2 :> <<Attached("dir", 2, 0), Attached("regular", 1, 1)>>
           @@ 3 :> <<CutShort, Attached("regular", 1, 1)>>
MCArrivals == 1 :> 1 @@ 2 :> 1 @@ 3 :> 2
MCDisk  == 1 :> [i \in 1..3 |-> <<None, None, i>>]
================================================================================
