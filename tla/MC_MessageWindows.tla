--------------------------- MODULE MC_MessageWindows ---------------------------
(***************************************************************************)
(* Up to three hosts, two of one group, one on dial-up, in two orders, and *)
(* a file to attach.                                                       *)
(***************************************************************************)
EXTENDS MessageWindows, TLC

MCGroupOf == 1 :> "a" @@ 2 :> "b" @@ 3 :> "a"
MCKeys    == {[h \in Hosts |-> h], [h \in Hosts |-> 4 - h]}
MCOneKey  == {[h \in Hosts |-> h]}
MCPrios   == {-1, 1}
================================================================================
