----------------------- MODULE SentMessagesRefinement -----------------------
(***************************************************************************)
(* The registry of msginfo.c implements MessageDelivery: a message is      *)
(* pending while the registry holds it, in message_list or set aside by    *)
(* the sweep in progress.                                                  *)
(***************************************************************************)
EXTENDS SentMessages

statusOf(p) ==
  IF Registered(p) THEN "pending"
  ELSE IF p \notin sent THEN "unsent" ELSE outcome[p]

Delivery == INSTANCE MessageDelivery WITH
  Messages  <- PktNos,
  status    <- [p \in PktNos |-> statusOf(p)],
  delivered <- {d.pktno : d \in received}

(* The registry, its retry timer and its dialogs, over a network that      *)
(* loses, duplicates and reorders, do to each message only what            *)
(* MessageDelivery allows.                                                 *)
ImplementsDelivery == Delivery!Spec
=============================================================================
