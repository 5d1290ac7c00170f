-------------------------- MODULE NumberedMessages --------------------------
(***************************************************************************)
(* The registry of SentMessages with the numbers PacketNumbers hands out:  *)
(* do_send takes a number, then registers and sends the message under it.  *)
(***************************************************************************)
EXTENDS SentMessages, PacketNumbers

VARIABLE steppedBack    \* history: the clock has been set back

numberVars == <<clock, pkt_no, steppedBack>>
allVars    == <<vars, numberVars>>

ASSUME NumberedAssumption == PktNos = 1..(MaxClock + MaxCount)

NumberedInit == Init /\ NumbersInit /\ steppedBack = FALSE

NumberedSend(p) ==
  /\ ipmsg_get_pkt_no(p)
  /\ do_send(p)
  /\ UNCHANGED steppedBack

(* Every other packet the program sends takes a number from the same       *)
(* counter and leaves the registry alone.                                  *)
OtherPacket ==
  /\ ui = "main"
  /\ ipmsg_get_pkt_no(NextPktNo)
  /\ UNCHANGED <<vars, steppedBack>>

Clock ==
  /\ \/ Tick /\ UNCHANGED steppedBack
     \/ StepBack /\ steppedBack' = TRUE
  /\ UNCHANGED vars

RegistryStep ==
  /\ \/ \E p \in PktNos : ipmsg_proc_recv_msg(p)
     \/ retry_message_handler
     \/ Sweep
     \/ \E d \in net \cap SendMsgs : ipmsg_proc_send_msg(d)
     \/ \E d \in net : Lose(d)
  /\ UNCHANGED numberVars

NumberedNext ==
  \/ \E p \in PktNos : NumberedSend(p)
  \/ OtherPacket
  \/ Clock
  \/ RegistryStep

NumberedSpec == NumberedInit /\ [][NumberedNext]_allVars

-----------------------------------------------------------------------------
(* register_sent_message asserts that the number of a new message is never *)
(* in the registry.  With a clock that is not set back, and for less than  *)
(* a period, ipmsg_get_pkt_no keeps that promise, whatever else the        *)
(* program sends in between.                                               *)
NumbersDoNotCollide ==
  ~steppedBack /\ clock < ClockPeriod => ui # "aborted"
=============================================================================
