---------------------------- MODULE PacketNumbers ----------------------------
(***************************************************************************)
(* ipmsg_get_pkt_no: a packet number is the wall clock in seconds, modulo  *)
(* a period, plus a counter of the numbers handed out by this process.     *)
(***************************************************************************)
EXTENDS Naturals

CONSTANTS
  ClockPeriod,         \* 100000 in the source
  MaxClock,            \* bound: seconds that pass
  MaxCount,            \* bound: numbers handed out
  ClockMayStepBack     \* the wall clock may be set back (NTP, the user)

ASSUME NumbersAssumption ==
  /\ ClockPeriod \in Nat \ {0}
  /\ MaxClock \in Nat
  /\ MaxCount \in Nat
  /\ ClockMayStepBack \in BOOLEAN

VARIABLES
  clock,     \* what time(NULL) returns
  pkt_no     \* the counter

NumbersInit == clock = 0 /\ pkt_no = 0

MutantNoCounter == (clock % ClockPeriod) + 1

(* The counter is incremented first; the sum is never                      *)
(* IPMSG_PROTOCOL_PKTNUM_AUTO, which is 0, so the loop runs once.          *)
NextPktNo == (clock % ClockPeriod) + (pkt_no + 1)

ipmsg_get_pkt_no(n) ==
  /\ pkt_no < MaxCount
  /\ n = NextPktNo
  /\ pkt_no' = pkt_no + 1
  /\ UNCHANGED clock

Tick ==
  /\ clock < MaxClock
  /\ clock' = clock + 1
  /\ UNCHANGED pkt_no

StepBack ==
  /\ ClockMayStepBack
  /\ clock > 0
  /\ clock' = clock - 1
  /\ UNCHANGED pkt_no
=============================================================================
