---------------------------- MODULE SentMessages ----------------------------
(***************************************************************************)
(* The sent-message registry of msginfo.c: every message the user sends    *)
(* with a delivery check is remembered, sent again by a timer until the    *)
(* peer's RECVMSG comes back, and given up only when the user says so.     *)
(*                                                                         *)
(* A definition named Mutant... is a plausible mistake in the operation    *)
(* that follows it, kept to show which property would notice it.           *)
(*                                                                         *)
(* One UI thread runs everything here.  What interleaves are the handlers  *)
(* of its main loop, because retry_messages_once opens dialogs, and a      *)
(* dialog runs a nested main loop while msglst_mutex is held.  The mutex   *)
(* is a GStaticMutex: it is not recursive, so a handler that asks for it   *)
(* from inside that nested loop waits for its own thread.                  *)
(*                                                                         *)
(* A message is named by its packet number.  The network is UDP: any       *)
(* datagram may be lost, delivered late, out of order or more than once.   *)
(***************************************************************************)
EXTENDS Naturals, Sequences, SequencesExt

CONSTANTS
  PktNos,               \* packet numbers the user's messages are sent under
  Attached,             \* those whose message carries an extension (files)
  MSG_INFO_MAX_RETRY,   \* retransmissions before the user is asked
  UniqueNumbers         \* TRUE: ipmsg_get_pkt_no never repeats a number

ASSUME ConstantsAssumption ==
  /\ Attached \subseteq PktNos
  /\ MSG_INFO_MAX_RETRY \in Nat \ {0}
  /\ UniqueNumbers \in BOOLEAN

VARIABLES
  message_list,    \* the registry: a sequence of entries
  retry_messages,  \* entries the sweep in progress has already visited
  msglst_mutex,    \* TRUE while msglst_mutex is held
  ui,              \* where the UI thread is
  net,             \* datagrams in flight
  received,        \* SENDMSG datagrams the peers have shown to their users
  sent,            \* numbers used so far
  outcome,         \* history: how the registry let go of a message
  ackRead          \* history: numbers whose RECVMSG the UI thread has read

vars == <<message_list, retry_messages, msglst_mutex, ui, net, received,
          sent, outcome, ackRead>>

-----------------------------------------------------------------------------
(* "main": the outermost main loop; "sweep": inside the while loop of      *)
(* retry_messages_once; "senderr": the sweep shows a non-modal error       *)
(* dialog and runs the pending events; "faildialog": the sweep asks the    *)
(* user whether to go on; "stuck": waiting for a mutex this thread holds;  *)
(* "aborted": g_assert_not_reached has ended the process.                  *)
UIStates == {"main", "sweep", "senderr", "faildialog", "stuck", "aborted"}

(* The extension of a datagram: none, the attachment list, or bytes that   *)
(* were never part of the packet.                                          *)
Exts == {"none", "files", "junk"}

SendMsg(p, ext) == [type |-> "SENDMSG", pktno |-> p, ext |-> ext]
RecvMsg(p)      == [type |-> "RECVMSG", pktno |-> p, ext |-> "none"]

SendMsgs  == {SendMsg(p, x) : p \in PktNos, x \in Exts}
Datagrams == SendMsgs \cup {RecvMsg(p) : p \in PktNos}

Entries == [seq_no : PktNos, retry_remains : 0..MSG_INFO_MAX_RETRY,
            first : BOOLEAN]

(* What build_ipmsg_packet puts after the message's NUL.                   *)
OriginalExt(p) == IF p \in Attached THEN "files" ELSE "none"

(* What a retransmission carries there.  register_sent_message copies the  *)
(* packet with g_strdup, which stops at the NUL before the extension, and  *)
(* keeps the full length: the bytes behind the copy are whatever the heap  *)
(* holds, and a peer finds an empty extension or rubbish in them.          *)
ResentExts(p) == IF p \in Attached THEN {"none", "junk"} ELSE {"none"}

Registry      == retry_messages \o message_list
Registered(p) == \E i \in DOMAIN Registry : Registry[i].seq_no = p
ListHas(p)    == \E i \in DOMAIN message_list : message_list[i].seq_no = p

NewEntry(p) ==
  [seq_no |-> p, retry_remains |-> MSG_INFO_MAX_RETRY, first |-> TRUE]

Init ==
  /\ message_list = <<>>
  /\ retry_messages = <<>>
  /\ msglst_mutex = FALSE
  /\ ui = "main"
  /\ net = {}
  /\ received = {}
  /\ sent = {}
  /\ outcome = [p \in PktNos |-> "none"]
  /\ ackRead = {}

-----------------------------------------------------------------------------
(* A handler that locks msglst_mutex while the sweep below it on the       *)
(* stack holds it never returns.                                           *)
WaitForMutex ==
  /\ msglst_mutex
  /\ ui' = "stuck"
  /\ UNCHANGED message_list

(* g_list_find_custom with message_info_find_element: the first entry with *)
(* the number.                                                             *)
message_info_find_element(i, p) ==
  /\ message_list[i].seq_no = p
  /\ \A j \in 1..(i - 1) : message_list[j].seq_no # p

(* A new message is appended, unless its number is in the registry         *)
(* already: the function asserts that this does not happen.                *)
register_sent_message(p) ==
  \/ WaitForMutex
  \/ /\ ~msglst_mutex
     /\ ListHas(p)
     /\ ui' = "aborted"
     /\ UNCHANGED message_list
  \/ /\ ~msglst_mutex
     /\ ~ListHas(p)
     /\ message_list' = Append(message_list, NewEntry(p))
     /\ UNCHANGED ui

(* One datagram to one address; sendto may fail. *)
ipmsg_send_message(d) == net' \in {net, net \cup {d}}

(* The packet is registered first, then sent.  If sendto fails it stays    *)
(* registered, although the caller reports an error.                       *)
ipmsg_send_packet(p) ==
  /\ register_sent_message(p)
  /\ IF ui' \in {"stuck", "aborted"}
       THEN UNCHANGED <<net, sent, outcome>>
       ELSE /\ ipmsg_send_message(SendMsg(p, OriginalExt(p)))
            /\ sent' = sent \cup {p}
            /\ outcome' = [outcome EXCEPT ![p] = "none"]

(* The user can reach the send button from the main loop and from the loop *)
(* behind the non-modal error dialog, not from behind the modal dialog.    *)
do_send(p) ==
  /\ ui \in {"main", "senderr"}
  /\ UniqueNumbers => p \notin sent
  /\ ipmsg_send_packet(p)
  /\ UNCHANGED <<retry_messages, msglst_mutex, received, ackRead>>

MutantRemovesHead(p) ==
  /\ ListHas(p)
  /\ message_list' = Tail(message_list)
  /\ outcome' = [outcome EXCEPT ![Head(message_list).seq_no] = "acked"]
  /\ UNCHANGED ui

(* The first entry with the acknowledged number goes, if there is one. *)
unregister_sent_message(p) ==
  \/ WaitForMutex /\ UNCHANGED outcome
  \/ /\ ~msglst_mutex
     /\ \E i \in DOMAIN message_list :
          /\ message_info_find_element(i, p)
          /\ message_list' = RemoveAt(message_list, i)
          /\ outcome' = [outcome EXCEPT ![message_list[i].seq_no] = "acked"]
     /\ UNCHANGED ui
  \/ /\ ~msglst_mutex
     /\ ~ListHas(p)
     /\ UNCHANGED <<message_list, outcome, ui>>

(* A datagram that is delivered may also stay in flight: UDP may duplicate *)
(* it.                                                                     *)
Deliver(d) == {net, net \ {d}}

(* Any main loop reads the socket and dispatches what it finds. *)
ipmsg_proc_recv_msg(p) ==
  /\ RecvMsg(p) \in net
  /\ net' \in Deliver(RecvMsg(p))
  /\ ui \in {"main", "senderr", "faildialog"}
  /\ unregister_sent_message(p)
  /\ ackRead' = ackRead \cup {p}
  /\ UNCHANGED <<retry_messages, msglst_mutex, received, sent>>

-----------------------------------------------------------------------------
(* retry_messages_once, one action per turn of its loop and per dialog.    *)
(* The timer source is removed for its duration: only the main loop        *)
(* starts a sweep, and only when the registry is not empty.                *)
retry_message_handler ==
  /\ ui = "main"
  /\ message_list # <<>>
  /\ msglst_mutex' = TRUE
  /\ ui' = "sweep"
  /\ UNCHANGED <<message_list, retry_messages, net, received, sent, outcome,
                 ackRead>>

(* The entry at the head, as this turn leaves it, goes to retry_messages,  *)
(* unless its retries are used up: then the user is asked first.           *)
MutantAsksEarly(e) ==
  IF e.retry_remains = 1
    THEN /\ message_list' = <<e>> \o Tail(message_list)
         /\ ui' = "faildialog"
         /\ UNCHANGED retry_messages
    ELSE /\ message_list' = Tail(message_list)
         /\ retry_messages' = Append(retry_messages, e)
         /\ ui' = "sweep"

VisitedAs(e) ==
  IF e.retry_remains = 0
    THEN /\ message_list' = <<e>> \o Tail(message_list)
         /\ ui' = "faildialog"
         /\ UNCHANGED retry_messages
    ELSE /\ message_list' = Tail(message_list)
         /\ retry_messages' = Append(retry_messages, e)
         /\ ui' = "sweep"

(* A message registered since the last sweep is only marked.               *)
SweepFirst ==
  /\ ui = "sweep"
  /\ message_list # <<>>
  /\ Head(message_list).first
  /\ VisitedAs([Head(message_list) EXCEPT !.first = FALSE])
  /\ UNCHANGED <<msglst_mutex, net, received, sent, outcome, ackRead>>

MutantResendUncounted ==
  /\ ui = "sweep"
  /\ message_list # <<>>
  /\ ~Head(message_list).first
  /\ net' = net \cup {SendMsg(Head(message_list).seq_no, "none")}
  /\ VisitedAs(Head(message_list))
  /\ UNCHANGED <<msglst_mutex, received, sent, outcome, ackRead>>

SweepResend ==
  /\ ui = "sweep"
  /\ message_list # <<>>
  /\ ~Head(message_list).first
  /\ \E x \in ResentExts(Head(message_list).seq_no) :
       net' = net \cup {SendMsg(Head(message_list).seq_no, x)}
  /\ VisitedAs([Head(message_list) EXCEPT !.retry_remains = @ - 1])
  /\ UNCHANGED <<msglst_mutex, received, sent, outcome, ackRead>>

(* sendto fails: an error dialog, whose pending events run before the      *)
(* sweep goes on; the retry is not counted.                                *)
SweepSendFails ==
  /\ ui = "sweep"
  /\ message_list # <<>>
  /\ ~Head(message_list).first
  /\ ui' = "senderr"
  /\ UNCHANGED <<message_list, retry_messages, msglst_mutex, net, received,
                 sent, outcome, ackRead>>

MutantSendsAgainAtOnce ==
  /\ ui = "senderr"
  /\ ui' = "sweep"
  /\ UNCHANGED <<message_list, retry_messages, msglst_mutex, net, received,
                 sent, outcome, ackRead>>

SendErrorShown ==
  /\ ui = "senderr"
  /\ VisitedAs(Head(message_list))
  /\ UNCHANGED <<msglst_mutex, net, received, sent, outcome, ackRead>>

(* The user answers OK: the message starts over.                           *)
MutantRegistersTwice ==
  /\ ui = "faildialog"
  /\ message_list' = Tail(message_list)
  /\ retry_messages' =
       retry_messages \o <<NewEntry(Head(message_list).seq_no),
                           NewEntry(Head(message_list).seq_no)>>
  /\ ui' = "sweep"
  /\ UNCHANGED <<msglst_mutex, net, received, sent, outcome, ackRead>>

FailDialogOK ==
  /\ ui = "faildialog"
  /\ VisitedAs(NewEntry(Head(message_list).seq_no))
  /\ UNCHANGED <<msglst_mutex, net, received, sent, outcome, ackRead>>

(* Any other answer: the message is given up.                              *)
MutantGiveUpKeepsEntry ==
  /\ ui = "faildialog"
  /\ VisitedAs(NewEntry(Head(message_list).seq_no))
  /\ outcome' = [outcome EXCEPT ![Head(message_list).seq_no] = "abandoned"]
  /\ UNCHANGED <<msglst_mutex, net, received, sent, ackRead>>

FailDialogGiveUp ==
  /\ ui = "faildialog"
  /\ message_list' = Tail(message_list)
  /\ outcome' = [outcome EXCEPT ![Head(message_list).seq_no] = "abandoned"]
  /\ ui' = "sweep"
  /\ UNCHANGED <<retry_messages, msglst_mutex, net, received, sent, ackRead>>

MutantDropsVisited ==
  /\ ui = "sweep"
  /\ message_list = <<>>
  /\ retry_messages' = <<>>
  /\ msglst_mutex' = FALSE
  /\ ui' = "main"
  /\ UNCHANGED <<message_list, net, received, sent, outcome, ackRead>>

MutantKeepsLock ==
  /\ ui = "sweep"
  /\ message_list = <<>>
  /\ message_list' = retry_messages
  /\ retry_messages' = <<>>
  /\ ui' = "main"
  /\ UNCHANGED <<msglst_mutex, net, received, sent, outcome, ackRead>>

EndSweep ==
  /\ ui = "sweep"
  /\ message_list = <<>>
  /\ message_list' = retry_messages
  /\ retry_messages' = <<>>
  /\ msglst_mutex' = FALSE
  /\ ui' = "main"
  /\ UNCHANGED <<net, received, sent, outcome, ackRead>>

-----------------------------------------------------------------------------
(* The peer runs the same program. *)
ipmsg_send_recv_msg(p) == RecvMsg(p)

(* It acknowledges and shows the message every time the datagram arrives.  *)
ipmsg_proc_send_msg(d) ==
  /\ d \in net \cap SendMsgs
  /\ received' = received \cup {d}
  /\ \E rest \in Deliver(d) : net' = rest \cup {ipmsg_send_recv_msg(d.pktno)}
  /\ UNCHANGED <<message_list, retry_messages, msglst_mutex, ui, sent,
                 outcome, ackRead>>

(* UDP loses a datagram, or the peer cannot convert the text and drops it. *)
Lose(d) ==
  /\ d \in net
  /\ net' = net \ {d}
  /\ UNCHANGED <<message_list, retry_messages, msglst_mutex, ui, received,
                 sent, outcome, ackRead>>

(* retry_messages_once, while it holds msglst_mutex. *)
Sweep ==
  \/ SweepFirst
  \/ SweepResend
  \/ SweepSendFails
  \/ SendErrorShown
  \/ FailDialogOK
  \/ FailDialogGiveUp
  \/ EndSweep

Next ==
  \/ \E p \in PktNos : do_send(p)
  \/ \E p \in PktNos : ipmsg_proc_recv_msg(p)
  \/ retry_message_handler
  \/ Sweep
  \/ \E d \in SendMsgs : ipmsg_proc_send_msg(d)
  \/ \E d \in Datagrams : Lose(d)

Spec == Init /\ [][Next]_vars

(* GLib runs a due timer, retry_messages_once goes on as long as it is not *)
(* blocked, and the user answers a dialog some day.  Nothing is assumed of *)
(* the network, of sendto, or of which answer the user gives.              *)
Fairness == WF_vars(retry_message_handler) /\ WF_vars(Sweep)

FairSpec == Spec /\ Fairness

-----------------------------------------------------------------------------
TypeOK ==
  /\ message_list \in Seq(Entries)
  /\ retry_messages \in Seq(Entries)
  /\ msglst_mutex \in BOOLEAN
  /\ ui \in UIStates
  /\ net \subseteq Datagrams
  /\ received \subseteq SendMsgs
  /\ sent \subseteq PktNos
  /\ outcome \in [PktNos -> {"none", "acked", "abandoned"}]
  /\ ackRead \subseteq PktNos

(* A packet number names at most one entry, wherever the sweep has put the *)
(* entries: unregister_sent_message removes only the first it finds, so a  *)
(* second one would be sent again for ever.                                *)
OneEntryPerNumber ==
  \A i, j \in DOMAIN Registry : Registry[i].seq_no = Registry[j].seq_no => i = j

(* A sent message is in the registry exactly until its acknowledgement is  *)
(* read or the user gives it up: no sweep, dialog or late acknowledgement  *)
(* drops an entry, and none keeps one that is settled.                     *)
RegisteredUntilSettled ==
  \A p \in PktNos : Registered(p) <=> p \in sent /\ outcome[p] = "none"

(* A message counts as delivered only if a peer has shown it, however late *)
(* and however often datagrams arrive.                                     *)
AckedWasReceived ==
  \A p \in PktNos : outcome[p] = "acked" => \E d \in received : d.pktno = p

(* The user is asked about a message exactly when all of its retries are   *)
(* used up; whatever failed or was interrupted in a sweep, no entry waits  *)
(* for the next one without retries left.                                  *)
AskedWhenExhausted ==
  \A i \in DOMAIN Registry :
    /\ Registry[i].retry_remains = 0 =>
         i = Len(retry_messages) + 1 /\ ui \in {"faildialog", "stuck"}
    /\ i = Len(retry_messages) + 1 /\ ui = "faildialog" =>
         Registry[i].retry_remains = 0

(* Once its acknowledgement has been read, or the user has given it up, a  *)
(* message is never sent again.                                            *)
SettledIsNotResent ==
  [][\A d \in (net' \ net) \cap SendMsgs : outcome'[d.pktno] = "none"]_vars

(* Between sweeps nothing is left aside and the lock is free; the timer    *)
(* that starts the next sweep finds the whole registry in message_list.    *)
SweepCleansUp ==
  /\ ui = "main" => retry_messages = <<>> /\ ~msglst_mutex
  /\ ui \in {"sweep", "senderr", "faildialog"} => msglst_mutex

(* Every pending message is settled, or the user is told about it (an      *)
(* error dialog or the question whether to go on), or the UI thread is     *)
(* blocked for ever: a message is not retried silently without end.        *)
UserIsTold ==
  \A p \in PktNos :
    Registered(p) ~>
      \/ ~Registered(p)
      \/ ui \in {"senderr", "faildialog"} /\ Head(message_list).seq_no = p
      \/ ui \in {"stuck", "aborted"}

(* A sweep ends, and the main loop gets the UI thread back, unless a       *)
(* handler in a nested loop has blocked on the sweep's own lock.           *)
SweepEnds == msglst_mutex ~> ~msglst_mutex \/ ui = "stuck"

(* ipmsg_proc_recv_msg says it takes the acknowledged packet out of the    *)
(* retransmission registry.  It does not when the acknowledgement is read  *)
(* while a sweep shows a dialog: the UI thread then blocks on msglst_mutex.*)
AckTakesEffect ==
  \A p \in PktNos : p \in ackRead ~> outcome[p] # "none"
=============================================================================
