-------------------------- MODULE SentMessagesProofs --------------------------
(***************************************************************************)
(* Proofs about the sent-message registry, for any set of packet numbers,  *)
(* any retry limit and any network behaviour.  The invariants TLC checks   *)
(* are not inductive one by one; RegistryInv, their common strengthening,  *)
(* speaks of the two sequences the registry is split into during a sweep.  *)
(* Then, that the registry implements MessageDelivery, and that packet     *)
(* numbers are not given out twice while a message has one.                *)
(***************************************************************************)
EXTENDS SentMessagesRefinement, NumberedMessages, SequenceTheorems, TLAPS

(* The packet numbers in a sequence of entries. *)
Numbers(s) == {s[i].seq_no : i \in 1..Len(s)}

(* No two entries have the same number. *)
Distinct(s) ==
  \A i, j \in 1..Len(s) : s[i].seq_no = s[j].seq_no => i = j

(* A dialog is about the entry at the head, which therefore exists. *)
DialogHasHead == ui \in {"senderr", "faildialog"} => message_list # <<>>

(* Entries are not duplicated by being moved from one list to the other.   *)
NumbersKept ==
  /\ Distinct(message_list)
  /\ Distinct(retry_messages)
  /\ Numbers(message_list) \cap Numbers(retry_messages) = {}

(* Only the entry the user is being asked about has no retries left. *)
RetriesLeft ==
  /\ \A i \in 1..Len(retry_messages) : retry_messages[i].retry_remains > 0
  /\ \A i \in 1..Len(message_list) :
       message_list[i].retry_remains = 0 =>
         i = 1 /\ ui \in {"faildialog", "stuck"}
  /\ ui = "faildialog" => message_list[1].retry_remains = 0

(* The two lists hold exactly the messages that are not settled. *)
UnsettledKept ==
  \A p \in PktNos :
    p \in Numbers(message_list) \cup Numbers(retry_messages)
      <=> p \in sent /\ outcome[p] = "none"

(* An acknowledgement in flight was sent for a message that was shown. *)
AcksAreGenuine ==
  \A p \in PktNos : RecvMsg(p) \in net => \E d \in received : d.pktno = p

ListInv == DialogHasHead /\ NumbersKept /\ RetriesLeft

RegistryInv ==
  /\ TypeOK
  /\ SweepCleansUp
  /\ ListInv
  /\ UnsettledKept
  /\ AcksAreGenuine
  /\ AckedWasReceived
-----------------------------------------------------------------------------
(* Lemmas about sequences of entries.                                      *)

(* The numbers and the length of a sequence are well typed. *)
LEMMA EntrySeqType ==
  ASSUME NEW s \in Seq(Entries)
  PROVE  /\ Len(s) \in Nat
         /\ DOMAIN s = 1..Len(s)
         /\ \A i \in 1..Len(s) : s[i] \in Entries
         /\ Numbers(s) \subseteq PktNos
         /\ s # <<>> => Head(s) = s[1] /\ 1 \in 1..Len(s) /\ Head(s) \in Entries
<1>1. Len(s) \in Nat /\ DOMAIN s = 1..Len(s)
  BY LenProperties
<1>2. \A i \in 1..Len(s) : s[i] \in Entries
  BY ElementOfSeq
<1>3. s # <<>> => Len(s) \in Nat \ {0} /\ Head(s) = s[1]
  BY EmptySeq
<1> QED
  BY <1>1, <1>2, <1>3, SMTT(30) DEF Numbers, Entries

(* Appending an entry whose number is new keeps the numbers distinct. *)
LEMMA AppendEntry ==
  ASSUME NEW s \in Seq(Entries), NEW e \in Entries
  PROVE  /\ Append(s, e) \in Seq(Entries)
         /\ Len(Append(s, e)) = Len(s) + 1
         /\ \A i \in 1..Len(s) : Append(s, e)[i] = s[i]
         /\ Append(s, e)[Len(s) + 1] = e
         /\ Numbers(Append(s, e)) = Numbers(s) \cup {e.seq_no}
         /\ Distinct(s) /\ e.seq_no \notin Numbers(s)
              => Distinct(Append(s, e))
<1> DEFINE t == Append(s, e)
<1>1. /\ t \in Seq(Entries)
      /\ Len(t) = Len(s) + 1
      /\ \A i \in 1..Len(s) : t[i] = s[i]
      /\ t[Len(s) + 1] = e
  BY AppendProperties
<1>2. Len(s) \in Nat
  BY EntrySeqType
<1> HIDE DEF t
<1>3. Numbers(t) = Numbers(s) \cup {e.seq_no}
  BY <1>1, <1>2 DEF Numbers
<1>4. Distinct(s) /\ e.seq_no \notin Numbers(s) => Distinct(t)
  BY <1>1, <1>2 DEF Numbers, Distinct
<1> QED
  BY <1>1, <1>3, <1>4 DEF t

(* Taking the head off takes its number, and only it, away. *)
LEMMA TailEntries ==
  ASSUME NEW s \in Seq(Entries), s # <<>>, Distinct(s)
  PROVE  /\ Tail(s) \in Seq(Entries)
         /\ Len(Tail(s)) = Len(s) - 1
         /\ \A i \in 1..Len(Tail(s)) : Tail(s)[i] = s[i + 1]
         /\ Numbers(Tail(s)) = Numbers(s) \ {Head(s).seq_no}
         /\ Distinct(Tail(s))
<1> DEFINE t == Tail(s)
<1>1. /\ t \in Seq(Entries)
      /\ Len(t) = Len(s) - 1
      /\ \A i \in 1..Len(t) : t[i] = s[i + 1]
  BY HeadTailProperties
<1>2. Len(s) \in Nat /\ Head(s) = s[1] /\ 1 \in 1..Len(s)
  BY EntrySeqType
<1> HIDE DEF t
<1>3. Numbers(t) \subseteq Numbers(s) \ {Head(s).seq_no}
  BY <1>1, <1>2 DEF Numbers, Distinct
<1>4. ASSUME NEW i \in 1..Len(s), s[i].seq_no # Head(s).seq_no
      PROVE  s[i].seq_no \in Numbers(t)
  <2>1. i - 1 \in 1..Len(t) /\ t[i - 1] = s[i]
    BY <1>1, <1>2, <1>4
  <2> QED
    BY <2>1 DEF Numbers
<1>5. Numbers(s) \ {Head(s).seq_no} \subseteq Numbers(t)
  BY <1>4 DEF Numbers
<1>6. Distinct(t)
  BY <1>1, <1>2 DEF Distinct
<1> QED
  BY <1>1, <1>3, <1>5, <1>6 DEF t

(* Removing the entry at i takes its number, and only it, away. *)
LEMMA RemoveEntry ==
  ASSUME NEW s \in Seq(Entries), NEW i \in 1..Len(s), Distinct(s)
  PROVE  /\ RemoveAt(s, i) \in Seq(Entries)
         /\ Len(RemoveAt(s, i)) = Len(s) - 1
         /\ \A j \in 1..Len(s) - 1 :
              RemoveAt(s, i)[j] = IF j < i THEN s[j] ELSE s[j + 1]
         /\ Numbers(RemoveAt(s, i)) = Numbers(s) \ {s[i].seq_no}
         /\ Distinct(RemoveAt(s, i))
<1> DEFINE a == SubSeq(s, 1, i - 1)
           b == SubSeq(s, i + 1, Len(s))
           t == RemoveAt(s, i)
<1>1. Len(s) \in Nat /\ \A j \in 1..Len(s) : s[j] \in Entries
  BY EntrySeqType
<1>2. /\ a \in Seq(Entries)
      /\ Len(a) = i - 1
      /\ \A j \in 1..i - 1 : a[j] = s[j]
  <2>1. i \in Int /\ i - 1 \in Int /\ \A j \in 1..i - 1 : s[j] \in Entries
    BY <1>1
  <2>2. /\ a \in Seq(Entries)
        /\ Len(a) = IF 1 <= i - 1 THEN (i - 1) - 1 + 1 ELSE 0
        /\ \A j \in 1..(i - 1) - 1 + 1 : a[j] = s[1 + j - 1]
    BY <2>1, SubSeqProperties
  <2> QED
    BY <1>1, <2>2
<1>3. /\ b \in Seq(Entries)
      /\ Len(b) = Len(s) - i
      /\ \A j \in 1..Len(s) - i : b[j] = s[i + j]
  <2>1. i + 1 \in Int /\ \A j \in i + 1..Len(s) : s[j] \in Entries
    BY <1>1
  <2>2. /\ b \in Seq(Entries)
        /\ Len(b) = IF i + 1 <= Len(s) THEN Len(s) - (i + 1) + 1 ELSE 0
        /\ \A j \in 1..Len(s) - (i + 1) + 1 : b[j] = s[(i + 1) + j - 1]
    BY <1>1, <2>1, SubSeqProperties
  <2> QED
    BY <1>1, <2>2
<1>4. /\ t \in Seq(Entries)
      /\ Len(t) = Len(a) + Len(b)
      /\ \A j \in 1..Len(a) + Len(b) :
           t[j] = IF j <= Len(a) THEN a[j] ELSE b[j - Len(a)]
  <2> HIDE DEF a, b
  <2> SUFFICES /\ a \o b \in Seq(Entries)
               /\ Len(a \o b) = Len(a) + Len(b)
               /\ \A j \in 1..Len(a) + Len(b) :
                    (a \o b)[j] = IF j <= Len(a) THEN a[j] ELSE b[j - Len(a)]
    BY DEF RemoveAt, a, b
  <2> QED
    BY <1>2, <1>3, ConcatProperties
<1> HIDE DEF a, b, t
<1>5. Len(t) = Len(s) - 1
  BY <1>1, <1>2, <1>3, <1>4
<1>6. ASSUME NEW j \in 1..Len(s) - 1
      PROVE  t[j] = IF j < i THEN s[j] ELSE s[j + 1]
  <2> /\ j \in 1..Len(a) + Len(b)
      /\ i \in Int /\ j \in Int /\ 1 <= j
      /\ Len(s) \in Nat /\ Len(a) = i - 1 /\ Len(b) = Len(s) - i
    BY <1>1, <1>2, <1>3
  <2>1. CASE j < i
    <3>1. j <= Len(a) /\ j \in 1..i - 1
      BY <2>1
    <3> QED
      BY <1>2, <1>4, <2>1, <3>1
  <2>2. CASE ~(j < i)
    <3>1. ~(j <= Len(a)) /\ j - (i - 1) \in 1..Len(s) - i
      BY <2>2
    <3>2. t[j] = b[j - (i - 1)]
      BY <1>4, <3>1
    <3>3. b[j - (i - 1)] = s[i + (j - (i - 1))]
      BY <1>3, <3>1
    <3>4. i + (j - (i - 1)) = j + 1
      OBVIOUS
    <3> QED
      BY <2>2, <3>2, <3>3, <3>4
  <2> QED
    BY <2>1, <2>2
<1>7. Distinct(t)
  BY <1>1, <1>5, <1>6 DEF Distinct
<1>8. Numbers(t) \subseteq Numbers(s) \ {s[i].seq_no}
  BY <1>1, <1>5, <1>6 DEF Numbers, Distinct
<1>9. ASSUME NEW k \in 1..Len(s), s[k].seq_no # s[i].seq_no
      PROVE  s[k].seq_no \in Numbers(t)
  <2>1. CASE k < i
    <3>1. k \in 1..Len(t) /\ t[k] = s[k]
      BY <1>1, <1>5, <1>6, <2>1
    <3> QED
      BY <3>1 DEF Numbers
  <2>2. CASE i < k
    <3>1. k - 1 \in 1..Len(t) /\ t[k - 1] = s[k]
      BY <1>1, <1>5, <1>6, <2>2
    <3> QED
      BY <3>1 DEF Numbers
  <2> QED
    BY <1>1, <1>9, <2>1, <2>2
<1>10. Numbers(s) \ {s[i].seq_no} \subseteq Numbers(t)
  BY <1>9 DEF Numbers
<1> QED
  BY <1>4, <1>5, <1>6, <1>7, <1>8, <1>10 DEF t

(* Rewriting the head's other fields changes neither the numbers nor the   *)
(* entries behind it.                                                      *)
LEMMA RewriteHead ==
  ASSUME NEW s \in Seq(Entries), s # <<>>, Distinct(s),
         NEW e \in Entries, e.seq_no = Head(s).seq_no
  PROVE  /\ <<e>> \o Tail(s) \in Seq(Entries)
         /\ <<e>> \o Tail(s) # <<>>
         /\ Len(<<e>> \o Tail(s)) = Len(s)
         /\ \A i \in 1..Len(s) :
              (<<e>> \o Tail(s))[i] = IF i = 1 THEN e ELSE s[i]
         /\ Numbers(<<e>> \o Tail(s)) = Numbers(s)
         /\ Distinct(<<e>> \o Tail(s))
<1> DEFINE h == <<e>>
           r == Tail(s)
           t == h \o r
<1>1. h \in Seq(Entries) /\ Len(h) = 1 /\ h[1] = e
  OBVIOUS
<1>2. /\ Len(s) \in Nat
      /\ Head(s) = s[1]
      /\ 1 \in 1..Len(s)
      /\ r \in Seq(Entries)
      /\ Len(r) = Len(s) - 1
      /\ \A i \in 1..Len(r) : r[i] = s[i + 1]
  BY EntrySeqType, TailEntries
<1> HIDE DEF h, r
<1>3. /\ t \in Seq(Entries)
      /\ Len(t) = Len(h) + Len(r)
      /\ \A i \in 1..Len(h) + Len(r) :
           t[i] = IF i <= Len(h) THEN h[i] ELSE r[i - Len(h)]
  BY <1>1, <1>2, ConcatProperties
<1> HIDE DEF t
<1>4. Len(t) = Len(s)
  BY <1>1, <1>2, <1>3
<1>5. ASSUME NEW i \in 1..Len(s)
      PROVE  t[i] = IF i = 1 THEN e ELSE s[i]
  <2>1. CASE i = 1
    BY <1>1, <1>2, <1>3, <2>1
  <2>2. CASE i # 1
    <3>1. i - 1 \in 1..Len(r) /\ t[i] = r[i - 1]
      BY <1>1, <1>2, <1>3, <2>2
    <3> QED
      BY <1>2, <2>2, <3>1
  <2> QED
    BY <2>1, <2>2
<1>6. \A i \in 1..Len(s) : t[i].seq_no = s[i].seq_no
  BY <1>2, <1>5
<1>7. Numbers(t) = Numbers(s) /\ Distinct(t)
  BY <1>4, <1>6 DEF Numbers, Distinct
<1>8. t # <<>>
  BY <1>2, <1>4
<1> QED
  BY <1>3, <1>4, <1>5, <1>7, <1>8 DEF h, r, t

-----------------------------------------------------------------------------
(* The initial states.                                                     *)
LEMMA RegistryInit == Init => RegistryInv
<1> SUFFICES ASSUME Init PROVE RegistryInv
  OBVIOUS
<1>1. <<>> \in Seq(Entries) /\ Len(<<>>) = 0
  BY EmptySeq
<1>2. TypeOK /\ SweepCleansUp
  BY <1>1 DEF Init, TypeOK, SweepCleansUp, UIStates
<1>3. ListInv
  BY <1>1 DEF Init, ListInv, DialogHasHead, NumbersKept, RetriesLeft, Distinct,
              Numbers
<1>4. UnsettledKept /\ AcksAreGenuine /\ AckedWasReceived
  BY <1>1 DEF Init, UnsettledKept, AcksAreGenuine, AckedWasReceived, Numbers
<1> QED
  BY <1>2, <1>3, <1>4 DEF RegistryInv

(* Every turn of the sweep that leaves the head as e, with whatever retry  *)
(* count, keeps both lists in order and loses no number.                   *)
LEMMA VisitKeepsLists ==
  ASSUME message_list \in Seq(Entries), retry_messages \in Seq(Entries),
         ListInv, message_list # <<>>,
         ui \in {"sweep", "senderr", "faildialog"},
         NEW e \in Entries, e.seq_no = Head(message_list).seq_no,
         VisitedAs(e)
  PROVE  /\ message_list' \in Seq(Entries)
         /\ retry_messages' \in Seq(Entries)
         /\ ui' \in {"sweep", "faildialog"}
         /\ ListInv'
         /\ Numbers(message_list') \cup Numbers(retry_messages')
              = Numbers(message_list) \cup Numbers(retry_messages)
<1>1. /\ Len(message_list) \in Nat
      /\ Len(retry_messages) \in Nat
      /\ 1 \in 1..Len(message_list)
      /\ e.retry_remains \in Nat
      /\ Head(message_list).seq_no \in Numbers(message_list)
  <2>1. Len(retry_messages) \in Nat
    BY EntrySeqType
  <2>2. /\ Len(message_list) \in Nat
        /\ Head(message_list) = message_list[1]
        /\ 1 \in 1..Len(message_list)
    BY EntrySeqType
  <2>3. e.retry_remains \in Nat
    BY ConstantsAssumption DEF Entries
  <2> QED
    BY <2>1, <2>2, <2>3 DEF Numbers
<1>2. Distinct(message_list) /\ Distinct(retry_messages)
  BY DEF ListInv, NumbersKept
<1>3. CASE e.retry_remains = 0
  <2>1. /\ message_list' = <<e>> \o Tail(message_list)
        /\ ui' = "faildialog"
        /\ retry_messages' = retry_messages
    BY <1>3 DEF VisitedAs
  <2>2. /\ message_list' \in Seq(Entries)
        /\ message_list' # <<>>
        /\ Len(message_list') = Len(message_list)
        /\ \A i \in 1..Len(message_list) :
             message_list'[i] = IF i = 1 THEN e ELSE message_list[i]
        /\ Numbers(message_list') = Numbers(message_list)
        /\ Distinct(message_list')
    BY <1>2, <2>1, RewriteHead
  <2>3. DialogHasHead' /\ NumbersKept'
    BY <2>1, <2>2 DEF DialogHasHead, NumbersKept, ListInv
  <2>4. RetriesLeft'
    BY <1>1, <1>3, <2>1, <2>2 DEF RetriesLeft, ListInv
  <2> QED
    BY <2>1, <2>2, <2>3, <2>4 DEF ListInv
<1>4. CASE e.retry_remains # 0
  <2>1. /\ message_list' = Tail(message_list)
        /\ retry_messages' = Append(retry_messages, e)
        /\ ui' = "sweep"
    BY <1>4 DEF VisitedAs
  <2>2. /\ message_list' \in Seq(Entries)
        /\ Len(message_list') = Len(message_list) - 1
        /\ \A i \in 1..Len(message_list') :
             message_list'[i] = message_list[i + 1]
        /\ Numbers(message_list')
             = Numbers(message_list) \ {Head(message_list).seq_no}
        /\ Distinct(message_list')
    BY <1>2, <2>1, TailEntries
  <2>3. /\ retry_messages' \in Seq(Entries)
        /\ Len(retry_messages') = Len(retry_messages) + 1
        /\ \A i \in 1..Len(retry_messages) :
             retry_messages'[i] = retry_messages[i]
        /\ retry_messages'[Len(retry_messages) + 1] = e
        /\ Numbers(retry_messages') = Numbers(retry_messages) \cup {e.seq_no}
        /\ Distinct(retry_messages')
    <3>1. e.seq_no \notin Numbers(retry_messages)
      BY <1>1 DEF ListInv, NumbersKept
    <3> QED
      BY <1>2, <2>1, <3>1, AppendEntry
  <2>4. DialogHasHead' /\ NumbersKept'
    BY <2>1, <2>2, <2>3 DEF DialogHasHead, NumbersKept, ListInv
  <2>5. RetriesLeft'
    <3>1. ASSUME NEW i \in 1..Len(retry_messages')
          PROVE  retry_messages'[i].retry_remains > 0
      <4>1. CASE i = Len(retry_messages) + 1
        BY <1>1, <1>4, <2>3, <4>1
      <4>2. CASE i \in 1..Len(retry_messages)
        BY <2>3, <4>2 DEF RetriesLeft, ListInv
      <4> QED
        BY <1>1, <2>3, <4>1, <4>2
    <3>2. ASSUME NEW i \in 1..Len(message_list')
          PROVE  message_list'[i].retry_remains # 0
      <4>1. i + 1 \in 1..Len(message_list) /\ i + 1 # 1
        BY <1>1, <2>2
      <4> QED
        BY <2>2, <4>1 DEF RetriesLeft, ListInv
    <3> QED
      BY <2>1, <3>1, <3>2 DEF RetriesLeft
  <2> QED
    BY <1>1, <2>1, <2>2, <2>3, <2>4, <2>5 DEF ListInv
<1> QED
  BY <1>3, <1>4

(* Datagrams of the two kinds are different, and each names its message. *)
LEMMA DatagramKinds ==
  /\ \A p \in PktNos : RecvMsg(p) \in Datagrams
  /\ \A p \in PktNos, x \in Exts : SendMsg(p, x) \in SendMsgs
  /\ SendMsgs \subseteq Datagrams
  /\ \A d \in SendMsgs : d.pktno \in PktNos
  /\ \A d \in SendMsgs, p \in PktNos : d # RecvMsg(p)
  /\ \A p, q \in PktNos : RecvMsg(p) = RecvMsg(q) => p = q
  /\ \A p, x : SendMsg(p, x).pktno = p
  /\ \A p \in PktNos : OriginalExt(p) \in Exts /\ ResentExts(p) \subseteq Exts
<1>1. /\ \A p, x : SendMsg(p, x).pktno = p /\ SendMsg(p, x).type = "SENDMSG"
      /\ \A p : RecvMsg(p).pktno = p /\ RecvMsg(p).type = "RECVMSG"
  BY DEF SendMsg, RecvMsg
<1>2. \A d \in SendMsgs : d.pktno \in PktNos /\ d.type = "SENDMSG"
  BY <1>1 DEF SendMsgs
<1>3. \A p \in PktNos : OriginalExt(p) \in Exts /\ ResentExts(p) \subseteq Exts
  BY DEF Exts, OriginalExt, ResentExts
<1> QED
  BY <1>1, <1>2, <1>3 DEF Datagrams, SendMsgs

(* A turn of the sweep that visits the head keeps the invariant. *)
LEMMA SweepTurn ==
  ASSUME RegistryInv, message_list # <<>>,
         ui \in {"sweep", "senderr", "faildialog"},
         NEW e \in Entries, e.seq_no = Head(message_list).seq_no,
         VisitedAs(e),
         UNCHANGED <<msglst_mutex, received, sent, outcome, ackRead>>,
         net' \subseteq Datagrams,
         \A p \in PktNos : RecvMsg(p) \in net' => RecvMsg(p) \in net
  PROVE  RegistryInv'
<1> USE DEF RegistryInv
<1>1. /\ message_list' \in Seq(Entries)
      /\ retry_messages' \in Seq(Entries)
      /\ ui' \in {"sweep", "faildialog"}
      /\ ListInv'
      /\ Numbers(message_list') \cup Numbers(retry_messages')
           = Numbers(message_list) \cup Numbers(retry_messages)
  BY VisitKeepsLists DEF TypeOK
<1>2. TypeOK'
  BY <1>1 DEF TypeOK, UIStates
<1>3. SweepCleansUp'
  BY <1>1 DEF SweepCleansUp
<1>4. UnsettledKept'
  BY <1>1 DEF UnsettledKept
<1>5. AcksAreGenuine' /\ AckedWasReceived'
  BY DEF AcksAreGenuine, AckedWasReceived
<1> QED
  BY <1>1, <1>2, <1>3, <1>4, <1>5

(* The turns: marking a new entry, sending one again, going on after a     *)
(* failed send, starting over when the user says so.                       *)
LEMMA SweepTurns ==
  ASSUME RegistryInv,
         SweepFirst \/ SweepResend \/ SendErrorShown \/ FailDialogOK
  PROVE  RegistryInv'
<1> DEFINE h == Head(message_list)
<1>1. message_list # <<>> /\ ui \in {"sweep", "senderr", "faildialog"}
  BY DEF RegistryInv, ListInv, DialogHasHead, SweepFirst, SweepResend,
         SendErrorShown, FailDialogOK
<1>2. h \in Entries /\ h = message_list[1] /\ 1 \in 1..Len(message_list)
  BY <1>1, EntrySeqType DEF RegistryInv, TypeOK
<1>3. MSG_INFO_MAX_RETRY \in Nat \ {0}
  BY ConstantsAssumption
<1> HIDE DEF h
<1>4. CASE SweepFirst
  <2> DEFINE e == [h EXCEPT !.first = FALSE]
  <2>1. e \in Entries /\ e.seq_no = h.seq_no
    BY <1>2 DEF Entries
  <2>2. VisitedAs(e) /\ net' \subseteq Datagrams
    BY <1>4 DEF SweepFirst, RegistryInv, TypeOK, h
  <2> HIDE DEF e
  <2>3. e.seq_no = Head(message_list).seq_no
    BY <2>1 DEF h
  <2> QED
    BY <1>1, <1>4, <2>1, <2>2, <2>3, SweepTurn DEF SweepFirst
<1>5. CASE SweepResend
  <2> DEFINE e == [h EXCEPT !.retry_remains = @ - 1]
  <2>1. h.retry_remains \in 1..MSG_INFO_MAX_RETRY
    BY <1>2, <1>3, <1>5 DEF SweepResend, RegistryInv, ListInv, RetriesLeft,
                            Entries
  <2>2. h.retry_remains - 1 \in 0..MSG_INFO_MAX_RETRY
    BY <1>3, <2>1
  <2>3. e \in Entries /\ e.seq_no = h.seq_no
    BY <1>2, <2>2 DEF Entries
  <2>4. PICK x \in Exts : net' = net \cup {SendMsg(h.seq_no, x)}
    BY <1>2, <1>5, DatagramKinds DEF SweepResend, Entries, h
  <2>5. /\ net' \subseteq Datagrams
        /\ \A p \in PktNos : RecvMsg(p) \in net' => RecvMsg(p) \in net
    BY <1>2, <2>4, DatagramKinds DEF RegistryInv, TypeOK, Entries
  <2>6. VisitedAs(e)
    BY <1>5 DEF SweepResend, h
  <2> HIDE DEF e
  <2>7. e.seq_no = Head(message_list).seq_no
    BY <2>3 DEF h
  <2> QED
    BY <1>1, <1>5, <2>3, <2>5, <2>6, <2>7, SweepTurn DEF SweepResend
<1>6. CASE SendErrorShown
  <2>1. VisitedAs(h) /\ net' \subseteq Datagrams
    BY <1>6 DEF SendErrorShown, RegistryInv, TypeOK, h
  <2> QED
    BY <1>1, <1>2, <1>6, <2>1, SweepTurn DEF SendErrorShown, h
<1>7. CASE FailDialogOK
  <2> DEFINE e == NewEntry(h.seq_no)
  <2>1. e \in Entries /\ e.seq_no = h.seq_no
    BY <1>2, <1>3 DEF Entries, NewEntry
  <2>2. VisitedAs(e) /\ net' \subseteq Datagrams
    BY <1>7 DEF FailDialogOK, RegistryInv, TypeOK, h
  <2> HIDE DEF e
  <2>3. e.seq_no = Head(message_list).seq_no
    BY <2>1 DEF h
  <2> QED
    BY <1>1, <1>7, <2>1, <2>2, <2>3, SweepTurn DEF FailDialogOK
<1> QED
  BY <1>4, <1>5, <1>6, <1>7

(* The steps of the sweep that only open a dialog, drop the message the    *)
(* user gives up, or put the visited entries back.                         *)
LEMMA SweepOthers ==
  ASSUME RegistryInv,
         SweepSendFails \/ FailDialogGiveUp \/ EndSweep
  PROVE  RegistryInv'
<1> USE DEF RegistryInv
<1>1. Distinct(message_list) /\ Distinct(retry_messages)
  BY DEF ListInv, NumbersKept
<1>2. CASE SweepSendFails
  <2> USE <1>2 DEF SweepSendFails
  <2>1. TypeOK' /\ SweepCleansUp'
    BY DEF TypeOK, UIStates, SweepCleansUp
  <2>2. ListInv'
    BY DEF ListInv, DialogHasHead, NumbersKept, RetriesLeft
  <2>3. UnsettledKept' /\ AcksAreGenuine' /\ AckedWasReceived'
    BY DEF UnsettledKept, AcksAreGenuine, AckedWasReceived
  <2> QED
    BY <2>1, <2>2, <2>3
<1>3. CASE FailDialogGiveUp
  <2> USE <1>3 DEF FailDialogGiveUp
  <2>1. message_list # <<>> /\ message_list \in Seq(Entries)
    BY DEF ListInv, DialogHasHead, TypeOK
  <2>2. /\ message_list' \in Seq(Entries)
        /\ Len(message_list') = Len(message_list) - 1
        /\ \A i \in 1..Len(message_list') :
             message_list'[i] = message_list[i + 1]
        /\ Numbers(message_list')
             = Numbers(message_list) \ {Head(message_list).seq_no}
        /\ Distinct(message_list')
    BY <1>1, <2>1, TailEntries
  <2>3. /\ Head(message_list).seq_no \in PktNos
        /\ Head(message_list).seq_no \in Numbers(message_list)
        /\ Len(message_list) \in Nat
    BY <2>1, EntrySeqType DEF Numbers, Entries
  <2>4. TypeOK' /\ SweepCleansUp'
    BY <2>2, <2>3 DEF TypeOK, UIStates, SweepCleansUp
  <2>5. RetriesLeft'
    <3>1. ASSUME NEW i \in 1..Len(message_list')
          PROVE  message_list'[i].retry_remains # 0
      <4>1. i + 1 \in 1..Len(message_list) /\ i + 1 # 1
        BY <2>2, <2>3
      <4> QED
        BY <2>2, <4>1 DEF RetriesLeft, ListInv
    <3> QED
      BY <3>1 DEF RetriesLeft, ListInv
  <2>6. ListInv'
    BY <2>2, <2>5 DEF ListInv, DialogHasHead, NumbersKept
  <2>7. UnsettledKept'
    <3>1. Head(message_list).seq_no \notin Numbers(retry_messages)
      BY <2>3 DEF ListInv, NumbersKept
    <3> QED
      BY <2>2, <2>3, <3>1 DEF UnsettledKept, TypeOK
  <2>8. AcksAreGenuine' /\ AckedWasReceived'
    BY DEF AcksAreGenuine, AckedWasReceived, TypeOK
  <2> QED
    BY <2>4, <2>6, <2>7, <2>8
<1>4. CASE EndSweep
  <2> USE <1>4 DEF EndSweep
  <2>1. <<>> \in Seq(Entries) /\ Len(<<>>) = 0
    BY EmptySeq
  <2>2. TypeOK' /\ SweepCleansUp'
    BY <2>1 DEF TypeOK, UIStates, SweepCleansUp
  <2>3. Numbers(<<>>) = {} /\ Distinct(<<>>)
    BY <2>1 DEF Numbers, Distinct
  <2>4. ListInv'
    BY <1>1, <2>1, <2>3 DEF ListInv, DialogHasHead, NumbersKept, RetriesLeft
  <2>5. UnsettledKept' /\ AcksAreGenuine' /\ AckedWasReceived'
    BY <2>3 DEF UnsettledKept, AcksAreGenuine, AckedWasReceived
  <2> QED
    BY <2>2, <2>4, <2>5
<1> QED
  BY <1>2, <1>3, <1>4

(* A handler that waits for the mutex of its own thread changes no list,   *)
(* and one that ends the process neither.                                  *)
LEMMA HaltKeeps ==
  ASSUME RegistryInv, ui' \in {"stuck", "aborted"},
         ui = "main" \/ ui' = "stuck",
         UNCHANGED <<message_list, retry_messages, msglst_mutex, received,
                     sent, outcome>>,
         net' \subseteq net, ackRead' \subseteq PktNos
  PROVE  RegistryInv'
<1> USE DEF RegistryInv
<1>1. TypeOK' /\ SweepCleansUp'
  BY DEF TypeOK, UIStates, SweepCleansUp
<1>2. ListInv'
  BY DEF ListInv, DialogHasHead, NumbersKept, RetriesLeft
<1>3. UnsettledKept' /\ AcksAreGenuine' /\ AckedWasReceived'
  BY DEF UnsettledKept, AcksAreGenuine, AckedWasReceived
<1> QED
  BY <1>1, <1>2, <1>3

(* Sending.  Behind the error dialog the handler blocks; in the main loop  *)
(* the sweep has left nothing aside, so a number not in message_list is    *)
(* not in the registry.                                                    *)
LEMMA SendKeeps ==
  ASSUME RegistryInv, NEW p \in PktNos, do_send(p)
  PROVE  RegistryInv'
<1> USE DEF RegistryInv
<1>1. /\ ui \in {"main", "senderr"}
      /\ register_sent_message(p)
      /\ UNCHANGED <<retry_messages, msglst_mutex, received, ackRead>>
  BY DEF do_send, ipmsg_send_packet
<1>2. CASE ui' \in {"stuck", "aborted"}
  <2>1. UNCHANGED <<net, sent, outcome>>
    BY <1>2 DEF do_send, ipmsg_send_packet
  <2>2. UNCHANGED message_list /\ (ui = "main" \/ ui' = "stuck")
    BY <1>1, <1>2 DEF register_sent_message, WaitForMutex, SweepCleansUp
  <2> QED
    BY <1>1, <1>2, <2>1, <2>2, HaltKeeps DEF TypeOK
<1>3. CASE ui' \notin {"stuck", "aborted"}
  <2>1. /\ ~msglst_mutex
        /\ ~ListHas(p)
        /\ message_list' = Append(message_list, NewEntry(p))
        /\ ui' = ui
    BY <1>1, <1>3 DEF register_sent_message, WaitForMutex
  <2>2. ui = "main" /\ retry_messages = <<>>
    BY <1>1, <2>1 DEF SweepCleansUp
  <2>3. /\ sent' = sent \cup {p}
        /\ outcome' = [outcome EXCEPT ![p] = "none"]
        /\ net' \in {net, net \cup {SendMsg(p, OriginalExt(p))}}
    BY <1>3 DEF do_send, ipmsg_send_packet, ipmsg_send_message
  <2>4. message_list \in Seq(Entries) /\ retry_messages \in Seq(Entries)
    BY DEF TypeOK
  <2>5. /\ NewEntry(p) \in Entries
        /\ NewEntry(p).seq_no = p
        /\ NewEntry(p).retry_remains > 0
    BY ConstantsAssumption DEF NewEntry, Entries
  <2>6. /\ Len(message_list) \in Nat
        /\ DOMAIN message_list = 1..Len(message_list)
    BY <2>4, EntrySeqType
  <2>7. p \notin Numbers(message_list)
    BY <2>1, <2>6 DEF ListHas, Numbers
  <2>8. /\ message_list' \in Seq(Entries)
        /\ Len(message_list') = Len(message_list) + 1
        /\ \A i \in 1..Len(message_list) :
             message_list'[i] = message_list[i]
        /\ message_list'[Len(message_list) + 1] = NewEntry(p)
        /\ Numbers(message_list') = Numbers(message_list) \cup {p}
        /\ Distinct(message_list')
    BY <2>1, <2>4, <2>5, <2>7, AppendEntry DEF ListInv, NumbersKept
  <2>9. net' \subseteq Datagrams
        /\ \A q \in PktNos : RecvMsg(q) \in net' => RecvMsg(q) \in net
    BY <2>3, DatagramKinds DEF TypeOK
  <2>10. TypeOK' /\ SweepCleansUp'
    BY <1>1, <2>1, <2>3, <2>8, <2>9 DEF TypeOK, SweepCleansUp
  <2>11. RetriesLeft'
    <3>1. ASSUME NEW i \in 1..Len(message_list')
          PROVE  message_list'[i].retry_remains # 0
      <4>1. CASE i = Len(message_list) + 1
        BY <2>5, <2>8, <4>1
      <4>2. CASE i \in 1..Len(message_list)
        BY <2>2, <2>8, <4>2 DEF RetriesLeft, ListInv
      <4> QED
        BY <2>6, <2>8, <4>1, <4>2
    <3> QED
      BY <1>1, <2>1, <2>2, <3>1 DEF RetriesLeft, ListInv
  <2>12. Numbers(retry_messages) = {}
    BY <2>2, EmptySeq DEF Numbers
  <2>13. ListInv'
    BY <1>1, <2>1, <2>2, <2>8, <2>11, <2>12
       DEF ListInv, DialogHasHead, NumbersKept
  <2>14. UnsettledKept'
    BY <1>1, <2>3, <2>8, <2>12 DEF UnsettledKept, TypeOK
  <2>15. AcksAreGenuine' /\ AckedWasReceived'
    BY <1>1, <2>3, <2>9 DEF AcksAreGenuine, AckedWasReceived, TypeOK
  <2> QED
    BY <2>10, <2>13, <2>14, <2>15
<1> QED
  BY <1>2, <1>3

(* Reading an acknowledgement.  When the mutex is free the main loop runs, *)
(* and the entry that goes is the only one with its number.                *)
LEMMA AckKeeps ==
  ASSUME RegistryInv, NEW p \in PktNos, ipmsg_proc_recv_msg(p)
  PROVE  RegistryInv'
<1> USE DEF RegistryInv
<1>1. /\ RecvMsg(p) \in net
      /\ net' \subseteq net
      /\ ui \in {"main", "senderr", "faildialog"}
      /\ unregister_sent_message(p)
      /\ ackRead' = ackRead \cup {p}
      /\ UNCHANGED <<retry_messages, msglst_mutex, received, sent>>
  BY DEF ipmsg_proc_recv_msg, Deliver
<1>2. message_list \in Seq(Entries) /\ ackRead' \subseteq PktNos
  BY <1>1 DEF TypeOK
<1>3. CASE WaitForMutex /\ UNCHANGED outcome
  BY <1>1, <1>2, <1>3, HaltKeeps DEF WaitForMutex
<1>4. CASE UNCHANGED <<message_list, outcome, ui>>
  <2>1. TypeOK' /\ SweepCleansUp'
    BY <1>1, <1>2, <1>4 DEF TypeOK, SweepCleansUp
  <2>2. ListInv'
    BY <1>1, <1>4 DEF ListInv, DialogHasHead, NumbersKept, RetriesLeft
  <2>3. UnsettledKept' /\ AcksAreGenuine' /\ AckedWasReceived'
    BY <1>1, <1>4 DEF UnsettledKept, AcksAreGenuine, AckedWasReceived
  <2> QED
    BY <2>1, <2>2, <2>3
<1>5. ASSUME ~msglst_mutex, UNCHANGED ui,
             NEW i \in DOMAIN message_list,
             message_info_find_element(i, p),
             message_list' = RemoveAt(message_list, i),
             outcome' = [outcome EXCEPT ![message_list[i].seq_no] = "acked"]
      PROVE  RegistryInv'
  <2>1. ui = "main" /\ retry_messages = <<>>
    BY <1>1, <1>5 DEF SweepCleansUp
  <2>2. /\ i \in 1..Len(message_list)
        /\ Len(message_list) \in Nat
        /\ message_list[i].seq_no = p
    BY <1>2, <1>5, EntrySeqType DEF message_info_find_element
  <2>3. /\ message_list' \in Seq(Entries)
        /\ Len(message_list') = Len(message_list) - 1
        /\ \A j \in 1..Len(message_list) - 1 :
             message_list'[j] = IF j < i THEN message_list[j]
                                ELSE message_list[j + 1]
        /\ Numbers(message_list') = Numbers(message_list) \ {p}
        /\ Distinct(message_list')
    BY <1>2, <1>5, <2>2, RemoveEntry DEF ListInv, NumbersKept
  <2>4. TypeOK' /\ SweepCleansUp'
    BY <1>1, <1>2, <1>5, <2>2, <2>3 DEF TypeOK, SweepCleansUp
  <2>5. RetriesLeft'
    <3>1. ASSUME NEW j \in 1..Len(message_list')
          PROVE  message_list'[j].retry_remains # 0
      <4>1. j \in 1..Len(message_list) /\ j + 1 \in 1..Len(message_list)
        BY <2>2, <2>3
      <4> QED
        BY <2>1, <2>3, <4>1 DEF RetriesLeft, ListInv
    <3> QED
      BY <1>1, <1>5, <2>1, <3>1 DEF RetriesLeft, ListInv
  <2>6. Numbers(retry_messages) = {}
    BY <2>1, EmptySeq DEF Numbers
  <2>7. ListInv'
    BY <1>1, <1>5, <2>1, <2>3, <2>5, <2>6
       DEF ListInv, DialogHasHead, NumbersKept
  <2>8. UnsettledKept'
    BY <1>1, <1>5, <2>2, <2>3, <2>6 DEF UnsettledKept, TypeOK
  <2>9. AcksAreGenuine' /\ AckedWasReceived'
    BY <1>1, <1>5, <2>2 DEF AcksAreGenuine, AckedWasReceived, TypeOK
  <2> QED
    BY <2>4, <2>7, <2>8, <2>9
<1> QED
  BY <1>1, <1>3, <1>4, <1>5 DEF unregister_sent_message

(* The steps of the peer, of the network and of the timer. *)
LEMMA OthersKeep ==
  ASSUME RegistryInv,
         \/ retry_message_handler
         \/ \E d \in SendMsgs : ipmsg_proc_send_msg(d)
         \/ \E d \in Datagrams : Lose(d)
         \/ UNCHANGED vars
  PROVE  RegistryInv'
<1> USE DEF RegistryInv
<1>1. CASE retry_message_handler
  <2> USE <1>1 DEF retry_message_handler
  <2>1. TypeOK' /\ SweepCleansUp'
    BY DEF TypeOK, UIStates, SweepCleansUp
  <2>2. ListInv'
    BY DEF ListInv, DialogHasHead, NumbersKept, RetriesLeft
  <2>3. UnsettledKept' /\ AcksAreGenuine' /\ AckedWasReceived'
    BY DEF UnsettledKept, AcksAreGenuine, AckedWasReceived
  <2> QED
    BY <2>1, <2>2, <2>3
<1>2. ASSUME UNCHANGED <<message_list, retry_messages, msglst_mutex, ui, sent,
                         outcome, ackRead>>,
             net' \subseteq Datagrams, received' \subseteq SendMsgs,
             received \subseteq received',
             \A p \in PktNos : RecvMsg(p) \in net' =>
               RecvMsg(p) \in net \/ \E d \in received' : d.pktno = p
      PROVE  RegistryInv'
  <2>1. TypeOK' /\ SweepCleansUp'
    BY <1>2 DEF TypeOK, SweepCleansUp
  <2>2. ListInv'
    BY <1>2 DEF ListInv, DialogHasHead, NumbersKept, RetriesLeft
  <2>3. UnsettledKept'
    BY <1>2 DEF UnsettledKept
  <2>4. AcksAreGenuine' /\ AckedWasReceived'
    BY <1>2 DEF AcksAreGenuine, AckedWasReceived
  <2> QED
    BY <2>1, <2>2, <2>3, <2>4
<1>3. ASSUME NEW d \in SendMsgs, ipmsg_proc_send_msg(d)
      PROVE  RegistryInv'
  <2>1. /\ net' \subseteq net \cup {RecvMsg(d.pktno)}
        /\ received' = received \cup {d}
        /\ UNCHANGED <<message_list, retry_messages, msglst_mutex, ui, sent,
                       outcome, ackRead>>
    BY <1>3 DEF ipmsg_proc_send_msg, ipmsg_send_recv_msg, Deliver
  <2>2. d.pktno \in PktNos /\ RecvMsg(d.pktno) \in Datagrams
    BY DatagramKinds
  <2>3. \A p \in PktNos : RecvMsg(p) = RecvMsg(d.pktno) => p = d.pktno
    BY <2>2, DatagramKinds
  <2> QED
    BY <1>2, <2>1, <2>2, <2>3 DEF TypeOK
<1>4. ASSUME NEW d \in Datagrams, Lose(d)
      PROVE  RegistryInv'
  BY <1>2, <1>4 DEF Lose, TypeOK
<1>5. CASE UNCHANGED vars
  BY <1>2, <1>5 DEF vars, TypeOK
<1> QED
  BY <1>1, <1>3, <1>4, <1>5

(* The invariant is inductive. *)
LEMMA RegistryNext == RegistryInv /\ [Next]_vars => RegistryInv'
<1> SUFFICES ASSUME RegistryInv, [Next]_vars PROVE RegistryInv'
  OBVIOUS
<1>1. CASE \E p \in PktNos : do_send(p)
  BY <1>1, SendKeeps
<1>2. CASE \E p \in PktNos : ipmsg_proc_recv_msg(p)
  BY <1>2, AckKeeps
<1>3. CASE Sweep
  BY <1>3, SweepTurns, SweepOthers DEF Sweep
<1>4. CASE \/ retry_message_handler
           \/ \E d \in SendMsgs : ipmsg_proc_send_msg(d)
           \/ \E d \in Datagrams : Lose(d)
           \/ UNCHANGED vars
  BY <1>4, OthersKeep
<1> QED
  BY <1>1, <1>2, <1>3, <1>4 DEF Next

LEMMA RegistryAlways == Spec => []RegistryInv
BY RegistryInit, RegistryNext, PTL DEF Spec

-----------------------------------------------------------------------------
(* What the inductive invariant says of the registry as one sequence.      *)
LEMMA RegistrySplit ==
  ASSUME RegistryInv
  PROVE  /\ Len(message_list) \in Nat /\ Len(retry_messages) \in Nat
         /\ DOMAIN Registry = 1..Len(retry_messages) + Len(message_list)
         /\ \A i \in DOMAIN Registry :
              Registry[i] = IF i <= Len(retry_messages) THEN retry_messages[i]
                            ELSE message_list[i - Len(retry_messages)]
<1>1. message_list \in Seq(Entries) /\ retry_messages \in Seq(Entries)
  BY DEF RegistryInv, TypeOK
<1>2. Len(message_list) \in Nat
  BY <1>1, EntrySeqType
<1>3. Len(retry_messages) \in Nat
  BY <1>1, EntrySeqType
<1>4. /\ Registry \in Seq(Entries)
      /\ Len(Registry) = Len(retry_messages) + Len(message_list)
      /\ \A i \in 1..Len(retry_messages) + Len(message_list) :
           Registry[i] = IF i <= Len(retry_messages) THEN retry_messages[i]
                         ELSE message_list[i - Len(retry_messages)]
  BY <1>1, ConcatProperties DEF Registry
<1>5. DOMAIN Registry = 1..Len(Registry)
  BY <1>4, LenProperties
<1> QED
  BY <1>2, <1>3, <1>4, <1>5

(* A number is registered exactly if one of the two lists holds it. *)
LEMMA RegisteredIsListed ==
  ASSUME RegistryInv, NEW p
  PROVE  Registered(p)
           <=> p \in Numbers(message_list) \cup Numbers(retry_messages)
<1> DEFINE m == Len(message_list)
           r == Len(retry_messages)
<1>1. /\ m \in Nat /\ r \in Nat
      /\ DOMAIN Registry = 1..r + m
      /\ \A i \in DOMAIN Registry :
           Registry[i] = IF i <= r THEN retry_messages[i]
                         ELSE message_list[i - r]
  BY RegistrySplit
<1> HIDE DEF m, r
<1>2. ASSUME NEW i \in 1..r + m, Registry[i].seq_no = p
      PROVE  p \in Numbers(message_list) \cup Numbers(retry_messages)
  <2>1. CASE i <= r
    BY <1>1, <1>2, <2>1 DEF Numbers, r
  <2>2. CASE ~(i <= r)
    <3>1. i - r \in 1..m /\ Registry[i] = message_list[i - r]
      BY <1>1, <2>2
    <3> QED
      BY <1>2, <3>1 DEF Numbers, m
  <2> QED
    BY <2>1, <2>2
<1>3. ASSUME NEW i \in 1..r, retry_messages[i].seq_no = p
      PROVE  Registered(p)
  <2>1. i \in DOMAIN Registry /\ i <= r
    BY <1>1
  <2> QED
    BY <1>1, <1>3, <2>1 DEF Registered
<1>4. ASSUME NEW i \in 1..m, message_list[i].seq_no = p
      PROVE  Registered(p)
  <2>1. /\ i + r \in 1..r + m /\ ~(i + r <= r) /\ (i + r) - r = i
    BY <1>1
  <2>2. Registry[i + r] = message_list[i]
    BY <1>1, <2>1
  <2> QED
    BY <1>1, <1>4, <2>1, <2>2 DEF Registered
<1> QED
  BY <1>1, <1>2, <1>3, <1>4 DEF Registered, Numbers, m, r

-----------------------------------------------------------------------------
(* Every variable keeps its type; in particular no retry count goes below  *)
(* zero, although retry_messages_once decrements it before the test.       *)
THEOREM TypeCorrect == Spec => []TypeOK
BY RegistryAlways, PTL DEF RegistryInv

(* msglst_mutex is held exactly while a sweep is in progress, and nothing  *)
(* is left aside when the main loop has the UI thread.                     *)
THEOREM SweepsCleanUp == Spec => []SweepCleansUp
BY RegistryAlways, PTL DEF RegistryInv

(* The registry takes a message for delivered only if a peer has shown it. *)
THEOREM AckedMessagesWereReceived == Spec => []AckedWasReceived
BY RegistryAlways, PTL DEF RegistryInv

(* No sweep, dialog or acknowledgement duplicates an entry. *)
THEOREM NumbersAreUnique == Spec => []OneEntryPerNumber
<1>1. ASSUME RegistryInv PROVE OneEntryPerNumber
  <2> DEFINE m == Len(message_list)
             r == Len(retry_messages)
  <2>1. /\ m \in Nat /\ r \in Nat
        /\ DOMAIN Registry = 1..r + m
        /\ \A i \in DOMAIN Registry :
             Registry[i] = IF i <= r THEN retry_messages[i]
                           ELSE message_list[i - r]
    BY <1>1, RegistrySplit
  <2>2. /\ \A i, j \in 1..m :
             message_list[i].seq_no = message_list[j].seq_no => i = j
        /\ \A i, j \in 1..r :
             retry_messages[i].seq_no = retry_messages[j].seq_no => i = j
        /\ \A i \in 1..r, j \in 1..m :
             retry_messages[i].seq_no # message_list[j].seq_no
    BY <1>1 DEF RegistryInv, ListInv, NumbersKept, Distinct, Numbers
  <2> HIDE DEF m, r
  <2>3. SUFFICES ASSUME NEW i \in DOMAIN Registry, NEW j \in DOMAIN Registry,
                        Registry[i].seq_no = Registry[j].seq_no
                 PROVE  i = j
    BY DEF OneEntryPerNumber
  <2>4. CASE i <= r /\ j <= r
    BY <2>1, <2>2, <2>3, <2>4
  <2>5. CASE i <= r /\ ~(j <= r)
    <3>1. j - r \in 1..m /\ i \in 1..r
      BY <2>1, <2>5
    <3> QED
      BY <2>1, <2>2, <2>3, <2>5, <3>1
  <2>6. CASE ~(i <= r) /\ j <= r
    <3>1. i - r \in 1..m /\ j \in 1..r
      BY <2>1, <2>6
    <3> QED
      BY <2>1, <2>2, <2>3, <2>6, <3>1
  <2>7. CASE ~(i <= r) /\ ~(j <= r)
    <3>1. i - r \in 1..m /\ j - r \in 1..m
      BY <2>1, <2>7
    <3>2. i - r = j - r
      BY <2>1, <2>2, <2>3, <2>7, <3>1
    <3> QED
      BY <2>1, <3>2
  <2> QED
    BY <2>4, <2>5, <2>6, <2>7
<1> QED
  BY <1>1, RegistryAlways, PTL

(* A message is in the registry exactly from its sending until its         *)
(* acknowledgement is read or the user gives it up.                        *)
THEOREM MessagesStayRegistered == Spec => []RegisteredUntilSettled
<1>1. RegistryInv => RegisteredUntilSettled
  BY RegisteredIsListed DEF RegistryInv, UnsettledKept, RegisteredUntilSettled
<1> QED
  BY <1>1, RegistryAlways, PTL

(* The user is asked exactly about the message whose retries are used up.  *)
THEOREM UserAskedWhenExhausted == Spec => []AskedWhenExhausted
<1>1. ASSUME RegistryInv PROVE AskedWhenExhausted
  <2> DEFINE m == Len(message_list)
             r == Len(retry_messages)
  <2>1. /\ m \in Nat /\ r \in Nat
        /\ DOMAIN Registry = 1..r + m
        /\ \A i \in DOMAIN Registry :
             Registry[i] = IF i <= r THEN retry_messages[i]
                           ELSE message_list[i - r]
    BY <1>1, RegistrySplit
  <2>2. /\ \A i \in 1..r : retry_messages[i].retry_remains # 0
        /\ \A i \in 1..m : message_list[i].retry_remains = 0 =>
             i = 1 /\ ui \in {"faildialog", "stuck"}
        /\ ui = "faildialog" => message_list[1].retry_remains = 0
    BY <1>1 DEF RegistryInv, ListInv, RetriesLeft
  <2> HIDE DEF m, r
  <2>3. SUFFICES ASSUME NEW i \in DOMAIN Registry
                 PROVE  /\ Registry[i].retry_remains = 0 =>
                             i = r + 1 /\ ui \in {"faildialog", "stuck"}
                        /\ i = r + 1 /\ ui = "faildialog" =>
                             Registry[i].retry_remains = 0
    BY DEF AskedWhenExhausted, r
  <2>4. CASE i <= r
    <3>1. i \in 1..r /\ i # r + 1
      BY <2>1, <2>4
    <3> QED
      BY <2>1, <2>2, <2>4, <3>1
  <2>5. CASE ~(i <= r)
    <3>1. i - r \in 1..m /\ (i = r + 1 <=> i - r = 1)
      BY <2>1, <2>5
    <3> QED
      BY <2>1, <2>2, <2>5, <3>1
  <2> QED
    BY <2>4, <2>5
<1> QED
  BY <1>1, RegistryAlways, PTL

(* A message that has been acknowledged or given up is never sent again.   *)
THEOREM SettledMessagesAreNotResent == Spec => SettledIsNotResent
<1> DEFINE Fresh ==
      \A d \in (net' \ net) \cap SendMsgs : outcome'[d.pktno] = "none"
<1>1. ASSUME RegistryInv, [Next]_vars PROVE [Fresh]_vars
  <2> SUFFICES ASSUME Next, NEW d \in SendMsgs, d \in net', d \notin net
               PROVE  outcome'[d.pktno] = "none"
    BY <1>1
  <2>1. ASSUME NEW p \in PktNos, do_send(p)
        PROVE  outcome'[d.pktno] = "none"
    <3>1. /\ d = SendMsg(p, OriginalExt(p))
          /\ outcome' = [outcome EXCEPT ![p] = "none"]
      BY <2>1 DEF do_send, ipmsg_send_packet, ipmsg_send_message
    <3> QED
      BY <1>1, <3>1, DatagramKinds DEF RegistryInv, TypeOK
  <2>2. ASSUME SweepResend
        PROVE  outcome'[d.pktno] = "none"
    <3> DEFINE h == Head(message_list)
    <3>1. /\ message_list \in Seq(Entries) /\ message_list # <<>>
          /\ UNCHANGED outcome
      BY <1>1, <2>2 DEF RegistryInv, TypeOK, SweepResend
    <3>2. /\ h \in Entries /\ h = message_list[1]
          /\ 1 \in 1..Len(message_list)
      BY <3>1, EntrySeqType
    <3>3. d.pktno = h.seq_no
      BY <2>2, DatagramKinds DEF SweepResend
    <3>4. h.seq_no \in PktNos /\ h.seq_no \in Numbers(message_list)
      BY <3>2 DEF Entries, Numbers
    <3> QED
      BY <1>1, <3>1, <3>3, <3>4 DEF RegistryInv, UnsettledKept
  <2>3. ASSUME \/ \E p \in PktNos : ipmsg_proc_recv_msg(p)
               \/ retry_message_handler \/ SweepFirst \/ SweepSendFails
               \/ SendErrorShown \/ FailDialogOK \/ FailDialogGiveUp
               \/ EndSweep
               \/ \E x \in Datagrams : Lose(x)
        PROVE  net' \subseteq net
    BY <2>3 DEF ipmsg_proc_recv_msg, Deliver, retry_message_handler,
         SweepFirst, SweepSendFails, SendErrorShown, FailDialogOK,
         FailDialogGiveUp, EndSweep, Lose
  <2>4. ASSUME NEW x \in SendMsgs, ipmsg_proc_send_msg(x)
        PROVE  FALSE
    <3>1. net' \subseteq net \cup {RecvMsg(x.pktno)} /\ x.pktno \in PktNos
      BY <2>4, DatagramKinds DEF ipmsg_proc_send_msg, ipmsg_send_recv_msg,
                                 Deliver
    <3> QED
      BY <3>1, DatagramKinds
  <2> QED
    BY <2>1, <2>2, <2>3, <2>4 DEF Next, Sweep
<1>2. RegistryInv /\ [Next]_vars => [Fresh]_vars
  BY <1>1
<1>3. Spec => [][Fresh]_vars
  BY <1>2, RegistryAlways, PTL DEF Spec
<1> QED
  BY <1>3 DEF SettledIsNotResent

-----------------------------------------------------------------------------
(* The registry implements MessageDelivery. *)

(* Only messages that were sent are in flight. *)
NetIsSent == \A d \in net \cap SendMsgs : d.pktno \in sent

DeliveryInv == RegistryInv /\ NetIsSent

(* The status MessageDelivery sees, without the registry's two lists. *)
LEMMA StatusIs ==
  ASSUME RegistryInv, NEW p \in PktNos
  PROVE  statusOf(p) = IF p \notin sent THEN "unsent"
                       ELSE IF outcome[p] = "none" THEN "pending"
                       ELSE outcome[p]
<1>1. Registered(p) <=> p \in sent /\ outcome[p] = "none"
  BY RegisteredIsListed DEF RegistryInv, UnsettledKept
<1> QED
  BY <1>1 DEF statusOf

(* What a step does to the datagrams of messages, to sent and to outcome:  *)
(* the user sends, the sweep sends again, or nothing new is in flight.     *)
LEMMA NewDatagrams ==
  ASSUME RegistryInv, [Next]_vars
  PROVE  /\ sent \subseteq sent'
         /\ \A d \in (net' \ net) \cap SendMsgs : d.pktno \in sent'
<1>1. ASSUME NEW p \in PktNos, do_send(p)
      PROVE  /\ sent \subseteq sent'
             /\ \A d \in (net' \ net) \cap SendMsgs : d.pktno \in sent'
  BY <1>1, DatagramKinds DEF do_send, ipmsg_send_packet, ipmsg_send_message
<1>2. ASSUME SweepResend
      PROVE  /\ sent \subseteq sent'
             /\ \A d \in (net' \ net) \cap SendMsgs : d.pktno \in sent'
  <2> DEFINE h == Head(message_list)
  <2>1. message_list \in Seq(Entries) /\ message_list # <<>> /\ sent' = sent
    BY <1>2 DEF RegistryInv, TypeOK, SweepResend
  <2>2. h \in Entries /\ h = message_list[1] /\ 1 \in 1..Len(message_list)
    BY <2>1, EntrySeqType
  <2>3. h.seq_no \in PktNos /\ h.seq_no \in Numbers(message_list)
    BY <2>2 DEF Entries, Numbers
  <2>4. h.seq_no \in sent
    BY <2>3 DEF RegistryInv, UnsettledKept
  <2>5. \A d \in (net' \ net) \cap SendMsgs : d.pktno = h.seq_no
    BY <1>2, DatagramKinds DEF SweepResend
  <2> QED
    BY <2>1, <2>4, <2>5
<1>3. ASSUME NEW x \in SendMsgs, ipmsg_proc_send_msg(x)
      PROVE  sent' = sent /\ (net' \ net) \cap SendMsgs = {}
  <2>1. net' \subseteq net \cup {RecvMsg(x.pktno)} /\ x.pktno \in PktNos
    BY <1>3, DatagramKinds DEF ipmsg_proc_send_msg, ipmsg_send_recv_msg,
                               Deliver
  <2> QED
    BY <1>3, <2>1, DatagramKinds DEF ipmsg_proc_send_msg
<1>4. ASSUME \/ \E p \in PktNos : ipmsg_proc_recv_msg(p)
             \/ retry_message_handler \/ SweepFirst \/ SweepSendFails
             \/ SendErrorShown \/ FailDialogOK \/ FailDialogGiveUp
             \/ EndSweep
             \/ \E x \in Datagrams : Lose(x)
             \/ UNCHANGED vars
      PROVE  sent' = sent /\ net' \subseteq net
  BY <1>4 DEF ipmsg_proc_recv_msg, Deliver, retry_message_handler,
       SweepFirst, SweepSendFails, SendErrorShown, FailDialogOK,
       FailDialogGiveUp, EndSweep, Lose, vars
<1> QED
  BY <1>1, <1>2, <1>3, <1>4 DEF Next, Sweep

LEMMA DeliveryAlways == Spec => []DeliveryInv
<1>1. Init => NetIsSent
  BY DEF Init, NetIsSent
<1>2. RegistryInv /\ NetIsSent /\ [Next]_vars => NetIsSent'
  BY NewDatagrams DEF NetIsSent
<1> QED
  BY <1>1, <1>2, RegistryAlways, PTL DEF Spec, DeliveryInv

-----------------------------------------------------------------------------
(* The abstract status as a function of the concrete state. *)
statusBar == [p \in PktNos |-> statusOf(p)]

deliveredBar == {d.pktno : d \in received}

statusFrom == [p \in PktNos |-> IF p \notin sent THEN "unsent"
                               ELSE IF outcome[p] = "none" THEN "pending"
                               ELSE outcome[p]]

LEMMA StatusBarIs == RegistryInv => statusBar = statusFrom
BY StatusIs DEF statusBar, statusFrom

(* One step of the registry is one step of the abstract specification, or  *)
(* changes nothing it sees.                                                *)
LEMMA StepIsDelivery ==
  ASSUME UniqueNumbers, DeliveryInv, DeliveryInv', [Next]_vars
  PROVE  [Delivery!Next]_<<statusBar, deliveredBar>>
<1>1. statusBar = statusFrom /\ (statusBar = statusFrom)'
  <2>1. RegistryInv /\ RegistryInv'
    BY DEF DeliveryInv
  <2> QED
    BY <2>1, StatusBarIs, PTL
<1>2. statusBar' = [p \in PktNos |-> IF p \notin sent' THEN "unsent"
                                     ELSE IF outcome'[p] = "none" THEN "pending"
                                     ELSE outcome'[p]]
  BY <1>1 DEF statusFrom
<1>3. /\ TypeOK
      /\ \A p \in PktNos : outcome[p] \in {"none", "acked", "abandoned"}
      /\ outcome \in [PktNos -> {"none", "acked", "abandoned"}]
  BY DEF DeliveryInv, RegistryInv, TypeOK
<1>4. ASSUME UNCHANGED <<sent, outcome, received>>
      PROVE  UNCHANGED <<statusBar, deliveredBar>>
  BY <1>1, <1>2, <1>4 DEF deliveredBar, statusFrom
<1>5. ASSUME NEW p \in PktNos, do_send(p),
             ~UNCHANGED <<sent, outcome, received>>
      PROVE  Delivery!Send(p)
  <2>1. /\ p \notin sent
        /\ sent' = sent \cup {p}
        /\ outcome' = [outcome EXCEPT ![p] = "none"]
        /\ received' = received
    BY <1>5 DEF do_send, ipmsg_send_packet
  <2>2. /\ statusBar[p] = "unsent"
        /\ statusBar' = [statusBar EXCEPT ![p] = "pending"]
    BY <1>1, <1>2, <1>3, <2>1 DEF statusFrom
  <2> QED
    BY <2>1, <2>2 DEF Delivery!Send, Delivery!Becomes, statusBar, deliveredBar
<1>6. ASSUME NEW p \in PktNos, ipmsg_proc_recv_msg(p),
             ~UNCHANGED <<sent, outcome, received>>
      PROVE  Delivery!Confirm(p)
  <2>1. /\ RecvMsg(p) \in net
        /\ unregister_sent_message(p)
        /\ sent' = sent
        /\ received' = received
    BY <1>6 DEF ipmsg_proc_recv_msg
  <2>2. PICK i \in DOMAIN message_list :
          /\ message_info_find_element(i, p)
          /\ outcome' = [outcome EXCEPT ![message_list[i].seq_no] = "acked"]
    BY <1>6, <2>1 DEF unregister_sent_message
  <2>3. outcome' = [outcome EXCEPT ![p] = "acked"]
    BY <2>2 DEF message_info_find_element
  <2>4. p \in Numbers(message_list)
    <3>1. DOMAIN message_list = 1..Len(message_list)
      BY <1>3, EntrySeqType DEF TypeOK
    <3> QED
      BY <2>2, <3>1 DEF message_info_find_element, Numbers
  <2>5. p \in sent /\ outcome[p] = "none"
    BY <2>4 DEF DeliveryInv, RegistryInv, UnsettledKept
  <2>6. /\ statusBar[p] = "pending"
        /\ statusBar' = [statusBar EXCEPT ![p] = "acked"]
    BY <1>1, <1>2, <1>3, <2>1, <2>3, <2>5 DEF statusFrom
  <2>7. p \in deliveredBar /\ deliveredBar' = deliveredBar
    BY <2>1 DEF deliveredBar, DeliveryInv, RegistryInv, AcksAreGenuine
  <2> QED
    BY <2>6, <2>7 DEF Delivery!Confirm, Delivery!Becomes, statusBar,
                      deliveredBar
<1>7. ASSUME FailDialogGiveUp
      PROVE  \E p \in PktNos : Delivery!GiveUp(p)
  <2> DEFINE p == Head(message_list).seq_no
  <2>1. /\ message_list \in Seq(Entries) /\ message_list # <<>>
        /\ sent' = sent /\ received' = received
        /\ outcome' = [outcome EXCEPT ![p] = "abandoned"]
    BY <1>3, <1>7 DEF FailDialogGiveUp, TypeOK, DeliveryInv, RegistryInv,
                      ListInv, DialogHasHead
  <2>2. p \in PktNos /\ p \in Numbers(message_list)
    <3>1. /\ Head(message_list) \in Entries
          /\ Head(message_list) = message_list[1]
          /\ 1 \in 1..Len(message_list)
      BY <2>1, EntrySeqType
    <3> QED
      BY <3>1 DEF Entries, Numbers
  <2> HIDE DEF p
  <2>3. p \in sent /\ outcome[p] = "none"
    BY <2>2 DEF DeliveryInv, RegistryInv, UnsettledKept
  <2>4. /\ statusBar[p] = "pending"
        /\ statusBar' = [statusBar EXCEPT ![p] = "abandoned"]
    BY <1>1, <1>2, <1>3, <2>1, <2>2, <2>3 DEF statusFrom
  <2> QED
    BY <2>1, <2>2, <2>4 DEF Delivery!GiveUp, Delivery!Becomes, statusBar,
                            deliveredBar
<1>8. ASSUME NEW d \in SendMsgs, ipmsg_proc_send_msg(d)
      PROVE  d.pktno \in PktNos /\ Delivery!Arrive(d.pktno)
  <2>1. /\ d \in net /\ d.pktno \in PktNos
        /\ received' = received \cup {d}
        /\ UNCHANGED <<sent, outcome>>
    BY <1>8, DatagramKinds DEF ipmsg_proc_send_msg
  <2>2. d.pktno \in sent
    BY <2>1 DEF DeliveryInv, NetIsSent
  <2>3. statusBar[d.pktno] # "unsent" /\ statusBar' = statusBar
    BY <1>1, <1>2, <1>3, <2>1, <2>2 DEF statusFrom
  <2> QED
    BY <2>1, <2>3 DEF Delivery!Arrive, statusBar, deliveredBar
<1>9. ASSUME \/ retry_message_handler \/ SweepFirst \/ SweepResend
             \/ SweepSendFails \/ SendErrorShown \/ FailDialogOK
             \/ EndSweep
             \/ \E x \in Datagrams : Lose(x)
             \/ UNCHANGED vars
      PROVE  UNCHANGED <<sent, outcome, received>>
  BY <1>9 DEF retry_message_handler, SweepFirst, SweepResend, SweepSendFails,
       SendErrorShown, FailDialogOK, EndSweep, Lose, vars
<1> QED
  BY <1>4, <1>5, <1>6, <1>7, <1>8, <1>9 DEF Next, Sweep, Delivery!Next

LEMMA InitIsDelivery == Init => Delivery!Init
<1> SUFFICES ASSUME Init PROVE Delivery!Init
  OBVIOUS
<1>1. statusBar = [p \in PktNos |-> "unsent"]
  BY RegistryInit, StatusBarIs DEF Init, statusFrom
<1> QED
  BY <1>1 DEF Init, Delivery!Init, statusBar

(* Whatever the network and the user do, the registry keeps the promise of *)
(* MessageDelivery: a message is confirmed only after a peer has it, and   *)
(* is neither lost by a sweep nor confirmed after it was given up.         *)
THEOREM RegistryImplementsDelivery ==
  ASSUME UniqueNumbers
  PROVE  Spec => ImplementsDelivery
<1>1. DeliveryInv /\ DeliveryInv' /\ [Next]_vars => [Delivery!Next]_Delivery!vars
  BY StepIsDelivery DEF Delivery!vars, statusBar, deliveredBar
<1> QED
  BY <1>1, InitIsDelivery, DeliveryAlways, PTL
     DEF Spec, ImplementsDelivery, Delivery!Spec

-----------------------------------------------------------------------------
(* The registry with the numbers ipmsg_get_pkt_no hands out. *)

(* The number handed out next is the clock plus the next count; as long as *)
(* neither wraps nor goes back, it is above every number used before.      *)
NumbersBelow ==
  ~steppedBack /\ clock < ClockPeriod =>
    ui # "aborted" /\ \A p \in sent : p <= clock + pkt_no

NumberedInv ==
  /\ RegistryInv
  /\ clock \in Nat
  /\ pkt_no \in Nat
  /\ NumbersBelow

LEMMA ClockBelowPeriod ==
  ASSUME clock \in Nat, clock < ClockPeriod
  PROVE  clock % ClockPeriod = clock
BY NumbersAssumption

LEMMA ListedWasSent ==
  ASSUME RegistryInv, NEW p \in PktNos, ListHas(p)
  PROVE  p \in sent
<1>1. p \in Numbers(message_list)
  BY EntrySeqType DEF RegistryInv, TypeOK, ListHas, Numbers
<1> QED
  BY <1>1 DEF RegistryInv, UnsettledKept

(* Only a new message can abort the program. *)
LEMMA OnlySendAborts ==
  ASSUME RegistryInv, RegistryStep, ui' = "aborted"
  PROVE  ui = "aborted"
BY DEF RegistryStep, ipmsg_proc_recv_msg, unregister_sent_message,
       WaitForMutex, retry_message_handler, Sweep, SweepFirst, SweepResend,
       SweepSendFails, SendErrorShown, FailDialogOK, FailDialogGiveUp,
       EndSweep, VisitedAs, ipmsg_proc_send_msg, Lose

LEMMA RegistryStepIsNext ==
  ASSUME RegistryInv, RegistryStep
  PROVE  Next /\ sent' = sent
<1>1. ASSUME NEW d \in net, Lose(d) PROVE d \in Datagrams
  BY <1>1 DEF RegistryInv, TypeOK
<1>2. Next
  BY <1>1 DEF RegistryStep, Next
<1>3. sent' = sent
  BY DEF RegistryStep, ipmsg_proc_recv_msg, retry_message_handler, Sweep,
         SweepFirst, SweepResend, SweepSendFails, SendErrorShown,
         FailDialogOK, FailDialogGiveUp, EndSweep, ipmsg_proc_send_msg, Lose
<1> QED
  BY <1>2, <1>3

LEMMA NumberedSendKeeps ==
  ASSUME NumberedInv, NEW p \in PktNos, NumberedSend(p)
  PROVE  NumberedInv'
<1>1. RegistryInv'
  BY SendKeeps DEF NumberedInv, NumberedSend
<1>2. /\ p = (clock % ClockPeriod) + (pkt_no + 1)
      /\ clock' = clock /\ pkt_no' = pkt_no + 1 /\ steppedBack' = steppedBack
      /\ do_send(p)
  BY DEF NumberedSend, ipmsg_get_pkt_no, NextPktNo
<1>3. ASSUME ~steppedBack, clock < ClockPeriod
      PROVE  ui' # "aborted" /\ \A q \in sent' : q <= clock' + pkt_no'
  <2>1. p = clock + pkt_no + 1
    BY <1>2, <1>3, ClockBelowPeriod DEF NumberedInv
  <2>2. \A q \in sent : q <= clock + pkt_no /\ q \in PktNos
    BY <1>3 DEF NumberedInv, NumbersBelow, RegistryInv, TypeOK
  <2>3. \A q \in sent : q \in Nat
    BY <2>2, NumberedAssumption, NumbersAssumption
  <2>4. p \notin sent
    BY <2>1, <2>2, <2>3 DEF NumberedInv
  <2>5. ~ListHas(p)
    BY <2>4, ListedWasSent DEF NumberedInv
  <2>6. ui # "aborted"
    BY <1>3 DEF NumberedInv, NumbersBelow
  <2>7. ui' # "aborted" /\ sent' \subseteq sent \cup {p}
    BY <1>2, <2>5, <2>6 DEF do_send, ipmsg_send_packet, register_sent_message,
                            WaitForMutex
  <2> QED
    BY <1>2, <2>1, <2>2, <2>3, <2>7 DEF NumberedInv
<1> QED
  BY <1>1, <1>2, <1>3 DEF NumberedInv, NumbersBelow

LEMMA ClockKeeps ==
  ASSUME NumberedInv, OtherPacket \/ Clock
  PROVE  NumberedInv'
<1>1. UNCHANGED vars
  BY DEF OtherPacket, Clock
<1>2. RegistryInv'
  BY <1>1, OthersKeep DEF NumberedInv
<1>3. \A q \in sent : q \in Nat
  BY NumberedAssumption, NumbersAssumption DEF NumberedInv, RegistryInv, TypeOK
<1>4. sent' = sent /\ ui' = ui
  BY <1>1 DEF vars
<1>5. CASE OtherPacket \/ (Tick /\ UNCHANGED steppedBack)
  <2>1. /\ clock' \in Nat /\ pkt_no' \in Nat /\ steppedBack' = steppedBack
        /\ clock' + pkt_no' = clock + pkt_no + 1
        /\ clock' >= clock
    BY <1>5 DEF OtherPacket, Tick, ipmsg_get_pkt_no, NumberedInv
  <2>2. ASSUME ~steppedBack', clock' < ClockPeriod
        PROVE  ui' # "aborted" /\ \A q \in sent' : q <= clock' + pkt_no'
    <3>1. ~steppedBack /\ clock < ClockPeriod
      BY <2>1, <2>2, NumbersAssumption DEF NumberedInv
    <3>2. ui # "aborted" /\ \A q \in sent : q <= clock + pkt_no
      BY <3>1 DEF NumberedInv, NumbersBelow
    <3>3. clock + pkt_no \in Nat
      BY DEF NumberedInv
    <3> QED
      BY <1>3, <1>4, <2>1, <3>2, <3>3
  <2> QED
    BY <1>2, <2>1, <2>2 DEF NumberedInv, NumbersBelow
<1>6. CASE StepBack /\ steppedBack' = TRUE
  BY <1>2, <1>6 DEF StepBack, NumberedInv, NumbersBelow
<1> QED
  BY <1>5, <1>6 DEF Clock

LEMMA NumberedNextKeeps ==
  ASSUME NumberedInv, [NumberedNext]_allVars
  PROVE  NumberedInv'
<1>1. CASE \E p \in PktNos : NumberedSend(p)
  BY <1>1, NumberedSendKeeps
<1>2. CASE OtherPacket \/ Clock
  BY <1>2, ClockKeeps
<1>3. CASE RegistryStep
  <2>1. UNCHANGED numberVars
    BY <1>3 DEF RegistryStep
  <2>2. RegistryInv' /\ sent' = sent
    BY <1>3, RegistryStepIsNext, RegistryNext DEF NumberedInv
  <2>3. ui' = "aborted" => ui = "aborted"
    BY <1>3, OnlySendAborts DEF NumberedInv
  <2> QED
    BY <2>1, <2>2, <2>3 DEF NumberedInv, NumbersBelow, numberVars
<1>4. CASE UNCHANGED allVars
  <2>1. UNCHANGED vars /\ UNCHANGED numberVars
    BY <1>4 DEF allVars
  <2>2. RegistryInv' /\ sent' = sent /\ ui' = ui
    BY <2>1, OthersKeep DEF NumberedInv, vars
  <2> QED
    BY <2>1, <2>2 DEF NumberedInv, NumbersBelow, numberVars
<1> QED
  BY <1>1, <1>2, <1>3, <1>4 DEF NumberedNext

(* As long as the clock is not set back and less than a period has passed, *)
(* the assertion of register_sent_message holds: no number is handed out   *)
(* while the registry still holds a message under it, however many other   *)
(* packets are sent in between and whatever the retries do.                *)
THEOREM NumbersAreNotReused == NumberedSpec => []NumbersDoNotCollide
<1>1. NumberedInit => NumberedInv
  BY RegistryInit DEF NumberedInit, NumbersInit, Init, NumberedInv,
                      NumbersBelow
<1>2. NumberedInv /\ [NumberedNext]_allVars => NumberedInv'
  BY NumberedNextKeeps
<1>3. NumberedInv => NumbersDoNotCollide
  BY DEF NumberedInv, NumbersBelow, NumbersDoNotCollide
<1> QED
  BY <1>1, <1>2, <1>3, PTL DEF NumberedSpec
=============================================================================
