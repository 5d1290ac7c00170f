----------------------------- MODULE ReceivingProofs -----------------------------
(***************************************************************************)
(* For any messages, windows and transfers: the lists follow the windows,  *)
(* a seal hides, and what could be read is in the log.  Transfers can be   *)
(* nested to any depth, but a modal dialog is always the innermost         *)
(* handler, and a window has one error dialog at most.  A transfer that no *)
(* other disturbs leaves the offered file, and files that are not agreed   *)
(* to be overwritten are left alone.                                       *)
(***************************************************************************)
EXTENDS Receiving, SequencesExt, SequenceTheorems, FiniteSetTheorems, TLAPS

--------------------------------------------------------------------------------
(* What becomes of a sequence, here the handlers on the stack, when one is *)
(* put on it, taken off, or each is replaced.  A sequence is typed by its  *)
(* own elements, so that no set of all handlers needs to be named.         *)

Elements(s) == {s[i] : i \in DOMAIN s}

LEMMA IsSeq ==
  ASSUME NEW n \in Nat, NEW T, NEW t \in [1..n -> T]
  PROVE  t \in Seq(T)
BY SeqDef

LEMMA Appended ==
  ASSUME NEW s, s \in Seq(Elements(s)), NEW f
  PROVE  LET t == Append(s, f)
         IN  /\ t \in Seq(Elements(t))
             /\ Len(s) \in Nat /\ Len(t) = Len(s) + 1
             /\ DOMAIN s = 1..Len(s) /\ DOMAIN t = 1..(Len(s) + 1)
             /\ \A i \in DOMAIN t : t[i] = IF i = Len(s) + 1 THEN f ELSE s[i]
<1> DEFINE t == Append(s, f)
           S == Elements(s) \union {f}
<1>1. s \in Seq(S) /\ f \in S
  BY SeqMonotonic
<1>2. /\ t \in Seq(S) /\ Len(t) = Len(s) + 1
      /\ \A i \in 1..Len(s) : t[i] = s[i]
      /\ t[Len(s) + 1] = f
  BY <1>1, AppendProperties
<1>3. Len(s) \in Nat /\ DOMAIN s = 1..Len(s) /\ DOMAIN t = 1..Len(t)
  BY <1>1, <1>2, LenProperties
<1>4. t \in [1..Len(t) -> Elements(t)]
  BY <1>2, <1>3, LenProperties DEF Elements
<1>5. t \in Seq(Elements(t))
  <2> HIDE DEF t
  <2> QED
    BY <1>2, <1>3, <1>4, IsSeq
<1> QED
  BY <1>2, <1>3, <1>5

LEMMA Popped ==
  ASSUME NEW s, s \in Seq(Elements(s)), s # <<>>
  PROVE  LET t == Front(s)
         IN  /\ t \in Seq(Elements(t))
             /\ Len(s) \in Nat \ {0} /\ Len(t) = Len(s) - 1
             /\ DOMAIN s = 1..Len(s) /\ DOMAIN t = 1..(Len(s) - 1)
             /\ \A i \in DOMAIN t : t[i] = s[i]
             /\ Last(s) = s[Len(s)] /\ Len(s) \in DOMAIN s
<1> DEFINE t == Front(s)
<1>1. Len(s) \in Nat \ {0} /\ DOMAIN s = 1..Len(s) /\ \A i \in 1..Len(s) : s[i] \in Elements(s)
  BY EmptySeq, LenProperties, ElementOfSeq
<1>2. /\ t \in Seq(Elements(s))
      /\ Len(t) = Len(s) - 1
      /\ \A i \in 1..(Len(s) - 1) : t[i] = s[i]
  <2>1. \A i \in 1..(Len(s) - 1) : s[i] \in Elements(s)
    BY <1>1
  <2> QED
    BY <1>1, <2>1, SubSeqProperties DEF Front
<1>3. DOMAIN t = 1..(Len(s) - 1)
  BY <1>2, LenProperties
<1>4. t \in [1..Len(t) -> Elements(t)]
  BY <1>2, <1>3, LenProperties DEF Elements
<1>5. t \in Seq(Elements(t))
  <2> HIDE DEF t
  <2> QED
    BY <1>1, <1>2, <1>4, IsSeq
<1> QED
  BY <1>1, <1>2, <1>3, <1>5 DEF Last

LEMMA Mapped ==
  ASSUME NEW s, s \in Seq(Elements(s)), NEW t, DOMAIN t = DOMAIN s, t = [i \in DOMAIN t |-> t[i]]
  PROVE  /\ t \in Seq(Elements(t))
         /\ Len(t) = Len(s) /\ Len(s) \in Nat /\ DOMAIN s = 1..Len(s)
<1>1. Len(s) \in Nat /\ DOMAIN s = 1..Len(s)
  BY LenProperties
<1>2. t \in [1..Len(s) -> Elements(t)]
  BY <1>1 DEF Elements
<1>3. t \in Seq(Elements(t))
  BY <1>1, <1>2, IsSeq
<1>4. Len(t) = Len(s)
  BY <1>1, <1>3, LenProperties
<1> QED
  BY <1>1, <1>3, <1>4

--------------------------------------------------------------------------------

Framed(f) == {"kind", "win"} \subseteq DOMAIN f /\ f.win \in Wins

Modal(f) == f.kind \in ModalKinds

ShapeInv ==
  /\ stack \in Seq(Elements(stack))
  /\ \A i \in DOMAIN stack : Framed(stack[i]) /\ (Modal(stack[i]) => i = Len(stack))

WinType ==
  /\ DOMAIN msgOf = Wins /\ DOMAIN view = Wins /\ DOMAIN flags = Wins /\ DOMAIN dl = Wins
  /\ DOMAIN logged = Wins /\ opened \in [Wins -> Nat]

(* A window asks for a password while it is sealed, and shows an error     *)
(* before it is listed among the opened ones.                              *)
DialogsInv ==
  /\ \A i \in DOMAIN stack :
       /\ stack[i].kind = "passwd" => Sealed(stack[i].win)
       /\ stack[i].kind = "error" =>
            /\ view[stack[i].win] \in {"shown", "gone"}
            /\ "secret" \notin flags[stack[i].win]
            /\ opened[stack[i].win] = 0
            /\ Rows(msgOf[stack[i].win]) = {}
  /\ \A i, j \in DOMAIN stack :
       stack[i].kind = "error" /\ stack[j].kind = "error" /\ stack[i].win = stack[j].win => i = j

ClosedInv ==
  \A w \in Wins :
    /\ view[w] \in {"free", "stored"} => opened[w] = 0 /\ dl[w] = "none"
    /\ "secret" \in flags[w] => opened[w] = 0 /\ dl[w] = "none" /\ "opening" \notin logged[w]

ToldInv ==
  \A m : <<"READMSG", m>> \in sent =>
    \E v \in Wins : view[v] # "free" /\ msgOf[v] = m /\ "secret" \notin flags[v]

WindowsInv ==
  WinType /\ ShapeInv /\ DialogsInv /\ ClosedInv /\ ToldInv /\ ListsFollowWindows

--------------------------------------------------------------------------------
(* The steps of transfers.  They change the stack and destroy download     *)
(* windows.                                                                *)

DownloadsOnly ==
  \/ UNCHANGED listsStill
  \/ \E w \in Wins : dl[w] = "open" /\ on_downloadWindow_destroy(w)

(* Handlers that the step does not end: the dialogs of windows are among   *)
(* them as they were, and none is new.                                     *)
DialogsAlone ==
  \A i \in DOMAIN stack' : stack'[i].kind \in {"passwd", "error"} =>
    i \in DOMAIN stack /\ stack'[i].kind = stack[i].kind /\ stack'[i].win = stack[i].win

LEMMA WindowsDuringTransfers ==
  ASSUME WindowsInv, ShapeInv', DialogsAlone, DownloadsOnly, UNCHANGED windowsStill
  PROVE  WindowsInv'
<1> USE DEF WindowsInv
<1>1. UNCHANGED <<msgOf, view, flags, ext, opened, logged, settings, changed>>
  BY DEF windowsStill
<1>2. DialogsInv'
  BY <1>1 DEF DialogsInv, DialogsAlone, Sealed
<1>3. CASE UNCHANGED listsStill
  BY <1>1, <1>2, <1>3 DEF listsStill, WinType, ClosedInv, ToldInv, ListsFollowWindows
<1>4. ASSUME NEW w \in Wins, dl[w] = "open", on_downloadWindow_destroy(w)
      PROVE  WindowsInv'
  <2>1. /\ dl' = [dl EXCEPT ![w] = "gone"]
        /\ sent' = sent \union {<<"RELEASEFILES", msgOf[w]>>}
        /\ displayed' = displayed \ {<<"download", w>>}
    BY <1>4 DEF on_downloadWindow_destroy
  <2>2. WinType' /\ ClosedInv'
    BY <1>1, <1>4, <2>1 DEF WinType, ClosedInv
  <2>3. ToldInv'
    BY <1>1, <2>1 DEF ToldInv
  <2>4. ListsFollowWindows'
    BY <1>1, <2>1 DEF ListsFollowWindows, WinType
  <2> QED
    BY <1>2, <2>2, <2>3, <2>4
<1> QED
  BY <1>3, <1>4 DEF DownloadsOnly

(* What is below the top handler.                                          *)
LEMMA BelowTop ==
  ASSUME ShapeInv, stack # <<>>
  PROVE  /\ Below \in Seq(Elements(Below))
         /\ Len(stack) \in Nat \ {0} /\ Len(Below) = Len(stack) - 1
         /\ DOMAIN stack = 1..Len(stack) /\ DOMAIN Below = 1..(Len(stack) - 1)
         /\ \A i \in DOMAIN Below : Below[i] = stack[i] /\ i \in DOMAIN stack /\ ~Modal(stack[i])
         /\ Framed(Top) /\ Top = stack[Len(stack)] /\ Len(stack) \in DOMAIN stack
<1>1. Below = Front(stack)
  BY DEF Below, Front
<1>2. PICK t : t = Front(stack)
  OBVIOUS
<1>3. /\ t \in Seq(Elements(t))
      /\ Len(stack) \in Nat \ {0} /\ Len(t) = Len(stack) - 1
      /\ DOMAIN stack = 1..Len(stack) /\ DOMAIN t = 1..(Len(stack) - 1)
      /\ \A i \in DOMAIN t : t[i] = stack[i]
      /\ Len(stack) \in DOMAIN stack
  BY <1>2, Popped DEF ShapeInv
<1>4. \A i \in DOMAIN t : i \in DOMAIN stack /\ i # Len(stack)
  BY <1>3
<1> QED
  BY <1>1, <1>2, <1>3, <1>4 DEF ShapeInv, Top

(* Handlers that stay, possibly with another on top.                       *)
Stays(rest) ==
  /\ rest \in Seq(Elements(rest))
  /\ DOMAIN rest \subseteq DOMAIN stack
  /\ \A i \in DOMAIN rest :
       /\ Framed(rest[i]) /\ ~Modal(rest[i])
       /\ rest[i].kind = stack[i].kind /\ rest[i].win = stack[i].win

LEMMA StackLeft ==
  ASSUME NEW rest, Stays(rest), stack' = rest
  PROVE  ShapeInv' /\ DialogsAlone
BY DEF Stays, ShapeInv, DialogsAlone

LEMMA StackGrown ==
  ASSUME NEW rest, Stays(rest), NEW g, Framed(g), g.kind \notin {"passwd", "error"},
         stack' = Append(rest, g)
  PROVE  ShapeInv' /\ DialogsAlone
<1>1. /\ stack' \in Seq(Elements(stack'))
      /\ Len(rest) \in Nat /\ Len(stack') = Len(rest) + 1
      /\ DOMAIN rest = 1..Len(rest) /\ DOMAIN stack' = 1..(Len(rest) + 1)
      /\ \A i \in DOMAIN stack' : stack'[i] = IF i = Len(rest) + 1 THEN g ELSE rest[i]
  BY Appended DEF Stays
<1>2. \A i \in DOMAIN stack' : i = Len(rest) + 1 \/ i \in DOMAIN rest
  BY <1>1
<1>3. ShapeInv'
  BY <1>1, <1>2 DEF Stays, ShapeInv
<1>4. DialogsAlone
  BY <1>1, <1>2 DEF Stays, DialogsAlone
<1> QED
  BY <1>3, <1>4

LEMMA BelowStays ==
  ASSUME ShapeInv, stack # <<>>
  PROVE  Stays(Below)
<1>1. PICK t : t = Below
  OBVIOUS
<1>2. /\ t \in Seq(Elements(t))
      /\ \A i \in DOMAIN t : t[i] = stack[i] /\ i \in DOMAIN stack /\ ~Modal(stack[i])
  BY <1>1, BelowTop
<1>3. Stays(t)
  BY <1>2 DEF Stays, ShapeInv
<1> QED
  BY <1>1, <1>3

LEMMA AllStay ==
  ASSUME ShapeInv, UserFree
  PROVE  Stays(stack)
BY DEF ShapeInv, UserFree, Stays, Modal

LEMMA SharedStays ==
  ASSUME ShapeInv, stack # <<>>, NEW name, NEW left
  PROVE  Stays(Shared(Below, name, left))
<1>1. PICK s : s = Below
  OBVIOUS
<1>2. Stays(s)
  BY <1>1, BelowStays
<1>3. PICK t : t = Shared(s, name, left)
  OBVIOUS
<1>4. t = [i \in DOMAIN s |->
        IF IsTransfer(s[i]) /\ s[i].file = name
          THEN [s[i] EXCEPT !.sole = FALSE, !.file = left] ELSE s[i]]
  BY <1>3 DEF Shared
<1>5. DOMAIN t = DOMAIN s /\ t = [i \in DOMAIN t |-> t[i]]
  BY <1>4
<1>6. t \in Seq(Elements(t))
  BY <1>2, <1>5, Mapped DEF Stays
<1>7. ASSUME NEW i \in DOMAIN t
      PROVE  Framed(t[i]) /\ t[i].kind = s[i].kind /\ t[i].win = s[i].win
  <2>1. Framed(s[i])
    BY <1>2, <1>5 DEF Stays
  <2> QED
    BY <1>4, <1>5, <2>1 DEF Framed
<1>8. Stays(t)
  BY <1>2, <1>5, <1>6, <1>7 DEF Stays, Modal
<1> QED
  BY <1>1, <1>3, <1>8

TransferStep == ShapeInv' /\ DialogsAlone /\ DownloadsOnly

(* A transfer's own handler is changed.                                    *)
LEMMA TransferGoesOn ==
  ASSUME ShapeInv, stack # <<>>, NEW rest, Stays(rest), NEW g, stack' = Append(rest, g),
         DOMAIN g = DOMAIN Top, g.win = Top.win, g.kind \notin {"passwd", "error"}
  PROVE  ShapeInv' /\ DialogsAlone
<1>1. Framed(g)
  BY BelowTop DEF Framed
<1> QED
  BY <1>1, StackGrown

LEMMA TransferFramed ==
  ASSUME NEW kind, NEW w \in Wins, NEW todo, NEW all
  PROVE  Framed(Transfer(kind, w, todo, all)) /\ Transfer(kind, w, todo, all).kind = kind
BY DEF Framed, Transfer

(* do_download returns.                                                    *)
LEMMA RowDone ==
  ASSUME ShapeInv, stack # <<>>, NEW f, f.win \in Wins, NEW rest, Stays(rest), NextRow(f, rest)
  PROVE  TransferStep
<1>1. CASE Gone(f)
  BY <1>1, StackLeft DEF NextRow, TransferStep, DownloadsOnly
<1>2. CASE ~Gone(f) /\ Len(f.todo) > 1
  <2>1. PICK g : g = Transfer("connect", f.win, Tail(f.todo), f.all)
    OBVIOUS
  <2>2. stack' = Append(rest, g) /\ UNCHANGED listsStill
    BY <1>2, <2>1 DEF NextRow
  <2>3. Framed(g) /\ g.kind = "connect"
    BY <2>1, TransferFramed
  <2> QED
    BY <2>2, <2>3, StackGrown DEF TransferStep, DownloadsOnly
<1>3. CASE ~Gone(f) /\ ~(Len(f.todo) > 1)
  <2>1. PICK S : Finish(f, rest, S)
    BY <1>3 DEF NextRow
  <2>2. CASE f.all
    <3>1. PICK g : g = Transfer("opendir", f.win, <<>>, TRUE)
      OBVIOUS
    <3>2. stack' = Append(rest, g) /\ UNCHANGED listsStill
      BY <2>1, <2>2, <3>1 DEF Finish
    <3>3. Framed(g) /\ g.kind = "opendir"
      BY <3>1, TransferFramed
    <3> QED
      BY <3>2, <3>3, StackGrown DEF TransferStep, DownloadsOnly
  <2>3. CASE ~f.all
    <3>1. stack' = rest
      BY <2>1, <2>3 DEF Finish
    <3>2. DownloadsOnly
      BY <1>3, <2>1, <2>3 DEF Finish, DownloadsOnly, Gone
    <3> QED
      BY <3>1, <3>2, StackLeft DEF TransferStep
  <2> QED
    BY <2>2, <2>3
<1> QED
  BY <1>1, <1>2, <1>3

LEMMA TopInWins ==
  ASSUME ShapeInv, stack # <<>>
  PROVE  Framed(Top) /\ Top.win \in Wins
BY BelowTop DEF Framed

LEMMA TopRowDone ==
  ASSUME ShapeInv, stack # <<>>, NextRow(Top, Below)
  PROVE  TransferStep
BY RowDone, TopInWins, BelowStays

LEMMA TopBecomes ==
  ASSUME ShapeInv, stack # <<>>, NEW g, Becomes(g), UNCHANGED listsStill,
         DOMAIN g = DOMAIN Top, g.win = Top.win, g.kind \notin {"passwd", "error"}
  PROVE  TransferStep
BY TransferGoesOn, BelowStays DEF Becomes, TransferStep, DownloadsOnly

LEMMA TransfersStep ==
  ASSUME ShapeInv, TransferNext
  PROVE  TransferStep /\ UNCHANGED windowsStill
<1>1. ASSUME NEW kind, At(kind) PROVE stack # <<>> /\ Framed(Top) /\ Top.kind = kind
  BY <1>1, TopInWins DEF At
<1>2. ASSUME NEW w \in Wins, recv_attachments(w) PROVE TransferStep /\ UNCHANGED windowsStill
  <2>1. PICK kind, todo, all :
          /\ kind \in {"opendir", "connect"}
          /\ stack' = Append(stack, Transfer(kind, w, todo, all))
    <3>1. PICK S \in SUBSET rows[w], all \in BOOLEAN :
            \E todo \in [1..Cardinality(S) -> S] :
              stack' = Append(stack, Transfer(IF S = {} THEN "opendir" ELSE "connect", w, todo, all))
      BY <1>2 DEF recv_attachments
    <3>2. PICK todo :
            stack' = Append(stack, Transfer(IF S = {} THEN "opendir" ELSE "connect", w, todo, all))
      BY <3>1
    <3> QED
      BY <3>2
  <2>2. UserFree /\ UNCHANGED windowsStill /\ UNCHANGED listsStill
    BY <1>2 DEF recv_attachments
  <2>3. PICK g : g = Transfer(kind, w, todo, all)
    OBVIOUS
  <2>4. stack' = Append(stack, g) /\ Framed(g) /\ g.kind \in {"opendir", "connect"}
    BY <2>1, <2>3, TransferFramed
  <2> QED
    BY <2>2, <2>4, AllStay, StackGrown DEF TransferStep, DownloadsOnly
<1>3. CASE Connect
  BY <1>1, <1>3, TopRowDone, TopBecomes DEF Connect, Framed
<1>4. CASE OpenFile
  BY <1>1, <1>4, TopBecomes DEF OpenFile, Framed
<1>5. CASE FetchOther
  BY <1>1, <1>5, TopRowDone, TopBecomes DEF FetchOther, Framed
<1>6. CASE OverwriteAgreed
  <2>1. PICK name : stack' = Append(Shared(Below, name, name),
          [Top EXCEPT !.kind = "reading", !.file = name, !.pos = 0, !.wrote = 0, !.sole = FALSE])
    BY <1>6 DEF OverwriteAgreed
  <2>2. stack # <<>> /\ Framed(Top) /\ UNCHANGED listsStill /\ UNCHANGED windowsStill
    BY <1>1, <1>6 DEF OverwriteAgreed
  <2>3. PICK g : g = [Top EXCEPT !.kind = "reading", !.file = name, !.pos = 0, !.wrote = 0, !.sole = FALSE]
    OBVIOUS
  <2>4. PICK rest : rest = Shared(Below, name, name)
    OBVIOUS
  <2>5. stack' = Append(rest, g) /\ Stays(rest)
    BY <2>1, <2>2, <2>3, <2>4, SharedStays
  <2>6. DOMAIN g = DOMAIN Top /\ g.win = Top.win /\ g.kind = "reading"
    BY <2>2, <2>3 DEF Framed
  <2> QED
    BY <2>2, <2>5, <2>6, TransferGoesOn DEF TransferStep, DownloadsOnly
<1>7. CASE OverwriteRefused
  BY <1>1, <1>7, TopBecomes DEF OverwriteRefused, Framed
<1>8. CASE ReadPiece
  <2>1. stack # <<>> /\ Framed(Top) /\ Top.kind = "reading" /\ UNCHANGED windowsStill
    BY <1>1, <1>8 DEF ReadPiece
  <2>2. CASE NextRow(Top, Below)
    BY <2>1, <2>2, TopRowDone
  <2>3. ASSUME UNCHANGED listsStill, NEW g, g.kind = Top.kind, g.win = Top.win,
               DOMAIN g = DOMAIN Top, Becomes(g)
        PROVE  TransferStep
    BY <2>1, <2>3, TopBecomes
  <2>4. ASSUME ~NextRow(Top, Below) PROVE TransferStep
    <3>1. PICK whole \in BOOLEAN :
            /\ Becomes([Top EXCEPT !.pos = @ + 1, !.wrote = IF whole THEN @ + 1 ELSE @])
            /\ UNCHANGED listsStill
      BY <1>8, <2>4 DEF ReadPiece
    <3>2. PICK g : g = [Top EXCEPT !.pos = @ + 1, !.wrote = IF whole THEN @ + 1 ELSE @]
      OBVIOUS
    <3>3. g.kind = Top.kind /\ g.win = Top.win /\ DOMAIN g = DOMAIN Top
      BY <2>1, <3>2 DEF Framed
    <3> QED
      BY <2>3, <3>1, <3>2, <3>3
  <2> QED
    BY <2>1, <2>2, <2>4
<1>9. CASE ReadLast
  BY <1>1, <1>9, TopBecomes DEF ReadLast, Framed
<1>10. CASE ReadFails
  <2>1. stack # <<>> /\ Framed(Top) /\ UNCHANGED windowsStill /\ UNCHANGED listsStill
    BY <1>1, <1>10 DEF ReadFails
  <2>2. PICK g : g = Transfer("failed", Top.win, Top.todo, Top.all)
    OBVIOUS
  <2>3. stack' = Append(Below, g)
    BY <1>10, <2>2 DEF ReadFails, Becomes
  <2>4. Framed(g) /\ g.kind = "failed"
    BY <2>1, <2>2, TransferFramed DEF Framed
  <2> QED
    BY <2>1, <2>3, <2>4, BelowStays, StackGrown DEF TransferStep, DownloadsOnly
<1>11. CASE FileComplete
  BY <1>1, <1>11, TopRowDone, TopBecomes DEF FileComplete, Framed
<1>12. CASE CompleteClosed
  BY <1>1, <1>12, TopRowDone DEF CompleteClosed
<1>13. CASE FailedRetry
  BY <1>1, <1>13, TopBecomes DEF FailedRetry, Framed
<1>14. CASE ConnectAgain
  BY <1>1, <1>14, TopBecomes DEF ConnectAgain, Framed
<1>15. CASE FailedCancel
  <2>1. stack # <<>> /\ UNCHANGED windowsStill
    BY <1>1, <1>15 DEF FailedCancel
  <2>2. PICK name : NextRow(Top, Shared(Below, name, None))
    BY <1>15 DEF FailedCancel
  <2> QED
    BY <2>1, <2>2, RowDone, SharedStays, TopInWins
<1>16. CASE DirectoryShown
  <2>1. stack # <<>> /\ stack' = Below /\ UNCHANGED windowsStill
    BY <1>1, <1>16 DEF DirectoryShown
  <2>2. DownloadsOnly
    BY <1>16, <2>1, TopInWins DEF DirectoryShown, DownloadsOnly, Gone
  <2> QED
    BY <2>1, <2>2, BelowStays, StackLeft DEF TransferStep
<1> QED
  BY <1>2, <1>3, <1>4, <1>5, <1>6, <1>7, <1>8, <1>9, <1>10, <1>11, <1>12, <1>13, <1>14, <1>15,
     <1>16 DEF TransferNext

--------------------------------------------------------------------------------
(* The steps of windows.                                                   *)

LEMMA MessageArrives ==
  ASSUME WindowsInv, NEW m \in Messages, NEW w \in Wins, ipmsg_proc_send_msg(m, w)
  PROVE  WindowsInv'
<1> USE DEF WindowsInv
<1>1. /\ view[w] = "free" /\ UNCHANGED stack
      /\ msgOf' = [msgOf EXCEPT ![w] = m] /\ flags' = [flags EXCEPT ![w] = Opts[m]]
      /\ sent' = sent \union AnswersOnReceipt(m)
      /\ \/ /\ view' = [view EXCEPT ![w] = "stored"] /\ UNCHANGED <<dl, opened, displayed>>
         \/ /\ view' = [view EXCEPT ![w] = "shown"] /\ Shown(w, Opts[m], m)
  BY DEF ipmsg_proc_send_msg
<1>2. PICK l \in SUBSET {"receipt"} : logged' = [logged EXCEPT ![w] = l]
  <2>1. PICK b \in BOOLEAN : logged' = [logged EXCEPT ![w] = IF b THEN {"receipt"} ELSE {}]
    BY DEF ipmsg_proc_send_msg
  <2> QED
    BY <2>1
<1>3. opened[w] = 0 /\ dl[w] = "none" /\ <<"view", w>> \notin displayed /\ <<"download", w>> \notin displayed
  BY <1>1 DEF ClosedInv, ListsFollowWindows
<1>4. WinType'
  BY <1>1, <1>2, <1>3 DEF WinType, Shown
<1>5. \A u \in Wins \ {w} :
        /\ view'[u] = view[u] /\ msgOf'[u] = msgOf[u] /\ flags'[u] = flags[u]
        /\ dl'[u] = dl[u] /\ opened'[u] = opened[u] /\ logged'[u] = logged[u]
        /\ <<"view", u>> \in displayed' <=> <<"view", u>> \in displayed
        /\ <<"download", u>> \in displayed' <=> <<"download", u>> \in displayed
  BY <1>1, <1>2 DEF WinType, Shown
<1>6. /\ view'[w] \in {"stored", "shown"} /\ msgOf'[w] = m /\ flags'[w] = Opts[m] /\ logged'[w] = l
      /\ view'[w] = "stored" => /\ opened'[w] = 0 /\ dl'[w] = "none"
                                /\ <<"view", w>> \notin displayed' /\ <<"download", w>> \notin displayed'
      /\ view'[w] = "shown" =>
           /\ dl'[w] = IF OffersOnShow(w, Opts[m], m) THEN "open" ELSE "none"
           /\ opened'[w] = IF "secret" \in Opts[m] THEN 0 ELSE 1
           /\ <<"view", w>> \in displayed'
           /\ <<"download", w>> \in displayed' <=> OffersOnShow(w, Opts[m], m)
  BY <1>1, <1>2, <1>3 DEF WinType, Shown
<1>7. \A i \in DOMAIN stack : stack[i].kind \in {"passwd", "error"} => stack[i].win \in Wins \ {w}
  BY <1>1 DEF DialogsInv, Sealed, ShapeInv, Framed
<1>8. ShapeInv'
  BY <1>1 DEF ShapeInv
<1>9. ASSUME NEW u \in Wins
      PROVE  /\ view'[u] \in {"free", "stored"} => opened'[u] = 0 /\ dl'[u] = "none"
             /\ "secret" \in flags'[u] => opened'[u] = 0 /\ dl'[u] = "none" /\ "opening" \notin logged'[u]
  <2>1. CASE u = w
    BY <1>6, <2>1 DEF OffersOnShow
  <2>2. CASE u # w
    BY <1>5, <2>2 DEF ClosedInv
  <2> QED
    BY <2>1, <2>2
<1>10. ToldInv'
  <2>1. \A n : <<"READMSG", n>> \notin AnswersOnReceipt(m)
    BY DEF AnswersOnReceipt
  <2>2. ASSUME NEW n, <<"READMSG", n>> \in sent'
        PROVE  \E v \in Wins : view'[v] # "free" /\ msgOf'[v] = n /\ "secret" \notin flags'[v]
    <3>1. PICK v \in Wins : view[v] # "free" /\ msgOf[v] = n /\ "secret" \notin flags[v]
      BY <1>1, <2>1, <2>2 DEF ToldInv
    <3>2. v # w
      BY <1>1, <3>1
    <3> QED
      BY <1>5, <3>1, <3>2
  <2> QED
    BY <2>2 DEF ToldInv
<1>11. ListsFollowWindows'
  <2>1. ASSUME NEW u \in Wins
        PROVE  /\ <<"view", u>> \in displayed' <=> view'[u] = "shown"
               /\ <<"download", u>> \in displayed' <=> dl'[u] = "open"
               /\ opened'[u] <= 1
               /\ opened'[u] = 1 => view'[u] = "shown" \/ Rows(msgOf'[u]) = {}
    <3>1. CASE u = w
      BY <1>6, <3>1
    <3>2. CASE u # w
      <4>1. Rows(msgOf'[u]) = Rows(msgOf[u])
        BY <1>5, <3>2
      <4> HIDE DEF Rows
      <4> QED
        BY <1>5, <3>2, <4>1 DEF ListsFollowWindows
    <3> QED
      BY <3>1, <3>2
  <2> QED
    BY <2>1 DEF ListsFollowWindows
<1>12. DialogsInv'
  <2>1. ASSUME NEW i \in DOMAIN stack
        PROVE  /\ stack[i].kind = "passwd" => Sealed(stack[i].win)'
               /\ stack[i].kind = "error" =>
                    /\ view'[stack[i].win] \in {"shown", "gone"}
                    /\ "secret" \notin flags'[stack[i].win]
                    /\ opened'[stack[i].win] = 0
                    /\ Rows(msgOf'[stack[i].win]) = {}
    <3>1. CASE stack[i].kind = "passwd"
      <4>1. stack[i].win \in Wins \ {w} /\ Sealed(stack[i].win)
        BY <1>7, <3>1 DEF DialogsInv
      <4> QED
        BY <1>1, <1>5, <3>1, <4>1 DEF Sealed
    <3>2. CASE stack[i].kind = "error"
      <4>1. stack[i].win \in Wins \ {w}
        BY <1>7, <3>2
      <4>2. msgOf'[stack[i].win] = msgOf[stack[i].win]
        BY <1>5, <4>1
      <4> QED
        BY <1>5, <3>2, <4>1, <4>2 DEF DialogsInv
    <3> QED
      BY <3>1, <3>2
  <2> QED
    BY <1>1, <2>1 DEF DialogsInv
<1> QED
  BY <1>4, <1>8, <1>9, <1>10, <1>11, <1>12 DEF ClosedInv

LEMMA StoredAreShown ==
  ASSUME WindowsInv, show_stored_windows
  PROVE  WindowsInv'
<1> USE DEF WindowsInv
<1> DEFINE offers == {w \in Stored : OffersOnShow(w, flags[w], msgOf[w])}
<1>1. /\ UNCHANGED <<msgOf, flags, stack, logged, sent>>
      /\ dl' = [w \in Wins |-> IF w \in offers THEN "open" ELSE dl[w]]
      /\ displayed' = displayed \union ({"download"} \X offers) \union ({"view"} \X Stored)
      /\ opened' = [w \in Wins |-> IF w \in Stored /\ "secret" \notin flags[w]
                                     THEN opened[w] + 1 ELSE opened[w]]
      /\ view' = [w \in Wins |-> IF w \in Stored THEN "shown" ELSE view[w]]
  BY DEF show_stored_windows
<1>2. offers \subseteq Stored /\ \A w \in offers : "secret" \notin flags[w]
  BY DEF OffersOnShow
<1>3. \A w \in Stored : w \in Wins /\ view[w] = "stored" /\ opened[w] = 0 /\ dl[w] = "none"
  BY DEF Stored, ClosedInv
<1>4. \A w \in Wins : view[w] = "stored" => w \in Stored
  BY DEF Stored
<1> HIDE DEF offers
<1>5. WinType'
  BY <1>1, <1>3 DEF WinType
<1>6. DialogsInv' /\ ShapeInv'
  <2>1. \A i \in DOMAIN stack : stack[i].win \in Wins
    BY DEF ShapeInv, Framed
  <2>2. \A i \in DOMAIN stack : stack[i].kind \in {"passwd", "error"} => stack[i].win \notin Stored
    BY <1>3 DEF DialogsInv, Sealed
  <2> QED
    BY <1>1, <2>1, <2>2 DEF DialogsInv, ShapeInv, Sealed
<1>7. ClosedInv'
  BY <1>1, <1>2, <1>3, <1>4 DEF ClosedInv
<1>8. ToldInv'
  BY <1>1, <1>3 DEF ToldInv
<1>9. ListsFollowWindows'
  <2>1. ASSUME NEW u \in Wins
        PROVE  /\ <<"view", u>> \in displayed' <=> view'[u] = "shown"
               /\ <<"download", u>> \in displayed' <=> dl'[u] = "open"
               /\ opened'[u] <= 1
               /\ opened'[u] = 1 => view'[u] = "shown" \/ Rows(msgOf'[u]) = {}
    <3>1. CASE u \in Stored
      BY <1>1, <1>2, <1>3, <3>1 DEF ListsFollowWindows
    <3>2. CASE u \notin Stored
      <4>1. /\ view'[u] = view[u] /\ opened'[u] = opened[u] /\ dl'[u] = dl[u]
            /\ Rows(msgOf'[u]) = Rows(msgOf[u])
            /\ <<"view", u>> \in displayed' <=> <<"view", u>> \in displayed
            /\ <<"download", u>> \in displayed' <=> <<"download", u>> \in displayed
        BY <1>1, <1>2, <3>2
      <4> QED
        BY <4>1 DEF ListsFollowWindows
    <3> QED
      BY <3>1, <3>2
  <2> QED
    BY <2>1 DEF ListsFollowWindows
<1> QED
  BY <1>5, <1>6, <1>7, <1>8, <1>9

(* A seal is opened with no dialog above.                                  *)
LEMMA SealOpened ==
  ASSUME WindowsInv, NEW w \in Wins, Sealed(w), NEW rest, Stays(rest), OpenSeal(w, rest)
  PROVE  WindowsInv'
<1> USE DEF WindowsInv
<1>1. /\ UNCHANGED <<msgOf, view>> /\ flags' = [flags EXCEPT ![w] = @ \ {"secret", "password"}]
      /\ sent' = IF "noreply" \in flags[w] THEN sent ELSE sent \union {<<"READMSG", msgOf[w]>>}
  BY DEF OpenSeal
<1>2. PICK l : logged' = [logged EXCEPT ![w] = l]
  BY DEF OpenSeal
<1>3. /\ view[w] = "shown" /\ "secret" \in flags[w] /\ opened[w] = 0 /\ dl[w] = "none"
  BY DEF Sealed, ClosedInv
<1>4. \/ /\ stack' = Append(rest, Frame("error", w)) /\ Rows(msgOf[w]) = {}
         /\ UNCHANGED <<dl, displayed, opened>>
      \/ /\ stack' = rest /\ opened' = [opened EXCEPT ![w] = @ + 1]
         /\ \/ UNCHANGED <<dl, displayed>>
            \/ /\ dl' = [dl EXCEPT ![w] = "open"]
               /\ displayed' = displayed \union {<<"download", w>>}
  BY DEF OpenSeal
<1>5. WinType'
  BY <1>1, <1>2, <1>4 DEF WinType
<1>6. ClosedInv'
  BY <1>1, <1>2, <1>3, <1>4 DEF ClosedInv, WinType
<1>7. ListsFollowWindows'
  <2>1. ASSUME NEW u \in Wins
        PROVE  /\ <<"view", u>> \in displayed' <=> view'[u] = "shown"
               /\ <<"download", u>> \in displayed' <=> dl'[u] = "open"
               /\ opened'[u] <= 1
               /\ opened'[u] = 1 => view'[u] = "shown" \/ Rows(msgOf'[u]) = {}
    <3>1. CASE u = w
      <4>1. <<"view", w>> \in displayed /\ <<"download", w>> \notin displayed
        BY <1>3 DEF ListsFollowWindows
      <4> QED
        BY <1>1, <1>3, <1>4, <3>1, <4>1 DEF WinType
    <3>2. CASE u # w
      <4>1. /\ view'[u] = view[u] /\ opened'[u] = opened[u] /\ dl'[u] = dl[u]
            /\ Rows(msgOf'[u]) = Rows(msgOf[u])
            /\ <<"view", u>> \in displayed' <=> <<"view", u>> \in displayed
            /\ <<"download", u>> \in displayed' <=> <<"download", u>> \in displayed
        BY <1>1, <1>4, <3>2 DEF WinType
      <4> QED
        BY <4>1 DEF ListsFollowWindows
    <3> QED
      BY <3>1, <3>2
  <2> QED
    BY <2>1 DEF ListsFollowWindows
<1>8. ToldInv'
  <2>1. "secret" \notin flags'[w] /\ \A v \in Wins : flags'[v] \subseteq flags[v]
    BY <1>1 DEF WinType
  <2> QED
    BY <1>1, <1>3, <2>1 DEF ToldInv
<1>9. \A i \in DOMAIN rest : rest[i].kind # "passwd" /\ (rest[i].kind = "error" => rest[i].win # w)
  BY <1>3 DEF Stays, Modal, ModalKinds, DialogsInv
<1>10. CASE stack' = rest /\ opened' = [opened EXCEPT ![w] = @ + 1]
  <2>1. ShapeInv'
    BY <1>10, StackLeft
  <2>2. ASSUME NEW i \in DOMAIN rest, rest[i].kind = "error"
        PROVE  /\ view'[rest[i].win] \in {"shown", "gone"}
               /\ "secret" \notin flags'[rest[i].win]
               /\ opened'[rest[i].win] = 0
               /\ Rows(msgOf'[rest[i].win]) = {}
    <3>1. /\ stack[i].kind = "error" /\ rest[i].win = stack[i].win /\ i \in DOMAIN stack
          /\ rest[i].win \in Wins /\ rest[i].win # w
      BY <1>9, <2>2 DEF Stays, Framed
    <3>2. /\ flags'[rest[i].win] = flags[rest[i].win] /\ opened'[rest[i].win] = opened[rest[i].win]
      BY <1>1, <1>10, <3>1 DEF WinType
    <3> QED
      BY <1>1, <3>1, <3>2 DEF DialogsInv
  <2>3. \A i, j \in DOMAIN rest :
          rest[i].kind = "error" /\ rest[j].kind = "error" /\ rest[i].win = rest[j].win => i = j
    BY DEF DialogsInv, Stays
  <2>4. DialogsInv'
    BY <1>9, <1>10, <2>2, <2>3 DEF DialogsInv
  <2> QED
    BY <1>5, <1>6, <1>7, <1>8, <2>1, <2>4
<1>11. CASE stack' = Append(rest, Frame("error", w)) /\ Rows(msgOf[w]) = {} /\ UNCHANGED opened
  <2>1. PICK g : g = Frame("error", w)
    OBVIOUS
  <2>2. stack' = Append(rest, g) /\ Framed(g) /\ g.kind = "error" /\ g.win = w
    BY <1>11, <2>1 DEF Frame, Framed
  <2>3. /\ stack' \in Seq(Elements(stack'))
        /\ Len(rest) \in Nat /\ Len(stack') = Len(rest) + 1
        /\ DOMAIN rest = 1..Len(rest) /\ DOMAIN stack' = 1..(Len(rest) + 1)
        /\ \A i \in DOMAIN stack' : stack'[i] = IF i = Len(rest) + 1 THEN g ELSE rest[i]
    BY <2>2, Appended DEF Stays
  <2>4. \A i \in DOMAIN stack' : i = Len(rest) + 1 \/ (i \in DOMAIN rest /\ i # Len(rest) + 1)
    BY <2>3
  <2>5. ShapeInv'
    BY <2>2, <2>3, <2>4 DEF ShapeInv, Stays, Modal, ModalKinds
  <2>6. "secret" \notin flags'[w]
    BY <1>1 DEF WinType
  <2>7. \A i \in DOMAIN stack' : stack'[i].kind # "passwd"
    BY <1>9, <2>2, <2>3, <2>4
  <2>8. ASSUME NEW i \in DOMAIN stack', stack'[i].kind = "error"
        PROVE  /\ view'[stack'[i].win] \in {"shown", "gone"}
               /\ "secret" \notin flags'[stack'[i].win]
               /\ opened'[stack'[i].win] = 0
               /\ Rows(msgOf'[stack'[i].win]) = {}
    <3>1. CASE i = Len(rest) + 1
      BY <1>1, <1>3, <1>11, <2>2, <2>3, <2>6, <3>1
    <3>2. CASE i \in DOMAIN rest /\ i # Len(rest) + 1
      <4>1. stack'[i] = rest[i] /\ rest[i].kind = stack[i].kind /\ rest[i].win = stack[i].win
            /\ i \in DOMAIN stack /\ rest[i].win # w
        BY <1>9, <2>3, <2>8, <3>2 DEF Stays
      <4>2. flags'[stack[i].win] = flags[stack[i].win]
        BY <1>1, <4>1 DEF WinType, ShapeInv, Framed
      <4> QED
        BY <1>1, <1>11, <2>8, <4>1, <4>2 DEF DialogsInv
    <3> QED
      BY <2>4, <3>1, <3>2
  <2>9. ASSUME NEW i \in DOMAIN stack', NEW j \in DOMAIN stack',
               stack'[i].kind = "error", stack'[j].kind = "error", stack'[i].win = stack'[j].win
        PROVE  i = j
    <3>1. CASE i = Len(rest) + 1 \/ j = Len(rest) + 1
      BY <1>9, <2>2, <2>3, <2>4, <2>9, <3>1
    <3>2. CASE i # Len(rest) + 1 /\ j # Len(rest) + 1
      <4>1. i \in DOMAIN rest /\ j \in DOMAIN rest /\ stack'[i] = rest[i] /\ stack'[j] = rest[j]
        BY <2>3, <2>4, <3>2
      <4> QED
        BY <2>9, <4>1 DEF DialogsInv, Stays
    <3> QED
      BY <3>1, <3>2
  <2>10. DialogsInv'
    BY <2>7, <2>8, <2>9 DEF DialogsInv
  <2> QED
    BY <1>5, <1>6, <1>7, <1>8, <2>5, <2>10
<1> QED
  BY <1>4, <1>10, <1>11

LEMMA SealClicked ==
  ASSUME WindowsInv, NEW w \in Wins, on_sealBtn_clicked(w)
  PROVE  WindowsInv'
<1> USE DEF WindowsInv
<1>1. Sealed(w) /\ Stays(stack)
  BY AllStay DEF on_sealBtn_clicked
<1>2. CASE ~NeedsPassword(w)
  BY <1>1, <1>2, SealOpened DEF on_sealBtn_clicked
<1>3. CASE NeedsPassword(w)
  <2>1. PICK g : g = Frame("passwd", w)
    OBVIOUS
  <2>2. /\ stack' = Append(stack, g) /\ Framed(g) /\ g.kind = "passwd" /\ g.win = w
        /\ UNCHANGED <<msgOf, view, flags, ext, dl, displayed, opened, logged, sent>>
    BY <1>3, <2>1 DEF on_sealBtn_clicked, Frame, Framed
  <2>3. /\ stack' \in Seq(Elements(stack'))
        /\ Len(stack) \in Nat /\ Len(stack') = Len(stack) + 1
        /\ DOMAIN stack = 1..Len(stack) /\ DOMAIN stack' = 1..(Len(stack) + 1)
        /\ \A i \in DOMAIN stack' : stack'[i] = IF i = Len(stack) + 1 THEN g ELSE stack[i]
    BY <2>2, Appended DEF ShapeInv
  <2>4. \A i \in DOMAIN stack' : i = Len(stack) + 1 \/ (i \in DOMAIN stack /\ stack'[i] = stack[i])
    BY <2>3
  <2>5. stack'[Len(stack) + 1] = g
    BY <2>3
  <2>6. ShapeInv'
    BY <1>1, <2>2, <2>3, <2>4, <2>5 DEF ShapeInv, Stays, Modal
  <2>7. ASSUME NEW i \in DOMAIN stack', stack'[i].kind = "passwd"
        PROVE  Sealed(stack'[i].win)
    BY <1>1, <2>2, <2>4, <2>5, <2>7 DEF DialogsInv
  <2>8. \A i \in DOMAIN stack' : stack'[i].kind = "error" => i \in DOMAIN stack /\ stack'[i] = stack[i]
    BY <2>2, <2>4, <2>5
  <2>9. DialogsInv'
    <3>1. UNCHANGED <<msgOf, view, flags, opened>>
      BY <2>2
    <3>2. \A i \in DOMAIN stack' : stack'[i].kind = "passwd" =>
            view[stack'[i].win] = "shown" /\ "secret" \in flags[stack'[i].win]
      BY <2>7 DEF Sealed
    <3>3. \A i \in DOMAIN stack' : stack'[i].kind = "error" =>
            /\ view[stack'[i].win] \in {"shown", "gone"}
            /\ "secret" \notin flags[stack'[i].win]
            /\ opened[stack'[i].win] = 0
            /\ Rows(msgOf[stack'[i].win]) = {}
      BY <2>8 DEF DialogsInv
    <3>4. \A i, j \in DOMAIN stack' :
            stack'[i].kind = "error" /\ stack'[j].kind = "error" /\ stack'[i].win = stack'[j].win => i = j
      BY <2>8 DEF DialogsInv
    <3> QED
      BY <3>1, <3>2, <3>3, <3>4 DEF DialogsInv, Sealed
  <2>10. WinType' /\ ClosedInv' /\ ToldInv' /\ ListsFollowWindows'
    BY <2>2 DEF WinType, ClosedInv, ToldInv, ListsFollowWindows
  <2> QED
    BY <2>6, <2>9, <2>10
<1> QED
  BY <1>2, <1>3

LEMMA PasswordDone ==
  ASSUME WindowsInv, PasswordVerified \/ PasswordRefused
  PROVE  WindowsInv'
<1> USE DEF WindowsInv
<1>1. /\ stack # <<>> /\ Top.kind = "passwd" /\ Top.win \in Wins /\ Sealed(Top.win) /\ Stays(Below)
  BY TopInWins, BelowTop, BelowStays DEF PasswordVerified, PasswordRefused, DialogsInv
<1>2. CASE PasswordVerified
  BY <1>1, <1>2, SealOpened DEF PasswordVerified
<1>3. CASE PasswordRefused
  BY <1>1, <1>3, StackLeft, WindowsDuringTransfers
     DEF PasswordRefused, DownloadsOnly, windowsStill, listsStill
<1> QED
  BY <1>2, <1>3

LEMMA ErrorDone ==
  ASSUME WindowsInv, ErrorReturns
  PROVE  WindowsInv'
<1> USE DEF WindowsInv
<1>1. PICK w : w = Top.win
  OBVIOUS
<1>2. PICK rest : rest = Below
  OBVIOUS
<1>3. /\ stack # <<>> /\ Top.kind = "error" /\ w \in Wins /\ Stays(rest) /\ stack' = rest
      /\ opened' = [opened EXCEPT ![w] = @ + 1]
      /\ UNCHANGED <<msgOf, view, flags, dl, displayed, logged, sent>>
  BY <1>1, <1>2, TopInWins, BelowStays DEF ErrorReturns
<1>4. view[w] \in {"shown", "gone"} /\ "secret" \notin flags[w] /\ opened[w] = 0 /\ Rows(msgOf[w]) = {}
  BY <1>1, <1>3, BelowTop DEF DialogsInv
<1>5. \A i \in DOMAIN rest : i \in DOMAIN stack /\ i # Len(stack) /\ rest[i] = stack[i]
  BY <1>2, <1>3, BelowTop
<1>6. \A i \in DOMAIN rest : rest[i].kind = "error" => rest[i].win # w
  BY <1>1, <1>3, <1>5, BelowTop DEF DialogsInv
<1>7. ShapeInv' /\ WinType'
  BY <1>3, StackLeft DEF WinType
<1>8. ASSUME NEW i \in DOMAIN rest, rest[i].kind = "error"
      PROVE  /\ view'[rest[i].win] \in {"shown", "gone"}
             /\ "secret" \notin flags'[rest[i].win]
             /\ opened'[rest[i].win] = 0
             /\ Rows(msgOf'[rest[i].win]) = {}
  <2>1. rest[i].win \in Wins /\ rest[i].win # w /\ stack[i].win = rest[i].win /\ stack[i].kind = "error"
        /\ i \in DOMAIN stack
    BY <1>3, <1>5, <1>6, <1>8 DEF Stays, Framed
  <2>2. opened'[rest[i].win] = opened[rest[i].win]
    BY <1>3, <2>1 DEF WinType
  <2> QED
    BY <1>3, <2>1, <2>2 DEF DialogsInv
<1>9. DialogsInv'
  <2>1. \A i \in DOMAIN rest : rest[i].kind # "passwd"
    BY <1>3 DEF Stays, Modal, ModalKinds
  <2>2. \A i, j \in DOMAIN rest :
          rest[i].kind = "error" /\ rest[j].kind = "error" /\ rest[i].win = rest[j].win => i = j
    BY <1>5 DEF DialogsInv
  <2> QED
    BY <1>3, <1>8, <2>1, <2>2 DEF DialogsInv
<1>10. ClosedInv'
  BY <1>3, <1>4 DEF ClosedInv, WinType
<1>11. ToldInv'
  BY <1>3 DEF ToldInv
<1>12. ListsFollowWindows'
  <2>1. ASSUME NEW u \in Wins
        PROVE  opened'[u] <= 1 /\ (opened'[u] = 1 => view'[u] = "shown" \/ Rows(msgOf'[u]) = {})
    <3>1. CASE u = w
      BY <1>3, <1>4, <3>1 DEF WinType
    <3>2. CASE u # w
      <4>1. opened'[u] = opened[u] /\ view'[u] = view[u] /\ Rows(msgOf'[u]) = Rows(msgOf[u])
        BY <1>3, <3>2 DEF WinType
      <4> QED
        BY <4>1 DEF ListsFollowWindows
    <3> QED
      BY <3>1, <3>2
  <2> QED
    BY <1>3, <2>1 DEF ListsFollowWindows
<1> QED
  BY <1>7, <1>9, <1>10, <1>11, <1>12

(* Windows of one set W are closed, none of them in a modal dialog.        *)
LEMMA WindowsClose ==
  ASSUME WindowsInv, UserFree, NEW W \in SUBSET Wins, \A w \in W : view[w] = "shown",
         view' = [w \in Wins |-> IF w \in W THEN "gone" ELSE view[w]],
         displayed' = displayed \ ({"view"} \X W), opened' \in [Wins -> Nat],
         \A w \in W : opened'[w] = 0,
         \A w \in Wins \ W : opened'[w] = opened[w],
         UNCHANGED <<msgOf, flags, dl, stack, logged, sent>>
  PROVE  WindowsInv'
<1> USE DEF WindowsInv
<1>1. WinType' /\ ShapeInv'
  BY DEF WinType, ShapeInv
<1>2. \A i \in DOMAIN stack : stack[i].kind # "passwd" /\ stack[i].win \in Wins
  BY DEF UserFree, ModalKinds, ShapeInv, Framed
<1>3. DialogsInv'
  BY <1>2 DEF DialogsInv
<1>4. ClosedInv' /\ ToldInv'
  BY DEF ClosedInv, ToldInv
<1>5. ListsFollowWindows'
  <2>1. ASSUME NEW u \in Wins
        PROVE  /\ <<"view", u>> \in displayed' <=> view'[u] = "shown"
               /\ <<"download", u>> \in displayed' <=> dl'[u] = "open"
               /\ opened'[u] <= 1
               /\ opened'[u] = 1 => view'[u] = "shown" \/ Rows(msgOf'[u]) = {}
    <3>1. CASE u \in W
      BY <3>1 DEF ListsFollowWindows
    <3>2. CASE u \notin W
      <4>1. /\ view'[u] = view[u] /\ opened'[u] = opened[u] /\ dl'[u] = dl[u]
            /\ Rows(msgOf'[u]) = Rows(msgOf[u])
            /\ <<"view", u>> \in displayed' <=> <<"view", u>> \in displayed
            /\ <<"download", u>> \in displayed' <=> <<"download", u>> \in displayed
        BY <3>2
      <4> QED
        BY <4>1 DEF ListsFollowWindows
    <3> QED
      BY <3>1, <3>2
  <2> QED
    BY <2>1 DEF ListsFollowWindows
<1> QED
  BY <1>1, <1>3, <1>4, <1>5

LEMMA OneCloses ==
  ASSUME WindowsInv, NEW w \in Wins, on_viewWindow_destroy(w)
  PROVE  WindowsInv'
<1>1. /\ UserFree /\ view[w] = "shown"
      /\ view' = [view EXCEPT ![w] = "gone"]
      /\ opened' = [opened EXCEPT ![w] = Unlist(w)]
      /\ displayed' = displayed \ {<<"view", w>>}
      /\ UNCHANGED <<msgOf, flags, dl, stack, logged, sent>>
  BY DEF on_viewWindow_destroy
<1>2. opened[w] \in Nat /\ opened[w] <= 1
  BY DEF WindowsInv, WinType, ListsFollowWindows
<1>3. Unlist(w) = 0
  BY <1>2 DEF Unlist
<1>4. \A u \in {w} : view[u] = "shown" /\ opened'[u] = 0
  BY <1>1, <1>3 DEF WindowsInv, WinType
<1>5. /\ view' = [u \in Wins |-> IF u \in {w} THEN "gone" ELSE view[u]]
      /\ displayed' = displayed \ ({"view"} \X {w})
      /\ opened' \in [Wins -> Nat]
      /\ \A u \in Wins \ {w} : opened'[u] = opened[u]
  <2>1. view' = [u \in Wins |-> IF u \in {w} THEN "gone" ELSE view[u]]
    BY <1>1 DEF WindowsInv, WinType
  <2>2. displayed' = displayed \ ({"view"} \X {w})
    BY <1>1
  <2>3. opened' \in [Wins -> Nat] /\ \A u \in Wins \ {w} : opened'[u] = opened[u]
    BY <1>1, <1>3 DEF WindowsInv, WinType
  <2> QED
    BY <2>1, <2>2, <2>3
<1>6. PICK W \in SUBSET Wins : W = {w}
  OBVIOUS
<1> QED
  BY <1>1, <1>4, <1>5, <1>6, WindowsClose

LEMMA OpenedClose ==
  ASSUME WindowsInv, destroy_all_opened_windows
  PROVE  WindowsInv'
<1>1. /\ UserFree /\ \A w \in Listed : view[w] = "shown"
      /\ view' = [w \in Wins |-> IF w \in Listed THEN "gone" ELSE view[w]]
      /\ opened' = [w \in Wins |-> 0]
      /\ displayed' = displayed \ ({"view"} \X Listed)
      /\ UNCHANGED <<msgOf, flags, dl, stack, logged, sent>>
  BY DEF destroy_all_opened_windows
<1>2. Listed \in SUBSET Wins /\ \A w \in Wins \ Listed : opened[w] = 0
  BY DEF Listed, WindowsInv, WinType
<1>3. /\ opened' \in [Wins -> Nat] /\ \A w \in Listed : opened'[w] = 0
      /\ \A w \in Wins \ Listed : opened'[w] = opened[w]
  BY <1>1, <1>2
<1> QED
  BY <1>1, <1>2, <1>3, WindowsClose

LEMMA WindowsStart == Init => WindowsInv
<1> SUFFICES ASSUME Init PROVE WindowsInv
  OBVIOUS
<1>1. <<>> \in Seq(Elements(<<>>)) /\ DOMAIN <<>> = {}
  BY EmptySeq DEF Elements
<1>2. ShapeInv /\ DialogsInv
  BY <1>1 DEF Init, WinInit, ShapeInv, DialogsInv
<1> QED
  BY <1>2 DEF Init, WinInit, WindowsInv, WinType, ClosedInv, ToldInv, ListsFollowWindows

LEMMA WindowsNext == WindowsInv /\ [Next]_vars => WindowsInv'
<1> SUFFICES ASSUME WindowsInv, [Next]_vars PROVE WindowsInv'
  OBVIOUS
<1>1. CASE TransferNext
  BY <1>1, TransfersStep, WindowsDuringTransfers DEF TransferStep, WindowsInv
<1>2. ASSUME UNCHANGED <<stack, windowsStill>>, DownloadsOnly PROVE WindowsInv'
  BY <1>2, WindowsDuringTransfers DEF WindowsInv, ShapeInv, DialogsAlone
<1>3. ASSUME NEW w \in Wins, CloseDownload(w) PROVE WindowsInv'
  BY <1>2, <1>3 DEF CloseDownload, DownloadsOnly, windowsStill
<1>4. ASSUME NEW s, ChangeSetting(s) PROVE WindowsInv'
  BY <1>4 DEF ChangeSetting, WindowsInv, WinType, ShapeInv, DialogsInv, Sealed, ClosedInv, ToldInv,
     ListsFollowWindows
<1>5. CASE UNCHANGED vars
  BY <1>2, <1>5 DEF vars, winVars, transferVars, windowsStill, DownloadsOnly, listsStill
<1>6. CASE WindowNext
  BY <1>3, <1>4, <1>6, MessageArrives, StoredAreShown, SealClicked, PasswordDone, ErrorDone,
     OneCloses, OpenedClose DEF WindowNext
<1> QED
  BY <1>1, <1>5, <1>6 DEF Next, WindowStep

(* The windows and their handlers keep WindowsInv.                         *)
THEOREM WindowsAreSound == Spec => []WindowsInv
<1> QED
  BY WindowsStart, WindowsNext, PTL DEF Spec

(* The lists of displayed and of opened windows hold the windows that      *)
(* exist, once each.                                                       *)
THEOREM ListsAreTrue == Spec => []ListsFollowWindows
<1>1. WindowsInv => ListsFollowWindows
  BY DEF WindowsInv
<1> QED
  BY <1>1, WindowsAreSound, PTL

--------------------------------------------------------------------------------
(* Nothing of a sealed message shows before its seal is opened.            *)
THEOREM SealsHide == Spec => []SealHides
<1>1. WindowsInv => SealHides
  <2> SUFFICES ASSUME WindowsInv, NEW w \in Wins, "secret" \in flags[w]
               PROVE  /\ opened[w] = 0 /\ dl[w] = "none" /\ "opening" \notin logged[w]
                      /\ <<"READMSG", msgOf[w]>> \in sent =>
                           \E v \in Wins : msgOf[v] = msgOf[w] /\ "secret" \notin flags[v]
    BY DEF SealHides
  <2> QED
    BY DEF WindowsInv, ClosedInv, ToldInv
<1> QED
  BY <1>1, WindowsAreSound, PTL

--------------------------------------------------------------------------------
(* A message not to be logged before it is opened is sealed, as it is when *)
(* this program sends it (LockedIsSealed of MessageWindows).               *)
LocksAreSeals == \A m \in Messages : "password" \in Opts[m] => "secret" \in Opts[m]

(* A message is logged at its receipt, or will be at its opening.          *)
LogInv ==
  \A w \in Wins :
    /\ view[w] # "free" /\ "nolog" \notin Opts[msgOf[w]] /\ msgOf[w] \notin Unloggable
    /\ "loglocked" \notin changed
    => \/ "receipt" \in logged[w]
       \/ "loglocked" \in settings /\ ("secret" \in flags[w] \/ "opening" \in logged[w])

LEMMA LogKept ==
  ASSUME LogInv, UNCHANGED <<msgOf, flags, logged, settings, changed>>,
         \A w \in Wins : view'[w] # "free" => view[w] # "free"
  PROVE  LogInv'
BY DEF LogInv

LEMMA LogOfArrival ==
  ASSUME LocksAreSeals, WindowsInv, LogInv, NEW m \in Messages, NEW w \in Wins,
         ipmsg_proc_send_msg(m, w)
  PROVE  LogInv'
<1>1. PICK l : /\ logged' = [logged EXCEPT ![w] = l]
               /\ l = IF "nolog" \notin Opts[m] /\ LogsNow(m, Opts[m]) THEN {"receipt"} ELSE {}
  BY DEF ipmsg_proc_send_msg
<1>2. /\ msgOf' = [msgOf EXCEPT ![w] = m] /\ flags' = [flags EXCEPT ![w] = Opts[m]]
      /\ UNCHANGED <<settings, changed>>
      /\ view' = [view EXCEPT ![w] = "stored"] \/ view' = [view EXCEPT ![w] = "shown"]
  BY DEF ipmsg_proc_send_msg
<1>3. ASSUME NEW u \in Wins, view'[u] # "free", "nolog" \notin Opts[msgOf'[u]],
             msgOf'[u] \notin Unloggable, "loglocked" \notin changed
      PROVE  \/ "receipt" \in logged'[u]
             \/ "loglocked" \in settings /\ ("secret" \in flags'[u] \/ "opening" \in logged'[u])
  <2>1. CASE u = w
    <3>1. msgOf'[u] = m /\ flags'[u] = Opts[m] /\ logged'[u] = l
      BY <1>1, <1>2, <2>1 DEF WindowsInv, WinType
    <3>2. CASE LogsNow(m, Opts[m])
      BY <1>1, <1>3, <3>1, <3>2
    <3>3. CASE ~LogsNow(m, Opts[m])
      BY <1>3, <3>1, <3>3 DEF LogsNow, LocksAreSeals
    <3> QED
      BY <3>2, <3>3
  <2>2. CASE u # w
    <3>1. msgOf'[u] = msgOf[u] /\ flags'[u] = flags[u] /\ logged'[u] = logged[u] /\ view'[u] = view[u]
      BY <1>1, <1>2, <2>2 DEF WindowsInv, WinType
    <3> QED
      BY <1>3, <3>1 DEF LogInv
  <2> QED
    BY <2>1, <2>2
<1> QED
  BY <1>2, <1>3 DEF LogInv

LEMMA LogOfOpening ==
  ASSUME WindowsInv, LogInv, NEW w \in Wins, NEW rest, OpenSeal(w, rest)
  PROVE  LogInv'
<1>1. /\ UNCHANGED <<msgOf, view, settings, changed>>
      /\ flags' = [flags EXCEPT ![w] = @ \ {"secret", "password"}]
      /\ logged' = [logged EXCEPT ![w] =
           IF "loglocked" \in settings /\ LogsNow(msgOf[w], {}) THEN @ \union {"opening"} ELSE @]
  BY DEF OpenSeal
<1>2. ASSUME NEW u \in Wins, view[u] # "free", "nolog" \notin Opts[msgOf[u]],
             msgOf[u] \notin Unloggable, "loglocked" \notin changed
      PROVE  \/ "receipt" \in logged'[u]
             \/ "loglocked" \in settings /\ ("secret" \in flags'[u] \/ "opening" \in logged'[u])
  <2>1. \/ "receipt" \in logged[u]
        \/ "loglocked" \in settings /\ ("secret" \in flags[u] \/ "opening" \in logged[u])
    BY <1>2 DEF LogInv
  <2>2. CASE u = w
    <3>1. LogsNow(msgOf[w], {})
      BY <1>2, <2>2 DEF LogsNow
    <3> QED
      BY <1>1, <2>1, <2>2, <3>1 DEF WindowsInv, WinType
  <2>3. CASE u # w
    BY <1>1, <2>1, <2>3 DEF WindowsInv, WinType
  <2> QED
    BY <2>2, <2>3
<1> QED
  BY <1>1, <1>2 DEF LogInv

LEMMA LogNext == LocksAreSeals /\ WindowsInv /\ LogInv /\ [Next]_vars => LogInv'
<1> SUFFICES ASSUME LocksAreSeals, WindowsInv, LogInv, [Next]_vars PROVE LogInv'
  OBVIOUS
<1>1. ASSUME NEW w \in Wins, on_sealBtn_clicked(w) PROVE LogInv'
  BY <1>1, LogOfOpening, LogKept DEF on_sealBtn_clicked
<1>2. CASE PasswordVerified
  <2>1. Top.win \in Wins
    BY <1>2, TopInWins DEF PasswordVerified, WindowsInv
  <2> QED
    BY <1>2, <2>1, LogOfOpening DEF PasswordVerified
<1>3. CASE PasswordRefused \/ ErrorReturns
  BY <1>3, LogKept DEF PasswordRefused, ErrorReturns
<1>4. CASE show_stored_windows
  <2>1. \A w \in Wins : view'[w] # "free" => view[w] # "free"
    BY <1>4 DEF show_stored_windows, Stored
  <2> QED
    BY <1>4, <2>1, LogKept DEF show_stored_windows
<1>5. ASSUME NEW w \in Wins, on_viewWindow_destroy(w) PROVE LogInv'
  <2>1. \A u \in Wins : view'[u] # "free" => view[u] # "free"
    BY <1>5 DEF on_viewWindow_destroy, WindowsInv, WinType
  <2> QED
    BY <1>5, <2>1, LogKept DEF on_viewWindow_destroy
<1>6. CASE destroy_all_opened_windows
  <2>1. \A w \in Wins : view'[w] # "free" => view[w] # "free"
    BY <1>6 DEF destroy_all_opened_windows
  <2> QED
    BY <1>6, <2>1, LogKept DEF destroy_all_opened_windows
<1>7. ASSUME NEW w \in Wins, CloseDownload(w) PROVE LogInv'
  BY <1>7, LogKept DEF CloseDownload
<1>8. ASSUME NEW s, ChangeSetting(s) PROVE LogInv'
  <2>1. /\ UNCHANGED <<msgOf, view, flags, logged>>
        /\ changed' = changed \union {s}
        /\ s # "loglocked" => ("loglocked" \in settings' <=> "loglocked" \in settings)
    BY <1>8 DEF ChangeSetting
  <2> QED
    BY <2>1 DEF LogInv
<1>9. CASE TransferNext
  BY <1>9, TransfersStep, LogKept DEF WindowsInv, windowsStill
<1>10. CASE UNCHANGED vars
  BY <1>10, LogKept DEF vars, winVars
<1>11. CASE WindowNext
  BY <1>1, <1>2, <1>3, <1>4, <1>5, <1>6, <1>7, <1>8, <1>11, LogOfArrival DEF WindowNext
<1> QED
  BY <1>9, <1>10, <1>11 DEF Next, WindowStep

(* What the user has been able to read is in the log, whatever is opened,  *)
(* closed and downloaded in which order.                                   *)
THEOREM ReadMessagesAreLogged == LocksAreSeals => (Spec => []ReadIsLogged)
<1> SUFFICES ASSUME LocksAreSeals PROVE Spec => []ReadIsLogged
  OBVIOUS
<1>1. Init => WindowsInv /\ LogInv
  BY WindowsStart DEF Init, WinInit, LogInv
<1>2. WindowsInv /\ LogInv /\ [Next]_vars => (WindowsInv /\ LogInv)'
  BY WindowsNext, LogNext
<1>3. WindowsInv /\ LogInv => ReadIsLogged
  BY DEF WindowsInv, ClosedInv, LogInv, ReadIsLogged
<1> QED
  BY <1>1, <1>2, <1>3, PTL DEF Spec

--------------------------------------------------------------------------------
(* The files that transfers write.                                         *)

WindowKinds    == {"passwd", "error"}
TransferFields == {"kind", "win", "todo", "all", "file", "pos", "wrote", "sole"}

(* What a transfer has written are pieces of its present row, and if no   *)
(* write was short, all that it has read.                                  *)
PiecesOf(f) == {msgOf[f.win]} \X {Head(f.todo)} \X Nat

SoFar(f) ==
  /\ disk[f.file] \in [1..f.wrote -> PiecesOf(f)]
  /\ f.wrote = f.pos =>
       \A k \in 1..f.wrote : disk[f.file][k] = <<msgOf[f.win], Head(f.todo), k>>

(* No more is written than read, and no more read than offered; a file is  *)
(* reported if all of it was written.                                      *)
Progress(f) ==
  /\ f.pos \in Nat /\ f.wrote \in Nat /\ f.wrote <= f.pos
  /\ f.kind \in {"reading", "closing"} => f.pos <= Entry(f).size
  /\ f.kind = "complete" => f.wrote = Entry(f).size /\ f.pos = Entry(f).size

(* A handler knows the row it fetches and how far it has got.  A file it   *)
(* made, and no other has opened, holds just what it has written; another  *)
(* file it has open is one the user has agreed to overwrite.               *)
FrameOK(f) ==
  IF f.kind \in WindowKinds THEN DOMAIN f = {"kind", "win"}
  ELSE
    /\ DOMAIN f = TransferFields
    /\ dl[f.win] # "none"
    /\ f.kind # "opendir" => f.todo \in Seq(Rows(msgOf[f.win])) /\ f.todo # <<>>
    /\ f.sole \in BOOLEAN
    /\ f.file # None => f.file \in DOMAIN disk /\ (f.sole \/ f.file \in agreed)
    /\ f.sole => f.file # None /\ SoFar(f)
    /\ Progress(f)

(* No other transfer has that file open.                                   *)
SoleInv ==
  \A i, j \in DOMAIN stack :
    /\ i # j /\ IsTransfer(stack[i]) /\ IsTransfer(stack[j]) /\ stack[i].sole
    => stack[j].file # stack[i].file

(* A download window lists attachments of its message.                     *)
RowsInv ==
  /\ DOMAIN rows = Wins
  /\ \A w \in Wins : view[w] # "free" => msgOf[w] \in Messages
  /\ \A w \in Wins : dl[w] # "none" => rows[w] \subseteq Rows(msgOf[w])

FilesInv ==
  /\ RowsInv
  /\ \A i \in DOMAIN stack : FrameOK(stack[i])
  /\ SoleInv

--------------------------------------------------------------------------------
(* What a step may do to windows and files, for a handler to stay as it is. *)

WindowsGoOn ==
  \A w \in Wins : dl[w] # "none" => dl'[w] # "none" /\ msgOf'[w] = msgOf[w]

FileGoesOn(f) ==
  f.file # None => f.file \in DOMAIN disk' /\ (f.sole => disk'[f.file] = disk[f.file])

LEMMA FrameKept ==
  ASSUME NEW f, f.win \in Wins, FrameOK(f), WindowsGoOn, agreed \subseteq agreed',
         IsTransfer(f) => FileGoesOn(f)
  PROVE  FrameOK(f)'
<1>1. CASE f.kind \in WindowKinds
  BY <1>1 DEF FrameOK
<1>2. CASE f.kind \notin WindowKinds
  <2>1. /\ DOMAIN f = TransferFields /\ dl[f.win] # "none"
        /\ f.kind # "opendir" => f.todo \in Seq(Rows(msgOf[f.win])) /\ f.todo # <<>>
        /\ f.sole \in BOOLEAN
        /\ f.file # None => f.file \in DOMAIN disk /\ (f.sole \/ f.file \in agreed)
        /\ f.sole => f.file # None /\ SoFar(f)
        /\ Progress(f)
    BY <1>2 DEF FrameOK
  <2>2. FileGoesOn(f)
    BY <2>1 DEF IsTransfer, TransferFields
  <2>3. dl'[f.win] # "none" /\ msgOf'[f.win] = msgOf[f.win]
    BY <2>1 DEF WindowsGoOn
  <2>4. Entry(f)' = Entry(f) /\ Rows(msgOf[f.win])' = Rows(msgOf[f.win])
    BY <2>3 DEF Entry
  <2>7. Progress(f)'
    BY <2>1, <2>4 DEF Progress
  <2>5. f.file # None => f.file \in DOMAIN disk' /\ (f.sole \/ f.file \in agreed')
    BY <2>1, <2>2 DEF FileGoesOn
  <2>6. f.sole => f.file # None /\ SoFar(f)'
    BY <2>1, <2>2, <2>3 DEF FileGoesOn, SoFar, PiecesOf
  <2> QED
    BY <1>2, <2>1, <2>3, <2>4, <2>5, <2>6, <2>7 DEF FrameOK
<1> QED
  BY <1>1, <1>2

(* Handlers that stay.  rest must be a constant here: it is not primed.    *)
FilesKept(rest) ==
  /\ rest \in Seq(Elements(rest)) /\ DOMAIN rest \subseteq DOMAIN stack
  /\ \A i \in DOMAIN rest :
       /\ FrameOK(rest[i])'
       /\ IsTransfer(rest[i]) =>
            /\ IsTransfer(stack[i]) /\ (rest[i].sole => stack[i].sole)
            /\ rest[i].file = None \/ rest[i].file = stack[i].file

(* A transfer that makes a file its own has it alone.                      *)
Alone(g, rest) ==
  IsTransfer(g) => \A i \in DOMAIN rest : IsTransfer(rest[i]) =>
    /\ g.sole => rest[i].file # g.file
    /\ rest[i].sole => g.file # rest[i].file

LEMMA TransferFrame ==
  ASSUME NEW f, FrameOK(f), IsTransfer(f)
  PROVE  /\ DOMAIN f = TransferFields /\ f.kind \notin WindowKinds
         /\ f.sole => f.file # None
BY DEF FrameOK, IsTransfer, TransferFields

LEMMA SoleLeft ==
  ASSUME SoleInv, NEW rest, FilesKept(rest)
  PROVE  \A i, j \in DOMAIN rest :
           i # j /\ IsTransfer(rest[i]) /\ IsTransfer(rest[j]) /\ rest[i].sole
           => rest[j].file # rest[i].file
<1> SUFFICES ASSUME NEW i \in DOMAIN rest, NEW j \in DOMAIN rest, i # j, IsTransfer(rest[i]),
                    IsTransfer(rest[j]), rest[i].sole
             PROVE  rest[j].file # rest[i].file
  OBVIOUS
<1>1. /\ i \in DOMAIN stack /\ j \in DOMAIN stack /\ IsTransfer(stack[i]) /\ IsTransfer(stack[j])
      /\ stack[i].sole
      /\ rest[i].file = None \/ rest[i].file = stack[i].file
      /\ rest[j].file = None \/ rest[j].file = stack[j].file
  BY DEF FilesKept
<1>2. rest[i].file # None
  BY DEF FilesKept, FrameOK, IsTransfer, TransferFields
<1>3. stack[j].file # stack[i].file
  BY <1>1 DEF SoleInv
<1> QED
  BY <1>1, <1>2, <1>3

LEMMA FilesLeft ==
  ASSUME FilesInv, RowsInv', NEW rest, FilesKept(rest), stack' = rest
  PROVE  FilesInv'
<1>1. SoleInv'
  BY SoleLeft DEF FilesInv, SoleInv
<1>2. \A i \in DOMAIN stack' : FrameOK(stack[i])'
  <2> SUFFICES ASSUME NEW i \in DOMAIN stack' PROVE FrameOK(stack[i])'
    OBVIOUS
  <2>1. PICK f : f = rest[i]
    OBVIOUS
  <2>2. FrameOK(f)' /\ stack'[i] = f
    BY <2>1 DEF FilesKept
  <2> QED
    BY <2>2 DEF FrameOK, SoFar, PiecesOf, Progress, Entry
<1> QED
  BY <1>1, <1>2 DEF FilesInv

LEMMA FilesGrown ==
  ASSUME FilesInv, RowsInv', NEW rest, FilesKept(rest), NEW g, FrameOK(g)', Alone(g, rest),
         stack' = Append(rest, g)
  PROVE  FilesInv'
<1>1. /\ Len(rest) \in Nat
      /\ DOMAIN rest = 1..Len(rest) /\ DOMAIN stack' = 1..(Len(rest) + 1)
      /\ \A i \in DOMAIN stack' : stack'[i] = IF i = Len(rest) + 1 THEN g ELSE rest[i]
  BY Appended DEF FilesKept
<1>2. \A i \in DOMAIN stack' :
        \/ i = Len(rest) + 1 /\ stack'[i] = g
        \/ i \in DOMAIN rest /\ stack'[i] = rest[i]
  BY <1>1
<1>3. SoleInv'
  <2> SUFFICES ASSUME NEW i \in DOMAIN stack', NEW j \in DOMAIN stack', i # j,
                      IsTransfer(stack'[i]), IsTransfer(stack'[j]), stack'[i].sole
               PROVE  stack'[j].file # stack'[i].file
    BY DEF SoleInv, IsTransfer
  <2>1. CASE i \in DOMAIN rest /\ stack'[i] = rest[i] /\ j \in DOMAIN rest /\ stack'[j] = rest[j]
    BY <2>1, SoleLeft DEF FilesInv
  <2>2. CASE stack'[i] = g /\ j \in DOMAIN rest /\ stack'[j] = rest[j]
    BY <2>2 DEF Alone
  <2>3. CASE stack'[j] = g /\ i \in DOMAIN rest /\ stack'[i] = rest[i]
    BY <2>3 DEF Alone
  <2> QED
    BY <1>2, <2>1, <2>2, <2>3
<1>4. \A i \in DOMAIN stack' : FrameOK(stack[i])'
  <2> SUFFICES ASSUME NEW i \in DOMAIN stack' PROVE FrameOK(stack[i])'
    OBVIOUS
  <2>1. PICK f : f = stack'[i]
    OBVIOUS
  <2>2. f = g \/ (i \in DOMAIN rest /\ f = rest[i])
    BY <1>2, <2>1
  <2>3. FrameOK(f)'
    BY <2>2 DEF FilesKept
  <2> QED
    BY <2>1, <2>3 DEF FrameOK, SoFar, PiecesOf, Progress, Entry
<1> QED
  BY <1>3, <1>4 DEF FilesInv

(* The handlers below the top, and all of them.                            *)
LEMMA FramesStay ==
  ASSUME FilesInv, ShapeInv, NEW rest, rest \in Seq(Elements(rest)),
         DOMAIN rest \subseteq DOMAIN stack, \A i \in DOMAIN rest : rest[i] = stack[i],
         WindowsGoOn, agreed \subseteq agreed',
         \A i \in DOMAIN rest : IsTransfer(rest[i]) => FileGoesOn(rest[i])
  PROVE  FilesKept(rest)
<1>1. ASSUME NEW i \in DOMAIN rest PROVE FrameOK(rest[i])'
  <2>1. PICK f : f = rest[i]
    OBVIOUS
  <2>2. FrameOK(f) /\ f.win \in Wins /\ (IsTransfer(f) => FileGoesOn(f))
    BY <2>1 DEF FilesInv, ShapeInv, Framed
  <2>3. FrameOK(f)'
    BY <2>2, FrameKept
  <2> QED
    BY <2>1, <2>3
<1> QED
  BY <1>1 DEF FilesKept

LEMMA BelowKept ==
  ASSUME FilesInv, ShapeInv, stack # <<>>, NEW b, b = Below,
         WindowsGoOn, agreed \subseteq agreed',
         \A i \in DOMAIN b : IsTransfer(b[i]) => FileGoesOn(b[i])
  PROVE  FilesKept(b)
<1>1. /\ b \in Seq(Elements(b)) /\ DOMAIN b \subseteq DOMAIN stack
      /\ \A i \in DOMAIN b : b[i] = stack[i]
  BY BelowTop
<1> QED
  BY <1>1, FramesStay

(* The top handler and those below it.                                     *)
LEMMA TopFrame ==
  ASSUME FilesInv, ShapeInv, stack # <<>>, NEW t, t = Top, NEW b, b = Below
  PROVE  /\ FrameOK(t) /\ t.win \in Wins /\ Framed(t) /\ Alone(t, b)
         /\ b \in Seq(Elements(b)) /\ DOMAIN b \subseteq DOMAIN stack
         /\ \A i \in DOMAIN b : b[i] = stack[i] /\ FrameOK(b[i]) /\ b[i].win \in Wins
<1>1. PICK n : n = Len(stack)
  OBVIOUS
<1>2. /\ b \in Seq(Elements(b)) /\ n \in Nat \ {0}
      /\ DOMAIN stack = 1..n /\ DOMAIN b = 1..(n - 1)
      /\ \A i \in DOMAIN b : b[i] = stack[i] /\ i \in DOMAIN stack
      /\ Framed(t) /\ t = stack[n] /\ n \in DOMAIN stack
  BY <1>1, BelowTop
<1>3. \A i \in DOMAIN b : i # n
  BY <1>2
<1>4. FrameOK(t) /\ \A i \in DOMAIN b : FrameOK(b[i]) /\ b[i].win \in Wins
  BY <1>2 DEF FilesInv, ShapeInv, Framed
<1>5. Alone(t, b)
  BY <1>2, <1>3 DEF Alone, FilesInv, SoleInv
<1> QED
  BY <1>2, <1>4, <1>5 DEF Framed

--------------------------------------------------------------------------------
(* Steps of a transfer's own handler.                                      *)

(* What a handler must have done before it is of a later kind.             *)
Reached(t, k) ==
  /\ k = "reading" => t.kind = "reading"
  /\ k = "closing" => t.kind = "reading"
  /\ k = "complete" => t.kind = "closing" /\ t.wrote = Entry(t).size

LEMMA Rekind ==
  ASSUME NEW t, FrameOK(t), IsTransfer(t), t.kind # "opendir", Entry(t).size \in Nat,
         NEW k, k \notin WindowKinds, NEW g, g = [t EXCEPT !.kind = k], Reached(t, k)
  PROVE  /\ FrameOK(g) /\ IsTransfer(g) /\ g.win = t.win /\ g.file = t.file
         /\ g.sole = t.sole /\ g.kind = k
<1>1. DOMAIN t = TransferFields /\ t.kind \notin WindowKinds
  BY TransferFrame
<1>2. /\ DOMAIN g = TransferFields /\ g.kind = k
      /\ g.win = t.win /\ g.file = t.file /\ g.sole = t.sole /\ g.todo = t.todo /\ g.pos = t.pos
      /\ g.wrote = t.wrote
  BY <1>1 DEF TransferFields
<1>3. (SoFar(t) => SoFar(g)) /\ Entry(g) = Entry(t)
  BY <1>2 DEF SoFar, PiecesOf, Entry
<1>6. Progress(g)
  BY <1>1, <1>2, <1>3 DEF Progress, FrameOK, Reached
<1>4. IsTransfer(g)
  BY <1>2 DEF IsTransfer, TransferFields
<1>5. FrameOK(g)
  BY <1>1, <1>2, <1>3, <1>6 DEF FrameOK
<1> QED
  BY <1>2, <1>4, <1>5

(* The file stays, and so does what the handler knows of it.               *)
LEMMA TopRekind ==
  ASSUME FilesInv, ShapeInv, RowsInv', stack # <<>>, IsTransfer(Top), Top.kind # "opendir",
         NEW k, k \notin WindowKinds,
         Entry(Top).size \in Nat, Reached(Top, k),
         Becomes([Top EXCEPT !.kind = k]), WindowsGoOn, UNCHANGED <<disk, agreed>>
  PROVE  FilesInv'
<1>1. PICK t, b, g : t = Top /\ b = Below /\ g = [t EXCEPT !.kind = k]
  OBVIOUS
<1>2. stack' = Append(b, g)
  BY <1>1 DEF Becomes
<1>3. /\ FrameOK(t) /\ t.win \in Wins /\ Alone(t, b)
      /\ \A i \in DOMAIN b : b[i] = stack[i] /\ FrameOK(b[i]) /\ b[i].win \in Wins
  BY <1>1, TopFrame
<1>4. /\ FrameOK(g) /\ IsTransfer(g) /\ g.win = t.win /\ g.file = t.file
      /\ g.sole = t.sole /\ g.kind = k
  BY <1>1, <1>3, Rekind
<1>5. \A f : FrameOK(f) /\ IsTransfer(f) => FileGoesOn(f)
  BY TransferFrame DEF FileGoesOn, FrameOK
<1>6. FrameOK(g)'
  BY <1>3, <1>4, <1>5, FrameKept
<1>7. FilesKept(b)
  BY <1>1, <1>3, <1>5, BelowKept
<1>8. Alone(g, b)
  BY <1>1, <1>3, <1>4 DEF Alone
<1> QED
  BY <1>2, <1>6, <1>7, <1>8, FilesGrown

(* A handler that starts with a row has no file yet.                       *)
LEMMA FreshFrame ==
  ASSUME NEW kind, kind \notin WindowKinds \union {"reading", "closing", "complete"},
         NEW w \in Wins, NEW todo, NEW all, NEW g, g = Transfer(kind, w, todo, all),
         dl'[w] # "none",
         kind # "opendir" => todo \in Seq(Rows(msgOf'[w])) /\ todo # <<>>
  PROVE  FrameOK(g)' /\ \A rest : FilesKept(rest) => Alone(g, rest)
<1>1. /\ DOMAIN g = TransferFields /\ g.kind = kind /\ g.win = w /\ g.todo = todo
      /\ g.file = None /\ g.sole = FALSE /\ g.pos = 0 /\ g.wrote = 0
  BY DEF Transfer, TransferFields
<1>2. FrameOK(g)'
  <2>1. g.pos \in Nat /\ g.wrote \in Nat /\ g.wrote <= g.pos /\ ~(g.file # None)
    BY <1>1
  <2>4. g.sole \in BOOLEAN /\ ~g.sole
    BY <1>1, Zenon
  <2>2. g.kind \notin WindowKinds /\ g.kind \notin {"reading", "closing", "complete"}
    BY <1>1
  <2>5. Progress(g)'
    BY <2>1, <2>2 DEF Progress
  <2>3. dl'[g.win] # "none"
        /\ (g.kind # "opendir" => g.todo \in Seq(Rows(msgOf'[g.win])) /\ g.todo # <<>>)
    BY <1>1
  <2> QED
    BY <1>1, <2>1, <2>2, <2>3, <2>4, <2>5 DEF FrameOK
<1>3. ASSUME NEW rest, FilesKept(rest) PROVE Alone(g, rest)
  <2> SUFFICES ASSUME NEW i \in DOMAIN rest, IsTransfer(rest[i]), rest[i].sole
               PROVE  None # rest[i].file
    BY <1>1 DEF Alone
  <2> QED
    BY <1>3 DEF FilesKept, FrameOK, IsTransfer, TransferFields
<1> QED
  BY <1>2, <1>3

LEMMA TailOfRows ==
  ASSUME NEW S, NEW todo \in Seq(S), todo # <<>>, Len(todo) > 1
  PROVE  Tail(todo) \in Seq(S) /\ Tail(todo) # <<>>
<1>1. Tail(todo) \in Seq(S) /\ Len(Tail(todo)) = Len(todo) - 1 /\ Len(todo) \in Nat
  BY HeadTailProperties, LenProperties
<1>2. Len(Tail(todo)) # 0
  BY <1>1
<1> QED
  BY <1>1, <1>2, EmptySeq

LEMMA RowDoneFiles ==
  ASSUME FilesInv, RowsInv', NEW f, FrameOK(f), IsTransfer(f), f.kind # "opendir", f.win \in Wins,
         NEW rest, FilesKept(rest), WindowsGoOn, NextRow(f, rest)
  PROVE  FilesInv'
<1>1. /\ dl'[f.win] # "none" /\ f.todo \in Seq(Rows(msgOf'[f.win])) /\ f.todo # <<>>
  BY TransferFrame DEF FrameOK, WindowsGoOn
<1>2. ASSUME NEW S, Finish(f, rest, S) PROVE FilesInv'
  <2>1. CASE f.all
    <3>1. PICK g : g = Transfer("opendir", f.win, <<>>, TRUE)
      OBVIOUS
    <3>2. stack' = Append(rest, g)
      BY <1>2, <2>1, <3>1 DEF Finish
    <3>3. FrameOK(g)' /\ Alone(g, rest)
      BY <1>1, <3>1, FreshFrame DEF WindowKinds
    <3> QED
      BY <3>2, <3>3, FilesGrown
  <2>2. CASE ~f.all
    BY <1>2, <2>2, FilesLeft DEF Finish
  <2> QED
    BY <2>1, <2>2
<1>3. CASE Gone(f)
  BY <1>3, FilesLeft DEF NextRow
<1>4. CASE ~Gone(f) /\ Len(f.todo) > 1
  <2>1. PICK g : g = Transfer("connect", f.win, Tail(f.todo), f.all)
    OBVIOUS
  <2>2. stack' = Append(rest, g)
    BY <1>4, <2>1 DEF NextRow
  <2>3. Tail(f.todo) \in Seq(Rows(msgOf'[f.win])) /\ Tail(f.todo) # <<>>
    BY <1>1, <1>4, TailOfRows
  <2>4. FrameOK(g)' /\ Alone(g, rest)
    BY <1>1, <2>1, <2>3, FreshFrame DEF WindowKinds
  <2> QED
    BY <2>2, <2>4, FilesGrown
<1>5. CASE ~Gone(f) /\ ~(Len(f.todo) > 1)
  BY <1>2, <1>5 DEF NextRow
<1> QED
  BY <1>3, <1>4, <1>5

LEMMA TopRowDoneFiles ==
  ASSUME FilesInv, ShapeInv, RowsInv', stack # <<>>, IsTransfer(Top), Top.kind # "opendir",
         WindowsGoOn, UNCHANGED agreed, NextRow(Top, Below),
         \A i \in DOMAIN Below : IsTransfer(Below[i]) => FileGoesOn(Below[i])
  PROVE  FilesInv'
<1>1. PICK t, b : t = Top /\ b = Below
  OBVIOUS
<1>2. FrameOK(t) /\ t.win \in Wins
  BY <1>1, TopFrame
<1>3. FilesKept(b)
  BY <1>1, BelowKept
<1> QED
  BY <1>1, <1>2, <1>3, RowDoneFiles

(* With the disk as it is, every handler may stay.                         *)
LEMMA DiskStill ==
  ASSUME FilesInv, ShapeInv, stack # <<>>, UNCHANGED disk
  PROVE  \A i \in DOMAIN Below : IsTransfer(Below[i]) => FileGoesOn(Below[i])
<1>1. PICK t, b : t = Top /\ b = Below
  OBVIOUS
<1>2. \A i \in DOMAIN b : FrameOK(b[i])
  BY <1>1, TopFrame
<1>3. \A i \in DOMAIN b : IsTransfer(b[i]) => FileGoesOn(b[i])
  BY <1>2, TransferFrame DEF FileGoesOn, FrameOK
<1> QED
  BY <1>1, <1>3

(* The row a handler fetches is one of its message.                        *)
LEMMA EntryIs ==
  ASSUME FilesInv, WindowsInv, NEW t, FrameOK(t), IsTransfer(t), t.win \in Wins, t.kind # "opendir"
  PROVE  /\ Entry(t).size \in Nat /\ Entry(t).name # None
         /\ msgOf[t.win] \in Messages /\ Head(t.todo) \in Rows(msgOf[t.win])
<1>1. t.todo \in Seq(Rows(msgOf[t.win])) /\ t.todo # <<>> /\ dl[t.win] # "none"
  BY TransferFrame DEF FrameOK
<1>2. Head(t.todo) \in Rows(msgOf[t.win])
  BY <1>1, HeadTailProperties
<1>3. view[t.win] # "free"
  BY <1>1 DEF WindowsInv, ClosedInv
<1>4. msgOf[t.win] \in Messages
  BY <1>3 DEF FilesInv, RowsInv
<1> QED
  BY <1>2, <1>4, OfferAssumption DEF Entry

--------------------------------------------------------------------------------
(* What transfers do to the lists of attachments, and to the files.        *)

RowsShrink == DOMAIN rows' = Wins /\ \A w \in Wins : rows'[w] \subseteq rows[w]

LEMMA RowDoneRows ==
  ASSUME DOMAIN rows = Wins, NEW f, NEW rest, NextRow(f, rest)
  PROVE  RowsShrink
<1>1. CASE UNCHANGED rows
  BY <1>1 DEF RowsShrink
<1>2. ASSUME NEW S, Finish(f, rest, S) PROVE RowsShrink
  <2>1. rows' = [rows EXCEPT ![f.win] = @ \ S]
    BY <1>2 DEF Finish
  <2> QED
    BY <2>1 DEF RowsShrink
<1> QED
  BY <1>1, <1>2 DEF NextRow

LEMMA TransfersRows ==
  ASSUME FilesInv, WindowsInv, TransferNext
  PROVE  RowsInv' /\ WindowsGoOn
<1>1. UNCHANGED windowsStill /\ DownloadsOnly
  BY TransfersStep DEF TransferStep, WindowsInv
<1>2. RowsShrink
  <2>1. CASE UNCHANGED rows
    BY <2>1 DEF RowsShrink, FilesInv, RowsInv
  <2>2. ASSUME NEW rest, NextRow(Top, rest) PROVE RowsShrink
    BY <2>2, RowDoneRows DEF FilesInv, RowsInv
  <2>3. UNCHANGED rows \/ \E rest : NextRow(Top, rest)
    BY DEF TransferNext, recv_attachments, transferVars, Connect, OpenFile, FetchOther,
           OverwriteAgreed, OverwriteRefused, ReadPiece, ReadLast, ReadFails, FileComplete,
           CompleteClosed, FailedRetry, ConnectAgain, FailedCancel, DirectoryShown
  <2> QED
    BY <2>1, <2>2, <2>3
<1>3. WindowsGoOn /\ \A w \in Wins : dl'[w] # "none" => dl[w] # "none"
  BY <1>1 DEF windowsStill, DownloadsOnly, listsStill, on_downloadWindow_destroy, WindowsGoOn,
              WindowsInv, WinType
<1>4. RowsInv'
  BY <1>1, <1>2, <1>3 DEF windowsStill, RowsShrink, FilesInv, RowsInv
<1> QED
  BY <1>3, <1>4

LEMMA AtTransfer ==
  ASSUME FilesInv, ShapeInv, NEW kind, kind \notin WindowKinds, At(kind)
  PROVE  /\ stack # <<>> /\ Top.kind = kind /\ IsTransfer(Top) /\ FrameOK(Top)
         /\ Top.win \in Wins
<1>1. stack # <<>> /\ Top.kind = kind
  BY DEF At
<1>2. PICK t, b : t = Top /\ b = Below
  OBVIOUS
<1>3. FrameOK(t) /\ t.win \in Wins /\ t.kind = kind
  BY <1>1, <1>2, TopFrame
<1>4. IsTransfer(t)
  BY <1>3 DEF FrameOK, IsTransfer, TransferFields
<1> QED
  BY <1>1, <1>2, <1>3, <1>4

LEMMA NotEmpty ==
  ASSUME NEW S, NEW n \in Nat \ {0}, NEW t \in [1..n -> S]
  PROVE  t \in Seq(S) /\ t # <<>>
<1>1. t \in Seq(S)
  BY IsSeq
<1>2. 1 \in DOMAIN t
  OBVIOUS
<1>3. DOMAIN t = 1..Len(t)
  BY <1>1, LenProperties
<1>4. Len(t) # 0
  BY <1>2, <1>3
<1> QED
  BY <1>1, <1>4, EmptySeq

LEMMA TransferBegins ==
  ASSUME FilesInv, WindowsInv, RowsInv', WindowsGoOn, NEW w \in Wins, recv_attachments(w)
  PROVE  FilesInv'
<1>1. UserFree /\ dl[w] = "open" /\ UNCHANGED windowsStill /\ UNCHANGED transferVars
  BY DEF recv_attachments
<1>0. PICK S \in SUBSET rows[w], all \in BOOLEAN :
        \E todo \in [1..Cardinality(S) -> S] :
          stack' = Append(stack, Transfer(IF S = {} THEN "opendir" ELSE "connect", w, todo, all))
  BY DEF recv_attachments
<1>2. PICK todo \in [1..Cardinality(S) -> S] :
        stack' = Append(stack, Transfer(IF S = {} THEN "opendir" ELSE "connect", w, todo, all))
  BY <1>0
<1>3. PICK kind, s : kind = (IF S = {} THEN "opendir" ELSE "connect") /\ s = stack
  OBVIOUS
<1>4. PICK g : g = Transfer(kind, w, todo, all)
  OBVIOUS
<1>5. stack' = Append(s, g)
  BY <1>2, <1>3, <1>4
<1>6. S \subseteq Rows(msgOf[w]) /\ view[w] # "free" /\ msgOf[w] \in Messages
  BY <1>1 DEF FilesInv, RowsInv, WindowsInv, ClosedInv
<1>7. ASSUME S # {} PROVE todo \in Seq(Rows(msgOf[w])) /\ todo # <<>>
  <2>1. S \in SUBSET (1..Len(Offer[msgOf[w]])) /\ Len(Offer[msgOf[w]]) \in Int
    BY <1>6, OfferAssumption DEF Rows
  <2>2. PICK k \in Int : k = Len(Offer[msgOf[w]])
    BY <2>1
  <2>3. IsFiniteSet(1..k) /\ S \in SUBSET (1..k)
    BY <2>1, <2>2, FS_Interval
  <2>4. IsFiniteSet(S)
    BY <2>3, FS_Subset
  <2>5. Cardinality(S) \in Nat \ {0}
    BY <1>7, <2>4, FS_CardinalityType, FS_EmptySet
  <2>6. PICK n \in Nat \ {0} : n = Cardinality(S)
    BY <2>5
  <2>7. todo \in [1..n -> Rows(msgOf[w])]
    BY <1>2, <1>6, <2>6
  <2> QED
    BY <2>6, <2>7, NotEmpty
<1>8. FrameOK(g)' /\ \A rest : FilesKept(rest) => Alone(g, rest)
  <2>1. dl'[w] # "none" /\ msgOf'[w] = msgOf[w]
    BY <1>1 DEF WindowsGoOn
  <2>2. kind \notin WindowKinds \union {"reading", "closing", "complete"}
    BY <1>3 DEF WindowKinds
  <2> QED
    BY <1>3, <1>4, <1>7, <2>1, <2>2, FreshFrame
<1>9. FilesKept(s)
  <2>1. s \in Seq(Elements(s)) /\ ShapeInv
    BY <1>3 DEF WindowsInv, ShapeInv
  <2>2. UNCHANGED <<disk, agreed>>
    BY <1>1 DEF transferVars
  <2>3. \A i \in DOMAIN s : FrameOK(s[i])
    BY <1>3 DEF FilesInv
  <2>4. \A i \in DOMAIN s : IsTransfer(s[i]) => FileGoesOn(s[i])
    BY <2>2, <2>3, TransferFrame DEF FileGoesOn, FrameOK
  <2> QED
    BY <1>3, <2>1, <2>2, <2>4, FramesStay
<1> QED
  BY <1>5, <1>8, <1>9, FilesGrown

(* A new file is empty, and its name was no other handler's.               *)
LEMMA FileIsMade ==
  ASSUME FilesInv, WindowsInv, RowsInv', WindowsGoOn, UNCHANGED agreed, At("request"),
         Entry(Top).name \notin DOMAIN disk, disk' = WithFile(Entry(Top).name),
         Becomes([Top EXCEPT !.kind = "reading", !.file = Entry(Top).name, !.pos = 0, !.wrote = 0, !.sole = TRUE])
  PROVE  FilesInv'
<1>0. ShapeInv /\ "request" \notin WindowKinds
  BY DEF WindowsInv, WindowKinds
<1>1. PICK t, b, name : t = Top /\ b = Below /\ name = Entry(t).name
  OBVIOUS
<1>2. PICK g : g = [t EXCEPT !.kind = "reading", !.file = name, !.pos = 0, !.wrote = 0, !.sole = TRUE]
  OBVIOUS
<1>3. stack' = Append(b, g)
  BY <1>1, <1>2 DEF Becomes
<1>4. /\ stack # <<>> /\ FrameOK(t) /\ IsTransfer(t) /\ t.win \in Wins /\ t.kind = "request"
      /\ \A i \in DOMAIN b : FrameOK(b[i])
  BY <1>0, <1>1, AtTransfer, TopFrame
<1>5. DOMAIN t = TransferFields /\ name # None /\ name \notin DOMAIN disk
  BY <1>1, <1>4, TransferFrame, EntryIs
<1>6. /\ DOMAIN disk' = DOMAIN disk \union {name} /\ disk'[name] = <<>>
      /\ \A n \in DOMAIN disk : disk'[n] = disk[n]
  BY <1>1, <1>5 DEF WithFile
<1>7. /\ DOMAIN g = TransferFields /\ g.kind = "reading" /\ g.file = name /\ g.pos = 0
      /\ g.wrote = 0 /\ g.sole = TRUE /\ g.win = t.win /\ g.todo = t.todo
  BY <1>2, <1>5 DEF TransferFields
<1>8. <<>> \in [1..0 -> PiecesOf(g)']
  <2>1. PICK c : c = [k \in 1..0 |-> 0]
    OBVIOUS
  <2>2. c \in [1..0 -> {}] /\ c \in [1..0 -> PiecesOf(g)']
    BY <2>1
  <2>3. c \in Seq({}) /\ Len(c) = 0
    BY <2>2, IsSeq, LenProperties
  <2> QED
    BY <2>2, <2>3, EmptySeq
<1>9. FrameOK(g)'
  <2>1. SoFar(g)'
    <3>1. disk'[g.file] = <<>> /\ g.wrote = 0
      BY <1>6, <1>7
    <3>2. disk'[g.file] \in [1..g.wrote -> PiecesOf(g)']
      BY <1>8, <3>1, Zenon
    <3>3. \A k \in 1..g.wrote : FALSE
      BY <3>1
    <3> QED
      BY <3>2, <3>3 DEF SoFar
  <2>2. /\ dl'[g.win] # "none" /\ g.todo \in Seq(Rows(msgOf'[g.win])) /\ g.todo # <<>>
    BY <1>4, <1>7, TransferFrame DEF FrameOK, WindowsGoOn
  <2>3. g.sole \in BOOLEAN /\ g.sole
    BY <1>7, Zenon
  <2>4. Progress(g)'
    <3>1. Entry(t).size \in Nat /\ msgOf'[g.win] = msgOf[t.win]
      BY <1>4, <1>7, EntryIs, TransferFrame DEF FrameOK, WindowsGoOn
    <3>2. Entry(g)' = Entry(t)
      BY <1>7, <3>1 DEF Entry
    <3> QED
      BY <1>7, <3>1, <3>2 DEF Progress
  <2> QED
    BY <1>5, <1>6, <1>7, <2>1, <2>2, <2>3, <2>4 DEF FrameOK, WindowKinds
<1>10. \A i \in DOMAIN b : IsTransfer(b[i]) => FileGoesOn(b[i]) /\ (b[i].file # None => b[i].file # name)
  BY <1>4, <1>5, <1>6, TransferFrame DEF FileGoesOn, FrameOK
<1>11. FilesKept(b)
  BY <1>0, <1>1, <1>4, <1>10, BelowKept
<1>12. Alone(g, b)
  BY <1>4, <1>5, <1>7, <1>10, TransferFrame DEF Alone
<1> QED
  BY <1>3, <1>9, <1>11, <1>12, FilesGrown

(* A handler whose file another opens, or unlinks.                         *)
SharedAs(f, name, left) ==
  IF IsTransfer(f) /\ f.file = name
    THEN [f EXCEPT !.sole = FALSE, !.file = left] ELSE f

LEMMA SharedFrame ==
  ASSUME NEW f, FrameOK(f), f.win \in Wins, NEW name, name # None, NEW left, NEW r,
         r = SharedAs(f, name, left),
         WindowsGoOn, agreed \subseteq agreed',
         left = None \/ (left = name /\ name \in DOMAIN disk' /\ name \in agreed'),
         \A n \in DOMAIN disk \ {name} : n \in DOMAIN disk' /\ disk'[n] = disk[n]
  PROVE  /\ FrameOK(r)'
         /\ IsTransfer(r) =>
              /\ IsTransfer(f) /\ (r.sole => f.sole) /\ (r.file = None \/ r.file = f.file)
              /\ r.file = name => ~r.sole
              /\ r.sole => r.file # name
<1>1. CASE ~(IsTransfer(f) /\ f.file = name)
  <2>1. r = f /\ (IsTransfer(f) => f.file # name)
    BY <1>1 DEF SharedAs
  <2>2. IsTransfer(f) => FileGoesOn(f)
    BY <2>1, TransferFrame DEF FileGoesOn, FrameOK
  <2>3. FrameOK(f)'
    BY <2>2, FrameKept
  <2> QED
    BY <2>1, <2>3
<1>2. CASE IsTransfer(f) /\ f.file = name
  <2>1. DOMAIN f = TransferFields /\ f.kind \notin WindowKinds
    BY <1>2, TransferFrame
  <2>2. r = [f EXCEPT !.sole = FALSE, !.file = left]
    BY <1>2 DEF SharedAs
  <2>3. /\ DOMAIN r = TransferFields /\ r.kind = f.kind /\ r.win = f.win /\ r.todo = f.todo
        /\ r.pos = f.pos /\ r.wrote = f.wrote /\ r.file = left /\ r.sole = FALSE
    BY <2>1, <2>2 DEF TransferFields
  <2>4. r.sole \in BOOLEAN /\ ~r.sole
    BY <2>3, Zenon
  <2>5. /\ dl[f.win] # "none"
        /\ f.kind # "opendir" => f.todo \in Seq(Rows(msgOf[f.win])) /\ f.todo # <<>>
        /\ Progress(f)
    BY <2>1 DEF FrameOK
  <2>6. dl'[f.win] # "none" /\ msgOf'[f.win] = msgOf[f.win]
    BY <2>5 DEF WindowsGoOn
  <2>9. Progress(r)'
    BY <2>3, <2>5, <2>6 DEF Progress, Entry
  <2>8. FrameOK(r)'
    BY <2>1, <2>3, <2>4, <2>5, <2>6, <2>9 DEF FrameOK
  <2> QED
    BY <1>2, <2>3, <2>4, <2>8
<1> QED
  BY <1>1, <1>2

LEMMA SharedKept ==
  ASSUME FilesInv, ShapeInv, stack # <<>>, NEW name, name # None, NEW left,
         NEW rest, rest = Shared(Below, name, left),
         WindowsGoOn, agreed \subseteq agreed',
         left = None \/ (left = name /\ name \in DOMAIN disk' /\ name \in agreed'),
         \A n \in DOMAIN disk \ {name} : n \in DOMAIN disk' /\ disk'[n] = disk[n]
  PROVE  /\ FilesKept(rest)
         /\ \A i \in DOMAIN rest : IsTransfer(rest[i]) /\ rest[i].sole => rest[i].file # name
<1>1. PICK t, b : t = Top /\ b = Below
  OBVIOUS
<1>2. /\ b \in Seq(Elements(b)) /\ DOMAIN b \subseteq DOMAIN stack
      /\ \A i \in DOMAIN b : b[i] = stack[i] /\ FrameOK(b[i]) /\ b[i].win \in Wins
  BY <1>1, TopFrame
<1>3. rest = [i \in DOMAIN b |-> SharedAs(b[i], name, left)]
  BY <1>1 DEF Shared, SharedAs
<1>4. DOMAIN rest = DOMAIN b /\ rest = [i \in DOMAIN rest |-> rest[i]]
  BY <1>3
<1>5. rest \in Seq(Elements(rest))
  BY <1>2, <1>4, Mapped
<1>6. ASSUME NEW i \in DOMAIN rest
      PROVE  /\ FrameOK(rest[i])'
             /\ IsTransfer(rest[i]) =>
                  /\ IsTransfer(stack[i]) /\ (rest[i].sole => stack[i].sole)
                  /\ rest[i].file = None \/ rest[i].file = stack[i].file
                  /\ rest[i].sole => rest[i].file # name
  <2>1. PICK f, r : f = stack[i] /\ r = rest[i]
    OBVIOUS
  <2>2. r = SharedAs(f, name, left)
    BY <1>2, <1>3, <1>4, <2>1
  <2>3. FrameOK(f) /\ f.win \in Wins
    BY <1>2, <1>4, <2>1
  <2>4. /\ FrameOK(r)'
        /\ IsTransfer(r) =>
             /\ IsTransfer(f) /\ (r.sole => f.sole) /\ (r.file = None \/ r.file = f.file)
             /\ r.sole => r.file # name
    BY <2>2, <2>3, SharedFrame
  <2> QED
    BY <2>1, <2>4
<1> QED
  BY <1>2, <1>4, <1>5, <1>6 DEF FilesKept

(* The user agrees to overwrite: the file is nobody's own any more.        *)
LEMMA AgreedFiles ==
  ASSUME FilesInv, WindowsInv, RowsInv', WindowsGoOn, OverwriteAgreed
  PROVE  FilesInv'
<1>0. ShapeInv /\ "overwrite" \notin WindowKinds /\ At("overwrite")
  BY DEF WindowsInv, WindowKinds, OverwriteAgreed
<1>1. PICK t, name : t = Top /\ name = Entry(t).name
  OBVIOUS
<1>2. PICK rest, g :
        /\ rest = Shared(Below, name, name)
        /\ g = [t EXCEPT !.kind = "reading", !.file = name, !.pos = 0, !.wrote = 0, !.sole = FALSE]
  OBVIOUS
<1>3. stack' = Append(rest, g) /\ disk' = WithFile(name) /\ agreed' = agreed \union {name}
  BY <1>1, <1>2 DEF OverwriteAgreed
<1>4. stack # <<>> /\ FrameOK(t) /\ IsTransfer(t) /\ t.win \in Wins /\ t.kind = "overwrite"
  BY <1>0, <1>1, AtTransfer
<1>5. DOMAIN t = TransferFields /\ name # None
  BY <1>1, <1>4, TransferFrame, EntryIs
<1>6. /\ name \in DOMAIN disk' /\ name \in agreed' /\ agreed \subseteq agreed'
      /\ \A n \in DOMAIN disk \ {name} : n \in DOMAIN disk' /\ disk'[n] = disk[n]
  BY <1>3 DEF WithFile
<1>7. /\ FilesKept(rest)
      /\ \A i \in DOMAIN rest : IsTransfer(rest[i]) /\ rest[i].sole => rest[i].file # name
  BY <1>0, <1>2, <1>4, <1>5, <1>6, SharedKept
<1>8. /\ DOMAIN g = TransferFields /\ g.kind = "reading" /\ g.file = name /\ g.pos = 0
      /\ g.wrote = 0 /\ g.sole = FALSE /\ g.win = t.win /\ g.todo = t.todo
  BY <1>2, <1>5 DEF TransferFields
<1>9. FrameOK(g)'
  <2>1. dl'[g.win] # "none" /\ g.todo \in Seq(Rows(msgOf'[g.win])) /\ g.todo # <<>>
    BY <1>4, <1>8, TransferFrame DEF FrameOK, WindowsGoOn
  <2>2. g.sole \in BOOLEAN /\ ~g.sole
    BY <1>8, Zenon
  <2>3. g.file \in DOMAIN disk' /\ g.file \in agreed'
    BY <1>6, <1>8
  <2>4. Progress(g)'
    <3>1. Entry(t).size \in Nat /\ msgOf'[g.win] = msgOf[t.win]
      BY <1>4, <1>8, EntryIs, TransferFrame DEF FrameOK, WindowsGoOn
    <3>2. Entry(g)' = Entry(t)
      BY <1>8, <3>1 DEF Entry
    <3> QED
      BY <1>8, <3>1, <3>2 DEF Progress
  <2> QED
    BY <1>8, <2>1, <2>2, <2>3, <2>4 DEF FrameOK, WindowKinds
<1>10. Alone(g, rest)
  <2>1. ~g.sole
    BY <1>8, Zenon
  <2> QED
    BY <1>7, <1>8, <2>1 DEF Alone
<1> QED
  BY <1>3, <1>7, <1>9, <1>10, FilesGrown

(* A file is unlinked: no other handler has it as its own any more.        *)
LEMMA CancelledFiles ==
  ASSUME FilesInv, WindowsInv, RowsInv', WindowsGoOn, FailedCancel
  PROVE  FilesInv'
<1>0. ShapeInv /\ "failed" \notin WindowKinds /\ At("failed")
  BY DEF WindowsInv, WindowKinds, FailedCancel
<1>1. PICK t, name : t = Top /\ name = Entry(t).name
  OBVIOUS
<1>2. PICK rest : rest = Shared(Below, name, None)
  OBVIOUS
<1>3. /\ NextRow(t, rest) /\ agreed' = agreed
      /\ disk' = [n \in DOMAIN disk \ {name} |-> disk[n]]
  BY <1>1, <1>2 DEF FailedCancel
<1>4. stack # <<>> /\ FrameOK(t) /\ IsTransfer(t) /\ t.win \in Wins /\ t.kind = "failed"
  BY <1>0, <1>1, AtTransfer
<1>5. name # None
  BY <1>1, <1>4, EntryIs
<1>6. \A n \in DOMAIN disk \ {name} : n \in DOMAIN disk' /\ disk'[n] = disk[n]
  BY <1>3
<1>7. FilesKept(rest)
  BY <1>0, <1>2, <1>3, <1>4, <1>5, <1>6, SharedKept
<1> QED
  BY <1>3, <1>4, <1>7, RowDoneFiles

(* A piece written to a file of one's own goes to its end.                 *)
LEMMA PieceWritten ==
  ASSUME NEW t, FrameOK(t), IsTransfer(t), t.sole, t.pos < Entry(t).size, Entry(t).size \in Nat
  PROVE  /\ Written(t) \in [1..(t.wrote + 1) -> PiecesOf(t)]
         /\ t.wrote = t.pos =>
              \A k \in 1..(t.wrote + 1) : Written(t)[k] = <<msgOf[t.win], Head(t.todo), k>>
<1>1. SoFar(t) /\ t.pos \in Nat /\ t.wrote \in Nat
  BY TransferFrame DEF FrameOK, Progress
<1>2. PICK old, n, S : old = disk[t.file] /\ n = t.wrote /\ S = PiecesOf(t)
  OBVIOUS
<1>3. /\ old \in [1..n -> S] /\ n \in Nat
      /\ n = t.pos => \A k \in 1..n : old[k] = <<msgOf[t.win], Head(t.todo), k>>
  BY <1>1, <1>2 DEF SoFar
<1>4. Len(old) = n
  BY <1>3, IsSeq, LenProperties
<1>5. PICK p : p = <<msgOf[t.win], Head(t.todo), t.pos + 1>>
  OBVIOUS
<1>6. Pieces(t)[t.pos + 1] = p /\ p \in S
  BY <1>1, <1>2, <1>5 DEF Pieces, PiecesOf
<1>7. PICK d : d = [i \in 1..(n + 1) |-> IF i = n + 1 THEN p ELSE old[i]]
  OBVIOUS
<1>8. Written(t) = d
  BY <1>2, <1>3, <1>4, <1>6, <1>7 DEF Written
<1>9. \A i \in 1..(n + 1) : i = n + 1 \/ i \in 1..n
  BY <1>3
<1>10. d \in [1..(n + 1) -> S]
  BY <1>3, <1>6, <1>7, <1>9
<1>11. ASSUME n = t.pos, NEW k \in 1..(n + 1) PROVE d[k] = <<msgOf[t.win], Head(t.todo), k>>
  BY <1>3, <1>5, <1>7, <1>9, <1>11
<1> QED
  BY <1>2, <1>8, <1>10, <1>11

LEMMA ReadFiles ==
  ASSUME FilesInv, WindowsInv, RowsInv', WindowsGoOn, ReadPiece
  PROVE  FilesInv'
<1>0. ShapeInv /\ "reading" \notin WindowKinds /\ At("reading")
  BY DEF WindowsInv, WindowKinds, ReadPiece
<1>1. PICK t, b : t = Top /\ b = Below
  OBVIOUS
<1>2. t.pos < Entry(t).size /\ agreed' = agreed
  BY <1>1 DEF ReadPiece
<1>10. PICK whole \in BOOLEAN :
        /\ disk' = IF whole /\ t.file # None THEN [disk EXCEPT ![t.file] = Written(t)] ELSE disk
        /\ Gone(t) => NextRow(t, b)
        /\ ~Gone(t) => Becomes([t EXCEPT !.pos = @ + 1, !.wrote = IF whole THEN @ + 1 ELSE @])
  BY <1>1 DEF ReadPiece
<1>3. stack # <<>> /\ FrameOK(t) /\ IsTransfer(t) /\ t.win \in Wins /\ t.kind = "reading"
  BY <1>0, <1>1, AtTransfer
<1>4. Alone(t, b) /\ \A i \in DOMAIN b : FrameOK(b[i])
  BY <1>0, <1>1, <1>3, TopFrame
<1>5. /\ DOMAIN disk' = DOMAIN disk
      /\ \A n \in DOMAIN disk : n # t.file => disk'[n] = disk[n]
      /\ t.file # None /\ t.file \in DOMAIN disk =>
           disk'[t.file] = IF whole THEN Written(t) ELSE disk[t.file]
  BY <1>10
<1>6. ASSUME NEW i \in DOMAIN b, IsTransfer(b[i]) PROVE FileGoesOn(b[i])
  <2>1. b[i].file # None => b[i].file \in DOMAIN disk
    BY <1>4, <1>6, TransferFrame DEF FrameOK
  <2>2. b[i].sole => t.file # b[i].file
    BY <1>3, <1>4, <1>6 DEF Alone
  <2> QED
    BY <1>5, <2>1, <2>2 DEF FileGoesOn
<1>7. FilesKept(b)
  BY <1>0, <1>1, <1>2, <1>3, <1>6, BelowKept
<1>8. CASE Gone(t)
  BY <1>3, <1>7, <1>8, <1>10, RowDoneFiles
<1>9. CASE ~Gone(t)
  <2>1. PICK g : g = [t EXCEPT !.pos = @ + 1, !.wrote = IF whole THEN @ + 1 ELSE @]
    OBVIOUS
  <2>2. stack' = Append(b, g)
    BY <1>1, <1>9, <1>10, <2>1 DEF Becomes
  <2>3. DOMAIN t = TransferFields
    BY <1>3, TransferFrame
  <2>4. /\ DOMAIN g = TransferFields /\ g.kind = "reading" /\ g.win = t.win /\ g.todo = t.todo
        /\ g.pos = t.pos + 1 /\ g.wrote = (IF whole THEN t.wrote + 1 ELSE t.wrote)
        /\ g.file = t.file /\ g.sole = t.sole
    BY <1>3, <2>1, <2>3 DEF TransferFields
  <2>5. /\ dl[t.win] # "none" /\ t.todo \in Seq(Rows(msgOf[t.win])) /\ t.todo # <<>>
        /\ Progress(t) /\ t.sole \in BOOLEAN
        /\ t.file # None => t.file \in DOMAIN disk /\ (t.sole \/ t.file \in agreed)
        /\ t.sole => t.file # None /\ SoFar(t)
    BY <1>3, TransferFrame DEF FrameOK
  <2>6. dl'[g.win] # "none" /\ msgOf'[g.win] = msgOf[t.win]
    BY <2>4, <2>5, <1>3 DEF WindowsGoOn
  <2>10. Entry(t).size \in Nat /\ t.pos \in Nat /\ t.wrote \in Nat /\ t.wrote <= t.pos
    BY <1>3, <2>5, EntryIs DEF Progress
  <2>7. ASSUME g.sole PROVE SoFar(g)'
    <3>1. t.sole /\ t.file # None /\ t.file \in DOMAIN disk
      BY <2>4, <2>5, <2>7
    <3>2. CASE whole
      <4>1. g.wrote = t.wrote + 1 /\ disk'[g.file] = Written(t)
        BY <1>5, <2>4, <3>1, <3>2
      <4>2. /\ Written(t) \in [1..(t.wrote + 1) -> PiecesOf(t)]
            /\ t.wrote = t.pos =>
                 \A k \in 1..(t.wrote + 1) : Written(t)[k] = <<msgOf[t.win], Head(t.todo), k>>
        BY <1>2, <1>3, <2>10, <3>1, PieceWritten
      <4>3. g.wrote = g.pos => t.wrote = t.pos
        BY <2>4, <2>10, <4>1
      <4>4. PiecesOf(g)' = PiecesOf(t)
        BY <2>4, <2>6 DEF PiecesOf
      <4> QED
        BY <2>4, <2>6, <4>1, <4>2, <4>3, <4>4 DEF SoFar
    <3>3. CASE ~whole
      <4>1. g.wrote = t.wrote /\ g.wrote # g.pos /\ disk'[g.file] = disk[t.file]
        BY <1>5, <2>4, <2>10, <3>1, <3>3
      <4> QED
        BY <2>4, <2>5, <2>6, <3>1, <4>1 DEF SoFar, PiecesOf
    <3> QED
      BY <3>2, <3>3
  <2>11. Progress(g)'
    <3>1. Entry(g)' = Entry(t)
      BY <2>4, <2>6 DEF Entry
    <3>2. g.pos \in Nat /\ g.wrote \in Nat /\ g.wrote <= g.pos /\ g.pos <= Entry(t).size
      BY <1>2, <2>4, <2>10
    <3> QED
      BY <2>4, <3>1, <3>2 DEF Progress
  <2>8. FrameOK(g)'
    <3>1. g.file # None => g.file \in DOMAIN disk' /\ (g.sole \/ g.file \in agreed')
      BY <1>2, <1>5, <2>4, <2>5
    <3>2. g.todo \in Seq(Rows(msgOf'[g.win])) /\ g.todo # <<>>
          /\ g.sole \in BOOLEAN /\ (g.sole => g.file # None)
      BY <2>4, <2>5, <2>6
    <3> QED
      BY <2>4, <2>6, <2>7, <2>11, <3>1, <3>2 DEF FrameOK, WindowKinds
  <2>9. Alone(g, b)
    BY <1>3, <1>4, <2>4 DEF Alone
  <2> QED
    BY <1>7, <2>2, <2>8, <2>9, FilesGrown
<1> QED
  BY <1>8, <1>9

(* A transfer that fails in the middle of a file has no file any more.     *)
LEMMA FailedFiles ==
  ASSUME FilesInv, WindowsInv, RowsInv', WindowsGoOn, ReadFails
  PROVE  FilesInv'
<1>0. /\ ShapeInv /\ "reading" \notin WindowKinds /\ At("reading")
      /\ UNCHANGED <<disk, agreed>>
  BY DEF WindowsInv, WindowKinds, ReadFails, transferVars
<1>1. PICK t, b : t = Top /\ b = Below
  OBVIOUS
<1>2. PICK g : g = Transfer("failed", t.win, t.todo, t.all)
  OBVIOUS
<1>3. stack' = Append(b, g)
  BY <1>1, <1>2 DEF ReadFails, Becomes
<1>4. stack # <<>> /\ FrameOK(t) /\ IsTransfer(t) /\ t.win \in Wins /\ t.kind = "reading"
  BY <1>0, <1>1, AtTransfer
<1>5. dl'[t.win] # "none" /\ t.todo \in Seq(Rows(msgOf'[t.win])) /\ t.todo # <<>>
  BY <1>4, TransferFrame DEF FrameOK, WindowsGoOn
<1>6. FrameOK(g)' /\ \A rest : FilesKept(rest) => Alone(g, rest)
  BY <1>2, <1>4, <1>5, FreshFrame DEF WindowKinds
<1>7. FilesKept(b)
  BY <1>0, <1>1, <1>4, BelowKept, DiskStill
<1> QED
  BY <1>3, <1>6, <1>7, FilesGrown

LEMMA TransfersFiles ==
  ASSUME FilesInv, WindowsInv, TransferNext
  PROVE  FilesInv'
<1>0. RowsInv' /\ WindowsGoOn /\ ShapeInv
  BY TransfersRows DEF WindowsInv
<1>1. ASSUME NEW kind, kind \notin WindowKinds, At(kind)
      PROVE  stack # <<>> /\ Top.kind = kind /\ IsTransfer(Top)
  BY <1>0, <1>1, AtTransfer
<1>2. ASSUME stack # <<>>, IsTransfer(Top), Top.kind # "opendir", UNCHANGED <<disk, agreed>>,
             NextRow(Top, Below)
      PROVE  FilesInv'
  BY <1>0, <1>2, TopRowDoneFiles, DiskStill
<1>3. ASSUME stack # <<>>, IsTransfer(Top), Top.kind # "opendir", UNCHANGED <<disk, agreed>>,
             NEW k, k \notin WindowKinds, Becomes([Top EXCEPT !.kind = k]), Reached(Top, k)
      PROVE  FilesInv'
  <2>1. PICK t, b : t = Top /\ b = Below
    OBVIOUS
  <2>2. FrameOK(t) /\ t.win \in Wins
    BY <1>0, <1>3, <2>1, TopFrame
  <2>3. Entry(t).size \in Nat
    BY <1>3, <2>1, <2>2, EntryIs
  <2> QED
    BY <1>0, <1>3, <2>1, <2>3, TopRekind
<1>4. ASSUME NEW w \in Wins, recv_attachments(w) PROVE FilesInv'
  BY <1>0, <1>4, TransferBegins
<1>5. CASE Connect
  <2>1. stack # <<>> /\ IsTransfer(Top) /\ Top.kind # "opendir" /\ UNCHANGED <<disk, agreed>>
    BY <1>1, <1>5 DEF Connect, WindowKinds
  <2>2. NextRow(Top, Below) \/ Becomes([Top EXCEPT !.kind = "request"])
    BY <1>5 DEF Connect
  <2> QED
    BY <1>2, <1>3, <2>1, <2>2 DEF WindowKinds, Reached
<1>6. CASE OpenFile
  <2>1. /\ At("request") /\ stack # <<>> /\ IsTransfer(Top) /\ Top.kind # "opendir"
        /\ UNCHANGED agreed
    BY <1>1, <1>6 DEF OpenFile, WindowKinds
  <2>2. CASE /\ Entry(Top).name \notin DOMAIN disk
             /\ disk' = WithFile(Entry(Top).name)
             /\ Becomes([Top EXCEPT !.kind = "reading", !.file = Entry(Top).name, !.pos = 0, !.wrote = 0,
                                    !.sole = TRUE])
    BY <1>0, <2>1, <2>2, FileIsMade
  <2>3. CASE Becomes([Top EXCEPT !.kind = "overwrite"]) /\ UNCHANGED disk
    BY <1>3, <2>1, <2>3 DEF WindowKinds, Reached
  <2>4. CASE Becomes([Top EXCEPT !.kind = "failed"]) /\ UNCHANGED disk
    BY <1>3, <2>1, <2>4 DEF WindowKinds, Reached
  <2> QED
    BY <1>6, <2>2, <2>3, <2>4 DEF OpenFile
<1>7. CASE FetchOther
  <2>1. stack # <<>> /\ IsTransfer(Top) /\ Top.kind # "opendir" /\ UNCHANGED <<disk, agreed>>
    BY <1>1, <1>7 DEF FetchOther, WindowKinds
  <2>2. NextRow(Top, Below) \/ Becomes([Top EXCEPT !.kind = "diropen"])
    BY <1>7 DEF FetchOther
  <2> QED
    BY <1>2, <1>3, <2>1, <2>2 DEF WindowKinds, Reached
<1>8. CASE OverwriteAgreed
  BY <1>0, <1>8, AgreedFiles
<1>9. CASE OverwriteRefused
  <2>1. /\ stack # <<>> /\ IsTransfer(Top) /\ Top.kind # "opendir" /\ UNCHANGED <<disk, agreed>>
        /\ Becomes([Top EXCEPT !.kind = "failed"])
    BY <1>1, <1>9 DEF OverwriteRefused, WindowKinds, transferVars
  <2> QED
    BY <1>3, <2>1 DEF WindowKinds, Reached
<1>10. CASE ReadPiece
  BY <1>0, <1>10, ReadFiles
<1>11. CASE ReadLast
  <2>1. /\ stack # <<>> /\ IsTransfer(Top) /\ Top.kind # "opendir" /\ UNCHANGED <<disk, agreed>>
        /\ Becomes([Top EXCEPT !.kind = "closing"]) /\ Top.kind = "reading"
    BY <1>1, <1>11 DEF ReadLast, WindowKinds, transferVars
  <2> QED
    BY <1>3, <2>1 DEF WindowKinds, Reached
<1>12. CASE ReadFails
  BY <1>0, <1>12, FailedFiles
<1>13. CASE FileComplete
  <2>1. /\ stack # <<>> /\ IsTransfer(Top) /\ Top.kind = "closing" /\ UNCHANGED <<disk, agreed>>
    BY <1>1, <1>13 DEF FileComplete, WindowKinds
  <2>2. \/ NextRow(Top, Below)
        \/ Becomes([Top EXCEPT !.kind = "complete"]) /\ Top.wrote = Entry(Top).size
    BY <1>13 DEF FileComplete
  <2> QED
    BY <1>2, <1>3, <2>1, <2>2 DEF WindowKinds, Reached
<1>14. CASE CompleteClosed
  <2>1. stack # <<>> /\ IsTransfer(Top) /\ Top.kind # "opendir" /\ UNCHANGED <<disk, agreed>>
    BY <1>1, <1>14 DEF CompleteClosed, WindowKinds
  <2>2. NextRow(Top, Below)
    BY <1>14 DEF CompleteClosed
  <2> QED
    BY <1>2, <2>1, <2>2
<1>15. CASE FailedRetry
  <2>1. /\ stack # <<>> /\ IsTransfer(Top) /\ Top.kind # "opendir" /\ UNCHANGED <<disk, agreed>>
        /\ Becomes([Top EXCEPT !.kind = "again"])
    BY <1>1, <1>15 DEF FailedRetry, WindowKinds, transferVars
  <2> QED
    BY <1>3, <2>1 DEF WindowKinds, Reached
<1>16. CASE ConnectAgain
  <2>1. /\ stack # <<>> /\ IsTransfer(Top) /\ Top.kind # "opendir" /\ UNCHANGED <<disk, agreed>>
        /\ Becomes([Top EXCEPT !.kind = "connect"])
    BY <1>1, <1>16 DEF ConnectAgain, WindowKinds, transferVars
  <2> QED
    BY <1>3, <2>1 DEF WindowKinds, Reached
<1>17. CASE FailedCancel
  BY <1>0, <1>17, CancelledFiles
<1>18. CASE DirectoryShown
  <2>1. stack # <<>> /\ stack' = Below /\ UNCHANGED <<disk, agreed>>
    BY <1>18 DEF DirectoryShown, At, transferVars
  <2>2. PICK b : b = Below
    OBVIOUS
  <2>3. FilesKept(b)
    BY <1>0, <2>1, <2>2, BelowKept, DiskStill
  <2> QED
    BY <1>0, <2>1, <2>2, <2>3, FilesLeft
<1> QED
  BY <1>4, <1>5, <1>6, <1>7, <1>8, <1>9, <1>10, <1>11, <1>12, <1>13, <1>14, <1>15, <1>16, <1>17,
     <1>18 DEF TransferNext

--------------------------------------------------------------------------------
(* The steps of windows.  They leave the files alone, and the handlers of  *)
(* transfers as they are.                                                  *)

LEMMA WindowsStack ==
  ASSUME WindowsInv, WindowNext
  PROVE  \/ stack' = stack
         \/ stack # <<>> /\ stack' = Below
         \/ \E w \in Wins, kind \in WindowKinds :
              \/ stack' = Append(stack, Frame(kind, w))
              \/ stack # <<>> /\ stack' = Append(Below, Frame(kind, w))
<1>1. ASSUME NEW w \in Wins, NEW rest, OpenSeal(w, rest)
      PROVE  stack' = rest \/ stack' = Append(rest, Frame("error", w))
  BY <1>1 DEF OpenSeal
<1>2. ASSUME NEW w \in Wins, on_sealBtn_clicked(w)
      PROVE  \/ stack' = stack
             \/ \E kind \in WindowKinds : stack' = Append(stack, Frame(kind, w))
  BY <1>1, <1>2 DEF on_sealBtn_clicked, WindowKinds
<1>3. CASE PasswordVerified
  BY <1>1, <1>3, TopInWins DEF PasswordVerified, WindowKinds, WindowsInv
<1>4. CASE PasswordRefused \/ ErrorReturns
  BY <1>4 DEF PasswordRefused, ErrorReturns
<1>5. CASE \/ \E m \in Messages, w \in Wins : ipmsg_proc_send_msg(m, w)
           \/ show_stored_windows
           \/ \E w \in Wins : on_viewWindow_destroy(w)
           \/ destroy_all_opened_windows
           \/ \E w \in Wins : CloseDownload(w)
           \/ \E s \in Settings : ChangeSetting(s)
  BY <1>5 DEF ipmsg_proc_send_msg, show_stored_windows, on_viewWindow_destroy,
              destroy_all_opened_windows, CloseDownload, ChangeSetting
<1> QED
  BY <1>2, <1>3, <1>4, <1>5 DEF WindowNext

LEMMA WindowsGo ==
  ASSUME WindowsInv, WindowNext
  PROVE  /\ WindowsGoOn
         /\ \A w \in Wins : view[w] = "free" /\ view'[w] # "free" => msgOf'[w] \in Messages
         /\ \A w \in Wins : view[w] # "free" => msgOf'[w] = msgOf[w] /\ view'[w] # "free"
         /\ \A w \in Wins : dl[w] = "none" /\ dl'[w] # "none" => dl'[w] = "open"
<1>0. WinType /\ ClosedInv /\ DialogsInv
  BY DEF WindowsInv
<1> DEFINE Goal ==
         /\ WindowsGoOn
         /\ \A w \in Wins : view[w] = "free" /\ view'[w] # "free" => msgOf'[w] \in Messages
         /\ \A w \in Wins : view[w] # "free" => msgOf'[w] = msgOf[w] /\ view'[w] # "free"
         /\ \A w \in Wins : dl[w] = "none" /\ dl'[w] # "none" => dl'[w] = "open"
<1>1. ASSUME NEW m \in Messages, NEW w \in Wins, ipmsg_proc_send_msg(m, w) PROVE Goal
  <2>1. /\ view[w] = "free" /\ dl[w] = "none"
        /\ msgOf' = [msgOf EXCEPT ![w] = m]
        /\ \/ view' = [view EXCEPT ![w] = "stored"] \/ view' = [view EXCEPT ![w] = "shown"]
    BY <1>0, <1>1 DEF ipmsg_proc_send_msg, ClosedInv
  <2>2. dl' = dl \/ \E o : dl' = [dl EXCEPT ![w] = IF o THEN "open" ELSE @]
    BY <1>1 DEF ipmsg_proc_send_msg, Shown
  <2>3. /\ \A u \in Wins \ {w} : dl'[u] = dl[u] /\ msgOf'[u] = msgOf[u]
        /\ dl'[w] = "none" \/ dl'[w] = "open"
    BY <1>0, <2>1, <2>2 DEF WinType
  <2> QED
    BY <1>0, <2>1, <2>3 DEF WinType, WindowsGoOn
<1>2. CASE show_stored_windows
  BY <1>0, <1>2 DEF show_stored_windows, WinType, WindowsGoOn, Stored
<1>3. ASSUME NEW w \in Wins, NEW rest, OpenSeal(w, rest) PROVE Goal
  BY <1>0, <1>3 DEF OpenSeal, WinType, WindowsGoOn
<1>4. ASSUME NEW w \in Wins, on_sealBtn_clicked(w) PROVE Goal
  <2>1. CASE UNCHANGED <<msgOf, view, dl>>
    BY <2>1 DEF WindowsGoOn
  <2> QED
    BY <1>3, <1>4, <2>1 DEF on_sealBtn_clicked
<1>5. CASE PasswordVerified
  BY <1>3, <1>5, TopInWins DEF PasswordVerified, WindowsInv
<1>6. CASE UNCHANGED <<msgOf, view, dl>>
  BY <1>6 DEF WindowsGoOn
<1>7. CASE PasswordRefused \/ ErrorReturns \/ \E s \in Settings : ChangeSetting(s)
  BY <1>6, <1>7 DEF PasswordRefused, ErrorReturns, ChangeSetting
<1>8. ASSUME NEW w \in Wins, on_viewWindow_destroy(w) PROVE Goal
  BY <1>0, <1>8 DEF on_viewWindow_destroy, WinType, WindowsGoOn
<1>9. CASE destroy_all_opened_windows
  BY <1>0, <1>9 DEF destroy_all_opened_windows, WinType, WindowsGoOn
<1>10. ASSUME NEW w \in Wins, CloseDownload(w) PROVE Goal
  BY <1>0, <1>10 DEF CloseDownload, on_downloadWindow_destroy, WinType, WindowsGoOn
<1>11. Goal
  BY <1>1, <1>2, <1>4, <1>5, <1>7, <1>8, <1>9, <1>10 DEF WindowNext
<1> QED
  BY <1>11

LEMMA WindowFrame ==
  ASSUME NEW kind \in WindowKinds, NEW w, NEW g, g = Frame(kind, w)
  PROVE  FrameOK(g)' /\ \A rest : Alone(g, rest)
<1>1. DOMAIN g = {"kind", "win"} /\ g.kind = kind
  BY DEF Frame
<1>2. ~IsTransfer(g)
  BY <1>1 DEF IsTransfer
<1> QED
  BY <1>1, <1>2 DEF FrameOK, Alone

LEMMA WindowsRows ==
  ASSUME FilesInv, WindowsInv, WindowStep
  PROVE  RowsInv' /\ WindowsGoOn
<1>1. /\ WindowsGoOn
      /\ \A w \in Wins : view[w] = "free" /\ view'[w] # "free" => msgOf'[w] \in Messages
      /\ \A w \in Wins : view[w] # "free" => msgOf'[w] = msgOf[w] /\ view'[w] # "free"
      /\ \A w \in Wins : dl[w] = "none" /\ dl'[w] # "none" => dl'[w] = "open"
  BY WindowsGo DEF WindowStep
<1>2. /\ DOMAIN rows' = Wins
      /\ \A w \in Wins : rows'[w] =
           IF dl[w] = "none" /\ dl'[w] = "open" THEN Rows(msgOf'[w]) ELSE rows[w]
  BY DEF WindowStep
<1>3. \A w \in Wins : view'[w] # "free" => msgOf'[w] \in Messages
  BY <1>1 DEF FilesInv, RowsInv
<1>4. ASSUME NEW w \in Wins, dl'[w] # "none" PROVE rows'[w] \subseteq Rows(msgOf'[w])
  <2>1. CASE dl[w] = "none"
    BY <1>1, <1>2, <1>4, <2>1
  <2>2. CASE dl[w] # "none"
    BY <1>1, <1>2, <2>2 DEF WindowsGoOn, FilesInv, RowsInv
  <2> QED
    BY <2>1, <2>2
<1>5. RowsInv'
  BY <1>2, <1>3, <1>4 DEF RowsInv
<1> QED
  BY <1>1, <1>5

LEMMA StackKept ==
  ASSUME FilesInv, WindowsInv, WindowsGoOn, UNCHANGED <<disk, agreed>>, NEW s, s = stack
  PROVE  FilesKept(s)
<1>1. s \in Seq(Elements(s)) /\ ShapeInv
  BY DEF WindowsInv, ShapeInv
<1>2. \A i \in DOMAIN s : FrameOK(s[i])
  BY DEF FilesInv
<1>3. \A i \in DOMAIN s : IsTransfer(s[i]) => FileGoesOn(s[i])
  BY <1>2, TransferFrame DEF FileGoesOn, FrameOK
<1> QED
  BY <1>1, <1>3, FramesStay

LEMMA WindowsFiles ==
  ASSUME FilesInv, WindowsInv, WindowStep
  PROVE  FilesInv'
<1>1. RowsInv' /\ WindowsGoOn /\ UNCHANGED <<disk, agreed>> /\ ShapeInv
  BY WindowsRows DEF WindowStep, WindowsInv
<1>2. PICK s, b : s = stack /\ b = Below
  OBVIOUS
<1>3. FilesKept(s)
  BY <1>1, <1>2, StackKept
<1>4. stack # <<>> => FilesKept(b)
  BY <1>1, <1>2, BelowKept, DiskStill
<1>5. ASSUME NEW rest, FilesKept(rest), stack' = rest PROVE FilesInv'
  BY <1>1, <1>5, FilesLeft
<1>6. ASSUME NEW rest, FilesKept(rest), NEW w, NEW kind \in WindowKinds,
             stack' = Append(rest, Frame(kind, w))
      PROVE  FilesInv'
  <2>1. PICK g : g = Frame(kind, w)
    OBVIOUS
  <2>2. FrameOK(g)' /\ Alone(g, rest)
    BY <2>1, WindowFrame
  <2> QED
    BY <1>1, <1>6, <2>1, <2>2, FilesGrown
<1>7. \/ stack' = s
      \/ stack # <<>> /\ stack' = b
      \/ \E w \in Wins, kind \in WindowKinds :
           \/ stack' = Append(s, Frame(kind, w))
           \/ stack # <<>> /\ stack' = Append(b, Frame(kind, w))
  BY <1>2, WindowsStack DEF WindowStep
<1> QED
  BY <1>3, <1>4, <1>5, <1>6, <1>7

LEMMA FilesStart == Init => FilesInv
<1>1. DOMAIN <<>> = {}
  OBVIOUS
<1> QED
  BY <1>1 DEF Init, WinInit, FilesInv, RowsInv, SoleInv

LEMMA FilesNext == WindowsInv /\ FilesInv /\ [Next]_vars => FilesInv'
<1> SUFFICES ASSUME WindowsInv, FilesInv, [Next]_vars PROVE FilesInv'
  OBVIOUS
<1>1. CASE UNCHANGED vars
  BY <1>1 DEF vars, winVars, transferVars, FilesInv, RowsInv, SoleInv, FrameOK, SoFar,
              PiecesOf, Progress, Entry
<1> QED
  BY <1>1, TransfersFiles, WindowsFiles DEF Next

(* What transfers have written agrees with the handlers on the stack.      *)
THEOREM FilesAreSound == Spec => [](WindowsInv /\ FilesInv)
<1>1. WindowsInv /\ FilesInv /\ [Next]_vars => (WindowsInv /\ FilesInv)'
  BY WindowsNext, FilesNext
<1> QED
  BY WindowsStart, FilesStart, <1>1, PTL DEF Spec

(* A file the user is told to be downloaded is what the sender offered, if *)
(* its transfer made it and no other has opened it too.                    *)
THEOREM ReportedFilesAreWhole == Spec => []ReportedIsWhole
<1>1. WindowsInv /\ FilesInv => ReportedIsWhole
  <2> SUFFICES ASSUME FilesInv, NEW i \in DOMAIN stack, stack[i].kind = "complete", stack[i].sole
               PROVE  disk[stack[i].file] = Pieces(stack[i])
    BY DEF ReportedIsWhole
  <2>1. PICK f : f = stack[i]
    OBVIOUS
  <2>2. FrameOK(f) /\ f.kind = "complete" /\ f.sole
    BY <2>1 DEF FilesInv
  <2>3. SoFar(f) /\ f.wrote = Entry(f).size /\ f.pos = Entry(f).size
    BY <2>2 DEF FrameOK, WindowKinds, Progress
  <2>4. disk[f.file] = Pieces(f)
    BY <2>3 DEF SoFar, PiecesOf, Pieces
  <2> QED
    BY <2>1, <2>4
<1> QED
  BY <1>1, FilesAreSound, PTL

--------------------------------------------------------------------------------
(* The files that were there.                                              *)

(* No file that is there at the start is made of pieces of one offered     *)
(* file: one of that name, removed after a cancelled dialog and fetched,   *)
(* would else be taken for the old one.                                    *)
OldIsNotOffered ==
  \A n \in DOMAIN Disk0, m \in Messages : \A r \in Rows(m), k \in Nat :
    Disk0[n] \notin [1..k -> {m} \X {r} \X Nat]

LEMMA PiecesGoElsewhere ==
  ASSUME OldIsNotOffered, FilesInv, WindowsInv, ReadPiece,
         NEW n \in DOMAIN Disk0, Untouched(n), n \notin agreed
  PROVE  Untouched(n)'
<1>0. ShapeInv /\ "reading" \notin WindowKinds /\ At("reading")
  BY DEF WindowsInv, WindowKinds, ReadPiece
<1>1. PICK t : t = Top
  OBVIOUS
<1>2. disk' = disk \/ (t.file # None /\ disk' = [disk EXCEPT ![t.file] = Written(t)])
  BY <1>1 DEF ReadPiece
<1>3. FrameOK(t) /\ IsTransfer(t) /\ t.win \in Wins /\ t.kind = "reading"
  BY <1>0, <1>1, AtTransfer
<1>4. msgOf[t.win] \in Messages /\ Head(t.todo) \in Rows(msgOf[t.win])
  BY <1>3, EntryIs
<1>5. /\ t.wrote \in Nat
      /\ t.file # None => t.sole \/ t.file \in agreed
      /\ t.sole => SoFar(t)
  BY <1>3, TransferFrame DEF FrameOK, Progress
<1>6. n # t.file \/ t.file = None
  <2>1. SoFar(t) => disk[t.file] # Disk0[n]
    BY <1>4, <1>5 DEF OldIsNotOffered, SoFar, PiecesOf
  <2> QED
    BY <1>5, <2>1 DEF Untouched
<1> QED
  BY <1>2, <1>6 DEF Untouched

(* Transfers write to old files only where the user has agreed to it, and  *)
(* remove them only as their failure is cancelled.                         *)
THEOREM OldFilesAreKept == OldIsNotOffered => (Spec => OldFilesKept)
<1> SUFFICES ASSUME OldIsNotOffered PROVE Spec => OldFilesKept
  OBVIOUS
<1> DEFINE Kept == \A n \in DOMAIN Disk0 :
             Untouched(n) => Untouched(n)' \/ n \in agreed \/ (At("failed") /\ Entry(Top).name = n)
<1>1. ASSUME WindowsInv, FilesInv, [Next]_vars PROVE Kept
  <2> SUFFICES ASSUME NEW n \in DOMAIN Disk0, Untouched(n), n \notin agreed,
                      ~(At("failed") /\ Entry(Top).name = n)
               PROVE  Untouched(n)'
    OBVIOUS
  <2>1. CASE UNCHANGED disk
    BY <2>1 DEF Untouched
  <2>2. ASSUME NEW name, disk' = WithFile(name) PROVE Untouched(n)'
    BY <2>2 DEF Untouched, WithFile
  <2>3. CASE ReadPiece
    BY <1>1, <2>3, PiecesGoElsewhere
  <2>4. CASE FailedCancel
    <3>1. n # Entry(Top).name
      BY <2>4 DEF FailedCancel
    <3> QED
      BY <2>4, <3>1 DEF FailedCancel, Untouched
  <2>5. CASE OpenFile
    BY <2>1, <2>2, <2>5 DEF OpenFile
  <2>6. CASE OverwriteAgreed
    BY <2>2, <2>6 DEF OverwriteAgreed
  <2>7. CASE UNCHANGED vars
    BY <2>1, <2>7 DEF vars, transferVars
  <2>8. CASE WindowStep
    BY <2>1, <2>8 DEF WindowStep
  <2>9. CASE TransferNext
    BY <2>1, <2>3, <2>4, <2>5, <2>6, <2>9 DEF TransferNext, recv_attachments, transferVars, Connect,
       FetchOther, OverwriteRefused, ReadLast, ReadFails, FileComplete, CompleteClosed,
       FailedRetry, ConnectAgain, DirectoryShown
  <2> QED
    BY <1>1, <2>7, <2>8, <2>9 DEF Next
<1>2. ASSUME WindowsInv, FilesInv, [Next]_vars PROVE [Kept]_vars
  BY <1>1, <1>2
<1>3. WindowsInv /\ FilesInv /\ [Next]_vars => [Kept]_vars
  BY <1>2
<1> QED
  BY FilesAreSound, <1>3, PTL DEF Spec, OldFilesKept
=================================================================================
