-------------------------- MODULE MessageWindowsProofs --------------------------
(***************************************************************************)
(* For any number of hosts, windows and clicks on Send: messages go to the *)
(* hosts that were selected and to each of them, windows show the list,    *)
(* and a locked message is a sealed one.                                   *)
(***************************************************************************)
EXTENDS MessageWindows, SequencesExt, SequenceTheorems, FunctionTheorems,
        WellFoundedInduction, TLAPS

--------------------------------------------------------------------------------
(* What becomes of a sequence, here the handlers on the stack, when one is *)
(* put on it, taken off, or each is replaced.  A sequence is typed by its  *)
(* own elements, so that no set of all handlers needs to be named.         *)

Elements(s) == {s[i] : i \in DOMAIN s}

LEMMA IsSeq ==
  ASSUME NEW n \in Nat, NEW T, NEW t \in [1..n -> T]
  PROVE  t \in Seq(T)
BY SeqDef

LEMMA Appended ==
  ASSUME NEW s, s \in Seq(Elements(s)), NEW f
  PROVE  LET t == Append(s, f)
         IN  /\ t \in Seq(Elements(t))
             /\ Len(s) \in Nat /\ Len(t) = Len(s) + 1
             /\ DOMAIN s = 1..Len(s) /\ DOMAIN t = 1..(Len(s) + 1)
             /\ \A i \in DOMAIN t : t[i] = IF i = Len(s) + 1 THEN f ELSE s[i]
<1> DEFINE t == Append(s, f)
           S == Elements(s) \union {f}
<1>1. s \in Seq(S) /\ f \in S
  BY SeqMonotonic
<1>2. /\ t \in Seq(S) /\ Len(t) = Len(s) + 1
      /\ \A i \in 1..Len(s) : t[i] = s[i]
      /\ t[Len(s) + 1] = f
  BY <1>1, AppendProperties
<1>3. Len(s) \in Nat /\ DOMAIN s = 1..Len(s) /\ DOMAIN t = 1..Len(t)
  BY <1>1, <1>2, LenProperties
<1>4. t \in [1..Len(t) -> Elements(t)]
  BY <1>2, <1>3, LenProperties DEF Elements
<1>5. t \in Seq(Elements(t))
  <2> HIDE DEF t
  <2> QED
    BY <1>2, <1>3, <1>4, IsSeq
<1> QED
  BY <1>2, <1>3, <1>5

LEMMA Popped ==
  ASSUME NEW s, s \in Seq(Elements(s)), s # <<>>
  PROVE  LET t == Front(s)
         IN  /\ t \in Seq(Elements(t))
             /\ Len(s) \in Nat \ {0} /\ Len(t) = Len(s) - 1
             /\ DOMAIN s = 1..Len(s) /\ DOMAIN t = 1..(Len(s) - 1)
             /\ \A i \in DOMAIN t : t[i] = s[i]
             /\ Last(s) = s[Len(s)] /\ Len(s) \in DOMAIN s
<1> DEFINE t == Front(s)
<1>1. Len(s) \in Nat \ {0} /\ DOMAIN s = 1..Len(s) /\ \A i \in 1..Len(s) : s[i] \in Elements(s)
  BY EmptySeq, LenProperties, ElementOfSeq
<1>2. /\ t \in Seq(Elements(s))
      /\ Len(t) = Len(s) - 1
      /\ \A i \in 1..(Len(s) - 1) : t[i] = s[i]
  <2>1. \A i \in 1..(Len(s) - 1) : s[i] \in Elements(s)
    BY <1>1
  <2> QED
    BY <1>1, <2>1, SubSeqProperties DEF Front
<1>3. DOMAIN t = 1..(Len(s) - 1)
  BY <1>2, LenProperties
<1>4. t \in [1..Len(t) -> Elements(t)]
  BY <1>2, <1>3, LenProperties DEF Elements
<1>5. t \in Seq(Elements(t))
  <2> HIDE DEF t
  <2> QED
    BY <1>1, <1>2, <1>4, IsSeq
<1> QED
  BY <1>1, <1>2, <1>3, <1>5 DEF Last

LEMMA Mapped ==
  ASSUME NEW s, s \in Seq(Elements(s)), NEW t, DOMAIN t = DOMAIN s, t = [i \in DOMAIN t |-> t[i]]
  PROVE  /\ t \in Seq(Elements(t))
         /\ Len(t) = Len(s) /\ Len(s) \in Nat /\ DOMAIN s = 1..Len(s)
<1>1. Len(s) \in Nat /\ DOMAIN s = 1..Len(s)
  BY LenProperties
<1>2. t \in [1..Len(s) -> Elements(t)]
  BY <1>1 DEF Elements
<1>3. t \in Seq(Elements(t))
  BY <1>1, <1>2, IsSeq
<1>4. Len(t) = Len(s)
  BY <1>1, <1>3, LenProperties
<1> QED
  BY <1>1, <1>3, <1>4

--------------------------------------------------------------------------------

ViewType ==
  /\ DOMAIN win = Wins /\ DOMAIN rows = Wins /\ DOMAIN chosen = Wins
  /\ selected \in [Wins -> SUBSET (Nat \ {0})]
  /\ \A w \in Wins : DOMAIN rows[w] \subseteq Nat \ {0}

\* The lock button is pressed only beside the seal button.
LockNeedsSeal == locked \subseteq enclosed

\* A selected row shows a host that the user has selected.
PickedAreChosen == \A w \in Wins : \A r \in selected[w] : rows[w][r] \in chosen[w]

\* A handler of a click on Send: its record, its window, and that the hosts
\* it is due to serve are those of the rows it still comes to.
Frame(f) == DOMAIN f = {"kind", "win", "row", "flags", "editor", "stop", "due"}

FrameType(f) == Frame(f) /\ f.win \in Wins /\ f.row \in Nat

SealsKept(f) == "password" \in f.flags => "secret" \in f.flags

DueIsAhead(f) == win[f.win] # "free" /\ f.due \subseteq {rows[f.win][r] : r \in RowsAhead(f)}

FrameInv(f) == FrameType(f) /\ SealsKept(f) /\ DueIsAhead(f)

StackInv == stack \in Seq(Elements(stack)) /\ \A i \in DOMAIN stack : FrameInv(stack[i])

SendInv == ViewType /\ LockNeedsSeal /\ PickedAreChosen /\ StackInv

--------------------------------------------------------------------------------
(* The numbers are well-ordered, in the form that the next lemma takes.    *)
LEMMA NumbersAreOrdered == IsWellFoundedOn({ss \in Nat \X Nat : ss[1] < ss[2]}, Nat)
<1>1. OpToRel(<, Nat) = {ss \in Nat \X Nat : ss[1] < ss[2]}
  BY Zenon DEF OpToRel
<1> QED
  BY <1>1, NatLessThanWellFounded, Zenon

(* The smallest of a set of numbers.                                       *)
LEMMA SmallestExists ==
  ASSUME NEW T \in SUBSET Nat, T # {}
  PROVE  \E m \in T : \A n \in T : m <= n
<1> DEFINE R == {ss \in Nat \X Nat : ss[1] < ss[2]}
<1>1. IsWellFoundedOn(R, Nat)
  BY NumbersAreOrdered
<1> HIDE DEF R
<1>2. PICK m \in T : \A n \in T : ~ (<<n, m>> \in R)
  BY <1>1, WFMin
<1>3. \A n \in T : ~ (n < m)
  BY <1>2 DEF R
<1> QED
  BY <1>3

(* The rows a visit comes to, and the next of them.                        *)
LEMMA NextRowIsAhead ==
  ASSUME ViewType, NEW f, f.win \in Wins, RowsAhead(f) # {}
  PROVE  /\ RowsAhead(f) \subseteq Nat
         /\ NextRow(f) \in RowsAhead(f)
         /\ \A q \in RowsAhead(f) : NextRow(f) <= q
<1>1. RowsAhead(f) \in SUBSET Nat
  BY DEF RowsAhead, ViewType
<1>2. \E r \in RowsAhead(f) : \A q \in RowsAhead(f) : r <= q
  BY <1>1, SmallestExists
<1> QED
  BY <1>1, <1>2 DEF NextRow

(* A stack of which every handler is as it should be after a step.         *)
LEMMA StackMapped ==
  ASSUME StackInv, DOMAIN stack' = DOMAIN stack, stack' = [i \in DOMAIN stack' |-> stack'[i]],
         \A i \in DOMAIN stack : FrameInv(stack[i])'
  PROVE  StackInv'
<1>1. stack' \in Seq(Elements(stack'))
  BY Mapped DEF StackInv
<1> QED
  BY <1>1 DEF StackInv, Elements

(* The rows of a view have numbers.                                        *)
LEMMA ViewRows ==
  ASSUME NEW U, NEW P, NEW K, NEW forced
  PROVE  DOMAIN View(U, P, K, forced) \subseteq Nat \ {0}
<1> DEFINE n == Cardinality({h \in U : forced \/ P[h] >= 0})
<1>1. DOMAIN View(U, P, K, forced) = 1..n
  BY DEF View
<1> HIDE DEF n
<1> QED
  BY <1>1

--------------------------------------------------------------------------------
(* The steps.  A handler whose window keeps its view is as it was.         *)
LEMMA FrameKept ==
  ASSUME NEW f, FrameInv(f), win'[f.win] # "free",
         rows'[f.win] = rows[f.win], selected'[f.win] = selected[f.win]
  PROVE  FrameInv(f)'
BY DEF FrameInv, FrameType, Frame, SealsKept, DueIsAhead, RowsAhead

(* ... and one that has nothing due needs no view.                         *)
LEMMA FrameIdle ==
  ASSUME NEW f, FrameInv(f), win'[f.win] # "free",
         NEW g, FrameType(g), g.win = f.win, g.flags = f.flags, g.due = {}
  PROVE  FrameInv(g)'
BY DEF FrameInv, FrameType, Frame, SealsKept, DueIsAhead

(* What changes in a handler that stops or loses its view.                 *)
LEMMA FrameChanged ==
  ASSUME NEW f, FrameType(f), NEW stop
  PROVE  LET g == [f EXCEPT !.stop = stop, !.due = {}]
             h == [f EXCEPT !.due = {}]
         IN  /\ FrameType(g) /\ g.win = f.win /\ g.flags = f.flags /\ g.due = {}
             /\ FrameType(h) /\ h.win = f.win /\ h.flags = f.flags /\ h.due = {}
BY DEF FrameType, Frame

LEMMA StoppedFrames ==
  ASSUME StackInv, NEW W,
         \A i \in DOMAIN stack :
           /\ win'[stack[i].win] # "free"
           /\ stack[i].win \notin W =>
                /\ rows'[stack[i].win] = rows[stack[i].win]
                /\ selected'[stack[i].win] = selected[stack[i].win]
  PROVE  LET s == Stopped(W)
         IN  /\ DOMAIN s = DOMAIN stack /\ s = [i \in DOMAIN s |-> s[i]]
             /\ s \in Seq(Elements(s)) /\ Len(s) = Len(stack)
             /\ \A i \in DOMAIN stack : /\ \A f : f = s[i] => FrameInv(f)'
                                       /\ s[i].due \subseteq stack[i].due
<1> DEFINE s == Stopped(W)
<1>1. DOMAIN s = DOMAIN stack /\ s = [i \in DOMAIN s |-> s[i]]
  BY DEF Stopped
<1>2. \A i \in DOMAIN stack : win'[stack[i].win] # "free"
  OBVIOUS
<1>3. ASSUME NEW i \in DOMAIN stack
      PROVE  (\A f : f = s[i] => FrameInv(f)') /\ s[i].due \subseteq stack[i].due
  <2>1. FrameInv(stack[i])
    BY DEF StackInv
  <2>2. CASE stack[i].win \in W
    <3> DEFINE g == [stack[i] EXCEPT !.stop = TRUE, !.due = {}]
    <3>1. FrameType(g) /\ g.win = stack[i].win /\ g.flags = stack[i].flags /\ g.due = {}
      BY <2>1, FrameChanged DEF FrameInv
    <3>2. s[i] = g
      BY <2>2 DEF Stopped
    <3> HIDE DEF g, s
    <3> QED
      BY <1>2, <2>1, <3>1, <3>2, FrameIdle
  <2>3. CASE stack[i].win \notin W
    <3>1. s[i] = stack[i]
      BY <2>3 DEF Stopped
    <3> QED
      BY <2>1, <2>3, <3>1, FrameKept
  <2> QED
    BY <2>2, <2>3
<1>4. s \in Seq(Elements(s)) /\ Len(s) = Len(stack)
  <2> HIDE DEF s
  <2> QED
    BY <1>1, Mapped DEF StackInv
<1> QED
  BY <1>1, <1>3, <1>4

(* Windows that show the list anew.                                        *)
LEMMA ViewUpdated ==
  ASSUME SendInv, NEW W \in SUBSET Wins, NEW U, NEW P, NEW K, NEW forced,
         update_user_entry(W, U, P, K, forced), UNCHANGED <<win, enclosed, locked>>
  PROVE  SendInv'
<1>1. LockNeedsSeal'
  BY DEF SendInv, LockNeedsSeal
<1>2. CASE U = {}
  BY <1>1, <1>2 DEF SendInv, update_user_entry, viewVars, ViewType, PickedAreChosen, StackInv,
     FrameInv, FrameType, Frame, SealsKept, DueIsAhead, RowsAhead, Elements
<1>3. CASE U # {}
  <2>1. /\ rows' = [w \in Wins |-> IF w \in W THEN View(U, P, K, forced) ELSE rows[w]]
        /\ selected' = [w \in Wins |-> IF w \in W THEN {} ELSE selected[w]]
        /\ chosen' = [w \in Wins |-> IF w \in W THEN {} ELSE chosen[w]]
        /\ stack' = Stopped(W)
    BY <1>3 DEF update_user_entry
  <2>2. ViewType'
    BY <2>1, ViewRows DEF SendInv, ViewType
  <2>3. PickedAreChosen'
    BY <2>1 DEF SendInv, PickedAreChosen
  <2>4. \A i \in DOMAIN stack :
           /\ win'[stack[i].win] # "free"
           /\ stack[i].win \notin W =>
                /\ rows'[stack[i].win] = rows[stack[i].win]
                /\ selected'[stack[i].win] = selected[stack[i].win]
    BY <2>1 DEF SendInv, StackInv, FrameInv, FrameType, DueIsAhead
  <2>5. StackInv'
    BY <2>1, <2>4, StoppedFrames, StackMapped DEF SendInv
  <2> QED
    BY <1>1, <2>2, <2>3, <2>5 DEF SendInv
<1> QED
  BY <1>2, <1>3

(* Steps that leave windows, views and handlers alone.                     *)
LEMMA NothingSent ==
  ASSUME SendInv, UNCHANGED <<win, rows, selected, chosen, stack>>, LockNeedsSeal'
  PROVE  SendInv'
BY DEF SendInv, ViewType, PickedAreChosen, StackInv, FrameInv, FrameType, Frame, SealsKept,
   DueIsAhead, RowsAhead, Elements

LEMMA WindowCreated ==
  ASSUME SendInv, NEW reply, internal_create_messageWindow(reply)
  PROVE  SendInv'
<1>1. PICK w \in Wins, e \in BOOLEAN :
        LET v == IF users = {} THEN <<>> ELSE View(users, prio, key, FALSE)
        IN  /\ win[w] = "free"
            /\ win' = [win EXCEPT ![w] = "open"]
            /\ rows' = [rows EXCEPT ![w] = v]
            /\ selected' = [selected EXCEPT ![w] = {r \in DOMAIN v : v[r] \in reply}]
            /\ chosen' = [chosen EXCEPT ![w] = reply]
            /\ enclosed' = IF e THEN enclosed \union {w} ELSE enclosed
  BY DEF internal_create_messageWindow
<1>2. stack' = stack /\ locked' = locked
  BY DEF internal_create_messageWindow
<1> DEFINE v == IF users = {} THEN <<>> ELSE View(users, prio, key, FALSE)
<1>3. DOMAIN v \subseteq Nat \ {0}
  <2>1. DOMAIN <<>> \subseteq Nat \ {0}
    OBVIOUS
  <2> QED
    BY <2>1, ViewRows
<1>4. /\ win' = [win EXCEPT ![w] = "open"]
      /\ rows' = [rows EXCEPT ![w] = v]
      /\ selected' = [selected EXCEPT ![w] = {r \in DOMAIN v : v[r] \in reply}]
      /\ chosen' = [chosen EXCEPT ![w] = reply]
  BY <1>1
<1> HIDE DEF v
<1>5. ViewType' /\ PickedAreChosen'
  BY <1>3, <1>4 DEF SendInv, ViewType, PickedAreChosen
<1>6. LockNeedsSeal'
  BY <1>1, <1>2 DEF SendInv, LockNeedsSeal
<1>7. ASSUME NEW i \in DOMAIN stack
      PROVE  FrameInv(stack[i])'
  <2>1. FrameInv(stack[i]) /\ stack[i].win \in Wins /\ stack[i].win # w
    BY <1>1 DEF SendInv, StackInv, FrameInv, FrameType, DueIsAhead
  <2>2. /\ win'[stack[i].win] # "free"
        /\ rows'[stack[i].win] = rows[stack[i].win]
        /\ selected'[stack[i].win] = selected[stack[i].win]
    BY <1>4, <2>1 DEF SendInv, ViewType, FrameInv, DueIsAhead
  <2> QED
    BY <1>2, <2>1, <2>2, FrameKept
<1> QED
  BY <1>2, <1>5, <1>6, <1>7 DEF SendInv, StackInv, Elements

(* A window that closes, and what that leaves to the handlers.             *)
LEMMA WindowDestroyed ==
  ASSUME SendInv, NEW w \in Open, on_app1_destroy(w)
  PROVE  /\ ViewType' /\ LockNeedsSeal' /\ PickedAreChosen'
         /\ \A i \in DOMAIN stack :
              /\ win'[stack[i].win] # "free"
              /\ stack[i].win \notin {w} =>
                   /\ rows'[stack[i].win] = rows[stack[i].win]
                   /\ selected'[stack[i].win] = selected[stack[i].win]
<1>1. w \in Wins
  BY DEF Open
<1>2. /\ win' = [win EXCEPT ![w] = "gone"]
      /\ rows' = [rows EXCEPT ![w] = <<>>]
      /\ selected' = [selected EXCEPT ![w] = {}]
      /\ chosen' = [chosen EXCEPT ![w] = {}]
  BY DEF on_app1_destroy
<1>3. ViewType'
  <2>1. DOMAIN <<>> \subseteq Nat \ {0}
    OBVIOUS
  <2> QED
    BY <1>1, <1>2, <2>1 DEF SendInv, ViewType
<1>4. PickedAreChosen'
  BY <1>1, <1>2 DEF SendInv, ViewType, PickedAreChosen
<1>5. LockNeedsSeal'
  BY DEF on_app1_destroy, SendInv, LockNeedsSeal
<1>6. ASSUME NEW i \in DOMAIN stack
      PROVE  /\ win'[stack[i].win] # "free"
             /\ stack[i].win \notin {w} =>
                  /\ rows'[stack[i].win] = rows[stack[i].win]
                  /\ selected'[stack[i].win] = selected[stack[i].win]
  <2>1. stack[i].win \in Wins /\ win[stack[i].win] # "free"
    BY DEF SendInv, StackInv, FrameInv, FrameType, DueIsAhead
  <2> QED
    BY <1>1, <1>2, <2>1 DEF SendInv, ViewType
<1> QED
  BY <1>3, <1>4, <1>5, <1>6

LEMMA WindowClosed ==
  ASSUME SendInv, NEW w \in Wins, on_close1_activate(w)
  PROVE  SendInv'
<1>1. w \in Open /\ on_app1_destroy(w) /\ stack' = Stopped({w})
  BY DEF on_close1_activate
<1>2. StackInv'
  <2>1. \A i \in DOMAIN stack : FrameInv(stack[i])'
    BY <1>1, WindowDestroyed, StoppedFrames DEF SendInv
  <2>2. DOMAIN stack' = DOMAIN stack /\ stack' = [i \in DOMAIN stack' |-> stack'[i]]
    BY <1>1 DEF Stopped
  <2> QED
    BY <2>1, <2>2, StackMapped DEF SendInv
<1> QED
  BY <1>1, <1>2, WindowDestroyed DEF SendInv

(* A column header moves the rows and the selection with them.             *)
LEMMA RowsSorted ==
  ASSUME SendInv, NEW w \in Wins, on_messageUserTree_clicked(w)
  PROVE  SendInv'
<1>1. PICK at : /\ rows' = [rows EXCEPT ![w] = [r \in DOMAIN rows[w] |-> rows[w][at[r]]]]
                /\ selected' = [selected EXCEPT ![w] = {r \in DOMAIN rows[w] : at[r] \in selected[w]}]
  BY DEF on_messageUserTree_clicked
<1>2. UNCHANGED <<win, chosen, enclosed, locked>> /\ stack' = Stopped({w})
  BY DEF on_messageUserTree_clicked, editVars
<1>3. ViewType'
  <2>1. DOMAIN rows[w] \subseteq Nat \ {0}
    BY DEF SendInv, ViewType
  <2> QED
    BY <1>1, <1>2, <2>1 DEF SendInv, ViewType
<1>4. PickedAreChosen'
  BY <1>1, <1>2 DEF SendInv, ViewType, PickedAreChosen
<1>5. LockNeedsSeal'
  BY <1>2 DEF SendInv, LockNeedsSeal
<1>6. \A i \in DOMAIN stack :
         /\ win'[stack[i].win] # "free"
         /\ stack[i].win \notin {w} =>
              /\ rows'[stack[i].win] = rows[stack[i].win]
              /\ selected'[stack[i].win] = selected[stack[i].win]
  BY <1>1, <1>2 DEF SendInv, ViewType, StackInv, FrameInv, FrameType, DueIsAhead
<1>7. StackInv'
  BY <1>2, <1>6, StoppedFrames, StackMapped DEF SendInv
<1> QED
  BY <1>3, <1>4, <1>5, <1>7 DEF SendInv

(* Another selection leaves nothing due in the handlers of the window.     *)
LEMMA Selected ==
  ASSUME SendInv, NEW w \in Wins, NEW R \in SUBSET DOMAIN rows[w], Select(w, R)
  PROVE  SendInv'
<1>1. /\ selected' = [selected EXCEPT ![w] = R]
      /\ chosen' = [chosen EXCEPT ![w] = {rows[w][r] : r \in R}]
      /\ UNCHANGED <<rows, win, locked, enclosed>>
      /\ stack' = [i \in DOMAIN stack |->
           IF stack[i].win = w THEN [stack[i] EXCEPT !.due = {}] ELSE stack[i]]
  BY DEF Select, editVars
<1>2. ViewType' /\ PickedAreChosen' /\ LockNeedsSeal'
  BY <1>1 DEF SendInv, ViewType, PickedAreChosen, LockNeedsSeal
<1>3. ASSUME NEW i \in DOMAIN stack
      PROVE  FrameInv(stack[i])'
  <2>1. FrameInv(stack[i]) /\ FrameType(stack[i]) /\ stack[i].win \in Wins
        /\ win'[stack[i].win] # "free"
    BY <1>1 DEF SendInv, StackInv, FrameInv, FrameType, DueIsAhead
  <2>2. CASE stack[i].win = w
    <3> DEFINE g == [stack[i] EXCEPT !.due = {}]
    <3>1. FrameType(g) /\ g.win = stack[i].win /\ g.flags = stack[i].flags /\ g.due = {}
      BY <2>1, FrameChanged
    <3>2. stack'[i] = g
      BY <1>1, <2>2
    <3> HIDE DEF g
    <3> QED
      BY <2>1, <3>1, <3>2, FrameIdle
  <2>3. CASE stack[i].win # w
    <3>1. stack'[i] = stack[i] /\ selected'[stack[i].win] = selected[stack[i].win]
          /\ rows'[stack[i].win] = rows[stack[i].win]
      BY <1>1, <2>1, <2>3 DEF SendInv, ViewType
    <3> QED
      BY <2>1, <3>1, FrameKept
  <2> QED
    BY <2>2, <2>3
<1>4. StackInv'
  BY <1>1, <1>3, StackMapped DEF SendInv
<1> QED
  BY <1>2, <1>4 DEF SendInv

--------------------------------------------------------------------------------
(* An editor that closes leaves a dangling pointer in the handlers.        *)
LEMMA EditorClosed ==
  ASSUME SendInv, NEW w \in Wins, on_attachFileEditor_destroy(w)
  PROVE  SendInv'
<1>1. /\ UNCHANGED <<rows, selected, chosen, win, locked, enclosed>>
      /\ stack' = [i \in DOMAIN stack |->
           IF stack[i].win = w /\ stack[i].editor = "open"
             THEN [stack[i] EXCEPT !.editor = "lost"] ELSE stack[i]]
  BY DEF on_attachFileEditor_destroy, viewVars
<1>2. ASSUME NEW i \in DOMAIN stack
      PROVE  FrameInv(stack[i])'
  <2>1. FrameInv(stack[i])
    BY DEF SendInv, StackInv
  <2> DEFINE g == [stack[i] EXCEPT !.editor = "lost"]
  <2>2. /\ FrameType(g) /\ g.win = stack[i].win /\ g.flags = stack[i].flags
        /\ g.stop = stack[i].stop /\ g.row = stack[i].row /\ g.due = stack[i].due
    BY <2>1 DEF FrameInv, FrameType, Frame
  <2>3. stack'[i] \in {g, stack[i]}
    BY <1>1
  <2> HIDE DEF g
  <2>4. FrameInv(g)
    BY <2>1, <2>2 DEF FrameInv, SealsKept, DueIsAhead, RowsAhead
  <2>5. FrameInv(stack'[i])
    BY <2>1, <2>3, <2>4
  <2>6. win[stack'[i].win] # "free"
    BY <2>5 DEF FrameInv, DueIsAhead
  <2> QED
    BY <1>1, <2>5, <2>6, FrameKept
<1>3. StackInv'
  BY <1>1, <1>2, StackMapped DEF SendInv
<1> QED
  BY <1>1, <1>3 DEF SendInv, ViewType, LockNeedsSeal, PickedAreChosen

(* A click adds a handler that has all it picked still ahead.              *)
LEMMA SendClicked ==
  ASSUME SendInv, NEW w \in Wins, on_sendBtn_clicked(w)
  PROVE  SendInv'
<1> DEFINE g == [kind |-> "sending", win |-> w, row |-> 0, flags |-> SendFlags(w),
                 editor |-> IF w \in editors THEN "open" ELSE "none",
                 stop |-> FALSE, due |-> Picked(w)]
<1>1. /\ stack' = Append(stack, g) /\ w \in Open
      /\ UNCHANGED <<win, rows, selected, chosen, enclosed, locked>>
  BY DEF on_sendBtn_clicked, viewVars, editVars
<1>2. FrameType(g) /\ g.win = w /\ g.row = 0 /\ g.flags = SendFlags(w)
      /\ g.stop = FALSE /\ g.due = Picked(w)
  BY DEF FrameType, Frame
<1>3. SealsKept(g)
  BY <1>2 DEF SealsKept, SendFlags, SendInv, LockNeedsSeal
<1>4. DueIsAhead(g)
  <2> HIDE DEF g
  <2>1. RowsAhead(g) = selected[w]
    BY <1>2 DEF RowsAhead, SendInv, ViewType
  <2>2. win[w] # "free"
    BY <1>1 DEF Open
  <2> QED
    BY <1>2, <2>1, <2>2 DEF DueIsAhead, Picked
<1>5. PICK f : f = g
  OBVIOUS
<1>6. FrameInv(f)
  BY <1>2, <1>3, <1>4, <1>5 DEF FrameInv
<1>7. stack' = Append(stack, f)
  BY <1>1, <1>5
<1> HIDE DEF g
<1>8. ASSUME NEW i \in DOMAIN stack'
      PROVE  FrameInv(stack[i])'
  <2>1. stack'[i] = IF i = Len(stack) + 1 THEN f ELSE stack[i]
    BY <1>7, Appended DEF SendInv, StackInv
  <2>2. i # Len(stack) + 1 => i \in DOMAIN stack
    BY <1>7, Appended DEF SendInv, StackInv
  <2>3. FrameInv(stack'[i])
    BY <1>6, <2>1, <2>2 DEF SendInv, StackInv
  <2>4. win[stack'[i].win] # "free"
    BY <2>3 DEF FrameInv, DueIsAhead
  <2> QED
    BY <1>1, <2>3, <2>4, FrameKept
<1>9. StackInv'
  BY <1>7, <1>8, Appended DEF SendInv, StackInv
<1> QED
  BY <1>1, <1>9 DEF SendInv, ViewType, LockNeedsSeal, PickedAreChosen

(* Another handler in the place of the top one.                            *)
LEMMA TopReplaced ==
  ASSUME StackInv, stack # <<>>, NEW g, stack' = Append(Front(stack), g), FrameInv(g)',
         UNCHANGED <<win, rows, selected>>
  PROVE  StackInv'
<1> DEFINE t == Front(stack)
<1>1. /\ t \in Seq(Elements(t))
      /\ DOMAIN t \subseteq DOMAIN stack
      /\ \A i \in DOMAIN t : t[i] = stack[i]
  BY Popped DEF StackInv
<1>2. stack' = Append(t, g)
  OBVIOUS
<1> HIDE DEF t
<1>3. /\ stack' \in Seq(Elements(stack'))
      /\ \A i \in DOMAIN stack' : i \in DOMAIN t \/ i = Len(t) + 1
      /\ \A i \in DOMAIN t : i # Len(t) + 1
      /\ \A i \in DOMAIN stack' : stack'[i] = IF i = Len(t) + 1 THEN g ELSE t[i]
  BY <1>1, <1>2, Appended
<1>4. ASSUME NEW i \in DOMAIN stack'
      PROVE  FrameInv(stack[i])'
  <2>1. CASE i = Len(t) + 1
    BY <1>3, <2>1
  <2>2. CASE i # Len(t) + 1
    <3>1. stack'[i] = stack[i] /\ FrameInv(stack[i])
      BY <1>1, <1>3, <2>2 DEF StackInv
    <3>2. win[stack[i].win] # "free"
      BY <3>1 DEF FrameInv, DueIsAhead
    <3> QED
      BY <3>1, <3>2, FrameKept
  <2> QED
    BY <2>1, <2>2
<1> QED
  BY <1>3, <1>4 DEF StackInv

LEMMA TopIsFrame ==
  ASSUME StackInv, stack # <<>>
  PROVE  FrameInv(Last(stack)) /\ Last(stack) = stack[Len(stack)] /\ Len(stack) \in DOMAIN stack
BY Popped DEF StackInv

(* A visited row leaves the others ahead.                                  *)
LEMMA RowVisited ==
  ASSUME SendInv, do_send
  PROVE  SendInv'
<1>1. PICK f : f = Last(stack)
  OBVIOUS
<1>2. PICK done \in BOOLEAN : stack' = Append(Front(stack), Visited(f, Message(f), done))
  BY <1>1 DEF do_send
<1>3. PICK g : g = Visited(f, Message(f), done)
  OBVIOUS
<1>4. /\ stack # <<>> /\ RowsAhead(f) # {}
      /\ UNCHANGED <<win, rows, selected, chosen, enclosed, locked>>
  BY <1>1 DEF do_send, Sending, viewVars, editVars
<1>5. FrameInv(f) /\ f.win \in Wins
  BY <1>1, <1>4, TopIsFrame DEF SendInv, FrameInv, FrameType
<1>6. /\ RowsAhead(f) \subseteq Nat /\ NextRow(f) \in RowsAhead(f)
      /\ \A q \in RowsAhead(f) : NextRow(f) <= q
  BY <1>4, <1>5, NextRowIsAhead DEF SendInv
<1>7. /\ FrameType(g) /\ g.win = f.win /\ g.flags = f.flags /\ g.stop = f.stop
      /\ g.row = NextRow(f) /\ g.due = f.due \ {rows[f.win][NextRow(f)]}
  BY <1>3, <1>5, <1>6 DEF FrameInv, FrameType, Frame, Visited, Message
<1>8. RowsAhead(g) = RowsAhead(f) \ {NextRow(f)}
  <2>1. f.row \in Nat
    BY <1>5 DEF FrameInv, FrameType
  <2>2. f.stop = FALSE \/ f.stop # FALSE
    OBVIOUS
  <2>3. \A q \in selected[f.win] : q \in Nat
    BY <1>5 DEF SendInv, ViewType
  <2> QED
    BY <1>6, <1>7, <2>1, <2>3 DEF RowsAhead
<1>9. FrameInv(g)
  BY <1>5, <1>7, <1>8 DEF FrameInv, SealsKept, DueIsAhead
<1>10. FrameInv(g)'
  <2>1. win[g.win] # "free"
    BY <1>9 DEF FrameInv, DueIsAhead
  <2> QED
    BY <1>4, <1>9, <2>1, FrameKept
<1>11. StackInv'
  BY <1>2, <1>3, <1>4, <1>10, TopReplaced DEF SendInv
<1> QED
  BY <1>4, <1>11 DEF SendInv, ViewType, LockNeedsSeal, PickedAreChosen

(* The dialog about a failure goes, and the visit with it goes on.         *)
LEMMA DialogEnded ==
  ASSUME SendInv, ipmsg_err_dialog_ends
  PROVE  SendInv'
<1>1. PICK f : f = Last(stack)
  OBVIOUS
<1>2. PICK g : g = [f EXCEPT !.kind = "sending"]
  OBVIOUS
<1>3. /\ stack # <<>> /\ stack' = Append(Front(stack), g)
      /\ UNCHANGED <<win, rows, selected, chosen, enclosed, locked>>
  BY <1>1, <1>2 DEF ipmsg_err_dialog_ends, viewVars, editVars
<1>4. FrameInv(f)
  BY <1>1, <1>3, TopIsFrame DEF SendInv
<1>5. /\ FrameType(g) /\ g.win = f.win /\ g.flags = f.flags /\ g.stop = f.stop
      /\ g.row = f.row /\ g.due = f.due
  BY <1>2, <1>4 DEF FrameInv, FrameType, Frame
<1>6. FrameInv(g)
  BY <1>4, <1>5 DEF FrameInv, SealsKept, DueIsAhead, RowsAhead
<1>7. FrameInv(g)'
  <2>1. win[g.win] # "free"
    BY <1>6 DEF FrameInv, DueIsAhead
  <2> QED
    BY <1>3, <1>6, <2>1, FrameKept
<1>8. StackInv'
  BY <1>3, <1>7, TopReplaced DEF SendInv
<1> QED
  BY <1>3, <1>8 DEF SendInv, ViewType, LockNeedsSeal, PickedAreChosen

(* A finished visit is taken off, and the handlers below keep their due    *)
(* unless their window closed.                                             *)
LEMMA VisitEnded ==
  ASSUME SendInv, SendEnds
  PROVE  SendInv'
<1>1. stack # <<>>
  BY DEF SendEnds, Sending
<1>2. CASE Last(stack).win \in Open
  <2>1. PICK w : w = Last(stack).win
    OBVIOUS
  <2>2. w \in Open /\ on_app1_destroy(w) /\ stack' = Front(Stopped({w}))
    BY <1>2, <2>1 DEF SendEnds
  <2>3. PICK s : s = Stopped({w})
    OBVIOUS
  <2>4. /\ s \in Seq(Elements(s)) /\ DOMAIN s = DOMAIN stack /\ Len(s) = Len(stack)
        /\ \A i \in DOMAIN stack : FrameInv(s[i])'
    BY <2>2, <2>3, WindowDestroyed, StoppedFrames DEF SendInv
  <2>5. s # <<>>
    BY <1>1, <2>4, EmptySeq DEF SendInv, StackInv
  <2>6. /\ stack' \in Seq(Elements(stack'))
        /\ DOMAIN stack' \subseteq DOMAIN s
        /\ \A i \in DOMAIN stack' : stack'[i] = s[i]
    <3>1. stack' = Front(s)
      BY <2>2, <2>3
    <3> DEFINE t == Front(s)
    <3>2. t \in Seq(Elements(t)) /\ DOMAIN t \subseteq DOMAIN s /\ \A i \in DOMAIN t : t[i] = s[i]
      BY <2>4, <2>5, Popped
    <3>3. stack' = t
      BY <3>1
    <3> HIDE DEF t
    <3> QED
      BY <3>2, <3>3
  <2>7. StackInv'
    BY <2>4, <2>6 DEF StackInv
  <2> QED
    BY <2>2, <2>7, WindowDestroyed DEF SendInv
<1>3. CASE Last(stack).win \notin Open
  <2>1. /\ stack' = Front(stack)
        /\ UNCHANGED <<win, rows, selected, chosen, enclosed, locked>>
    BY <1>3 DEF SendEnds, viewVars, editVars
  <2>2. /\ stack' \in Seq(Elements(stack'))
        /\ DOMAIN stack' \subseteq DOMAIN stack
        /\ \A i \in DOMAIN stack' : stack'[i] = stack[i]
    BY <1>1, <2>1, Popped DEF SendInv, StackInv
  <2>3. ASSUME NEW i \in DOMAIN stack'
        PROVE  FrameInv(stack[i])'
    <3>1. FrameInv(stack[i]) /\ stack'[i] = stack[i]
      BY <2>2 DEF SendInv, StackInv
    <3>2. win[stack[i].win] # "free"
      BY <3>1 DEF FrameInv, DueIsAhead
    <3> QED
      BY <2>1, <3>1, <3>2, FrameKept
  <2>4. StackInv'
    BY <2>2, <2>3 DEF StackInv
  <2> QED
    BY <2>1, <2>4 DEF SendInv, ViewType, LockNeedsSeal, PickedAreChosen
<1> QED
  BY <1>2, <1>3

--------------------------------------------------------------------------------
LEMMA InitSends == Init => SendInv
<1> SUFFICES ASSUME Init PROVE SendInv
  OBVIOUS
<1>1. DOMAIN <<>> = {} /\ <<>> \in Seq({})
  BY EmptySeq
<1> QED
  BY <1>1 DEF Init, SendInv, ViewType, LockNeedsSeal, PickedAreChosen, StackInv, Elements

LEMMA NextSends == SendInv /\ [Next]_vars => SendInv'
<1> SUFFICES ASSUME SendInv, [Next]_vars PROVE SendInv'
  OBVIOUS
<1> USE DEF listVars, viewVars, editVars, sendVars
<1>1. Open \in SUBSET Wins
  BY DEF Open
<1>2. CASE ListChanges
  <2>1. ASSUME NEW h \in Hosts, add_with_userdb_entry(h) PROVE SendInv'
    BY <1>1, <2>1, ViewUpdated DEF add_with_userdb_entry, notify_userdb_changed
  <2>2. ASSUME NEW h \in Hosts, userdb_update_user(h) PROVE SendInv'
    BY <1>1, <2>2, ViewUpdated DEF userdb_update_user, notify_userdb_changed
  <2>3. ASSUME NEW h \in Hosts, userdb_del_user(h) PROVE SendInv'
    BY <1>1, <2>3, ViewUpdated DEF userdb_del_user, notify_userdb_changed
  <2>4. CASE ipmsg_update_ui_user_list
    BY <2>4, NothingSent DEF ipmsg_update_ui_user_list, SendInv, LockNeedsSeal
  <2> QED
    BY <1>2, <2>1, <2>2, <2>3, <2>4 DEF ListChanges
<1>3. CASE UserActs
  <2>1. CASE on_startBtn_clicked
    BY <2>1, WindowCreated DEF on_startBtn_clicked
  <2>2. ASSUME NEW h \in Hosts, on_viewwindowReplyBtn_clicked(h) PROVE SendInv'
    BY <2>2, WindowCreated DEF on_viewwindowReplyBtn_clicked
  <2>3. ASSUME NEW w \in Wins, on_close1_activate(w) PROVE SendInv'
    BY <2>3, WindowClosed
  <2>4. ASSUME NEW w \in Wins, SelectRows(w) PROVE SendInv'
    BY <2>4, Selected DEF SelectRows
  <2>5. ASSUME NEW w \in Wins, NEW g, on_usermenu_group_item(w, g) PROVE SendInv'
    BY <2>5, Selected DEF on_usermenu_group_item
  <2>6. ASSUME NEW w \in Wins, on_encloseCheckBtn_toggled(w) PROVE SendInv'
    <3>1. LockNeedsSeal'
      BY <2>6 DEF on_encloseCheckBtn_toggled, SendInv, LockNeedsSeal
    <3> QED
      BY <2>6, <3>1, NothingSent DEF on_encloseCheckBtn_toggled
  <2>7. ASSUME NEW w \in Wins, ToggleLock(w) PROVE SendInv'
    <3>1. LockNeedsSeal'
      BY <2>7 DEF ToggleLock, SendInv, LockNeedsSeal
    <3> QED
      BY <2>7, <3>1, NothingSent DEF ToggleLock
  <2>8. ASSUME NEW w \in Wins, on_message_window_drag_data_received(w) PROVE SendInv'
    BY <2>8, NothingSent DEF on_message_window_drag_data_received, SendInv, LockNeedsSeal
  <2>9. ASSUME NEW w \in Wins, on_AttachFileRemoveBtn_clicked(w) PROVE SendInv'
    BY <2>9, NothingSent DEF on_AttachFileRemoveBtn_clicked, SendInv, LockNeedsSeal
  <2>10. ASSUME NEW w \in Wins, on_attachFileEditor_destroy(w) PROVE SendInv'
    BY <2>10, EditorClosed
  <2>11. ASSUME NEW w \in Wins, NEW p, update_prioriy_for_selection(w, p) PROVE SendInv'
    BY <1>1, <2>11, ViewUpdated DEF update_prioriy_for_selection, notify_userdb_changed
  <2>12. ASSUME NEW w \in Wins, on_set_all_as_default_activate(w) PROVE SendInv'
    BY <1>1, <2>12, ViewUpdated DEF on_set_all_as_default_activate, notify_userdb_changed
  <2>13. ASSUME NEW w \in Wins, on_show_invisible_items1_activate(w) PROVE SendInv'
    BY <2>13, ViewUpdated DEF on_show_invisible_items1_activate
  <2>14. ASSUME NEW w \in Wins, on_sendBtn_clicked(w) PROVE SendInv'
    BY <2>14, SendClicked
  <2>15. ASSUME NEW w \in Wins, on_messageUserTree_clicked(w) PROVE SendInv'
    BY <2>15, RowsSorted
  <2>16. CASE on_configApplyBtn_clicked
    BY <2>16, NothingSent DEF on_configApplyBtn_clicked, SendInv, LockNeedsSeal
  <2> QED
    BY <1>3, <2>1, <2>2, <2>3, <2>4, <2>5, <2>6, <2>7, <2>8, <2>9, <2>10, <2>11, <2>12,
       <2>13, <2>14, <2>15, <2>16 DEF UserActs
<1>4. CASE UNCHANGED vars
  BY <1>4, NothingSent DEF vars, SendInv, LockNeedsSeal
<1> QED
  BY <1>2, <1>3, <1>4, RowVisited, DialogEnded, VisitEnded DEF Next

(* The views and handlers of every reachable state are as they should be.  *)
THEOREM HandlersAreSound == Spec => []SendInv
<1> QED
  BY InitSends, NextSends, PTL DEF Spec

(* A message goes only to a host that the user had selected.               *)
THEOREM SentToSelected == Spec => []SentToChosen
<1>1. SendInv => SentToChosen
  <2> SUFFICES ASSUME SendInv, Sending, RowsAhead(Last(stack)) # {}
               PROVE  Message(Last(stack)).dst \in chosen[Last(stack).win]
    BY DEF SentToChosen
  <2>1. PICK f : f = Last(stack)
    OBVIOUS
  <2>2. f.win \in Wins
    BY <2>1, TopIsFrame DEF Sending, SendInv, FrameInv, FrameType
  <2>3. NextRow(f) \in RowsAhead(f)
    BY <2>1, <2>2, NextRowIsAhead DEF SendInv
  <2>4. NextRow(f) \in selected[f.win]
    BY <2>3 DEF RowsAhead
  <2>5. Message(f).dst = rows[f.win][NextRow(f)]
    BY DEF Message
  <2> QED
    BY <2>1, <2>2, <2>4, <2>5 DEF SendInv, PickedAreChosen
<1> QED
  BY <1>1, HandlersAreSound, PTL

(* Whatever was pressed in which order, a locked message is a sealed one.  *)
THEOREM LockedAreSealed == Spec => []LockedIsSealed
<1>1. SendInv => LockedIsSealed
  BY DEF SendInv, StackInv, FrameInv, SealsKept, LockedIsSealed
<1> QED
  BY <1>1, HandlersAreSound, PTL

--------------------------------------------------------------------------------
(* Only the end of a visit takes a handler off the stack.                  *)
LEMMA StackKeepsLength ==
  ASSUME StackInv, NEW t, DOMAIN t = DOMAIN stack, t = [i \in DOMAIN t |-> t[i]]
  PROVE  Len(t) = Len(stack) /\ Len(stack) \in Nat
BY Mapped DEF StackInv

LEMMA ViewKeepsLength ==
  ASSUME StackInv, NEW W, NEW U, NEW P, NEW K, NEW forced, update_user_entry(W, U, P, K, forced)
  PROVE  Len(stack') = Len(stack) /\ Len(stack) \in Nat
<1>1. CASE stack' = stack
  BY <1>1 DEF StackInv
<1>2. CASE stack' = Stopped(W)
  <2>1. DOMAIN stack' = DOMAIN stack /\ stack' = [i \in DOMAIN stack' |-> stack'[i]]
    BY <1>2 DEF Stopped
  <2> QED
    BY <2>1, StackKeepsLength
<1> QED
  BY <1>1, <1>2 DEF update_user_entry

LEMMA OnlyEndsShorten ==
  ASSUME SendInv, [Next]_vars, ~SendEnds
  PROVE  Len(stack') >= Len(stack)
<1> USE DEF SendInv
<1> USE DEF listVars, viewVars, editVars, sendVars
<1>1. Len(stack) \in Nat
  BY DEF StackInv
<1>2. CASE stack' = stack
  BY <1>1, <1>2
<1>3. CASE \E W, U, P, K, forced : update_user_entry(W, U, P, K, forced)
  BY <1>1, <1>3, ViewKeepsLength
<1>4. ASSUME NEW w \in Wins, on_close1_activate(w) PROVE Len(stack') >= Len(stack)
  <2>1. DOMAIN stack' = DOMAIN stack /\ stack' = [i \in DOMAIN stack' |-> stack'[i]]
    BY <1>4 DEF on_close1_activate, Stopped
  <2> QED
    BY <1>1, <2>1, StackKeepsLength
<1>5. ASSUME NEW w \in Wins, NEW R, Select(w, R) PROVE Len(stack') >= Len(stack)
  <2>1. DOMAIN stack' = DOMAIN stack /\ stack' = [i \in DOMAIN stack' |-> stack'[i]]
    BY <1>5 DEF Select
  <2> QED
    BY <1>1, <2>1, StackKeepsLength
<1>6. ASSUME NEW w \in Wins, on_attachFileEditor_destroy(w) PROVE Len(stack') >= Len(stack)
  <2>1. DOMAIN stack' = DOMAIN stack /\ stack' = [i \in DOMAIN stack' |-> stack'[i]]
    BY <1>6 DEF on_attachFileEditor_destroy
  <2> QED
    BY <1>1, <2>1, StackKeepsLength
<1>7. ASSUME NEW f, stack' = Append(stack, f) PROVE Len(stack') >= Len(stack)
  BY <1>1, <1>7, Appended DEF StackInv
<1>8. ASSUME NEW f, stack # <<>>, stack' = Append(Front(stack), f)
      PROVE  Len(stack') >= Len(stack)
  <2> DEFINE t == Front(stack)
  <2>1. t \in Seq(Elements(t)) /\ Len(t) = Len(stack) - 1
    BY <1>8, Popped DEF StackInv
  <2>2. stack' = Append(t, f)
    BY <1>8
  <2> HIDE DEF t
  <2> QED
    BY <1>1, <2>1, <2>2, Appended
<1>9. CASE ListChanges
  BY <1>2, <1>3, <1>9 DEF ListChanges, add_with_userdb_entry, userdb_update_user,
     userdb_del_user, ipmsg_update_ui_user_list, notify_userdb_changed
<1>10. CASE UserActs
  <2>1. CASE on_startBtn_clicked \/ \E h \in Hosts : on_viewwindowReplyBtn_clicked(h)
    BY <1>2, <2>1 DEF on_startBtn_clicked, on_viewwindowReplyBtn_clicked,
       internal_create_messageWindow
  <2>2. ASSUME NEW w \in Wins,
               \/ SelectRows(w)
               \/ \E h \in users : on_usermenu_group_item(w, GroupOf[h])
        PROVE  Len(stack') >= Len(stack)
    BY <1>5, <2>2 DEF SelectRows, on_usermenu_group_item
  <2>3. ASSUME NEW w \in Wins,
               \/ on_encloseCheckBtn_toggled(w) \/ ToggleLock(w)
               \/ on_message_window_drag_data_received(w) \/ on_AttachFileRemoveBtn_clicked(w)
        PROVE  Len(stack') >= Len(stack)
    BY <1>2, <2>3 DEF on_encloseCheckBtn_toggled, ToggleLock,
       on_message_window_drag_data_received, on_AttachFileRemoveBtn_clicked
  <2>4. ASSUME NEW w \in Wins,
               \/ \E p \in Prios : update_prioriy_for_selection(w, p)
               \/ on_set_all_as_default_activate(w)
               \/ on_show_invisible_items1_activate(w)
        PROVE  Len(stack') >= Len(stack)
    BY <1>3, <2>4 DEF update_prioriy_for_selection, on_set_all_as_default_activate,
       on_show_invisible_items1_activate, notify_userdb_changed
  <2>5. ASSUME NEW w \in Wins, on_sendBtn_clicked(w) PROVE Len(stack') >= Len(stack)
    BY <1>7, <2>5 DEF on_sendBtn_clicked
  <2>6. ASSUME NEW w \in Wins, on_messageUserTree_clicked(w) PROVE Len(stack') >= Len(stack)
    <3>1. DOMAIN stack' = DOMAIN stack /\ stack' = [i \in DOMAIN stack' |-> stack'[i]]
      BY <2>6 DEF on_messageUserTree_clicked, Stopped
    <3> QED
      BY <1>1, <3>1, StackKeepsLength
  <2>7. CASE on_configApplyBtn_clicked
    BY <1>2, <2>7 DEF on_configApplyBtn_clicked
  <2> QED
    BY <1>4, <1>6, <1>10, <2>1, <2>2, <2>3, <2>4, <2>5, <2>6, <2>7 DEF UserActs
<1>11. CASE do_send
  BY <1>8, <1>11 DEF do_send, Sending
<1>12. CASE ipmsg_err_dialog_ends
  BY <1>8, <1>12 DEF ipmsg_err_dialog_ends
<1>13. CASE UNCHANGED vars
  BY <1>2, <1>13 DEF vars
<1> QED
  BY <1>9, <1>10, <1>11, <1>12, <1>13 DEF Next

(* A click on Send visits every selected host, unless the view or the      *)
(* selection changed or the window closed in an error dialog meanwhile.    *)
THEOREM EveryoneIsServed == Spec => ServedUnlessDisturbed
<1>1. SendInv /\ [Next]_vars => [Len(stack') < Len(stack) => Last(stack).due = {}]_vars
  <2> SUFFICES ASSUME SendInv, [Next]_vars, Len(stack') < Len(stack)
               PROVE  Last(stack).due = {}
    OBVIOUS
  <2>1. CASE SendEnds
    <3>1. stack # <<>> /\ RowsAhead(Last(stack)) = {}
      BY <2>1 DEF SendEnds, Sending
    <3>2. PICK f : f = Last(stack)
      OBVIOUS
    <3>3. FrameInv(f) /\ RowsAhead(f) = {}
      BY <3>1, <3>2, TopIsFrame DEF SendInv
    <3>4. f.due = {}
      BY <3>3 DEF FrameInv, DueIsAhead
    <3> QED
      BY <3>2, <3>4
  <2>2. CASE ~SendEnds
    <3>1. Len(stack') >= Len(stack) /\ Len(stack) \in Nat
      BY <2>2, OnlyEndsShorten DEF SendInv, StackInv
    <3>2. stack' \in Seq(Elements(stack'))
      BY NextSends DEF SendInv, StackInv
    <3>3. Len(stack') \in Nat
      BY <3>2, LenProperties
    <3> QED
      BY <3>1, <3>3
  <2> QED
    BY <2>1, <2>2
<1> QED
  BY <1>1, HandlersAreSound, PTL DEF Spec, ServedUnlessDisturbed

--------------------------------------------------------------------------------
(* The lists that the windows show: r is a view of the users U, sorted by  *)
(* a column since when `sorted`.                                           *)
Shows(U, P, K, sorted, r) ==
  \E forced \in BOOLEAN :
    LET v == View(U, P, K, forced)
    IN  IF sorted THEN r \in Rearranged(v) ELSE r = v

ShowInv ==
  /\ DOMAIN win = Wins /\ DOMAIN rows = Wins /\ DOMAIN drawn = Wins
  /\ \A w \in Open \ behind :
       users # {} => Shows(users, prio, drawn[w], w \in resorted, rows[w])

(* A view rearranged twice is a view rearranged.                           *)
LEMMA RearrangedAgain ==
  ASSUME NEW v, NEW r \in Rearranged(v), NEW at \in Bijection(DOMAIN v, DOMAIN v)
  PROVE  [i \in DOMAIN v |-> r[at[i]]] \in Rearranged(v)
<1>1. PICK first \in Bijection(DOMAIN v, DOMAIN v) : r = [i \in DOMAIN v |-> v[first[i]]]
  BY DEF Rearranged
<1>2. PICK both : both = [i \in DOMAIN v |-> first[at[i]]]
  OBVIOUS
<1>3. both \in Bijection(DOMAIN v, DOMAIN v)
  BY <1>1, <1>2, Fun_BijTransitive
<1>4. at \in [DOMAIN v -> DOMAIN v]
  BY DEF Bijection, Injection
<1>5. [i \in DOMAIN v |-> r[at[i]]] = [i \in DOMAIN v |-> v[both[i]]]
  BY <1>1, <1>2, <1>4
<1> QED
  BY <1>3, <1>5 DEF Rearranged

LEMMA RearrangedOnce ==
  ASSUME NEW v, NEW at \in Bijection(DOMAIN v, DOMAIN v)
  PROVE  [i \in DOMAIN v |-> v[at[i]]] \in Rearranged(v)
BY DEF Rearranged

(* So rows sorted by a column still are those of the view.                 *)
LEMMA SortedShows ==
  ASSUME NEW U, NEW P, NEW K, NEW sorted \in BOOLEAN, NEW r, Shows(U, P, K, sorted, r),
         NEW at \in Bijection(DOMAIN r, DOMAIN r)
  PROVE  Shows(U, P, K, TRUE, [i \in DOMAIN r |-> r[at[i]]])
<1>1. PICK forced \in BOOLEAN : IF sorted THEN r \in Rearranged(View(U, P, K, forced))
                                         ELSE r = View(U, P, K, forced)
  BY DEF Shows
<1>2. PICK v : v = View(U, P, K, forced)
  OBVIOUS
<1>3. DOMAIN r = DOMAIN v
  BY <1>1, <1>2 DEF Rearranged
<1>4. [i \in DOMAIN r |-> r[at[i]]] \in Rearranged(v)
  BY <1>1, <1>2, <1>3, RearrangedAgain, RearrangedOnce
<1> QED
  BY <1>2, <1>4 DEF Shows

LEMMA ShownAnew ==
  ASSUME ShowInv, NEW W, NEW K, NEW forced \in BOOLEAN,
         update_user_entry(W, users', prio', K, forced), UNCHANGED win,
         Open \subseteq W \/ UNCHANGED <<users, prio>>
  PROVE  ShowInv'
<1>1. CASE users' = {}
  BY <1>1 DEF update_user_entry, viewVars, ShowInv
<1>2. CASE users' # {}
  <2>1. /\ rows' = [w \in Wins |-> IF w \in W THEN View(users', prio', K, forced) ELSE rows[w]]
        /\ drawn' = [w \in Wins |-> IF w \in W THEN K ELSE drawn[w]]
        /\ resorted' = resorted \ W
        /\ behind' = behind \ W
    BY <1>2 DEF update_user_entry
  <2>2. ASSUME NEW w \in (Open \ behind)'
        PROVE  Shows(users', prio', drawn'[w], w \in resorted', rows'[w])
    <3>1. w \in Wins /\ w \in Open
      BY <2>2 DEF Open
    <3>2. CASE w \in W
      <4>1. /\ drawn'[w] = K /\ w \notin resorted'
            /\ rows'[w] = View(users', prio', K, forced)
        BY <2>1, <3>1, <3>2
      <4> QED
        BY <4>1 DEF Shows
    <3>3. CASE w \notin W
      <4>1. /\ w \notin behind /\ users' = users /\ prio' = prio
            /\ rows'[w] = rows[w] /\ drawn'[w] = drawn[w]
            /\ w \in resorted' <=> w \in resorted
        BY <2>1, <2>2, <3>1, <3>3
      <4>2. Shows(users, prio, drawn[w], w \in resorted, rows[w])
        BY <1>2, <3>1, <4>1 DEF ShowInv
      <4> QED
        BY <4>1, <4>2 DEF Shows
    <3> QED
      BY <3>2, <3>3
  <2>3. DOMAIN win' = Wins /\ DOMAIN rows' = Wins /\ DOMAIN drawn' = Wins
    BY <2>1 DEF ShowInv
  <2> QED
    BY <2>2, <2>3 DEF ShowInv
<1> QED
  BY <1>1, <1>2

LEMMA ShownAsBefore ==
  ASSUME ShowInv, UNCHANGED <<users, prio, win, rows, drawn, resorted, behind>>
  PROVE  ShowInv'
BY DEF ShowInv, Open

LEMMA ShownWithoutOne ==
  ASSUME ShowInv, NEW w \in Open, on_app1_destroy(w), UNCHANGED <<users, prio>>
  PROVE  ShowInv'
<1>1. /\ win' = [win EXCEPT ![w] = "gone"] /\ rows' = [rows EXCEPT ![w] = <<>>]
      /\ behind' = behind \ {w} /\ resorted' = resorted \ {w} /\ drawn' = drawn
  BY DEF on_app1_destroy
<1>2. ASSUME NEW u \in (Open \ behind)', users # {}
      PROVE  Shows(users, prio, drawn[u], u \in resorted', rows'[u])
  <2>1. u \in Wins /\ u # w /\ u \in Open \ behind
    BY <1>1, <1>2 DEF ShowInv, Open
  <2>2. rows'[u] = rows[u] /\ (u \in resorted' <=> u \in resorted)
    BY <1>1, <2>1 DEF ShowInv
  <2>3. Shows(users, prio, drawn[u], u \in resorted, rows[u])
    BY <1>2, <2>1 DEF ShowInv
  <2> QED
    BY <2>2, <2>3 DEF Shows
<1> QED
  BY <1>1, <1>2 DEF ShowInv

LEMMA ShownByNew ==
  ASSUME ShowInv, NEW reply, internal_create_messageWindow(reply)
  PROVE  ShowInv'
<1>1. PICK w \in Wins : /\ win' = [win EXCEPT ![w] = "open"]
                        /\ users # {} => rows' = [rows EXCEPT ![w] = View(users, prio, key, FALSE)]
                        /\ users = {} => rows' = [rows EXCEPT ![w] = <<>>]
                        /\ drawn' = [drawn EXCEPT ![w] = key]
                        /\ resorted' = resorted \ {w}
  BY DEF internal_create_messageWindow
<1>2. UNCHANGED <<users, prio, behind>>
  BY DEF internal_create_messageWindow, listVars
<1>3. DOMAIN win' = Wins /\ DOMAIN rows' = Wins /\ DOMAIN drawn' = Wins
  BY <1>1 DEF ShowInv
<1>4. ASSUME NEW u \in (Open \ behind)', users # {}
      PROVE  Shows(users, prio, drawn'[u], u \in resorted', rows'[u])
  <2>1. rows' = [rows EXCEPT ![w] = View(users, prio, key, FALSE)]
    BY <1>1, <1>4
  <2>2. u = w \/ u \in Open \ behind
    BY <1>1, <1>2, <1>4 DEF ShowInv, Open
  <2>3. u \in Wins
    BY <1>4 DEF Open
  <2>4. CASE u = w
    <3>1. /\ drawn'[u] = key /\ u \notin resorted'
          /\ rows'[u] = View(users, prio, key, FALSE)
      BY <1>1, <2>1, <2>3, <2>4 DEF ShowInv
    <3> QED
      BY <3>1 DEF Shows
  <2>5. CASE u # w
    <3>1. /\ drawn'[u] = drawn[u] /\ rows'[u] = rows[u]
          /\ u \in resorted' <=> u \in resorted
      BY <1>1, <2>1, <2>3, <2>5 DEF ShowInv
    <3>2. Shows(users, prio, drawn[u], u \in resorted, rows[u])
      BY <1>4, <2>2, <2>5 DEF ShowInv
    <3> QED
      BY <3>1, <3>2 DEF Shows
  <2> QED
    BY <2>4, <2>5
<1> QED
  BY <1>2, <1>3, <1>4 DEF ShowInv

(* A click on a column header.                                             *)
LEMMA ShownSorted ==
  ASSUME ShowInv, NEW w \in Wins, on_messageUserTree_clicked(w)
  PROVE  ShowInv'
<1>1. PICK at \in Bijection(DOMAIN rows[w], DOMAIN rows[w]) :
        rows' = [rows EXCEPT ![w] = [r \in DOMAIN rows[w] |-> rows[w][at[r]]]]
  BY DEF on_messageUserTree_clicked
<1>2. /\ UNCHANGED <<users, prio, win, drawn, behind>>
      /\ resorted' = resorted \union {w}
  BY DEF on_messageUserTree_clicked, listVars
<1>3. ASSUME NEW u \in Open \ behind, users # {}
      PROVE  Shows(users, prio, drawn[u], u \in resorted', rows'[u])
  <2>1. u \in Wins
    BY DEF Open
  <2>2. Shows(users, prio, drawn[u], u \in resorted, rows[u])
    BY <1>3 DEF ShowInv
  <2>3. CASE u = w
    <3>1. rows'[u] = [r \in DOMAIN rows[u] |-> rows[u][at[r]]] /\ u \in resorted'
      BY <1>1, <1>2, <2>1, <2>3 DEF ShowInv
    <3>2. u \in resorted => Shows(users, prio, drawn[u], TRUE, rows[u])
      BY <2>2 DEF Shows
    <3>3. u \notin resorted => Shows(users, prio, drawn[u], FALSE, rows[u])
      BY <2>2 DEF Shows
    <3>4. Shows(users, prio, drawn[u], TRUE, [r \in DOMAIN rows[u] |-> rows[u][at[r]]])
      BY <1>1, <2>3, <3>2, <3>3, SortedShows
    <3> QED
      BY <3>1, <3>4 DEF Shows
  <2>4. CASE u # w
    <3>1. rows'[u] = rows[u] /\ (u \in resorted' <=> u \in resorted)
      BY <1>1, <1>2, <2>1, <2>4 DEF ShowInv
    <3> QED
      BY <2>2, <3>1 DEF Shows
  <2> QED
    BY <2>3, <2>4
<1> QED
  BY <1>1, <1>2, <1>3 DEF ShowInv, Open

LEMMA NextShows == ShowInv /\ [Next]_vars => ShowInv'
<1> SUFFICES ASSUME ShowInv, [Next]_vars PROVE ShowInv'
  OBVIOUS
<1> USE DEF listVars, viewVars, editVars, sendVars
<1>1. CASE ListChanges
  <2>1. ASSUME NEW h \in Hosts,
               add_with_userdb_entry(h) \/ userdb_update_user(h) \/ userdb_del_user(h)
        PROVE  ShowInv'
    <3>1. (\E K : update_user_entry(Open, users', prio', K, FALSE)) /\ UNCHANGED win
      BY <2>1 DEF add_with_userdb_entry, userdb_update_user, userdb_del_user,
         notify_userdb_changed
    <3> QED
      BY <3>1, ShownAnew
  <2>2. CASE ipmsg_update_ui_user_list
    BY <2>2 DEF ipmsg_update_ui_user_list, ShowInv, Open
  <2> QED
    BY <1>1, <2>1, <2>2 DEF ListChanges
<1>2. CASE UserActs
  <2>1. CASE on_startBtn_clicked \/ \E h \in Hosts : on_viewwindowReplyBtn_clicked(h)
    BY <2>1, ShownByNew DEF on_startBtn_clicked, on_viewwindowReplyBtn_clicked
  <2>2. ASSUME NEW w \in Wins, on_close1_activate(w) PROVE ShowInv'
    BY <2>2, ShownWithoutOne DEF on_close1_activate
  <2>3. ASSUME NEW w \in Wins,
               \/ SelectRows(w) \/ \E h \in users : on_usermenu_group_item(w, GroupOf[h])
               \/ on_encloseCheckBtn_toggled(w) \/ ToggleLock(w)
               \/ on_message_window_drag_data_received(w) \/ on_AttachFileRemoveBtn_clicked(w)
               \/ on_attachFileEditor_destroy(w) \/ on_sendBtn_clicked(w)
        PROVE  ShowInv'
    BY <2>3, ShownAsBefore DEF SelectRows, on_usermenu_group_item, Select,
       on_encloseCheckBtn_toggled, ToggleLock, on_message_window_drag_data_received,
       on_AttachFileRemoveBtn_clicked, on_attachFileEditor_destroy, on_sendBtn_clicked
  <2>4. ASSUME NEW w \in Wins,
               \/ \E p \in Prios : update_prioriy_for_selection(w, p)
               \/ on_set_all_as_default_activate(w)
        PROVE  ShowInv'
    <3>1. (\E K : update_user_entry(Open, users', prio', K, FALSE)) /\ UNCHANGED win
      BY <2>4 DEF update_prioriy_for_selection, on_set_all_as_default_activate,
         notify_userdb_changed
    <3> QED
      BY <3>1, ShownAnew
  <2>5. ASSUME NEW w \in Wins, on_show_invisible_items1_activate(w) PROVE ShowInv'
    BY <2>5, ShownAnew DEF on_show_invisible_items1_activate
  <2>6. ASSUME NEW w \in Wins, on_messageUserTree_clicked(w) PROVE ShowInv'
    BY <2>6, ShownSorted
  <2>7. CASE on_configApplyBtn_clicked
    BY <2>7, ShownAsBefore DEF on_configApplyBtn_clicked
  <2> QED
    BY <1>2, <2>1, <2>2, <2>3, <2>4, <2>5, <2>6, <2>7 DEF UserActs
<1>3. CASE do_send \/ ipmsg_err_dialog_ends \/ UNCHANGED vars
  BY <1>3, ShownAsBefore DEF do_send, ipmsg_err_dialog_ends, vars
<1>4. CASE SendEnds
  <2>1. CASE Last(stack).win \in Open
    BY <1>4, <2>1, ShownWithoutOne DEF SendEnds
  <2>2. CASE Last(stack).win \notin Open
    BY <1>4, <2>2, ShownAsBefore DEF SendEnds
  <2> QED
    BY <2>1, <2>2
<1> QED
  BY <1>1, <1>2, <1>3, <1>4 DEF Next

(* Every open window shows the users of the list as it is, in the order of *)
(* the priorities and of the settings it was filled under, or in another   *)
(* once a column header was clicked, unless the list is empty or was       *)
(* emptied by the user's "update".                                         *)
THEOREM ListIsShown == Spec => []WindowsShowList
<1>1. Init => ShowInv
  BY DEF Init, ShowInv, Open
<1>2. ShowInv => WindowsShowList
  BY DEF ShowInv, Shows, WindowsShowList
<1> QED
  BY <1>1, <1>2, NextShows, PTL DEF Spec
================================================================================
