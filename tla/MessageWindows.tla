----------------------------- MODULE MessageWindows -----------------------------
(***************************************************************************)
(* The windows in which messages are written and sent (callbacks.c,        *)
(* uicommon.c), and the view of the user list that each of them shows      *)
(* (userdb.c).  A click on Send visits the selected rows of the view one   *)
(* by one.  When a message cannot be sent an error dialog runs the main    *)
(* loop in the middle of that visit: datagrams then change the user list,  *)
(* and the user may close the window, select other rows or click again.    *)
(***************************************************************************)
EXTENDS Naturals, Integers, Sequences, FiniteSets, SequencesExt

CONSTANTS
  Hosts,       \* the hosts of the network
  Keys,        \* the orders that names and view settings give the users of one priority
  GroupOf,     \* host -> the group of its user
  Dialup,      \* the hosts that are not reached by broadcasts
  Files,       \* files of a type that can be attached
  Prios,       \* the priorities the user gives
  Wins,        \* message windows, by creation
  MaxPackets,  \* bound: messages sent
  MaxNested,   \* bound: clicks on Send on the stack
  MaxEvents    \* bound: entries, exits, and what the user does in the windows besides
               \* selecting, sending, opening and closing

ASSUME HostsAssumption == Hosts \subseteq Nat /\ Dialup \subseteq Hosts
ASSUME KeysAssumption == Keys \subseteq Injection(Hosts, Nat)
ASSUME PriosAssumption == Prios \subseteq Int

VARIABLES
  users,     \* the listed hosts
  prio,      \* host -> priority, kept by the settings
  key,       \* host -> its place among the users of its priority
  win,       \* window -> "free", "open" or "gone"
  rows,      \* window -> the hosts of its view, from top to bottom
  selected,  \* window -> the numbers of its selected rows
  enclosed,  \* windows with the seal button pressed
  locked,    \* windows with the lock button pressed
  editors,   \* windows with an attachment editor
  files,     \* window -> the files in its editor
  uploads,   \* the blocks registered for uploading, each the set of its files
  pktno,     \* messages tried
  stack,     \* the handlers on the stack, each inside the main loop of the one below
  absent,    \* absence mode
  chosen,    \* window -> the hosts the user selected in its present view (history)
  drawn,     \* window -> the key its view was filled by (history)
  resorted,  \* windows whose rows a column header has sorted since (history)
  behind,    \* windows whose view misses that the list was emptied (history)
  events

listVars == <<users, prio, key>>
viewVars == <<rows, selected, chosen, drawn, resorted, behind>>
editVars == <<enclosed, locked, editors, files>>
sendVars == <<uploads, pktno, absent>>
vars == <<listVars, viewVars, editVars, sendVars, win, stack, events>>

--------------------------------------------------------------------------------
\* The order of the view: by falling priority, then by group and by the
\* configured key, which K stands for; the sort is stable, so that users who
\* agree in them have an order too, that of the list.
userdb_sort_with_view_config(P, K, a, b) == P[a] > P[b] \/ (P[a] = P[b] /\ K[a] < K[b])

\* The rows of a view: users of negative priority show only when forced.  A
\* row is that of the user with as many others before it as there are rows
\* above.
View(U, P, K, forced) ==
  LET shown     == {h \in U : forced \/ P[h] >= 0}
      Before(h) == {g \in shown : userdb_sort_with_view_config(P, K, g, h)}
  IN  [row \in 1..Cardinality(shown) |-> CHOOSE h \in shown : Cardinality(Before(h)) = row - 1]

Open == {w \in Wins : win[w] = "open"}

\* The visits of the rows of the windows W end with the row they are at.
Stopped(W) ==
  [i \in DOMAIN stack |->
     IF stack[i].win \in W THEN [stack[i] EXCEPT !.stop = TRUE, !.due = {}] ELSE stack[i]]

\* Mutant: the view is filled anew with the selection left as it is.
MutantKeepsSelection(W, U, P, K, forced) ==
  IF U = {}
    THEN UNCHANGED viewVars /\ UNCHANGED stack
    ELSE /\ rows' = [w \in Wins |-> IF w \in W THEN View(U, P, K, forced) ELSE rows[w]]
         /\ UNCHANGED selected
         /\ chosen' = [w \in Wins |-> IF w \in W THEN {} ELSE chosen[w]]
         /\ drawn' = [w \in Wins |-> IF w \in W THEN K ELSE drawn[w]]
         /\ resorted' = resorted \ W
         /\ behind' = behind \ W
         /\ UNCHANGED stack

\* An empty list returns before the view is touched.  A new model drops the
\* selection and the order of a column, and ends a visit of the selected rows
\* after the current one.
update_user_entry(W, U, P, K, forced) ==
  IF U = {}
    THEN UNCHANGED viewVars /\ UNCHANGED stack
    ELSE /\ rows' = [w \in Wins |-> IF w \in W THEN View(U, P, K, forced) ELSE rows[w]]
         /\ selected' = [w \in Wins |-> IF w \in W THEN {} ELSE selected[w]]
         /\ chosen' = [w \in Wins |-> IF w \in W THEN {} ELSE chosen[w]]
         /\ drawn' = [w \in Wins |-> IF w \in W THEN K ELSE drawn[w]]
         /\ resorted' = resorted \ W
         /\ behind' = behind \ W
         /\ stack' = Stopped(W)

notify_userdb_changed(U, P, K) == update_user_entry(Open, U, P, K, FALSE)

\* Datagrams and clicks are handled with no handler active, or in a dialog.
LoopRuns == stack # <<>> => Last(stack).kind = "dialog"

Event == LoopRuns /\ events < MaxEvents /\ events' = events + 1

--------------------------------------------------------------------------------
\* The user list changes.

\* The orders when h has another name, or another place in the list: the
\* other users keep theirs among themselves.
Renamed(h) == {K \in Keys : \A a, b \in Hosts \ {h} : K[a] < K[b] <=> key[a] < key[b]}

\* An entry message of a host that is not listed.
add_with_userdb_entry(h) ==
  /\ Event /\ h \notin users
  /\ users' = users \union {h}
  /\ \E K \in Renamed(h) : key' = K /\ notify_userdb_changed(users', prio, K)
  /\ UNCHANGED <<prio, editVars, sendVars, win>>

\* ... and of one that is: its name may change, the list of hosts does not.
userdb_update_user(h) ==
  /\ Event /\ h \in users
  /\ \E K \in Renamed(h) : key' = K /\ notify_userdb_changed(users, prio, K)
  /\ UNCHANGED <<users, prio, editVars, sendVars, win>>

\* Mutant: the windows are not told that a user has left.
MutantUntold(h) ==
  /\ Event /\ h \in users
  /\ users' = users \ {h}
  /\ UNCHANGED <<prio, key, viewVars, editVars, sendVars, win, stack>>

userdb_del_user(h) ==
  /\ Event /\ h \in users
  /\ users' = users \ {h}
  /\ notify_userdb_changed(users', prio, key)
  /\ UNCHANGED <<prio, key, editVars, sendVars, win>>

\* "Update": the list is emptied for the answers that come; no window is told.
ipmsg_update_ui_user_list ==
  /\ LoopRuns
  /\ users' = users \intersect Dialup
  /\ behind' = behind \union Open
  /\ UNCHANGED <<prio, key, rows, selected, chosen, drawn, resorted, editVars, sendVars, win,
                 stack, events>>

--------------------------------------------------------------------------------
\* Windows open and close.

\* A new window shows the list.  A reply selects the row of its sender `reply`.
internal_create_messageWindow(reply) ==
  /\ LoopRuns
  /\ \E w \in Wins, e \in BOOLEAN :
       LET v == IF users = {} THEN <<>> ELSE View(users, prio, key, FALSE)
       IN  /\ win[w] = "free" /\ \A u \in Wins : u < w => win[u] # "free"
           /\ win' = [win EXCEPT ![w] = "open"]
           /\ rows' = [rows EXCEPT ![w] = v]
           /\ selected' = [selected EXCEPT ![w] = {r \in DOMAIN v : v[r] \in reply}]
           /\ chosen' = [chosen EXCEPT ![w] = reply]
           /\ drawn' = [drawn EXCEPT ![w] = key] /\ resorted' = resorted \ {w}
           /\ enclosed' = IF e THEN enclosed \union {w} ELSE enclosed
  /\ UNCHANGED <<listVars, behind, locked, editors, files, sendVars, stack, events>>

on_startBtn_clicked == internal_create_messageWindow({})
on_viewwindowReplyBtn_clicked(h) == internal_create_messageWindow({h})

\* The window goes, and with it its editor and its place among those told of changes.
on_app1_destroy(w) ==
  /\ win' = [win EXCEPT ![w] = "gone"]
  /\ rows' = [rows EXCEPT ![w] = <<>>]
  /\ selected' = [selected EXCEPT ![w] = {}]
  /\ chosen' = [chosen EXCEPT ![w] = {}]
  /\ resorted' = resorted \ {w} /\ behind' = behind \ {w} /\ UNCHANGED drawn
  /\ enclosed' = enclosed \ {w} /\ locked' = locked \ {w} /\ editors' = editors \ {w}
  /\ files' = [files EXCEPT ![w] = {}]

\* A visit of the rows in progress ends with its view.
on_close1_activate(w) ==
  /\ LoopRuns /\ w \in Open
  /\ on_app1_destroy(w)
  /\ stack' = Stopped({w})
  /\ UNCHANGED <<listVars, sendVars, events>>

--------------------------------------------------------------------------------
\* The user works in a window.

Select(w, R) ==
  /\ LoopRuns /\ w \in Open
  /\ selected' = [selected EXCEPT ![w] = R]
  /\ chosen' = [chosen EXCEPT ![w] = {rows[w][r] : r \in R}]
  /\ stack' = [i \in DOMAIN stack |->
                 IF stack[i].win = w THEN [stack[i] EXCEPT !.due = {}] ELSE stack[i]]
  /\ UNCHANGED <<listVars, rows, drawn, resorted, behind, editVars, sendVars, win, events>>

SelectRows(w) == \E R \in SUBSET DOMAIN rows[w] : Select(w, R)
on_usermenu_group_item(w, g) == Select(w, {r \in DOMAIN rows[w] : GroupOf[rows[w][r]] = g})

\* A click on the header of a column sorts the rows by it, up or down.  The
\* selection goes with the rows; a visit of them ends after the current one.
on_messageUserTree_clicked(w) ==
  /\ Event /\ w \in Open /\ Len(rows[w]) > 1
  /\ \E at \in Bijection(DOMAIN rows[w], DOMAIN rows[w]) :
       /\ rows' = [rows EXCEPT ![w] = [r \in DOMAIN rows[w] |-> rows[w][at[r]]]]
       /\ selected' = [selected EXCEPT ![w] = {r \in DOMAIN rows[w] : at[r] \in selected[w]}]
  /\ resorted' = resorted \union {w}
  /\ stack' = Stopped({w})
  /\ UNCHANGED <<listVars, chosen, drawn, behind, editVars, sendVars, win>>

\* The view settings: another order from the next view on; no window is told.
on_configApplyBtn_clicked ==
  /\ Event
  /\ key' \in Keys
  /\ UNCHANGED <<users, prio, viewVars, editVars, sendVars, win, stack>>

\* Mutant: taking the seal off leaves the lock button pressed.
MutantLockStays(w) ==
  /\ Event /\ w \in Open
  /\ enclosed' = IF w \in enclosed THEN enclosed \ {w} ELSE enclosed \union {w}
  /\ UNCHANGED <<listVars, viewVars, locked, editors, files, sendVars, win, stack>>

on_encloseCheckBtn_toggled(w) ==
  /\ Event /\ w \in Open
  /\ IF w \in enclosed
       THEN enclosed' = enclosed \ {w} /\ locked' = locked \ {w}
       ELSE enclosed' = enclosed \union {w} /\ UNCHANGED locked
  /\ UNCHANGED <<listVars, viewVars, editors, files, sendVars, win, stack>>

\* The lock button is sensitive only on a sealed message.
ToggleLock(w) ==
  /\ Event /\ w \in enclosed
  /\ locked' = IF w \in locked THEN locked \ {w} ELSE locked \union {w}
  /\ UNCHANGED <<listVars, viewVars, enclosed, editors, files, sendVars, win, stack>>

setup_attachment_editor(w) == editors' = editors \union {w}

\* Which of the files F can be looked up is up to the file system.
get_file_info(F) == SUBSET F

\* Files dropped on the window or on its editor, or added by the editor's
\* button; a file the editor already has is not added again.
on_add_new_file(w, F) == files' = [files EXCEPT ![w] = @ \union F]

on_message_window_drag_data_received(w) ==
  /\ Event /\ w \in Open
  /\ setup_attachment_editor(w)
  /\ \E F \in get_file_info(Files) : on_add_new_file(w, F)
  /\ UNCHANGED <<listVars, viewVars, enclosed, locked, sendVars, win, stack>>

on_AttachFileRemoveBtn_clicked(w) ==
  /\ Event /\ w \in editors
  /\ \E f \in files[w] : files' = [files EXCEPT ![w] = @ \ {f}]
  /\ UNCHANGED <<listVars, viewVars, enclosed, locked, editors, sendVars, win, stack>>

\* A click on Send in progress keeps a pointer to the editor that closes.
on_attachFileEditor_destroy(w) ==
  /\ Event /\ w \in editors
  /\ editors' = editors \ {w} /\ files' = [files EXCEPT ![w] = {}]
  /\ stack' = [i \in DOMAIN stack |->
                 IF stack[i].win = w /\ stack[i].editor = "open"
                   THEN [stack[i] EXCEPT !.editor = "lost"] ELSE stack[i]]
  /\ UNCHANGED <<listVars, viewVars, enclosed, locked, sendVars, win>>

--------------------------------------------------------------------------------
\* Priorities.

hostinfo_update_ipmsg_ipaddr_prio(P, h, p) == [P EXCEPT ![h] = p]

userdb_replace_prio_by_addr(P, h, p) ==
  IF h \in users THEN hostinfo_update_ipmsg_ipaddr_prio(P, h, p) ELSE P

Picked(w) == {rows[w][r] : r \in selected[w]}

\* The selected rows are looked up by number, one after the other; but every
\* priority set has all windows show the list anew, in the order it now has.
\* A number beyond the end of the new view is not `ok`.
RowsSet(w, p) ==
  LET SetRow(s, r) ==
        IF ~s.ok \/ r \notin DOMAIN s.view THEN [s EXCEPT !.ok = FALSE]
        ELSE LET P == userdb_replace_prio_by_addr(s.prio, s.view[r], p)
             IN  [ok |-> TRUE, prio |-> P,
                  view |-> IF users = {} THEN s.view ELSE View(users, P, key, FALSE)]
  IN  FoldLeft(SetRow, [ok |-> TRUE, prio |-> prio, view |-> rows[w]], SetToSortSeq(selected[w], <))

\* That number stops the program.
update_prioriy_for_selection(w, p) ==
  /\ Event /\ w \in Open /\ selected[w] # {}
  /\ RowsSet(w, p).ok
  /\ prio' = RowsSet(w, p).prio
  /\ notify_userdb_changed(users, prio', key)
  /\ UNCHANGED <<users, key, editVars, sendVars, win>>

AllSet(w, p) == FoldLeft(LAMBDA P, h : userdb_replace_prio_by_addr(P, h, p), prio, rows[w])

\* All rows of the view are set first, the windows are told in the end.
on_set_all_as_default_activate(w) ==
  /\ Event /\ w \in Open
  /\ prio' = AllSet(w, 0)
  /\ notify_userdb_changed(users, prio', key)
  /\ UNCHANGED <<users, key, editVars, sendVars, win>>

on_show_invisible_items1_activate(w) ==
  /\ LoopRuns /\ w \in Open
  /\ update_user_entry({w}, users, prio, key, TRUE)
  /\ UNCHANGED <<listVars, editVars, sendVars, win, events>>

--------------------------------------------------------------------------------
\* Sending.

\* The options the buttons ask for.
SendFlags(w) ==
  (IF w \in enclosed THEN {"secret"} ELSE {}) \union (IF w \in locked THEN {"password"} ELSE {})

\* The click: a handler that stands before the first row.  Its `due` is
\* history: the selected hosts it has not visited yet, none once the view or
\* the selection has changed.
on_sendBtn_clicked(w) ==
  /\ LoopRuns /\ Len(stack) < MaxNested /\ pktno < MaxPackets
  /\ w \in Open /\ selected[w] # {}
  /\ stack' = Append(stack, [kind |-> "sending", win |-> w, row |-> 0, flags |-> SendFlags(w),
                             editor |-> IF w \in editors THEN "open" ELSE "none",
                             stop |-> FALSE, due |-> Picked(w)])
  /\ UNCHANGED <<listVars, viewVars, editVars, sendVars, win, events>>

\* The rows that the visit of the selection still comes to.
RowsAhead(f) == IF f.stop THEN {} ELSE {r \in selected[f.win] : r > f.row}

NextRow(f) == CHOOSE r \in RowsAhead(f) : \A q \in RowsAhead(f) : r <= q

\* The files of the editor that the block comes to offer: those that still
\* exist, which may be none.
add_attach_file(w) == get_file_info(files[w])

\* The block is registered when the editor lists a file.
sendmessage_get_attachment_part(f) == f.editor = "open" /\ files[f.win] # {}

\* The message of the next row.
Message(f) ==
  [dst   |-> rows[f.win][NextRow(f)],
   flags |-> f.flags \union (IF sendmessage_get_attachment_part(f) THEN {"attach"} ELSE {})]

Sending == stack # <<>> /\ Last(stack).kind = "sending"

\* Mutant: the first message that cannot be sent ends the visit.
MutantFailureStops(f, m, done) ==
  [f EXCEPT !.row = NextRow(f), !.due = @ \ {m.dst}, !.stop = ~done,
            !.kind = IF done THEN "sending" ELSE "dialog"]

\* The visit goes on with the next row, after the dialog about a failure.
Visited(f, m, done) ==
  [f EXCEPT !.row = NextRow(f), !.due = @ \ {m.dst}, !.kind = IF done THEN "sending" ELSE "dialog"]

\* Whether the message leaves is up to the network and the encryption.  The
\* block of one that does not stays registered, with no receiver.
do_send ==
  /\ Sending /\ RowsAhead(Last(stack)) # {}
  /\ Last(stack).editor # "lost" /\ pktno < MaxPackets
  /\ LET f == Last(stack)
         m == Message(f)
     IN \E done \in BOOLEAN :
          /\ IF "attach" \in m.flags
               THEN \E F \in add_attach_file(f.win) : uploads' = uploads \union {F}
               ELSE UNCHANGED uploads
          /\ stack' = Append(Front(stack), Visited(f, m, done))
  /\ pktno' = pktno + 1
  /\ UNCHANGED <<listVars, viewVars, editVars, absent, win, events>>

\* No event is left for the loop that the error dialog ran.
ipmsg_err_dialog_ends ==
  /\ stack # <<>> /\ Last(stack).kind = "dialog"
  /\ stack' = Append(Front(stack), [Last(stack) EXCEPT !.kind = "sending"])
  /\ UNCHANGED <<listVars, viewVars, editVars, sendVars, win, events>>

\* The visit is over: absence ends, and the window closes if it has not yet.
SendEnds ==
  /\ Sending /\ RowsAhead(Last(stack)) = {}
  /\ absent' = FALSE
  /\ LET w == Last(stack).win
     IN  IF w \in Open
           THEN on_app1_destroy(w) /\ stack' = Front(Stopped({w}))
           ELSE stack' = Front(stack) /\ UNCHANGED <<viewVars, editVars, win>>
  /\ UNCHANGED <<listVars, uploads, pktno, events>>

--------------------------------------------------------------------------------
Init ==
  /\ users \in {{}, Hosts} /\ prio = [h \in Hosts |-> 0] /\ key \in Keys
  /\ win = [w \in Wins |-> "free"]
  /\ rows = [w \in Wins |-> <<>>] /\ selected = [w \in Wins |-> {}]
  /\ enclosed = {} /\ locked = {} /\ editors = {} /\ files = [w \in Wins |-> {}]
  /\ uploads = {} /\ pktno = 0
  /\ stack = <<>> /\ absent = TRUE
  /\ chosen = [w \in Wins |-> {}] /\ behind = {} /\ events = 0
  /\ drawn = [w \in Wins |-> key] /\ resorted = {}

ListChanges ==
  \/ \E h \in Hosts : add_with_userdb_entry(h) \/ userdb_update_user(h) \/ userdb_del_user(h)
  \/ ipmsg_update_ui_user_list

UserActs ==
  \/ on_startBtn_clicked
  \/ \E h \in Hosts : on_viewwindowReplyBtn_clicked(h)
  \/ \E w \in Wins :
       \/ on_close1_activate(w) \/ SelectRows(w) \/ on_messageUserTree_clicked(w)
       \/ \E h \in users : on_usermenu_group_item(w, GroupOf[h])
       \/ on_encloseCheckBtn_toggled(w) \/ ToggleLock(w)
       \/ on_message_window_drag_data_received(w) \/ on_AttachFileRemoveBtn_clicked(w)
       \/ on_attachFileEditor_destroy(w)
       \/ \E p \in Prios : update_prioriy_for_selection(w, p)
       \/ on_set_all_as_default_activate(w) \/ on_show_invisible_items1_activate(w)
       \/ on_sendBtn_clicked(w)
  \/ on_configApplyBtn_clicked

Next == ListChanges \/ UserActs \/ do_send \/ ipmsg_err_dialog_ends \/ SendEnds

Spec == Init /\ [][Next]_vars

--------------------------------------------------------------------------------
\* A message goes only to a host that the user, in the window it was written
\* in, had selected: no change of the list or of the order of the view between
\* the selection and the sending turns a row number into another host.
SentToChosen ==
  Sending /\ RowsAhead(Last(stack)) # {} => Message(Last(stack)).dst \in chosen[Last(stack).win]

Rearranged(v) ==
  {[r \in DOMAIN v |-> v[at[r]]] : at \in Bijection(DOMAIN v, DOMAIN v)}

\* Every open window shows the list as it is, with or without the hidden
\* users: in the order of the priorities and of the settings it was filled
\* under, or, once the user has clicked a column header, in any order.  No
\* user who has left keeps a row and none who has come lacks one, whatever
\* went on in other windows and dialogs -- unless the list is empty, or was
\* emptied by the user's "update" and no answer came yet.
WindowsShowList ==
  \A w \in Open \ behind : users # {} =>
    \E forced \in BOOLEAN :
      LET v == View(users, prio, drawn[w], forced)
      IN  IF w \in resorted THEN rows[w] \in Rearranged(v) ELSE rows[w] = v

\* A click on Send visits every selected host, the failure of one message
\* notwithstanding, unless the view or the selection changed or the window
\* closed in an error dialog meanwhile.
ServedUnlessDisturbed ==
  [][Len(stack') < Len(stack) => Last(stack).due = {}]_vars

\* A locked message is a sealed one, whatever was pressed in which order.
LockedIsSealed == \A i \in DOMAIN stack : "password" \in stack[i].flags => "secret" \in stack[i].flags

\* An order to set a priority sets that of the selected users and of no other.
PriorityAsAsked ==
  [][\A w \in Wins, p \in Prios : update_prioriy_for_selection(w, p) =>
       prio' = [h \in Hosts |-> IF h \in Picked(w) \intersect users THEN p ELSE prio[h]]]_vars
================================================================================
