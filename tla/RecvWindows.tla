------------------------------ MODULE RecvWindows ------------------------------
(***************************************************************************)
(* The windows of received messages (recvmsg.c): one per SENDMSG, stored   *)
(* or shown when it arrives, sealed or not, locked by a password or not,   *)
(* with a download window beside it when files are attached, and the log   *)
(* entry each one gets (logfile.c).  Everything runs on the one GTK        *)
(* thread; `stack` holds the handlers that are in a nested main loop, the  *)
(* innermost last.  While a modal dialog is among them the user reaches    *)
(* nothing else, but datagrams and timers are handled all the same.        *)
(*                                                                         *)
(* Where a handler goes on with a destroyed window the build may go on or  *)
(* crash.  It goes on here; a crash is a behaviour that takes no step      *)
(* more, which Spec allows anywhere.                                       *)
(***************************************************************************)
EXTENDS Naturals, Sequences, FiniteSets

CONSTANTS
  Messages,     \* the messages of the peers, named by sender and number
  Opts,         \* [Messages -> SUBSET Options]: the flags of the datagram
  Offer,        \* [Messages -> Seq(entry)]: the attachment list
  Unloggable,   \* messages whose sender is not in the list, or whose entry cannot be written
  MaxWins,      \* bound: windows created in a behaviour
  MaxArrivals,  \* bound: message -> how often it arrives (it may be resent)
  Settings0,    \* the settings at start: a subset of Settings
  Changeable    \* bound: the settings the user changes, each one once

Options  == {"secret", "password", "attach", "nolog", "noreply"}
Settings == {"popup", "absent", "loglocked", "lockpasswd"}
Wins     == 1..MaxWins
None     == 0

ASSUME WindowsAssumption ==
  /\ MaxWins \in Nat /\ MaxArrivals \in [Messages -> Nat]
  /\ Opts \in [Messages -> SUBSET Options]
  /\ None \notin Messages
  /\ Settings0 \subseteq Settings /\ Changeable \subseteq Settings

VARIABLES
  msgOf,     \* window -> the message it was created for
  view,      \* window -> "free", "stored", "shown" or "gone"
  flags,     \* window -> the flags of sender_info, cleared as the seal is opened
  ext,       \* the windows whose sender_info still has its ext_part
  dl,        \* window -> the state of its download window: "none", "open" or "gone"
  displayed, \* displayed_wins: <<"view" or "download", window>>
  opened,    \* opened_wins: window -> its number of entries
  stack,     \* handlers in a nested main loop
  logged,    \* window -> how it was logged: a subset of {"receipt", "opening"}
  sent,      \* datagrams sent: <<type, message>>
  settings,  \* the settings that are on
  changed    \* the settings the user has changed

winVars == <<msgOf, view, flags, ext, dl, displayed, opened, stack, logged,
             sent, settings, changed>>

--------------------------------------------------------------------------------
\* An entry of an attachment list names id, name, size, time and type, with
\* a colon after each of the first four.
Readable(e) == e.fields >= 5

\* parse_download_string goes on at the same place after an entry it cannot
\* read, finds it ended by the NUL it has written, and stops: what follows
\* an unreadable entry is lost.
Rows(m) == {i \in DOMAIN Offer[m] : \A j \in 1..i : Readable(Offer[m][j])}

Frame(kind, w) == [kind |-> kind, win |-> w]

Top       == stack[Len(stack)]
Below     == SubSeq(stack, 1, Len(stack) - 1)

\* A main loop runs everywhere but where a transfer connects.
LoopRuns == stack # <<>> => Top.kind # "connect"

\* gtk_dialog_run grabs the input of all windows; error_message_dialog and
\* the transfers run the main loop without a grab.
ModalKinds == {"passwd", "overwrite", "failed", "complete", "diropen", "opendir"}

\* The user can reach the windows.
UserFree == LoopRuns /\ \A i \in DOMAIN stack : stack[i].kind \notin ModalKinds

WinInit ==
  /\ msgOf = [w \in Wins |-> None]
  /\ view = [w \in Wins |-> "free"]
  /\ flags = [w \in Wins |-> {}]
  /\ ext = {}
  /\ dl = [w \in Wins |-> "none"]
  /\ displayed = {}
  /\ opened = [w \in Wins |-> 0]
  /\ stack = <<>>
  /\ logged = [w \in Wins |-> {}]
  /\ sent = {}
  /\ settings = Settings0
  /\ changed = {}

--------------------------------------------------------------------------------
(* Receipt                                                                 *)

\* Mutant: the flags of the datagram are tested when the seal is open, too.
MutantLockStaysInLog(m, fl) ==
  m \notin Unloggable /\ ~("password" \in Opts[m] /\ "loglocked" \in settings)

\* logfile_recv_log, with the flags the caller passes.
LogsNow(m, fl) ==
  /\ m \notin Unloggable
  /\ ~("password" \in fl /\ "loglocked" \in settings)

\* Mutant: the seal is not looked at.
MutantOffersSealed(w, fl, m) == "attach" \in fl /\ Rows(m) # {}

\* Showing a window creates its download window first, unless it is sealed
\* or none of its attachments can be read (only printed here).
OffersOnShow(w, fl, m) == "secret" \notin fl /\ "attach" \in fl /\ Rows(m) # {}

Shown(w, fl, m) ==
  /\ dl' = [dl EXCEPT ![w] = IF OffersOnShow(w, fl, m) THEN "open" ELSE @]
  /\ opened' = [opened EXCEPT ![w] = IF "secret" \in fl THEN @ ELSE @ + 1]
  /\ displayed' = displayed \union {<<"view", w>>}
                  \union (IF OffersOnShow(w, fl, m) THEN {<<"download", w>>} ELSE {})

AnswersOnReceipt(m) ==
  IF "noreply" \in Opts[m] THEN {}
  ELSE {<<"RECVMSG", m>>} \union (IF "absent" \in settings THEN {<<"ABSENCE", m>>} ELSE {})

Arrivals(m) == Cardinality({w \in Wins : msgOf[w] = m})

\* A text that cannot be converted only brings up an error dialog: no step.
ipmsg_proc_send_msg(m, w) ==
  /\ LoopRuns
  /\ view[w] = "free" /\ \A v \in 1..(w - 1) : view[v] # "free"
  /\ Arrivals(m) < MaxArrivals[m]
  /\ logged' = [logged EXCEPT ![w] =
       IF "nolog" \notin Opts[m] /\ LogsNow(m, Opts[m]) THEN {"receipt"} ELSE {}]
  /\ sent' = sent \union AnswersOnReceipt(m)
  /\ msgOf' = [msgOf EXCEPT ![w] = m]
  /\ flags' = [flags EXCEPT ![w] = Opts[m]]
  /\ ext' = IF "attach" \in Opts[m] THEN ext \union {w} ELSE ext
  /\ IF "popup" \in settings
       THEN /\ view' = [view EXCEPT ![w] = "stored"]
            /\ UNCHANGED <<dl, opened, displayed>>
       ELSE /\ view' = [view EXCEPT ![w] = "shown"]
            /\ Shown(w, Opts[m], m)
  /\ UNCHANGED <<stack, settings, changed>>

Stored == {w \in Wins : view[w] = "stored"}

\* on_startBtn_clicked shows everything that is stored; with nothing stored
\* it opens a message window instead.
show_stored_windows ==
  /\ UserFree /\ Stored # {}
  /\ LET offers == {w \in Stored : OffersOnShow(w, flags[w], msgOf[w])}
     IN  /\ dl' = [w \in Wins |-> IF w \in offers THEN "open" ELSE dl[w]]
         /\ displayed' = displayed \union ({"download"} \X offers) \union ({"view"} \X Stored)
  /\ opened' = [w \in Wins |-> IF w \in Stored /\ "secret" \notin flags[w]
                               THEN opened[w] + 1 ELSE opened[w]]
  /\ view' = [w \in Wins |-> IF w \in Stored THEN "shown" ELSE view[w]]
  /\ UNCHANGED <<msgOf, flags, ext, stack, logged, sent, settings, changed>>

--------------------------------------------------------------------------------
(* Opening a seal                                                          *)

Sealed(w) == view[w] = "shown" /\ "secret" \in flags[w]

\* The part of on_sealBtn_clicked that follows the password, up to
\* the creation of the download window.
OpenSeal(w, rest) ==
  /\ sent' = IF "noreply" \in flags[w] THEN sent ELSE sent \union {<<"READMSG", msgOf[w]>>}
  /\ flags' = [flags EXCEPT ![w] = @ \ {"secret", "password"}]
  /\ logged' = [logged EXCEPT ![w] =
       IF "loglocked" \in settings /\ LogsNow(msgOf[w], {}) THEN @ \union {"opening"} ELSE @]
  /\ IF "attach" \in flags[w] /\ w \in ext /\ Rows(msgOf[w]) = {}
       THEN /\ stack' = Append(rest, Frame("error", w))
            /\ UNCHANGED <<ext, dl, displayed, opened>>
       ELSE /\ stack' = rest
            /\ opened' = [opened EXCEPT ![w] = @ + 1]
            /\ ext' = ext \ {w}
            /\ IF "attach" \in flags[w] /\ w \in ext
                 THEN /\ dl' = [dl EXCEPT ![w] = "open"]
                      /\ displayed' = displayed \union {<<"download", w>>}
                 ELSE UNCHANGED <<dl, displayed>>
  /\ UNCHANGED <<msgOf, view, settings, changed>>

NeedsPassword(w) == "password" \in flags[w] /\ "lockpasswd" \in settings

on_sealBtn_clicked(w) ==
  /\ UserFree /\ Sealed(w)
  /\ IF NeedsPassword(w)
       THEN /\ stack' = Append(stack, Frame("passwd", w))
            /\ UNCHANGED <<msgOf, view, flags, ext, dl, displayed, opened, logged,
                           sent, settings, changed>>
       ELSE OpenSeal(w, stack)

PasswordVerified ==
  /\ stack # <<>> /\ Top.kind = "passwd"
  /\ OpenSeal(Top.win, Below)

PasswordRefused ==
  /\ stack # <<>> /\ Top.kind = "passwd"
  /\ stack' = Below
  /\ UNCHANGED <<msgOf, view, flags, ext, dl, displayed, opened, logged, sent,
                 settings, changed>>

\* The attachments could not be read.  The dialog has let the main loop run;
\* if the user has closed the window in it, the rest of the handler lists
\* and frees what is gone.
ErrorReturns ==
  /\ stack # <<>> /\ Top.kind = "error"
  /\ stack' = Below
  /\ opened' = [opened EXCEPT ![Top.win] = @ + 1]
  /\ ext' = ext \ {Top.win}
  /\ UNCHANGED <<msgOf, view, flags, dl, displayed, logged, sent, settings, changed>>

--------------------------------------------------------------------------------
(* Closing                                                                 *)

\* g_list_remove takes out the first entry of a window.
Unlist(w) == IF opened[w] > 0 THEN opened[w] - 1 ELSE 0

on_viewWindow_destroy(w) ==
  /\ UserFree /\ view[w] = "shown"
  /\ view' = [view EXCEPT ![w] = "gone"]
  /\ opened' = [opened EXCEPT ![w] = Unlist(w)]
  /\ displayed' = displayed \ {<<"view", w>>}
  /\ ext' = ext \ {w}
  /\ UNCHANGED <<msgOf, flags, dl, stack, logged, sent, settings, changed>>

Listed == {w \in Wins : opened[w] > 0}

\* The loop counts on the destroy handler to take each window off the list:
\* its own g_list_remove is given the node and not the window.  With a
\* listed window that is gone it never ends: no step.
destroy_all_opened_windows ==
  /\ UserFree /\ Listed # {}
  /\ \A w \in Listed : view[w] = "shown" /\ opened[w] = 1
  /\ view' = [w \in Wins |-> IF w \in Listed THEN "gone" ELSE view[w]]
  /\ opened' = [w \in Wins |-> 0]
  /\ displayed' = displayed \ ({"view"} \X Listed)
  /\ ext' = ext \ Listed
  /\ UNCHANGED <<msgOf, flags, dl, stack, logged, sent, settings, changed>>

\* Mutant: the destroyed window stays in displayed_wins.
MutantStaysDisplayed(w) ==
  /\ dl' = [dl EXCEPT ![w] = "gone"]
  /\ sent' = sent \union {<<"RELEASEFILES", msgOf[w]>>}
  /\ UNCHANGED displayed

\* The signal handler of a download window, run by whatever destroys it.
on_downloadWindow_destroy(w) ==
  /\ dl' = [dl EXCEPT ![w] = "gone"]
  /\ sent' = sent \union {<<"RELEASEFILES", msgOf[w]>>}
  /\ displayed' = displayed \ {<<"download", w>>}

CloseDownload(w) ==
  /\ UserFree /\ dl[w] = "open"
  /\ on_downloadWindow_destroy(w)
  /\ UNCHANGED <<msgOf, view, flags, ext, opened, stack, logged, settings, changed>>

--------------------------------------------------------------------------------
(* Settings                                                                *)

ChangeSetting(s) ==
  /\ UserFree /\ s \in Changeable \ changed
  /\ settings' = IF s \in settings THEN settings \ {s} ELSE settings \union {s}
  /\ changed' = changed \union {s}
  /\ UNCHANGED <<msgOf, view, flags, ext, dl, displayed, opened, stack, logged, sent>>

WindowNext ==
  \/ \E m \in Messages, w \in Wins : ipmsg_proc_send_msg(m, w)
  \/ show_stored_windows
  \/ \E w \in Wins : on_sealBtn_clicked(w)
  \/ PasswordVerified
  \/ PasswordRefused
  \/ ErrorReturns
  \/ \E w \in Wins : on_viewWindow_destroy(w)
  \/ destroy_all_opened_windows
  \/ \E w \in Wins : CloseDownload(w)
  \/ \E s \in Settings : ChangeSetting(s)

--------------------------------------------------------------------------------
\* The lists hold exactly the windows that exist: presenting them all or
\* closing all opened ones touches no freed widget.  The exception is a
\* window the user closes while its own seal button shows an error.
ListsFollowWindows ==
  \A w \in Wins :
    /\ <<"view", w>> \in displayed <=> view[w] = "shown"
    /\ <<"download", w>> \in displayed <=> dl[w] = "open"
    /\ opened[w] <= 1
    /\ opened[w] = 1 => view[w] = "shown" \/ Rows(msgOf[w]) = {}

\* Nothing of a sealed message shows before its seal is opened: it is not
\* among the opened windows, its attachments are not offered, its opening
\* is not logged, and the sender is not told of it unless another copy of
\* the message has been opened.
SealHides ==
  \A w \in Wins : "secret" \in flags[w] =>
    /\ opened[w] = 0 /\ dl[w] = "none" /\ "opening" \notin logged[w]
    /\ <<"READMSG", msgOf[w]>> \in sent =>
         \E v \in Wins : msgOf[v] = msgOf[w] /\ "secret" \notin flags[v]

\* What the user has been able to read is in the log, at receipt or, for a
\* locked message, at its opening -- as long as the sender did not ask for
\* no log and the setting for locked messages has not been changed between.
ReadIsLogged ==
  \A w \in Wins :
    /\ opened[w] > 0 /\ "nolog" \notin Opts[msgOf[w]] /\ msgOf[w] \notin Unloggable
    /\ "loglocked" \notin changed
    => logged[w] # {}
================================================================================
