----------------------------- MODULE UploadQueue -----------------------------
(***************************************************************************)
(* The upload queue of fileattach.c and the download monitor of menu.c:    *)
(* the files a user has attached to sent messages, offered to the peers    *)
(* until they are fetched, released or deleted, and the window that shows  *)
(* them.  This module is the shared state and the UI thread's operations;  *)
(* TcpServer adds the threads that serve the peers.                        *)
(*                                                                         *)
(* A section under upload_queue_mutex takes no other lock than those of    *)
(* the block and file it works on, which are only ever taken inside such a *)
(* section: each is one atomic step here.  monitor_win_mutex is held       *)
(* across several of them and is modelled as a lock.  It is a GStaticMutex *)
(* and not recursive.                                                      *)
(*                                                                         *)
(* A definition named Mutant... is a plausible mistake in the operation    *)
(* that follows it, kept to show which property would notice it.           *)
(***************************************************************************)
EXTENDS Integers, FiniteSets

CONSTANTS
  PktNos,      \* packet numbers of messages with attachments
  Files,       \* file ids
  Dirs,        \* those that are directories
  Handlers,    \* TCP connections, each with its thread
  UI,          \* the GTK thread
  None         \* nobody

ASSUME UploadAssumption ==
  /\ Dirs \subseteq Files
  /\ UI \notin Handlers
  /\ None \notin Handlers \cup {UI}

Threads == Handlers \cup {UI}

VARIABLES
  uploads,            \* messages that have a block in the queue
  files,              \* of each block, the files still offered
  count,              \* of each block, its reference count
  monitor_win_mutex,  \* the thread that holds it
  monitor_wins,       \* TRUE while the download monitor is open
  view,               \* the messages the monitor has a row for
  pc,                 \* where each thread is
  pkt,                \* the message each thread works on
  announced,          \* messages whose attachments a peer knows of
  revoked,            \* history: messages a peer sent RELEASEFILES for
  deletePressed       \* history: the monitor's delete button was used

queueVars   == <<uploads, files, count>>
monitorVars == <<monitor_win_mutex, monitor_wins, view>>
historyVars == <<announced, revoked, deletePressed>>

-----------------------------------------------------------------------------
(* update_download_view: one row per block that still has files.  The row  *)
(* of an empty block fails at g_malloc(0) and is left out.                 *)
Rows(q, f) == {k \in q : f[k] # {}}

update_download_view ==
  view' = IF monitor_wins THEN Rows(uploads, files) ELSE {}

Goto(t, label) == pc' = [pc EXCEPT ![t] = label]

LockMonitor(t) ==
  /\ monitor_win_mutex = None
  /\ monitor_win_mutex' = t

UnlockMonitor == monitor_win_mutex' = None

QueueInit ==
  /\ uploads = {}
  /\ files = [k \in PktNos |-> {}]
  /\ count = [k \in PktNos |-> 0]
  /\ monitor_win_mutex = None
  /\ monitor_wins = FALSE
  /\ view = {}
  /\ announced = {}
  /\ revoked = {}
  /\ deletePressed = FALSE

-----------------------------------------------------------------------------
(* Sections under upload_queue_mutex.                                      *)

(* add_attach_file and add_upload_queue: a new block, not yet referenced. *)
add_upload_queue(k, fs) ==
  /\ uploads' = uploads \cup {k}
  /\ files' = [files EXCEPT ![k] = fs]
  /\ count' = [count EXCEPT ![k] = 0]

MutantRefForgotten(k) == UNCHANGED queueVars

ref_attach_file_block(k) ==
  /\ IF k \in uploads
       THEN count' = [count EXCEPT ![k] = @ + 1]
       ELSE UNCHANGED count
  /\ UNCHANGED <<uploads, files>>

destroy_attach_file_block(k) ==
  /\ uploads' = uploads \ {k}
  /\ files' = [files EXCEPT ![k] = {}]
  /\ count' = [count EXCEPT ![k] = 0]

(* The block loses a reference; the last one, or force, destroys it.  A    *)
(* block that was never referenced goes at once.                           *)
RefsLeft(k, force) ==
  IF force \/ count[k] = 0 THEN 0 ELSE count[k] - 1

MutantKeepsUnreferenced(k, force) ==
  IF k \in uploads /\ count[k] > 0 /\ RefsLeft(k, force) = 0
    THEN destroy_attach_file_block(k)
    ELSE UNCHANGED queueVars

release_attach_file_block(k, force) ==
  IF k \notin uploads THEN UNCHANGED queueVars
  ELSE IF RefsLeft(k, force) = 0 THEN destroy_attach_file_block(k)
  ELSE /\ count' = [count EXCEPT ![k] = RefsLeft(k, force)]
       /\ UNCHANGED <<uploads, files>>

-----------------------------------------------------------------------------
(* The UI thread.                                                          *)

(* do_send with attachments, up to the end of ipmsg_send_send_msg.  When   *)
(* it fails the block stays in the queue, and nobody knows of it.          *)
do_send(k, fs) ==
  /\ pc[UI] = "main"
  /\ k \notin uploads \cup announced
  /\ add_upload_queue(k, fs)
  /\ \/ announced' = announced \cup {k} /\ Goto(UI, "sent")
     \/ UNCHANGED <<announced, pc>>
  /\ pkt' = [pkt EXCEPT ![UI] = k]
  /\ UNCHANGED <<monitorVars, revoked, deletePressed>>

(* The rest of do_send, after the peer has been told: reference the block, *)
(* if a fast peer has not emptied it already, and update the monitor.      *)
do_send_ref ==
  /\ pc[UI] = "sent"
  /\ ref_attach_file_block(pkt[UI])
  /\ Goto(UI, IF pkt[UI] \in uploads THEN "update" ELSE "main")
  /\ UNCHANGED <<monitorVars, pkt, historyVars>>

(* download_monitor_update_state: lock, refresh every window, unlock. *)
download_monitor_update_state ==
  \/ /\ pc[UI] = "update"
     /\ LockMonitor(UI)
     /\ Goto(UI, "refresh")
     /\ UNCHANGED <<queueVars, monitor_wins, view, pkt, historyVars>>
  \/ /\ pc[UI] = "refresh"
     /\ update_download_view
     /\ UnlockMonitor
     /\ Goto(UI, "main")
     /\ UNCHANGED <<queueVars, monitor_wins, pkt, historyVars>>

(* RELEASEFILES arrives.  The monitor is not told. *)
ipmsg_proc_release_files_msg(k) ==
  /\ pc[UI] = "main"
  /\ k \in announced
  /\ release_attach_file_block(k, FALSE)
  /\ revoked' = revoked \cup {k}
  /\ UNCHANGED <<monitorVars, pc, pkt, announced, deletePressed>>

(* The monitor is opened; its "show" signal refreshes it. *)
on_create_download_monitor ==
  /\ pc[UI] = "main"
  /\ ~monitor_wins
  /\ monitor_win_mutex = None
  /\ monitor_wins' = TRUE
  /\ Goto(UI, "update")
  /\ UNCHANGED <<queueVars, monitor_win_mutex, view, pkt, historyVars>>

on_downloadMonitor_destroy ==
  /\ pc[UI] = "main"
  /\ monitor_wins
  /\ monitor_win_mutex = None
  /\ monitor_wins' = FALSE
  /\ view' = {}
  /\ UNCHANGED <<queueVars, monitor_win_mutex, pc, pkt, historyVars>>

on_updateBtn_clicked ==
  /\ pc[UI] = "main"
  /\ monitor_wins
  /\ Goto(UI, "update")
  /\ UNCHANGED <<queueVars, monitorVars, pkt, historyVars>>

(* The delete button: under monitor_win_mutex the selected block is        *)
(* released by force and its row removed, then                             *)
(* download_monitor_update_state asks for monitor_win_mutex again.         *)
download_monitor_delete_btn_action(k) ==
  /\ pc[UI] = "main"
  /\ monitor_wins
  /\ k \in view
  /\ LockMonitor(UI)
  /\ release_attach_file_block(k, TRUE)
  /\ view' = view \ {k}
  /\ deletePressed' = TRUE
  /\ Goto(UI, "update")
  /\ UNCHANGED <<monitor_wins, pkt, announced, revoked>>

UIStep ==
  \/ do_send_ref
  \/ download_monitor_update_state

UINext ==
  \/ UIStep
  \/ \E k \in PktNos, fs \in (SUBSET Files) \ {{}} : do_send(k, fs)
  \/ \E k \in PktNos : ipmsg_proc_release_files_msg(k)
  \/ on_create_download_monitor
  \/ on_downloadMonitor_destroy
  \/ on_updateBtn_clicked
  \/ \E k \in PktNos : download_monitor_delete_btn_action(k)
=============================================================================
