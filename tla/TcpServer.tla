------------------------------ MODULE TcpServer ------------------------------
(***************************************************************************)
(* tcp.c: a thread per TCP connection looks a requested file up in the     *)
(* upload queue, sends it and takes it off the queue, while the UI thread  *)
(* adds, releases and deletes blocks and shows them.                       *)
(*                                                                         *)
(* A transfer writes with SIGPIPE ignored.  The disposition of a signal    *)
(* belongs to the process: every handler thread saves and restores the     *)
(* same one.                                                               *)
(***************************************************************************)
EXTENDS UploadQueue

VARIABLES
  file,        \* the file each handler serves
  sigpipe,     \* the process's disposition of SIGPIPE
  saved_act,   \* what each handler restores it to
  passed,      \* history: the handlers whose walk has passed something over
  delivered,   \* history: what has been sent whole
  incomplete   \* history: the directories sent to their end with something
               \* passed over

vars == <<uploads, files, count, monitor_win_mutex, monitor_wins, view, pc,
          pkt, announced, revoked, deletePressed, file, sigpipe, saved_act,
          passed, delivered, incomplete>>

walkVars == <<passed, delivered, incomplete>>
serverVars == <<file, sigpipe, saved_act, walkVars>>

Init ==
  /\ QueueInit
  /\ pc = [t \in Threads |-> IF t = UI THEN "main" ELSE "idle"]
  /\ pkt = [t \in Threads |-> None]
  /\ file = [h \in Handlers |-> None]
  /\ sigpipe = "default"
  /\ saved_act = [h \in Handlers |-> "default"]
  /\ passed = {}
  /\ delivered = {}
  /\ incomplete = {}

-----------------------------------------------------------------------------
(* A peer connects and asks for file f of message k.  refer_attach_file    *)
(* finds it and copies its path: from here on the handler works on its     *)
(* copy.  A request for anything else closes the connection.               *)
refer_attach_file(k, f) == k \in uploads /\ f \in files[k]

ipmsg_tcp_recv_thread(h, k, f) ==
  /\ pc[h] = "idle"
  /\ k \in announced
  /\ refer_attach_file(k, f)
  /\ pkt' = [pkt EXCEPT ![h] = k]
  /\ file' = [file EXCEPT ![h] = f]
  /\ passed' = passed \ {h}
  /\ Goto(h, "transfer")
  /\ UNCHANGED <<queueVars, monitorVars, historyVars, sigpipe, saved_act,
                 delivered, incomplete>>

(* tcp_transfer_file and send_directory: each piece is written between     *)
(* disable_pipe_signal and enable_pipe_signal.                             *)
disable_pipe_signal(h) ==
  /\ pc[h] = "transfer"
  /\ saved_act' = [saved_act EXCEPT ![h] = sigpipe]
  /\ sigpipe' = "ignored"
  /\ Goto(h, "write")
  /\ UNCHANGED <<queueVars, monitorVars, pkt, historyVars, file, walkVars>>

enable_pipe_signal(h) ==
  /\ sigpipe' = saved_act[h]
  /\ UNCHANGED saved_act

(* The write succeeds; it was the last piece, or there are more.           *)
(* send_directory drops the results of read_directory_files, and has 0 of  *)
(* the header in rc when a directory cannot be opened or read: a walk that *)
(* passed something over ends like one that sent everything.               *)
TransferPiece(h) ==
  /\ pc[h] = "write"
  /\ enable_pipe_signal(h)
  /\ \/ Goto(h, "transfer") /\ UNCHANGED <<delivered, incomplete>>
     \/ /\ Goto(h, "release")
        /\ IF h \in passed
             THEN /\ incomplete' = incomplete \cup {<<pkt[h], file[h]>>}
                  /\ UNCHANGED delivered
             ELSE /\ delivered' = delivered \cup {<<pkt[h], file[h]>>}
                  /\ UNCHANGED incomplete
  /\ UNCHANGED <<queueVars, monitorVars, pkt, historyVars, file, passed>>

(* A directory of the walk cannot be opened or read, or a file of it is    *)
(* not sent: the walk goes on behind it.                                   *)
PassOver(h) ==
  /\ pc[h] = "transfer"
  /\ file[h] \in Dirs
  /\ passed' = passed \cup {h}
  /\ UNCHANGED <<queueVars, monitorVars, pc, pkt, historyVars, file, sigpipe,
                 saved_act, delivered, incomplete>>

MutantDirCutIsReleased(h) ==
  /\ pc[h] = "write"
  /\ enable_pipe_signal(h)
  /\ Goto(h, "release")
  /\ UNCHANGED <<queueVars, monitorVars, pkt, historyVars, file, walkVars>>

(* The write fails: the peer is gone.  tcp_transfer_file then returns what *)
(* lseek left in rc, which is 0, and its caller takes the file for sent.   *)
(* tcp_transfer_dir returns the error of the next header, at the latest of *)
(* the last one, whichever write it was that failed.                       *)
TransferCut(h) ==
  /\ pc[h] = "write"
  /\ enable_pipe_signal(h)
  /\ Goto(h, IF file[h] \in Dirs THEN "idle" ELSE "release")
  /\ UNCHANGED <<queueVars, monitorVars, pkt, historyVars, file, walkVars>>

(* An error other than a lost connection: of a file, its open, lseek or    *)
(* read; of a directory, the look-up of its top or the conversion of a     *)
(* directory's name.                                                       *)
TransferFails(h) ==
  /\ pc[h] = "transfer"
  /\ Goto(h, "idle")
  /\ UNCHANGED <<queueVars, monitorVars, pkt, historyVars, serverVars>>

(* download_monitor_release_file, step by step: the file, the block if     *)
(* that was its last file, the monitor windows.                            *)
LockForRelease(h) ==
  /\ pc[h] = "release"
  /\ LockMonitor(h)
  /\ Goto(h, "relfile")
  /\ UNCHANGED <<queueVars, monitor_wins, view, pkt, historyVars, serverVars>>

MutantEmptyBlockStays(h) ==
  /\ pc[h] = "relfile"
  /\ files' = [files EXCEPT ![pkt[h]] = @ \ {file[h]}]
  /\ Goto(h, "refresh")
  /\ UNCHANGED <<uploads, count, monitorVars, pkt, historyVars, serverVars>>

release_attach_file(h) ==
  /\ pc[h] = "relfile"
  /\ IF refer_attach_file(pkt[h], file[h])
       THEN /\ files' = [files EXCEPT ![pkt[h]] = @ \ {file[h]}]
            /\ Goto(h, IF files'[pkt[h]] = {} THEN "relblock" ELSE "refresh")
       ELSE UNCHANGED files /\ Goto(h, "refresh")
  /\ UNCHANGED <<uploads, count, monitorVars, pkt, historyVars, serverVars>>

ReleaseEmptyBlock(h) ==
  /\ pc[h] = "relblock"
  /\ release_attach_file_block(pkt[h], FALSE)
  /\ Goto(h, "refresh")
  /\ UNCHANGED <<monitorVars, pkt, historyVars, serverVars>>

MutantNoRefresh(h) ==
  /\ pc[h] = "refresh"
  /\ UnlockMonitor
  /\ Goto(h, "idle")
  /\ UNCHANGED <<queueVars, monitor_wins, view, pkt, historyVars, serverVars>>

MutantNoUnlock(h) ==
  /\ pc[h] = "refresh"
  /\ update_download_view
  /\ Goto(h, "idle")
  /\ UNCHANGED <<queueVars, monitor_wins, monitor_win_mutex, pkt, historyVars,
                 serverVars>>

RefreshAfterRelease(h) ==
  /\ pc[h] = "refresh"
  /\ update_download_view
  /\ UnlockMonitor
  /\ Goto(h, "idle")
  /\ UNCHANGED <<queueVars, monitor_wins, pkt, historyVars, serverVars>>

ReleaseStep(h) ==
  \/ release_attach_file(h)
  \/ ReleaseEmptyBlock(h)
  \/ RefreshAfterRelease(h)

HandlerNext(h) ==
  \/ \E k \in PktNos, f \in Files : ipmsg_tcp_recv_thread(h, k, f)
  \/ disable_pipe_signal(h)
  \/ TransferPiece(h)
  \/ PassOver(h)
  \/ TransferCut(h)
  \/ TransferFails(h)
  \/ LockForRelease(h)
  \/ ReleaseStep(h)

Next ==
  \/ UINext /\ UNCHANGED serverVars
  \/ \E h \in Handlers : HandlerNext(h)

(* Threads that hold no lock they wait for go on, and a thread to which    *)
(* monitor_win_mutex keeps becoming free gets it in the end.  Nothing is   *)
(* assumed of the user, of the peers or of a transfer.                     *)
Fairness ==
  /\ SF_vars(UIStep /\ UNCHANGED serverVars)
  /\ \A h \in Handlers : SF_vars(LockForRelease(h)) /\ WF_vars(ReleaseStep(h))

Spec == Init /\ [][Next]_vars /\ Fairness

-----------------------------------------------------------------------------
(* A block whose last file has been fetched does not stay in the queue:    *)
(* as long as it is there, the handler that took the file is on its way to *)
(* release it.  Two handlers, a RELEASEFILES or the delete button in       *)
(* between do not leave an empty block behind.                             *)
NoEmptyBlockStays ==
  \A k \in uploads :
    files[k] = {} => \E h \in Handlers : pc[h] = "relblock" /\ pkt[h] = k

(* The block of a message that was sent is referenced, except in do_send's *)
(* own window between the sending and the referencing; a reference is      *)
(* never left on a block that is gone, even when the peer has fetched      *)
(* everything before do_send comes to take it.                             *)
SentBlockIsReferenced ==
  \A k \in PktNos :
    /\ k \in uploads /\ k \in announced /\ count[k] = 0 =>
         pc[UI] = "sent" /\ pkt[UI] = k
    /\ count[k] # 0 => k \in uploads

(* When no thread is about to refresh it, the open monitor shows the queue,*)
(* except that rows of blocks released by a RELEASEFILES stay, and a block *)
(* whose message could not be sent gets no row.                            *)
MonitorShowsQueue ==
  monitor_wins /\ pc[UI] = "main"
    /\ (\A h \in Handlers : pc[h] \notin {"relblock", "refresh"}) =>
       /\ view \ Rows(uploads, files) \subseteq revoked
       /\ Rows(uploads, files) \ view \subseteq PktNos \ announced

(* A lost connection never takes a directory off the queue: a handler      *)
(* takes it off only when some walk of it has come to its end on a         *)
(* connection that still took what was written, whatever other connections *)
(* do to the same directory.  The walk need not have sent all of it: what  *)
(* cannot be read is passed over, and the directory leaves the queue all   *)
(* the same.                                                               *)
CutDirectoryStays ==
  [][\A k \in PktNos, d \in Dirs :
       /\ d \in files[k] /\ d \notin files'[k]
       /\ k \in uploads'
       => <<k, d>> \in delivered \cup incomplete]_vars

(* A handler whose transfer has ended gets through its release, and the UI *)
(* thread comes back to its main loop: no order of handlers and operations *)
(* of the UI blocks either for ever, unless the delete button was pressed, *)
(* which blocks the UI thread with monitor_win_mutex held.                 *)
TransfersAndUIEnd ==
  /\ \A h \in Handlers : pc[h] = "release" ~> pc[h] = "idle" \/ deletePressed
  /\ pc[UI] # "main" ~> pc[UI] = "main" \/ deletePressed
=============================================================================
