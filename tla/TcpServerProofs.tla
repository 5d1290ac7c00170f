-------------------------- MODULE TcpServerProofs --------------------------
(***************************************************************************)
(* Proofs about TcpServer, for any messages, files, directories and number *)
(* of connections: which blocks the upload queue keeps, who refers to      *)
(* them, and what the download monitor shows of them.                      *)
(***************************************************************************)
EXTENDS TcpServer, TLAPS

Labels == {"idle", "transfer", "write", "release", "relfile", "relblock",
           "refresh", "main", "sent", "update"}

QueueTypes ==
  /\ uploads \in SUBSET PktNos
  /\ files \in [PktNos -> SUBSET Files]
  /\ count \in [PktNos -> {0, 1}]
  /\ announced \in SUBSET PktNos

ThreadTypes ==
  /\ pc \in [Threads -> Labels]
  /\ pkt \in [Threads -> PktNos \cup {None}]
  /\ file \in [Handlers -> Files \cup {None}]

(* A block that is gone has no files and no references. *)
GoneIsEmpty ==
  \A k \in PktNos : k \notin uploads => files[k] = {} /\ count[k] = 0

(* A handler that works works on a message a peer knows of, which therefore *)
(* cannot be sent, and so cannot be queued, again.                          *)
ServedIsAnnounced ==
  \A h \in Handlers : pc[h] # "idle" => pkt[h] \in announced

(* Between sending and referencing, the block is announced and without a   *)
(* reference.                                                              *)
SentIsUnreferenced ==
  pc[UI] = "sent" => pkt[UI] \in announced /\ count[pkt[UI]] = 0

(* No other block that peers know of is without one. *)
AnnouncedIsReferenced ==
  \A k \in uploads \cap announced :
    count[k] = 0 => pc[UI] = "sent" /\ pkt[UI] = k

(* What a transfer came to the end of, whole or not. *)
Walked == delivered \cup incomplete

(* A directory on its way off the queue has been walked to its end. *)
ReleasedDirIsWalked ==
  \A h \in Handlers :
    pc[h] \in {"release", "relfile"} /\ file[h] \in Dirs =>
      <<pkt[h], file[h]>> \in Walked

QueueInv ==
  /\ QueueTypes /\ ThreadTypes
  /\ GoneIsEmpty /\ ServedIsAnnounced
  /\ SentIsUnreferenced /\ AnnouncedIsReferenced
  /\ ReleasedDirIsWalked
  /\ NoEmptyBlockStays

(* The monitor, also in do_send's window: the block of that message has no *)
(* row yet.                                                                *)
InWindow == IF pc[UI] = "sent" THEN {pkt[UI]} ELSE {}

ViewInv ==
  monitor_wins /\ pc[UI] \in {"main", "sent"}
    /\ (\A h \in Handlers : pc[h] \notin {"relblock", "refresh"}) =>
       /\ view \ Rows(uploads, files) \subseteq revoked
       /\ Rows(uploads, files) \ view \subseteq
            (PktNos \ announced) \cup InWindow

-----------------------------------------------------------------------------
LEMMA ThreadsDiffer ==
  /\ UI \in Threads /\ UI \notin Handlers
  /\ Handlers \subseteq Threads
  /\ \A h \in Handlers : h # UI /\ h \in Threads
BY UploadAssumption DEF Threads

LEMMA InitQueueInv == Init => QueueInv
BY UploadAssumption
DEF Init, QueueInit, QueueInv, QueueTypes, ThreadTypes, Labels, GoneIsEmpty,
   ServedIsAnnounced, SentIsUnreferenced, AnnouncedIsReferenced,
   ReleasedDirIsWalked, Walked, NoEmptyBlockStays, Threads

(* Releasing a block destroys it, since it has one reference at most. *)
LEMMA ReleaseDestroys ==
  ASSUME QueueTypes, NEW k \in PktNos, NEW force \in BOOLEAN,
         release_attach_file_block(k, force)
  PROVE  /\ uploads' = uploads \ {k}
         /\ files' = IF k \in uploads THEN [files EXCEPT ![k] = {}] ELSE files
         /\ count' = IF k \in uploads THEN [count EXCEPT ![k] = 0] ELSE count
<1>1. CASE k \notin uploads
  BY <1>1 DEF release_attach_file_block, queueVars
<1>2. CASE k \in uploads
  <2>1. RefsLeft(k, force) = 0
    <3>1. count[k] \in {0, 1}
      BY DEF QueueTypes
    <3> QED BY <3>1 DEF RefsLeft
  <2> QED
    BY <1>2, <2>1 DEF release_attach_file_block, destroy_attach_file_block
<1> QED BY <1>1, <1>2

-----------------------------------------------------------------------------
(* The invariant through a step of the UI thread that leaves the queue     *)
(* alone and does not come from, or get into, do_send's window.            *)
LEMMA UIElsewhere ==
  ASSUME QueueInv, UNCHANGED <<queueVars, serverVars, pkt, announced>>,
         NEW label \in {"main", "update", "refresh"}, Goto(UI, label),
         pc[UI] # "sent"
  PROVE  QueueInv'
BY ThreadsDiffer
DEF QueueInv, QueueTypes, ThreadTypes, Labels, GoneIsEmpty, ServedIsAnnounced,
   SentIsUnreferenced, AnnouncedIsReferenced, ReleasedDirIsWalked,
   NoEmptyBlockStays, queueVars, serverVars, walkVars, Walked, Goto

(* And through one that releases a block. *)
LEMMA UIReleases ==
  ASSUME QueueInv, NEW k \in PktNos, NEW force \in BOOLEAN,
         release_attach_file_block(k, force),
         UNCHANGED <<serverVars, pkt, announced>>,
         NEW label \in {"main", "update"}, Goto(UI, label), pc[UI] # "sent"
  PROVE  QueueInv'
<1>1. /\ uploads' = uploads \ {k}
      /\ files' = IF k \in uploads THEN [files EXCEPT ![k] = {}] ELSE files
      /\ count' = IF k \in uploads THEN [count EXCEPT ![k] = 0] ELSE count
  BY ReleaseDestroys DEF QueueInv
<1>2. pc' = [pc EXCEPT ![UI] = label]
  BY DEF Goto
<1>3. /\ \A h \in Handlers : pc'[h] = pc[h]
      /\ pc'[UI] = label
  BY <1>2, ThreadsDiffer DEF QueueInv, ThreadTypes, Labels
<1>4. QueueTypes' /\ ThreadTypes'
  BY <1>1, <1>2, ThreadsDiffer
  DEF QueueInv, QueueTypes, ThreadTypes, Labels, serverVars, walkVars, Walked
<1>5. GoneIsEmpty' /\ AnnouncedIsReferenced' /\ NoEmptyBlockStays'
  BY <1>1, <1>3 DEF QueueInv, QueueTypes, GoneIsEmpty, AnnouncedIsReferenced,
     NoEmptyBlockStays
<1>6. ServedIsAnnounced' /\ SentIsUnreferenced' /\ ReleasedDirIsWalked'
  BY <1>3 DEF QueueInv, ServedIsAnnounced, SentIsUnreferenced,
     ReleasedDirIsWalked, serverVars, walkVars, Walked
<1> QED BY <1>4, <1>5, <1>6 DEF QueueInv

(* Sending queues a new block; a failure leaves it there, unknown to all. *)
LEMMA SendKeepsQueue ==
  ASSUME QueueInv, NEW k \in PktNos, NEW fs \in (SUBSET Files) \ {{}},
         do_send(k, fs), UNCHANGED serverVars
  PROVE  QueueInv'
<1>1. /\ uploads' = uploads \cup {k}
      /\ files' = [files EXCEPT ![k] = fs]
      /\ count' = [count EXCEPT ![k] = 0]
      /\ pkt' = [pkt EXCEPT ![UI] = k]
      /\ k \notin uploads /\ k \notin announced
  BY DEF do_send, add_upload_queue
<1>2. \/ announced' = announced \cup {k} /\ pc' = [pc EXCEPT ![UI] = "sent"]
      \/ announced' = announced /\ pc' = pc /\ pc[UI] = "main"
  BY DEF do_send, Goto
<1>3. /\ \A h \in Handlers : pc'[h] = pc[h] /\ pkt'[h] = pkt[h]
      /\ pkt'[UI] = k
      /\ file' = file /\ Walked' = Walked
  BY <1>1, <1>2, ThreadsDiffer
  DEF QueueInv, ThreadTypes, Labels, serverVars, walkVars, Walked
<1>4. QueueTypes' /\ ThreadTypes'
  BY <1>1, <1>2, <1>3, ThreadsDiffer
  DEF QueueInv, QueueTypes, ThreadTypes, Labels
<1>5. GoneIsEmpty' /\ NoEmptyBlockStays'
  <2>1. files'[k] # {} /\ \A j \in PktNos : j # k => files'[j] = files[j]
    BY <1>1 DEF QueueInv, QueueTypes
  <2>2. GoneIsEmpty'
    BY <1>1 DEF QueueInv, QueueTypes, GoneIsEmpty
  <2>3. ASSUME NEW j \in uploads', files'[j] = {}
        PROVE  \E g \in Handlers : pc'[g] = "relblock" /\ pkt'[g] = j
    <3>1. j \in uploads /\ files[j] = {}
      BY <1>1, <2>1, <2>3 DEF QueueInv, QueueTypes
    <3> QED BY <1>3, <3>1 DEF QueueInv, NoEmptyBlockStays
  <2> QED BY <2>2, <2>3 DEF NoEmptyBlockStays
<1>6. ServedIsAnnounced' /\ ReleasedDirIsWalked'
  BY <1>2, <1>3 DEF QueueInv, ServedIsAnnounced, ReleasedDirIsWalked
<1>7. SentIsUnreferenced' /\ AnnouncedIsReferenced'
  <2>1. pc[UI] = "main"
    BY DEF do_send
  <2>2. \A j \in uploads \cap announced : count[j] # 0
    BY <2>1 DEF QueueInv, AnnouncedIsReferenced
  <2>3. count'[k] = 0 /\ \A j \in PktNos : j # k => count'[j] = count[j]
    BY <1>1 DEF QueueInv, QueueTypes
  <2>4. CASE /\ announced' = announced \cup {k}
             /\ pc' = [pc EXCEPT ![UI] = "sent"]
    <3>1. pc'[UI] = "sent"
      BY <2>4, ThreadsDiffer DEF QueueInv, ThreadTypes, Labels
    <3> QED
      BY <1>1, <1>3, <2>2, <2>3, <2>4, <3>1
      DEF QueueInv, QueueTypes, SentIsUnreferenced, AnnouncedIsReferenced
  <2>5. CASE announced' = announced /\ pc' = pc
    BY <1>1, <1>3, <2>1, <2>2, <2>3, <2>5
    DEF QueueInv, QueueTypes, SentIsUnreferenced, AnnouncedIsReferenced
  <2> QED BY <1>2, <2>4, <2>5
<1> QED BY <1>4, <1>5, <1>6, <1>7 DEF QueueInv

(* A block is referenced once, right after it became known. *)
LEMMA RefKeepsQueue ==
  ASSUME QueueInv, do_send_ref, UNCHANGED serverVars
  PROVE  QueueInv'
<1> DEFINE k == pkt[UI]
<1>1. /\ k \in announced /\ k \in PktNos /\ count[k] = 0
      /\ pc[UI] = "sent"
  BY DEF do_send_ref, QueueInv, SentIsUnreferenced, QueueTypes
<1>2. /\ uploads' = uploads /\ files' = files /\ announced' = announced
      /\ pkt' = pkt /\ file' = file /\ Walked' = Walked
      /\ count' = IF k \in uploads THEN [count EXCEPT ![k] = @ + 1] ELSE count
  BY DEF do_send_ref, ref_attach_file_block, serverVars, walkVars, Walked,
     historyVars
<1>3. /\ \A j \in PktNos : j # k => count'[j] = count[j]
      /\ count'[k] = IF k \in uploads THEN 1 ELSE 0
      /\ count' \in [PktNos -> {0, 1}]
  BY <1>1, <1>2 DEF QueueInv, QueueTypes
<1>4. /\ \A h \in Handlers : pc'[h] = pc[h]
      /\ pc'[UI] \in {"main", "update"}
      /\ pc' \in [Threads -> Labels]
  BY ThreadsDiffer DEF do_send_ref, Goto, QueueInv, ThreadTypes, Labels
<1>5. QueueTypes' /\ ThreadTypes'
  BY <1>2, <1>3, <1>4 DEF QueueInv, QueueTypes, ThreadTypes, Labels
<1>6. GoneIsEmpty' /\ NoEmptyBlockStays'
  BY <1>2, <1>3, <1>4 DEF QueueInv, GoneIsEmpty, NoEmptyBlockStays
<1>7. ServedIsAnnounced' /\ ReleasedDirIsWalked' /\ SentIsUnreferenced'
  BY <1>2, <1>4 DEF QueueInv, ServedIsAnnounced, ReleasedDirIsWalked,
     SentIsUnreferenced
<1>8. AnnouncedIsReferenced'
  BY <1>1, <1>2, <1>3 DEF QueueInv, QueueTypes, AnnouncedIsReferenced
<1> QED BY <1>5, <1>6, <1>7, <1>8 DEF QueueInv

LEMMA UIKeepsQueue == QueueInv /\ UINext /\ UNCHANGED serverVars => QueueInv'
<1> SUFFICES ASSUME QueueInv, UINext, UNCHANGED serverVars PROVE QueueInv'
  OBVIOUS
<1>1. CASE do_send_ref
  BY <1>1, RefKeepsQueue
<1>2. CASE download_monitor_update_state
  <2>1. /\ UNCHANGED <<queueVars, serverVars, pkt, announced>>
        /\ pc[UI] # "sent"
        /\ Goto(UI, "refresh") \/ Goto(UI, "main")
    BY <1>2 DEF download_monitor_update_state, historyVars
  <2> QED BY <2>1, UIElsewhere
<1>3. ASSUME NEW k \in PktNos, NEW fs \in (SUBSET Files) \ {{}}, do_send(k, fs)
      PROVE  QueueInv'
  BY <1>3, SendKeepsQueue
<1>4. ASSUME NEW k \in PktNos, ipmsg_proc_release_files_msg(k)
      PROVE  QueueInv'
  <2>1. pc' = [pc EXCEPT ![UI] = "main"]
    BY <1>4, ThreadsDiffer
    DEF ipmsg_proc_release_files_msg, QueueInv, ThreadTypes, Labels
  <2> QED
    BY <1>4, <2>1, UIReleases DEF ipmsg_proc_release_files_msg, Goto
<1>5. CASE on_create_download_monitor
  BY <1>5, UIElsewhere DEF on_create_download_monitor, historyVars
<1>6. CASE on_downloadMonitor_destroy
  <2>1. pc' = [pc EXCEPT ![UI] = "main"]
    BY <1>6, ThreadsDiffer
    DEF on_downloadMonitor_destroy, QueueInv, ThreadTypes, Labels
  <2> QED
    BY <1>6, <2>1, UIElsewhere
    DEF on_downloadMonitor_destroy, Goto, historyVars
<1>7. CASE on_updateBtn_clicked
  BY <1>7, UIElsewhere DEF on_updateBtn_clicked, historyVars
<1>8. ASSUME NEW k \in PktNos, download_monitor_delete_btn_action(k)
      PROVE  QueueInv'
  BY <1>8, UIReleases DEF download_monitor_delete_btn_action
<1> QED
  BY <1>1, <1>2, <1>3, <1>4, <1>5, <1>6, <1>7, <1>8 DEF UINext, UIStep

-----------------------------------------------------------------------------
(* A handler's step that leaves the queue alone. *)
LEMMA HandlerElsewhere ==
  ASSUME QueueInv, NEW h \in Handlers, NEW label \in Labels, Goto(h, label),
         UNCHANGED <<queueVars, pkt, file, announced>>,
         Walked \subseteq Walked',
         pc[h] # "idle", pc[h] # "relblock",
         label \in {"release", "relfile"} /\ file[h] \in Dirs =>
           <<pkt[h], file[h]>> \in Walked'
  PROVE  QueueInv'
<1>1. /\ pc'[h] = label /\ pc'[UI] = pc[UI]
      /\ \A g \in Handlers : g # h => pc'[g] = pc[g]
      /\ pc' \in [Threads -> Labels]
  BY ThreadsDiffer DEF Goto, QueueInv, ThreadTypes, Labels
<1>2. /\ uploads' = uploads /\ files' = files /\ count' = count
  BY DEF queueVars
<1>3. QueueTypes' /\ ThreadTypes' /\ GoneIsEmpty'
  BY <1>1, <1>2 DEF QueueInv, QueueTypes, ThreadTypes, Labels, GoneIsEmpty
<1>4. ServedIsAnnounced' /\ SentIsUnreferenced' /\ AnnouncedIsReferenced'
  BY <1>1, <1>2 DEF QueueInv, ServedIsAnnounced, SentIsUnreferenced,
     AnnouncedIsReferenced
<1>5. ReleasedDirIsWalked'
  BY <1>1 DEF QueueInv, ReleasedDirIsWalked
<1>6. NoEmptyBlockStays'
  BY <1>1, <1>2 DEF QueueInv, NoEmptyBlockStays
<1> QED BY <1>3, <1>4, <1>5, <1>6 DEF QueueInv

LEMMA RequestKeepsQueue ==
  ASSUME QueueInv, NEW h \in Handlers, NEW k \in PktNos, NEW f \in Files,
         ipmsg_tcp_recv_thread(h, k, f)
  PROVE  QueueInv'
<1>1. /\ pc' = [pc EXCEPT ![h] = "transfer"]
      /\ pkt' = [pkt EXCEPT ![h] = k]
      /\ file' = [file EXCEPT ![h] = f]
      /\ pc[h] = "idle" /\ k \in announced
      /\ uploads' = uploads /\ files' = files /\ count' = count
      /\ announced' = announced /\ Walked' = Walked
  BY DEF ipmsg_tcp_recv_thread, Goto, queueVars, historyVars, Walked
<1>2. /\ pc'[h] = "transfer" /\ pc'[UI] = pc[UI]
      /\ pkt'[h] = k /\ pkt'[UI] = pkt[UI]
      /\ \A g \in Handlers : g # h => /\ pc'[g] = pc[g] /\ pkt'[g] = pkt[g]
                                      /\ file'[g] = file[g]
  BY <1>1, ThreadsDiffer DEF QueueInv, ThreadTypes, Labels
<1>3. QueueTypes' /\ ThreadTypes' /\ GoneIsEmpty'
  BY <1>1, ThreadsDiffer
  DEF QueueInv, QueueTypes, ThreadTypes, Labels, GoneIsEmpty
<1>4. ServedIsAnnounced' /\ SentIsUnreferenced' /\ AnnouncedIsReferenced'
  BY <1>1, <1>2 DEF QueueInv, ServedIsAnnounced, SentIsUnreferenced,
     AnnouncedIsReferenced
<1>5. ReleasedDirIsWalked'
  BY <1>1, <1>2 DEF QueueInv, ReleasedDirIsWalked
<1>6. NoEmptyBlockStays'
  BY <1>1, <1>2 DEF QueueInv, NoEmptyBlockStays
<1> QED BY <1>3, <1>4, <1>5, <1>6 DEF QueueInv

(* The last file of a block takes its handler to the block's release. *)
LEMMA FileReleaseKeepsQueue ==
  ASSUME QueueInv, NEW h \in Handlers, release_attach_file(h)
  PROVE  QueueInv'
<1> DEFINE k == pkt[h]
<1>1. /\ pc[h] = "relfile" /\ k \in announced /\ k \in PktNos
      /\ uploads' = uploads /\ count' = count /\ announced' = announced
      /\ pkt' = pkt /\ file' = file /\ Walked' = Walked
  BY DEF release_attach_file, QueueInv, ServedIsAnnounced, QueueTypes,
     historyVars, serverVars, walkVars, Walked
<1>2. PICK label \in {"relblock", "refresh"} : pc' = [pc EXCEPT ![h] = label]
  BY DEF release_attach_file, Goto
<1>3. /\ files' \in [PktNos -> SUBSET Files]
      /\ \A j \in PktNos : j # k => files'[j] = files[j]
      /\ files[k] = {} => files'[k] = {}
      /\ files'[k] # files[k] => k \in uploads
      /\ files'[k] = {} /\ files[k] # {} => label = "relblock"
  <2>1. CASE refer_attach_file(pkt[h], file[h])
    <3>1. files' = [files EXCEPT ![k] = @ \ {file[h]}]
      BY <2>1 DEF release_attach_file
    <3>2. pc' = [pc EXCEPT ![h] = IF files'[k] = {} THEN "relblock"
                                                    ELSE "refresh"]
      BY <2>1 DEF release_attach_file, Goto
    <3>3. /\ pc'[h] = label
          /\ pc'[h] = IF files'[k] = {} THEN "relblock" ELSE "refresh"
      BY <1>2, <3>2, ThreadsDiffer DEF QueueInv, ThreadTypes, Labels
    <3> QED
      BY <1>1, <2>1, <3>1, <3>3 DEF QueueInv, QueueTypes, refer_attach_file
  <2>2. CASE ~refer_attach_file(pkt[h], file[h])
    BY <2>2 DEF release_attach_file, QueueInv, QueueTypes
  <2> QED BY <2>1, <2>2
<1>4. /\ pc'[h] = label /\ pc'[UI] = pc[UI]
      /\ \A g \in Handlers : g # h => pc'[g] = pc[g]
      /\ pc' \in [Threads -> Labels]
  BY <1>2, ThreadsDiffer DEF QueueInv, ThreadTypes, Labels
<1>5. QueueTypes' /\ ThreadTypes' /\ GoneIsEmpty'
  BY <1>1, <1>3, <1>4
  DEF QueueInv, QueueTypes, ThreadTypes, Labels, GoneIsEmpty
<1>6. ServedIsAnnounced' /\ SentIsUnreferenced' /\ AnnouncedIsReferenced'
  BY <1>1, <1>4 DEF QueueInv, ServedIsAnnounced, SentIsUnreferenced,
     AnnouncedIsReferenced
<1>7. ReleasedDirIsWalked'
  BY <1>1, <1>4 DEF QueueInv, ReleasedDirIsWalked
<1>8. NoEmptyBlockStays'
  <2> SUFFICES ASSUME NEW j \in uploads, files'[j] = {}
               PROVE  \E g \in Handlers : pc'[g] = "relblock" /\ pkt'[g] = j
    BY <1>1 DEF NoEmptyBlockStays
  <2>1. j \in PktNos
    BY DEF QueueInv, QueueTypes
  <2>2. CASE files[j] = {}
    <3>1. PICK g \in Handlers : pc[g] = "relblock" /\ pkt[g] = j
      BY <2>2 DEF QueueInv, NoEmptyBlockStays
    <3> QED BY <1>1, <1>4, <3>1
  <2>3. CASE files[j] # {}
    BY <1>1, <1>3, <1>4, <2>1, <2>3
  <2> QED BY <2>2, <2>3
<1> QED BY <1>5, <1>6, <1>7, <1>8 DEF QueueInv

LEMMA BlockReleaseKeepsQueue ==
  ASSUME QueueInv, NEW h \in Handlers, ReleaseEmptyBlock(h)
  PROVE  QueueInv'
<1> DEFINE k == pkt[h]
<1>1. /\ pc[h] = "relblock" /\ k \in announced /\ k \in PktNos
      /\ announced' = announced
      /\ pkt' = pkt /\ file' = file /\ Walked' = Walked
  BY DEF ReleaseEmptyBlock, QueueInv, ServedIsAnnounced, QueueTypes,
     historyVars, serverVars, walkVars, Walked
<1>2. /\ uploads' = uploads \ {k}
      /\ files' = IF k \in uploads THEN [files EXCEPT ![k] = {}] ELSE files
      /\ count' = IF k \in uploads THEN [count EXCEPT ![k] = 0] ELSE count
  BY <1>1, ReleaseDestroys DEF QueueInv, ReleaseEmptyBlock
<1>3. /\ pc'[h] = "refresh" /\ pc'[UI] = pc[UI]
      /\ \A g \in Handlers : g # h => pc'[g] = pc[g]
      /\ pc' \in [Threads -> Labels]
  BY ThreadsDiffer DEF ReleaseEmptyBlock, Goto, QueueInv, ThreadTypes, Labels
<1>4. QueueTypes' /\ ThreadTypes' /\ GoneIsEmpty'
  BY <1>1, <1>2, <1>3
  DEF QueueInv, QueueTypes, ThreadTypes, Labels, GoneIsEmpty
<1>5. ServedIsAnnounced' /\ ReleasedDirIsWalked'
  BY <1>1, <1>3 DEF QueueInv, ServedIsAnnounced, ReleasedDirIsWalked
<1>6. SentIsUnreferenced' /\ AnnouncedIsReferenced' /\ NoEmptyBlockStays'
  BY <1>1, <1>2, <1>3 DEF QueueInv, QueueTypes, SentIsUnreferenced,
     AnnouncedIsReferenced, NoEmptyBlockStays
<1> QED BY <1>4, <1>5, <1>6 DEF QueueInv

LEMMA HandlerKeepsQueue ==
  ASSUME QueueInv, NEW h \in Handlers, HandlerNext(h)
  PROVE  QueueInv'
<1>1. ASSUME NEW k \in PktNos, NEW f \in Files, ipmsg_tcp_recv_thread(h, k, f)
      PROVE  QueueInv'
  BY <1>1, RequestKeepsQueue
<1>2. CASE disable_pipe_signal(h)
  BY <1>2, HandlerElsewhere
  DEF Labels, disable_pipe_signal, historyVars, walkVars, Walked
<1>3. CASE TransferPiece(h)
  <2>1. /\ UNCHANGED <<queueVars, pkt, file, announced>>
        /\ pc[h] = "write" /\ Walked \subseteq Walked'
        /\ \/ Goto(h, "transfer")
           \/ Goto(h, "release") /\ <<pkt[h], file[h]>> \in Walked'
    BY <1>3 DEF TransferPiece, historyVars, Walked
  <2> QED BY <2>1, HandlerElsewhere DEF Labels
<1>4. CASE TransferCut(h)
  <2>1. CASE file[h] \in Dirs
    BY <1>4, <2>1, HandlerElsewhere
    DEF Labels, TransferCut, historyVars, walkVars, Walked
  <2>2. CASE file[h] \notin Dirs
    BY <1>4, <2>2, HandlerElsewhere
    DEF Labels, TransferCut, historyVars, walkVars, Walked
  <2> QED BY <2>1, <2>2
<1>5. CASE TransferFails(h)
  BY <1>5, HandlerElsewhere
  DEF Labels, TransferFails, historyVars, serverVars, walkVars, Walked
<1>6. CASE LockForRelease(h)
  <2>1. file[h] \in Dirs => <<pkt[h], file[h]>> \in Walked
    BY <1>6 DEF LockForRelease, QueueInv, ReleasedDirIsWalked
  <2> QED
    BY <1>6, <2>1, HandlerElsewhere
    DEF Labels, LockForRelease, historyVars, serverVars, walkVars, Walked
<1>7. CASE release_attach_file(h)
  BY <1>7, FileReleaseKeepsQueue
<1>8. CASE ReleaseEmptyBlock(h)
  BY <1>8, BlockReleaseKeepsQueue
<1>9. CASE RefreshAfterRelease(h)
  BY <1>9, HandlerElsewhere
  DEF Labels, RefreshAfterRelease, historyVars, serverVars, walkVars, Walked
<1>10. CASE PassOver(h)
  <2>1. /\ UNCHANGED <<queueVars, pkt, file, announced>>
        /\ pc' = pc /\ Walked' = Walked
    BY <1>10 DEF PassOver, historyVars, Walked
  <2> QED
    BY <2>1 DEF queueVars, QueueInv, QueueTypes, ThreadTypes, Labels,
       GoneIsEmpty, ServedIsAnnounced, SentIsUnreferenced,
       AnnouncedIsReferenced, ReleasedDirIsWalked, NoEmptyBlockStays
<1> QED
  BY <1>1, <1>2, <1>3, <1>4, <1>5, <1>6, <1>7, <1>8, <1>9, <1>10
  DEF HandlerNext, ReleaseStep

LEMMA NextQueueInv == QueueInv /\ [Next]_vars => QueueInv'
<1> SUFFICES ASSUME QueueInv, [Next]_vars PROVE QueueInv'
  OBVIOUS
<1>1. CASE UNCHANGED vars
  BY <1>1 DEF vars, QueueInv, QueueTypes, ThreadTypes, Labels, GoneIsEmpty,
     ServedIsAnnounced, SentIsUnreferenced, AnnouncedIsReferenced,
     ReleasedDirIsWalked, Walked, NoEmptyBlockStays
<1> QED BY <1>1, UIKeepsQueue, HandlerKeepsQueue DEF Next

LEMMA QueueIsKept == Spec => []QueueInv
BY InitQueueInv, NextQueueInv, PTL DEF Spec

(* A block whose last file has been fetched does not stay in the queue: as *)
(* long as it is there, the handler that took the file is about to release *)
(* it.                                                                     *)
THEOREM EmptyBlocksGo == Spec => []NoEmptyBlockStays
BY QueueIsKept, PTL DEF QueueInv

(* The block of a message that was sent is referenced outside do_send's    *)
(* window, and nothing refers to a block that is gone.                     *)
THEOREM SentBlocksAreReferenced == Spec => []SentBlockIsReferenced
<1>1. QueueInv => SentBlockIsReferenced
  BY DEF QueueInv, QueueTypes, GoneIsEmpty, AnnouncedIsReferenced,
     SentBlockIsReferenced
<1> QED BY <1>1, QueueIsKept, PTL

-----------------------------------------------------------------------------
(* Only a handler's release takes a file off a block that stays, and that  *)
(* comes after a walk of a directory has come to its end.                  *)
LEMMA StepKeepsDirs ==
  ASSUME QueueInv, [Next]_vars, NEW k \in PktNos, NEW d \in Dirs,
         d \in files[k], d \notin files'[k], k \in uploads'
  PROVE  <<k, d>> \in Walked
<1>1. k \in uploads
  BY DEF QueueInv, QueueTypes, GoneIsEmpty
<1>2. files' # files
  OBVIOUS
<1>3. ASSUME NEW j \in PktNos, NEW force \in BOOLEAN,
             release_attach_file_block(j, force)
      PROVE  FALSE
  <2>1. uploads' = uploads \ {j} /\ files'[k] = files[k]
    BY <1>3, ReleaseDestroys DEF QueueInv, QueueTypes
  <2> QED BY <2>1
<1>4. CASE UINext /\ UNCHANGED serverVars
  <2>1. ASSUME NEW j \in PktNos, NEW fs \in (SUBSET Files) \ {{}},
               do_send(j, fs)
        PROVE  FALSE
    BY <1>1, <2>1 DEF do_send, add_upload_queue, QueueInv, QueueTypes
  <2>2. CASE UIStep
    BY <1>2, <2>2 DEF UIStep, do_send_ref, ref_attach_file_block,
       download_monitor_update_state, queueVars
  <2>3. CASE on_create_download_monitor \/ on_downloadMonitor_destroy
             \/ on_updateBtn_clicked
    BY <1>2, <2>3 DEF on_create_download_monitor, on_downloadMonitor_destroy,
       on_updateBtn_clicked, queueVars
  <2> QED
    BY <1>3, <1>4, <2>1, <2>2, <2>3
   
    DEF UINext, ipmsg_proc_release_files_msg,
        download_monitor_delete_btn_action
<1>5. ASSUME NEW h \in Handlers, HandlerNext(h)
      PROVE  <<k, d>> \in Walked
  <2>1. CASE release_attach_file(h)
    <3>1. files' = [files EXCEPT ![pkt[h]] = @ \ {file[h]}] /\ pc[h] = "relfile"
      BY <1>2, <2>1 DEF release_attach_file
    <3>2. pkt[h] = k /\ file[h] = d
      BY <3>1 DEF QueueInv, QueueTypes
    <3> QED BY <3>1, <3>2 DEF QueueInv, ReleasedDirIsWalked
  <2>2. CASE ReleaseEmptyBlock(h)
    <3>1. pkt[h] \in PktNos
      BY <2>2 DEF ReleaseEmptyBlock, QueueInv, ServedIsAnnounced, QueueTypes
    <3> QED BY <1>3, <2>2, <3>1 DEF ReleaseEmptyBlock
  <2> QED
    BY <1>2, <1>5, <2>1, <2>2
    DEF HandlerNext, ReleaseStep, ipmsg_tcp_recv_thread, disable_pipe_signal,
        TransferPiece, PassOver, TransferCut, TransferFails, LockForRelease,
        RefreshAfterRelease, queueVars
<1> QED BY <1>2, <1>4, <1>5 DEF Next, vars

(* A lost connection never takes a directory off the queue: a handler      *)
(* takes it off only after some walk of it has come to its end.            *)
THEOREM CutDirectoriesStay == Spec => CutDirectoryStays
<1>1. QueueInv /\ [Next]_vars =>
        [\A k \in PktNos, d \in Dirs :
           /\ d \in files[k] /\ d \notin files'[k]
           /\ k \in uploads'
           => <<k, d>> \in delivered \cup incomplete]_vars
  BY StepKeepsDirs DEF Walked
<1> QED BY <1>1, QueueIsKept, PTL DEF Spec, CutDirectoryStays

-----------------------------------------------------------------------------
(* The monitor.  A refresh makes it right; the queue changes behind its    *)
(* back only in do_send, by a RELEASEFILES, or on the way to a refresh.    *)
LEMMA InitViewInv == Init => ViewInv
BY DEF Init, QueueInit, ViewInv

(* A step that touches neither the queue nor the monitor. *)
LEMMA ViewElsewhere ==
  ASSUME QueueInv, ViewInv, NEW h \in Handlers, NEW label, Goto(h, label),
         UNCHANGED <<uploads, files, monitor_wins, view, revoked, announced>>,
         pkt'[UI] = pkt[UI], pc[h] \notin {"relblock", "refresh"}
  PROVE  ViewInv'
<1>1. /\ pc'[UI] = pc[UI]
      /\ \A g \in Handlers : g # h => pc'[g] = pc[g]
  BY ThreadsDiffer DEF Goto, QueueInv, ThreadTypes
<1>2. InWindow' = InWindow
  BY <1>1 DEF InWindow
<1>3. Rows(uploads, files)' = Rows(uploads, files)
  BY DEF Rows
<1> QED BY <1>1, <1>2, <1>3 DEF ViewInv

(* A handler on its way to the refresh: nothing is promised. *)
LEMMA ViewPending ==
  ASSUME QueueInv, NEW h \in Handlers, NEW label \in {"relblock", "refresh"},
         Goto(h, label)
  PROVE  ViewInv'
<1>1. pc'[h] = label
  BY ThreadsDiffer DEF Goto, QueueInv, ThreadTypes
<1> QED BY <1>1 DEF ViewInv

LEMMA ViewRefreshed ==
  ASSUME update_download_view, UNCHANGED <<uploads, files, monitor_wins>>
  PROVE  ViewInv'
BY DEF update_download_view, ViewInv, Rows

LEMMA HandlerKeepsView ==
  ASSUME QueueInv, ViewInv, NEW h \in Handlers, HandlerNext(h)
  PROVE  ViewInv'
<1>1. ASSUME NEW k \in PktNos, NEW f \in Files, ipmsg_tcp_recv_thread(h, k, f)
      PROVE  ViewInv'
  <2>1. pkt'[UI] = pkt[UI]
    BY <1>1, ThreadsDiffer DEF ipmsg_tcp_recv_thread
  <2> QED
    BY <1>1, <2>1, ViewElsewhere
    DEF ipmsg_tcp_recv_thread, queueVars, monitorVars, historyVars
<1>2. CASE disable_pipe_signal(h)
  BY <1>2, ViewElsewhere
  DEF disable_pipe_signal, queueVars, monitorVars, historyVars
<1>3. CASE TransferPiece(h)
  BY <1>3, ViewElsewhere
  DEF TransferPiece, queueVars, monitorVars, historyVars
<1>4. CASE TransferCut(h)
  BY <1>4, ViewElsewhere DEF TransferCut, queueVars, monitorVars, historyVars
<1>5. CASE TransferFails(h)
  BY <1>5, ViewElsewhere
  DEF TransferFails, queueVars, monitorVars, historyVars
<1>6. CASE LockForRelease(h)
  BY <1>6, ViewElsewhere DEF LockForRelease, queueVars, historyVars
<1>7. CASE release_attach_file(h)
  BY <1>7, ViewPending DEF release_attach_file
<1>8. CASE ReleaseEmptyBlock(h)
  BY <1>8, ViewPending DEF ReleaseEmptyBlock
<1>9. CASE RefreshAfterRelease(h)
  BY <1>9, ViewRefreshed DEF RefreshAfterRelease, queueVars
<1>10. CASE PassOver(h)
  BY <1>10 DEF PassOver, queueVars, monitorVars, historyVars, ViewInv,
     InWindow, Rows
<1> QED
  BY <1>1, <1>2, <1>3, <1>4, <1>5, <1>6, <1>7, <1>8, <1>9, <1>10
  DEF HandlerNext, ReleaseStep

(* The UI thread goes on to a refresh. *)
LEMMA ViewToBeUpdated ==
  ASSUME QueueInv, NEW label \in {"update", "refresh"}, Goto(UI, label)
  PROVE  ViewInv'
<1>1. pc'[UI] = label
  BY ThreadsDiffer DEF Goto, QueueInv, ThreadTypes
<1> QED BY <1>1 DEF ViewInv

LEMMA SendKeepsView ==
  ASSUME QueueInv, ViewInv, NEW k \in PktNos,
         NEW fs \in (SUBSET Files) \ {{}}, do_send(k, fs)
  PROVE  ViewInv'
<1>1. /\ uploads' = uploads \cup {k}
      /\ files' = [files EXCEPT ![k] = fs]
      /\ pkt' = [pkt EXCEPT ![UI] = k]
      /\ k \notin uploads /\ k \notin announced
      /\ pc[UI] = "main"
      /\ view' = view /\ monitor_wins' = monitor_wins /\ revoked' = revoked
  BY DEF do_send, add_upload_queue, monitorVars
<1>2. /\ pkt'[UI] = k
      /\ \/ announced' = announced \cup {k} /\ pc'[UI] = "sent"
         \/ announced' = announced /\ pc'[UI] = "main"
      /\ \A h \in Handlers : pc'[h] = pc[h]
  BY <1>1, ThreadsDiffer DEF do_send, Goto, QueueInv, ThreadTypes, Labels
<1>3. Rows(uploads, files)' = Rows(uploads, files) \cup {k}
  BY <1>1 DEF Rows, QueueInv, QueueTypes
<1>4. InWindow = {}
  BY <1>1 DEF InWindow
<1>5. InWindow' = IF pc'[UI] = "sent" THEN {k} ELSE {}
  BY <1>2 DEF InWindow
<1> QED BY <1>1, <1>2, <1>3, <1>4, <1>5 DEF ViewInv

LEMMA UIKeepsView ==
  ASSUME QueueInv, ViewInv, UINext, UNCHANGED serverVars
  PROVE  ViewInv'
<1>1. CASE do_send_ref
  <2>1. CASE pkt[UI] \in uploads
    BY <1>1, <2>1, ViewToBeUpdated DEF do_send_ref
  <2>2. CASE pkt[UI] \notin uploads
    <3>1. /\ uploads' = uploads /\ files' = files /\ view' = view
          /\ monitor_wins' = monitor_wins /\ revoked' = revoked
          /\ announced' = announced
          /\ pc[UI] = "sent" /\ Goto(UI, "main")
      BY <1>1, <2>2 DEF do_send_ref, ref_attach_file_block, monitorVars,
         historyVars
    <3>2. pc'[UI] = "main" /\ \A h \in Handlers : pc'[h] = pc[h]
      BY <3>1, ThreadsDiffer DEF Goto, QueueInv, ThreadTypes, Labels
    <3>3. InWindow = {pkt[UI]} /\ InWindow' = {}
      BY <3>1, <3>2 DEF InWindow
    <3>4. Rows(uploads, files)' = Rows(uploads, files)
          /\ pkt[UI] \notin Rows(uploads, files)
      BY <2>2, <3>1 DEF Rows
    <3> QED BY <3>1, <3>2, <3>3, <3>4 DEF ViewInv
  <2> QED BY <2>1, <2>2
<1>2. CASE download_monitor_update_state
  <2>1. CASE Goto(UI, "refresh")
    BY <2>1, ViewToBeUpdated
  <2>2. CASE update_download_view /\ UNCHANGED <<queueVars, monitor_wins>>
    BY <2>2, ViewRefreshed DEF queueVars
  <2> QED BY <1>2, <2>1, <2>2 DEF download_monitor_update_state
<1>3. ASSUME NEW k \in PktNos, NEW fs \in (SUBSET Files) \ {{}}, do_send(k, fs)
      PROVE  ViewInv'
  BY <1>3, SendKeepsView
<1>4. ASSUME NEW k \in PktNos, ipmsg_proc_release_files_msg(k)
      PROVE  ViewInv'
  <2>1. /\ uploads' = uploads \ {k} /\ revoked' = revoked \cup {k}
        /\ files' = IF k \in uploads THEN [files EXCEPT ![k] = {}] ELSE files
        /\ view' = view /\ monitor_wins' = monitor_wins /\ pc' = pc
        /\ pkt' = pkt /\ announced' = announced
    BY <1>4, ReleaseDestroys
    DEF QueueInv, ipmsg_proc_release_files_msg, monitorVars
  <2>2. Rows(uploads, files)' = Rows(uploads, files) \ {k}
    BY <2>1 DEF Rows, QueueInv, QueueTypes
  <2>3. InWindow' = InWindow
    BY <2>1 DEF InWindow
  <2> QED BY <2>1, <2>2, <2>3 DEF ViewInv
<1>5. CASE on_create_download_monitor
  BY <1>5, ViewToBeUpdated DEF on_create_download_monitor
<1>6. CASE on_downloadMonitor_destroy
  BY <1>6 DEF on_downloadMonitor_destroy, ViewInv
<1>7. CASE on_updateBtn_clicked
  BY <1>7, ViewToBeUpdated DEF on_updateBtn_clicked
<1>8. ASSUME NEW k \in PktNos, download_monitor_delete_btn_action(k)
      PROVE  ViewInv'
  BY <1>8, ViewToBeUpdated DEF download_monitor_delete_btn_action
<1> QED
  BY <1>1, <1>2, <1>3, <1>4, <1>5, <1>6, <1>7, <1>8 DEF UINext, UIStep

LEMMA NextViewInv == QueueInv /\ ViewInv /\ [Next]_vars => ViewInv'
<1> SUFFICES ASSUME QueueInv, ViewInv, [Next]_vars PROVE ViewInv'
  OBVIOUS
<1>1. CASE UNCHANGED vars
  BY <1>1 DEF vars, ViewInv, InWindow, Rows
<1> QED BY <1>1, UIKeepsView, HandlerKeepsView DEF Next

(* When no thread is about to refresh it, the open monitor shows the queue,*)
(* except for rows of blocks that a RELEASEFILES took away, and for blocks *)
(* whose message could not be sent.                                        *)
THEOREM MonitorIsCurrent == Spec => []MonitorShowsQueue
<1>1. ViewInv => MonitorShowsQueue
  BY DEF ViewInv, InWindow, MonitorShowsQueue
<1> QED BY <1>1, QueueIsKept, InitViewInv, NextViewInv, PTL DEF Spec
=============================================================================
