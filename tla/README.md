# A TLA+ model of g2ipmsg

g2ipmsg is an IP Messenger client for GTK 2 / GNOME 2, written in C. Hosts on a
LAN find each other by UDP broadcasts, send each other messages in UDP
datagrams with a delivery check and retransmission, and fetch attached files
over TCP. This directory models the program's protocol logic in TLA+, checks
the models with TLC and proves the central ones with TLAPS.

Paths below are relative to the repository (`src/protocol.c` is
`src/src/protocol.c` in `PROJECT.json`, whose `map` gives, for every definition
that models code, the file and lines it stands for).

## 1. Inventory

### Threads and locks

`main.c` starts two threads: the UI thread (GTK's main loop) and the TCP
acceptor (`ipmsg_tcp_recv_init`), which starts one thread per connection.
Everything that is not a TCP transfer runs on the UI thread: datagrams
are read by a GIO watch (`udp.c`, `protocol.c`), retransmission is a GLib
timer, and so on. Two kinds of concurrency follow:

* *nested main loops*. A modal dialog (`gtk_dialog_run`) or an explicit
  `while (gtk_events_pending()) gtk_main_iteration()` in the middle of a handler
  runs other handlers below it on the same stack. The static mutexes of GLib are
  not recursive, so a handler that asks for a mutex its own stack holds blocks
  for ever.
* *threads*. The upload queue, the download monitor and the process's signal
  dispositions are shared by the UI thread and the connection threads.
  `gdk_threads_init` is never called, so `gdk_threads_enter` in the connection
  threads excludes nothing.

`read_message` removes its watch while it dispatches a datagram; two datagram
handlers therefore never nest, but a datagram handler may nest in a timer's
or a user's handler.

### Components

| Component (files) | State | Operations | What makes it correct | Model |
|---|---|---|---|---|
| Sent-message registry (`msginfo.c`) | `message_list`, `msglst_mutex`, a timer | register, unregister on RECVMSG, retry sweep with its dialogs | a message is registered exactly until acknowledged or given up; one entry per number; retries end in a question to the user; sweeps end | `SentMessages`, `MessageDelivery`, `SentMessagesRefinement` |
| Packet numbers (`protocol.c` `ipmsg_get_pkt_no`) | `pkt_no`, the wall clock | next number | no number is given out twice while the first is in use | `PacketNumbers`, `NumberedMessages` |
| User list and presence protocol (`userdb.c`, `protocol.c`) | the list with options and keys per host | BR_ENTRY, ANSENTRY, BR_ABSENCE, BR_EXIT, GETPUBKEY, ANSPUBKEY, update, start, exit | one entry per host; lists converge; keys that were asked for are known; answers do not answer answers | `UserList` |
| Host list exchange (`userdb.c`, `protocol.c`) | none besides the list | GETLIST / ANSLIST paging | every user is learned; the exchange ends; keys are asked for once | `HostList` |
| Upload queue and download monitor (`fileattach.c`, `menu.c`) | `uploads`, reference counts, monitor windows, two mutexes | add, reference, release, delete, refresh | no empty block stays; references match blocks; the monitor shows the queue; no thread waits for ever | `UploadQueue` |
| TCP file server (`tcp.c`) | a thread per connection, SIGPIPE disposition | request, transfer, release | a directory whose transfer is cut stays offered; no thread waits for ever | `TcpServer`, `DirTransfer` |
| Message transmission (`protocol.c`, `ipmsg.c`, `udp.c`, `netcommon.c`) | sockets | dispatch, send, broadcast | a message is acknowledged if and only if it was shown; it goes to whom it was written for | in `SentMessages`, `UserList`, `MessageCrypt` |
| File download (`downloads.c`) | download windows, the file being written, current directory of a transfer | connect, receive file or directory stream, ask, retry, cancel | the receiver ends where it began with all files; it never leaves the directory; what is reported as complete is; old files stay | `DirTransfer`, `Receiving` |
| Received-message windows (`recvmsg.c`, `callbacks.c`) | stored / displayed / opened lists, three mutexes | receive, store, show, unseal, close, close all | lists agree with windows; seals hide; what was read is logged | `RecvWindows`, `Receiving` |
| Encryption (`cryptif.c`, `pubcrypt.c`, `symcrypt.c`, `pbkdf2.c`) | keys in memory, key files, passwords, keys and capabilities of peers | make, store, load keys; ask and answer; encrypt, sign, verify, decrypt | halves of a key match; keys survive restarts; peers know current keys; hosts that agree can read each other; no needless clear text | `MessageCrypt` |
| Message windows (`callbacks.c`, `uicommon.c`, `userdb.c`) | the view of the list, its selection, buttons, attachment editor | fill, sort by a column, select, send, priorities, attach | a message goes to the selected hosts and to no others; windows show the list; locked messages are sealed | `MessageWindows` |
| Message parsing, codecs (`message.c`, `base64.c`, `codeset.c`, `util.c`) | none | split fields, decode | bounds, inverse functions | what becomes of a message that cannot be decoded: `MessageCrypt` |
| Message log (`logfile.c`) | a file, a mutex | append | each read message is in it | when a message is logged: `RecvWindows` |
| Host settings (`hostinfo.c`) | GConf keys | get, set | – | the settings the other parts read: `UserList`, `MessageCrypt`, `RecvWindows`, `MessageWindows` |
| Startup, lock file (`main.c`, `ipmsg.c`) | lock file | start, exit | one instance | start and exit in `UserList` and `MessageCrypt` |
| Absence texts (`fuzai.c`) | stored strings | edit | – | no |
| Dialogs and menus (`dialog.c`, `uicommon.c`, `menu.c`, `interface.c`) | widgets | handlers | – | the handlers that change the state above |
| Sound, D-Bus, screen saver, applet, tray | – | desktop I/O | – | no |

How they interact: `do_send` (callbacks.c) builds a packet with a number from
`ipmsg_get_pkt_no`, puts attachments in the upload queue, registers the packet
and sends it; the peer's RECVMSG comes back through the dispatcher and takes it
out of the registry; the peer's TCP connection is served from the upload queue;
a transfer that ends releases the file and refreshes the monitor. Every
announcement goes through the dispatcher to the user list, from which the
dial-up addressees of the next broadcast, the rows of every message window and
the keys of the next message are taken. A message that arrives becomes a
window, whose attachments are fetched from the sender's TCP server in a handler
below which the main loop goes on.

The hard behaviours, each at its source line and with the properties that watch
it, are the `hazards` of `PROJECT.json`.

## 2. Modules

| Module | Models | Uses |
|---|---|---|
| `MessageDelivery` | abstract: unsent, pending, acknowledged or abandoned; delivered | |
| `SentMessages` | `msginfo.c`, sending and RECVMSG in `protocol.c`, the two dialogs, UDP, the peer | |
| `SentMessagesRefinement` | the mapping from the registry to `MessageDelivery` | `SentMessages` |
| `PacketNumbers` | `ipmsg_get_pkt_no` | |
| `NumberedMessages` | composition: registry with real numbers | `SentMessages`, `PacketNumbers` |
| `SentMessagesProofs` | theorems | the registry, the mapping and the composition |
| `UserList` | presence protocol among hosts | |
| `HostList` | GETLIST / ANSLIST | |
| `UploadQueue` | queue, monitor, the UI thread's operations on them | |
| `TcpServer` | composition: connection threads beside the UI thread | `UploadQueue` |
| `DirTransfer` | a directory's stream: the sender's walk in `tcp.c`, the receiver in `downloads.c`, the connection between them | |
| `RecvWindows` | windows of received messages, from receipt to closing | |
| `Receiving` | composition: the transfers that run below those windows | `RecvWindows` |
| `MessageCrypt` | key files, keys of peers, algorithms, encrypted messages | |
| `MessageWindows` | windows in which messages are written, and their views of the list | |
| `UserListProofs`, `HostListProofs`, `DirTransferProofs`, `TcpServerProofs`, `ReceivingProofs`, `MessageCryptProofs`, `MessageWindowsProofs` | theorems | the module each is named after |
| `MC_*` | model values and constant definitions for TLC | |

Operators are named after the C functions they stand for. Where a function has
a dialog or an unlock in its middle, each part between two such points is an
action (`SweepFirst`, `SweepSendFails`, `SendErrorShown`, ... are the parts of
`retry_messages_once`); otherwise a handler is one action.
An operator named `Mutant...` is not part of the model: it is the operation
after it with a plausible mistake, and `PROJECT.json` names the property that
fails when it takes the operation's place.

### Correspondence

*SentMessages.* `message_list` is the C list; `retry_messages` the local list
the sweep moves visited entries to; `ui` the position of the UI thread, whose
values `senderr` and `faildialog` are the two dialogs of a sweep, `stuck` a
thread waiting for its own mutex and `aborted` the failed assertion of
`register_sent_message`. `retry_remains`, `first` and `seq_no` are the fields of
`message_info_t`. `net` is a set of datagrams: delivery may keep the datagram
(duplication) and take any (reordering), `Lose` drops one. The peer
is the same program. `outcome` and `ackRead` are history variables. What follows
the message's NUL in a datagram is one of "none", "files", "junk".

*NumberedMessages.* A send takes the number of `ipmsg_get_pkt_no`; the
clock ticks and may be set back; other packets use numbers up.

*UserList.* `users[i]` is host i's list; an entry keeps address, options and
whether keys are known. `hostinfo_get_normal_entry_flags`, `userdb_update_user`
(which drops the keys), the ignored address of `ipmsg_send_entry_packets` (an
ANSENTRY is broadcast, and before its receiver is added) and the shared bit of
`IPMSG_ABSENCEOPT` and `IPMSG_SENDCHECKOPT` are as in the code. `Foreign` hosts
run another client, which differs only in sending announcements in absence
mode and BR_EXIT. `net` is a bag, because a host may broadcast the same
announcement twice. `apart` and `keyDue` record which pairs of hosts lost
something of an exchange, or announced themselves with broadcasts that do not
reach the other; the properties are about the other pairs.

*HostList.* Numbers are those in the datagrams: `start` of GETLIST is
zero-based, ANSLIST carries the last index of the page (0 when it is the last
user) and the last index of the list, and the client takes the first of them
for the page's start.

*UploadQueue, TcpServer.* `uploads`, `files` and `count` are the blocks, their
files and reference counts; each section under `upload_queue_mutex` is one
step. `monitor_win_mutex` is held across steps and modelled as a lock with an
owner. A handler thread goes through `idle`, `transfer`, `write` (inside
`disable_pipe_signal` .. `enable_pipe_signal`), `release`, `relfile`,
`relblock`, `refresh`. The walk of a directory ends in one of two ways: its connection is
lost (`TransferCut`), or it comes to its end, having passed over (`PassOver`,
`passed`) what could not be opened or read, of which `send_directory` and
`read_directory_files` tell nobody. `delivered` and `incomplete` are
histories of what came to its end without and with such a gap. The UI thread goes through `main`, `sent` (between sending and
`ref_attach_file_block`), `update`, `refresh`.

*DirTransfer.* `stack` is the sender's recursion of `send_directory`: what each
call has still to send, files before directories. `stream` is the connection, a
sequence of units: a header, or a piece of a file's content. A write waits for
room in it (`Window`), since `wait_socket` is compiled to return at once and a
blocking write then waits. The receiver's `current_dir` is its path below
`top_dir`, `receiving` its position: between headers, in a file, or one of its
ends ("done"; "short", an incomplete file for which the program returns 0 all
the same; "error"). `excess` is by how much a header overstates its own length:
`create_response` counts the name before `send_header` converts it, and
`parse_dir_request` believes the count, so that the beginning of the next unit
is dropped with the header. A unit without its beginning, or a piece where a
header is expected, may be read as any header in `Garbage`, as one of an
unknown kind, as the end, or not at all; and so may content that is by chance
text with three colons. `%x` of a 64-bit size is `% SizeLimit`. The errors of
`open`, `write`, dialogs and the closed window all leave the loop by `Stop`.
The tree is what the walk comes to (`ReachAssumption`), each node in one directory;
a link to a directory above it, which `GNOME_VFS_FILE_INFO_FOLLOW_LINKS` has followed
until the path is too long, is left out.
`disturbed` is a history variable: it tells that something outside the two
programs went wrong.

*RecvWindows, Receiving.* `stack` is the UI thread's stack of handlers that are
inside a main loop of their own: a password or error dialog of a seal, or a
transfer, which runs the main loop between any two pieces. Only the top goes on
by itself; the user reaches windows unless a modal dialog is anywhere in the
stack (`UserFree`). `view`, `dl`, `displayed`, `opened` are the windows and the
lists of `recvmsg.c`; `flags` is `sender_info`'s copy of the message's flags, which
opening the seal clears; `logged` tells at which of its two times a message was
logged. A transfer's position is in its stack entry: `connect`, `request`,
`reading`, and the dialogs `overwrite`, `failed`, `complete`, `diropen`,
`opendir`. `disk` maps names to contents, a sequence of pieces; an existing file
is opened without being truncated, and two transfers may have one file open. In a
transfer, `pos` counts the pieces read and `wrote` those written: a short write is not
taken up again, and the piece then missing. A read that fails after its peek
ends the loop as the end of the file does. `post_download_operation` compares what was
written with the offered size, and only reports a file of which the two agree. An
attachment entry with too few fields ends its list (`Rows`), as
`parse_download_string` has it. A directory is one step here and the subject of
`DirTransfer`.

*MessageCrypt.* `files` are a host's key files: the run in which the private and
the public half were made, and what locks the private one.
`ipmsg_pem_passwd_call_back` returns 1 as the length of the password, so that
only its first character locks a file. `pcrypt_crypt_init_keys` is a start: what
cannot be loaded, or does not match, is made and stored anew;
`StopWhileStoring` is a program that dies between the two files of a key.
`known[i][j]` is what host i's list has of j; an announcement replaces the entry and drops
the key. `Choice` walks a table from its strong or its weak end, by the
sender's policy. Of a text that cannot be converted nothing is sent: it is not
encrypted, and `build_ipmsg_packet`, which converts it once more to send it in the
clear, gives the packet up (`SentInClear`). `ipmsg_decrypt_message` says what the destination makes of a
datagram; whatever it is, the datagram is used up. `d.short` is a signature
whose number begins with a zero byte. `userdb_wait_public_key` does not wait: an
entry that has capabilities has a key. Hosts are online and hear
each other; BR_EXIT and absence are the subject of `UserList`.

*MessageWindows.* `users` and `prio` are the list, `rows[w]` and `selected[w]` the
tree view of a window. Every change of the list goes through
`update_user_entry`, which gives the view a new model and so drops the selection, and
which returns early for an empty list. `do_send` is one step of
the visit of the selected rows; when a message fails, `ipmsg_err_dialog` runs
the main loop and the visit is an entry of `stack` (`row` is where it stands,
`stop` that the model under it was replaced or sorted). A click on a column's header
sorts the rows of that window, in the model into any order, and takes the selection along
(`on_messageUserTree_clicked`, `resorted`; in the program a first click only chooses the
column to sort by). The view is sorted by priority, then by group and by what the
view settings name. These two are abstracted to `key`, the place of each host among those
of its priority: it may change with a host's entry (`Renamed`) and with
the settings (`on_configApplyBtn_clicked`), of which windows are not told. `drawn` is
the order a view was filled by. `uploads` are blocks as sets of
files, any subset of the editor's, since a file may vanish. A row
beyond the view, or an editor that is gone, ends the program, which is no step.

## 3. Runs

| Run | Instance | What it shows |
|---|---|---|
| `sent_messages` | two messages, one with an attachment, two retries | every interleaving of sends, acknowledgements, sweeps, dialogs and network faults keeps the registry right (`RegisteredUntilSettled`, `OneEntryPerNumber`, `AskedWhenExhausted`, `SettledIsNotResent`, ...), implements `MessageDelivery`, tells the user about what stays unacknowledged and ends its sweeps |
| `ack_in_dialog` | same, one retry | finding: an acknowledgement read while a sweep shows a dialog blocks the UI thread |
| `numbered` | clock to 3, period 3, 2 numbers | no collision unless the clock is set back or the period passes |
| `tcp_server` | two connections, a file and a directory, the UI thread | references and releases match (`NoEmptyBlockStays`, `SentBlockIsReferenced`, `CutDirectoryStays`), the monitor shows the queue, and no order of threads blocks one for ever unless the delete button was pressed (`TransfersAndUIEnd`) |
| `dir_transfer` | three directories, two files of 0, 2 or 3 pieces, 3 being the size that a header cannot tell | an undisturbed transfer copies the tree (`FilesWhereTheyBelong`, `DoneIsWhole`), the receiver is always where the sender was (`ReceiverFollows`), both sides end (`CopyEnds`); a disturbed one creates nothing outside its directory (`StaysBelowTop`) |
| `user_list` | one g2ipmsg host, another client on a dial-up host, 4 operations | lists and keys converge for pairs that lost nothing, and traffic ends |
| `host_list` | lists up to 7 users, 1 change | which users an exchange learns, that it asks for a key once, and ends |
| `receiving` | two windows for three messages (locked with a file; a directory and a file of the same name; sealed, not to be logged, with an unreadable attachment list), an old file of that name, three pieces long; reads and writes that fail or come short | lists, seals and log follow the windows in every nesting of dialogs and transfers; what is reported as complete is the file; old files stay unless their user agreed |
| `refused_overwrite` | same | finding: a file that was not to be overwritten is removed |
| `crypt` | two hosts set alike, set for speed, or one with a setting that is overruled; no files, unlocked or locked ones; two restarts, one change, one message | keys match, survive restarts and are known to the peers; hosts that agree can read each other; nothing goes out in the clear without reason |
| `message_windows` | two hosts, one on dial-up, two priorities, one window, two clicks on Send inside each other, two orders of the hosts, three changes of list, settings, order or buttons | messages go to the selected hosts, to each of them, and windows show the list, in the order they were filled by or a header was clicked for |
| `priority_rows` | three hosts, one message | finding: setting priorities hits a user who was not selected |

### Bounds

* *Two messages.* The registry is searched by number and swept in order: a
  second message is needed for a wrong head, a wrong removal or a number in both
  lists; a third adds no new relation between entries, and the theorems hold
  for any number. Two retries make a sweep that only counts down differ
  from one that asks; the program uses more.
* *Clock and counter.* Three seconds and two messages are enough for a number to
  come back, by a step back or by the end of the period; the period in the
  program is 100000 seconds.
* *Two connections, two files, one block.* Each section works on one block and
  one file; two handlers on the same file, on different files of the same block
  and against the UI thread are the cases. Rows of different blocks are
  independent.
* *Two hosts, four operations.* Four operations are: both start, one changes
  (exit, crash, absence, update, message), one comes back. Entries of
  different hosts do not touch each other; the dial-up flag and the
  other client bring in every branch of the sending code.
* *Seven users.* Pages have up to two users (`start` to `start + 1`
  inclusive), so that the pattern of asked-for pages repeats every three users;
  seven has all remainders twice. One change at any moment is enough to
  leave the pattern.

* *A tree of three directories.* The top has a file and two directories, one of
  them empty, the other with a file: entering, returning with and without
  siblings left, and returning to the end. Files of no, two and three pieces,
  with three connection places, let a file, the header before it and the one
  behind it be in flight together. One retry makes first and last try differ
  (the program has 200).
* *Two windows, three messages.* A transfer in one window with the other's seal, dialogs
  or transfer below it is the smallest nesting; a second window for the
  same message is its copy, and only that of the sealed one, which lists nothing to
  fetch, is made. Files of one and two pieces against an old file of three
  tell whole files from overwritten and from mixed ones.
* *Two hosts for encryption.* Keys and settings matter pairwise. Three runs of
  one host are a first start, one that finds its files and one after
  something was done to them; the other's state follows from datagrams.
  The settings cover both policies, both outcomes of every choice, an
  empty intersection and a setting that is overruled.
* *One window, two clicks.* A click inside the error dialog of another is the
  smallest nesting; three changes (of the list, the settings, the rows' order, the
  priorities, the buttons or the editor) may come at any point of it. Two
  hosts have two orders, both as keys and as sorted rows, and one may be hidden. For priorities a third
  host is the one that moves up.

A run that ends does so because the operations are bounded or all messages
settled, so deadlock is not checked by TLC's own test; what may never stop is
stated as liveness (`SweepEnds`, `UserIsTold`, `TransfersAndUIEnd`,
`TrafficEnds`, `ExchangeEnds`, `CopyEnds`).

### Fairness

* `SentMessages`: weak fairness of the timer and of the sweep. GLib runs a due
  timeout, the sweep is straight code, and a user answers a modal dialog, with
  either answer. Nothing is assumed of the network.
* `UserList`: a datagram in flight arrives or is lost.
* `HostList`: both programs handle what they receive.
* `TcpServer`: a thread that waits for `monitor_win_mutex` gets it if it is
  free again and again (strong fairness: glibc mutexes have no queue, but a
  waiter is not passed over for ever), and a thread that holds it goes on. No fairness of
  transfers, peers or the user.
* `DirTransfer`: the sender's thread and the receiver each go on when they can:
  both are straight loops around blocking calls. That the sender closes, that a file
  changes or cannot be written is never assumed, and neither that it is not.
* `Receiving`, `MessageCrypt`, `MessageWindows`: none. A handler below a dialog
  waits for the user, and a transfer for a peer that may never go on; every property of
  these modules is one of safety.

## 4. Findings

* **An acknowledgement in a dialog blocks the program** (`msginfo.c:74`).
  `retry_messages_once` holds `msglst_mutex` while its dialogs run a nested main
  loop; a RECVMSG read there locks it again. Sending a message from
  behind the non-modal error dialog does the same.
* **A refused overwrite removes the file** (`downloads.c:981`). `do_download`
  treats the answer "no" as a failure, and Cancel in the dialog that reports it
  unlinks the path.
* **Priorities go to the wrong user** (`callbacks.c:3258`).
  `update_prioriy_for_selection` uses row numbers it took before each priority it sets
  re-sorts the view.

Modelled as they are, and covered by the passing properties or their
conditions rather than stated as disagreements with a text of the repository:

* *Registry and numbers.* Retransmissions are made by `g_strdup`, which stops
  before the attachment list (`msginfo.c:141`). A clock set back by a second
  between two messages gives both one number, and the assertion in
  `register_sent_message` (`msginfo.c:116`) aborts the program;
  `NumbersDoNotCollide` has its condition for this. The counter restarts with the
  process (`protocol.c:2033`).
* *Queue and server.* The monitor's delete button takes `monitor_win_mutex` twice
  (`menu.c:558`, `573`). Overlapping transfers leave SIGPIPE at its default
  (`tcp.c:575`). A RELEASEFILES does not refresh the monitor.
  `tcp_transfer_file` returns success after a failed write, so that a file, unlike a
  directory (`CutDirectoryStays`), is taken off the queue when its transfer was
  cut. A directory that cannot be opened or read, or a part of it, is passed over: the
  results are dropped (`tcp.c:395`, `431`), `send_directory` returns 0, and
  the directory is taken off the queue as if it had been sent (`tcp.c:761`). A file that shrinks while it is sent keeps its thread reading nothing
  for ever (`tcp.c:178`). `tcp_setup_client` does not close its socket when
  the connection fails.
* *Downloads.* A file that came short, by a short write or a failed read
  (`downloads.c:1150`, `1148`), is neither reported as complete nor as failed
  (`downloads.c:1001`), and stays on the disk.
* *Message windows.* A change of the view settings does not reach the open windows,
  which go on showing the old order until the next change of the list
  (`callbacks.c:3198`); that change also undoes what a header was clicked for.
* *Directory transfer.* The timeout ends each `recv`, but the loops around it set their counter again before
  they test it, or count below zero (`downloads.c:1283`, `1174`): a sender that closes
  in the middle can lock the receiver up, and `CopyEnds` is about the others. A
  directory of which a file was stored short is reported as complete
  (`downloads.c:1362`).
* *Presence.* The absence bit, and the delivery-check bit among a message's
  default flags, are one (`protocol.c:254`, `ipmsg.h:65,73`): announcements in
  absence mode, and BR_EXIT, are not broadcast. BR_ABSENCE and updates drop the keys of a host. An
  ANSENTRY does not reach a dial-up host that is not yet in the list.
* *Host list.* Every third user is missed when their number is a multiple of
  three (`Missed`), and the end mark does not end the exchange (`userdb.c:642`).
* *Encryption.* Switching the encryption of keys on does not lock files
  that exist. Hosts with different policies, speed and strength, refuse each
  other's signatures, made with a key the other was not sent; so is a signature that
  begins with a zero byte (`pubcrypt.c:1774`). `AgreedReadable` is about all others:
  the two settings may name different algorithms, as long as they do not change.
* *Received windows.* A locked message that is not also sealed would be read
  without being logged when locked messages are logged at their opening; this
  program sends none (`LockedIsSealed`). The rows removed after a
  transfer are those selected at its end (`downloads.c:1578`).

## 5. Theorems

| Theorem | States |
|---|---|
| `SentMessagesProofs.TypeCorrect` | `Spec => []TypeOK` |
| `SweepsCleanUp` | `Spec => []SweepCleansUp` |
| `AckedMessagesWereReceived` | `Spec => []AckedWasReceived` |
| `NumbersAreUnique` | `Spec => []OneEntryPerNumber` |
| `MessagesStayRegistered` | `Spec => []RegisteredUntilSettled` |
| `UserAskedWhenExhausted` | `Spec => []AskedWhenExhausted` |
| `SettledMessagesAreNotResent` | `Spec => SettledIsNotResent` |
| `RegistryImplementsDelivery` | with `UniqueNumbers`, `Spec => ImplementsDelivery` |
| `NumbersAreNotReused` | `NumberedSpec => []NumbersDoNotCollide` |
| `UserListProofs.HostsFindEachOther` | `Spec => []ListedUnlessApart` |
| `KeysAskedForCome` | `Spec => []KeysAskedForAreKnown` |
| `HostListProofs.KeyIsAskedOnce` | `Spec => []KeyAskedOnce` |
| `WholeListIsLearned` | with `Length = 1`, `Spec => []WholeListUnlessThirds` |
| `DirTransferProofs.NothingOutsideTop` | `Spec => []StaysBelowTop` |
| `FilesAreInPlace` | `Spec => []FilesWhereTheyBelong` |
| `SidesStayInStep` | `Spec => []ReceiverFollows` |
| `EndedIsWhole` | `Spec => []DoneIsWhole` |
| `TcpServerProofs.EmptyBlocksGo` | `Spec => []NoEmptyBlockStays` |
| `SentBlocksAreReferenced` | `Spec => []SentBlockIsReferenced` |
| `MonitorIsCurrent` | `Spec => []MonitorShowsQueue` |
| `CutDirectoriesStay` | `Spec => CutDirectoryStays` |
| `MessageWindowsProofs.SentToSelected` | `Spec => []SentToChosen` |
| `LockedAreSealed` | `Spec => []LockedIsSealed` |
| `EveryoneIsServed` | `Spec => ServedUnlessDisturbed` |
| `ListIsShown` | `Spec => []WindowsShowList` |
| `MessageCryptProofs.KeysArePairs` | `Spec => []PairsMatch` |
| `KeysAreKept` | `Spec => []KeysSurviveRestarts` |
| `KnownKeysAreCurrent` | `Spec => []KeysKnownAreCurrent` |
| `AgreedMessagesAreReadable` | `Spec => []AgreedReadable` |
| `ClearOnlyWithoutKey` | `Spec => PlainOnlyWithoutKey` |
| `ReceivingProofs.ListsAreTrue` | `Spec => []ListsFollowWindows` |
| `SealsHide` | `Spec => []SealHides` |
| `ReadMessagesAreLogged` | `LocksAreSeals => (Spec => []ReadIsLogged)` |
| `ReportedFilesAreWhole` | `Spec => []ReportedIsWhole` |
| `OldFilesAreKept` | `OldIsNotOffered => (Spec => OldFilesKept)` |

They hold for all values of the constants that the named assumptions of the
modules admit: any messages, retries and numbers unique or not
(`ConstantsAssumption`), any tree, sizes, names and garbage (`TreeAssumption`,
`ReachAssumption`, `GarbageAssumption`), any connections, files and directories
(`UploadAssumption`), any hosts, settings, key files, failures and bounds
(`CryptAssumption`), any hosts, groups, priorities and windows
(`HostsAssumption`, `PriosAssumption`), any messages, attachment lists and
windows (`WindowsAssumption`), any offers of files (`OfferAssumption`), any
presence flags and reach of broadcasts (`HostsAssumption` of `UserList`), any
number of users on a server (`HostListAssumption`), any clock period
(`NumbersAssumption`). Three theorems have a hypothesis of their own, and so
has the refinement (see below). `Length = 1` is the length of a page in the source (two users,
counted from zero; `userdb.c:1136`): which users go missing depends on it, and
`Missed` is about that length. `OldIsNotOffered` says that no file
there at first is made of pieces of one offered file alone: if one was, was
removed by the Cancel of a dialog (`refused_overwrite`), and fetched, the new
file would look like the old one to the property, which compares contents. `LocksAreSeals` says that a message that is
locked is sealed, which `LockedAreSealed` proves of the messages this program sends.

*The registry.* None of the properties is inductive alone. That a
number has one entry needs that the two lists are disjoint and each without
repetition (`NumbersKept`), since a sweep moves entries from one to the other;
that in turn needs that nothing is registered during a sweep except through the
mutex (`SweepCleansUp`). That the user is asked exactly when retries are used up
needs that the dialogs belong to a head entry (`DialogHasHead`) and that no
other entry is exhausted (`RetriesLeft`). Registration until settlement is
stated on the sets of numbers of the lists (`UnsettledKept`) and carried over to
positions by `RegisteredIsListed`. That an acknowledged message was received needs that an
acknowledgement in flight is genuine (`AcksAreGenuine`). `RegistryInv` is their
conjunction with `TypeOK`. Lemmas on sequences of entries (append, tail, head
replacement, removal) say what each list operation does to the set of numbers
and to distinctness; one lemma per part of the invariant then goes through
the actions. For the refinement, `StatusIs` expresses the abstract status
without the lists, `NetIsSent` says that only sent messages are in flight, and
every action maps to one of the abstract steps or a stutter. `UniqueNumbers` is
needed there: a reused number would turn an acknowledged message into a pending
one, which `MessageDelivery` has no step for. That numbers do not collide is the
invariant `NumberedInv`: every number used is at most the clock plus the
counter (`NumbersBelow`), which both only grow until the clock is set back or
its period ends; so a number in the registry is below the next one given.

*Presence.* `UserInv`. Two hosts of which one is not yet listed have the
announcement of one, or the answer to it, in flight (`FoundInv`), in whatever
order the datagrams overtake each other: an answer is read after its reader has been
listed by the sender, or else the sender's own announcement is still to be
read. Keys that are due are known, or the question or its answer is
in flight (`KeysInv`); an announcement that throws keys away asks for them again. A
goodbye in flight is of a host that is not running (`ExitsAreOver`), or
a host that came back would be unlisted. When nothing is in flight, the
properties are what is left.

*The host list.* `KeyAskedOnce` needs only that a known user is not asked
for. `ExchangeInv` says where an undisturbed exchange is: one datagram in flight,
a request or its answer, for a page that was reached (`PageInFlight`), and what
the client knows by then (`Reached`, `Learned`, `Covered`): on a first pass all
users before the page but every third one, and on the second, which the
mistaken end mark starts, all of them.

*`NothingOutsideTop`.* The invariant is `BelowInv`. Nothing can be misread before
the receiver has entered the top directory, because the header of that is what the
sender writes first: `TopComesFirst` ties the unread stream to a receiver that has read nothing. From then on every
path begins with `Top`, since headers only append to it and a return that
empties it ends the transfer (`InTop`); what the headers say no longer matters.
One lemma covers the sender, one the faults, and three the receiver (headers, what
is taken for headers, everything else).

*Directory transfers with which nothing goes wrong.* `CopyInv`. What has been written
and not yet read is a stretch of the walk: there is a run of places, one
before and one after each unit in flight, each a path of the tree with what is
still due of the file being read, that begins where the receiver is and ends where
the sender is (`Trace`, `InStep`). A header can only come where nothing is due, a
piece only where something of its file is (`Leads`); so no piece is misread, and a
file that is complete has its own pieces. The sender adds a place at the
end (`TraceGrows`), the receiver takes the first away (`TraceShrinks`). The run
comes back to the top only at its end, so the receiver cannot end
early. `NothingLost` is the walk itself: of every directory that is with the
receiver or on its way, each entry is too, or waits in a call of
`send_directory` (`WaitsIn`). When nothing is on its way and no call is left, what
the receiver has is closed under going down, and `ReachAssumption` says that from
`Top` this reaches every node. For `SidesStayInStep`, `DirAfter` is a recursive
function: the run of places shows that it exists, and the least place at which it
could differ from the run that it does not (`TraceGivesPlace`).

*The upload queue.* `QueueInv`. An empty block goes when its handler releases it
because a block has one reference at most; that needs that `do_send` finds its
block unreferenced (`SentIsUnreferenced`), that nothing refers to a block
that is gone (`GoneIsEmpty`), and that a message a handler works on is known to
a peer and so cannot be queued again (`ServedIsAnnounced`). A directory on its
way off the queue was walked to the end (`ReleasedDirIsWalked`). For the monitor, `ViewInv`
extends the promise to `do_send`'s window, in which the new block has no row
yet; no fact about the mutex is needed, because a refresh reads the queue in
one step.

*Message windows.* `SendInv`. A handler's `row` and `due` are about a view that
may have been replaced below it: the hosts it has still to serve are those of the
rows ahead (`DueIsAhead`), which a new model makes none of by stopping the
visit, and selected rows show hosts that were chosen (`PickedAreChosen`). Locks
need seals in the buttons (`LockNeedsSeal`) as well as in handlers under way
(`SealsKept`). `ShowInv` adds the list that is shown: of a window that was sorted it
keeps that its rows are the view's in another order.

*Keys.* `PairsMatch` needs only the types of keys. That keys are kept is an invariant
of the files, not of the memory: of a host that nobody has tampered with, the
files are either none and the host has not run, or those of the first run and
their lock opens (`StoredInv`); a start then finds what the first has made.
That known keys are current needs that every answer in flight from a running
host carries its current key (`AnsweredAreCurrent`), which holds because a start
outlasts what is in flight, and that an entry has a key only once its host's
start was heard (`KnownInv`). `AgreementInv` is about the algorithms: a question
in flight names its sender's setting (`AskedWithSetting`), so that both hosts
choose the RSA type of their keys from the same candidates, by the same
policy, and choose the same (`AnswerAgreed`, `FineEntry`, `ChoiceIsOne`); a message is signed with the key
of the type it is encrypted with (`WellEncrypted`), which therefore is the
key its reader has asked for. It holds of hosts that have not changed their
settings, whatever the others do (`AlgorithmsKept`). For messages in the
clear, an entry with a key also has one symmetric algorithm that was asked for
(`AnswerFits`): `KeyIsUsed` shows that the encryption of a text then finds all it
needs, and `ClearIsNotSent` that no other step adds a message in the clear.

*Received windows.* `WindowsInv`. The lists follow windows because a modal
dialog is only ever the innermost handler (`ShapeInv`), a window shows at most
one error dialog of its seal, and that before it is listed as opened
(`DialogsInv`): otherwise a window could be destroyed below a
handler that lists it afterwards. Seals need that a window that was not shown has no
download window and is not opened (`ClosedInv`), and that the sender is told
only of messages opened somewhere (`ToldInv`). `LogInv` says that a message was logged at
its receipt or is still to be logged at its opening. All handlers, transfers
included, change the stack by pushing, popping or mapping entries;
the lemmas at the head of the module say once what each does to them.
`FilesInv` is about what transfers write: a file that its handler made and that no
other has opened holds what its handler has written, which is all it has read if no
write was short (`SoFar`, `Progress`), so that one of the offered size is whole; and one
it did not make is one the user agreed to overwrite (`FrameOK`); of two transfers, at most the one
that has a file to itself writes to it (`SoleInv`). That old files are kept is an
action property over it, one lemma for each of the steps that write or remove.

*Only model-checked.* The liveness properties `UserIsTold`, `SweepEnds`,
`TransfersAndUIEnd`, `CopyEnds`, `TrafficEnds` and `ExchangeEnds`: temporal
reasoning under fairness, and with it ENABLED, is out of the prover's reach, as are
induction over recursively defined data and modules with RECURSIVE operators. Every invariant and action property of the passing runs, and the
refinement, is stated by a theorem.

## 6. Plan and limits

Modelled: the registry, numbers, presence, host list, upload queue, TCP server,
directory transfer, received windows with their transfers, encryption, message
windows. What could be added:

1. *Composition.* `MessageWindows` sends; `SentMessages` registers. One module with
   both would show which messages of a selection are registered when an error
   dialog nests a sweep.
2. *Liveness* of the host that waits in a dialog: what a user who does answer gets
   out of a download.

Not modelled, and why:

* *Field splitting, character conversion, base64, absence texts, progress
  numbers, the layout of windows:* strings into strings, with no state that the
  components above depend on. That a text may not be convertible, a message not
  decodable and an attachment list cut short is in the models.
* *The arithmetic of OpenSSL:* keys and ciphers are names that match or do not.
* *The lock file* (`ipmsg.c`): one `flock` that is tried once at start and kept.
* *GETINFO, GETABSENCEINFO, SENDINFO* and the menu items that send them: each is one
  request and one answer, which leave no state on either side.
* *The threads' use of GTK.* `gdk_threads_init` is never called (`menu.c:601`), so
  what the monitor's refresh does to GTK's own structures is undefined; the
  models have the refresh as one step.
* *`update_cached_prio`* frees a pointer it has not initialised on one path;
  priorities are read as set.
* *The wait for a key* never waits: the key is stored in one step with the
  capabilities that are looked up first; and the path of
  `userdb_get_public_key_by_addr` that keeps `userdb_mutex` (`userdb.c:1372`) is taken when
  `g_strdup` returns NULL, which it does not.
* *The multicast option, sound, D-Bus, screen saver, applet and tray:* I/O with
  nothing to relate. `interface.c` and `support.c` are generated by Glade.
