----------------------------- MODULE DirTransfer -----------------------------
(***************************************************************************)
(* A directory is fetched over one TCP connection: tcp.c walks the tree    *)
(* and writes a header for every directory it enters, every file and every *)
(* return to the parent, each file's header followed by its bytes;         *)
(* downloads.c reads the headers and follows, creating what they name.     *)
(*                                                                         *)
(* The stream is a sequence of units: a header, or a piece of a file.  A   *)
(* header tells its own length.  It is computed before the name is         *)
(* converted to the peer's character set, so that for some names it counts *)
(* more than is sent.  G2IPMSG_ENABLE_WAIT_SOCK is never defined:          *)
(* wait_socket returns at once, and a write waits for room.                *)
(*                                                                         *)
(* A definition named Mutant... is a plausible mistake in the operation    *)
(* that follows it, kept to show which property would notice it.           *)
(***************************************************************************)
EXTENDS Integers, Sequences, SequencesExt

CONSTANTS
  Nodes,        \* the files and directories of the tree
  Top,          \* the directory that is fetched
  Dirs,         \* those that are directories
  Children,     \* of every directory, what is in it
  Sizes,        \* what a file's size may be, in pieces
  SizeLimit,    \* a header's size is a number below this: 2^32 pieces
  Convertible,  \* nodes whose name may be shorter in the peer's character set
  Garbage,      \* headers that what is not one may be taken for
  Window,       \* bound: units the connection holds
  Retry         \* TCP_DOWNLOAD_RETRY, 200 in the source

Files == Nodes \ Dirs

ASSUME TreeAssumption ==
  /\ Top \in Dirs /\ Dirs \subseteq Nodes
  /\ Convertible \subseteq Nodes
  /\ Children \in [Dirs -> SUBSET (Nodes \ {Top})]
  /\ \A n \in Nodes \ {Top} : \E d \in Dirs :
       n \in Children[d] /\ \A e \in Dirs : n \in Children[e] => e = d
  /\ Sizes \subseteq Nat /\ SizeLimit \in Nat \ {0}
  /\ Window \in Nat \ {0} /\ Retry \in Nat \ {0}

\* Nodes are what the walk comes to: all are below Top.
ASSUME ReachAssumption ==
  \A S \in SUBSET Nodes :
    Top \in S /\ (\A d \in S \cap Dirs : Children[d] \subseteq S) => S = Nodes

VARIABLES
  size,         \* of every file, its size when it was listed
  shortened,    \* nodes whose name does get shorter
  stack,        \* the sender's calls of send_directory
  sending,      \* where the sender is
  left,         \* what it has still to send of the current file
  stream,       \* units sent and not yet read
  ended,        \* how the sender has closed: "no", "fin" or "reset"
  current_dir,  \* the receiver's directory, below top_dir
  receiving,    \* where the receiver is
  file,         \* the header of the file it reads
  got,          \* the units it has taken for that file's
  wait_max,     \* tries left; -1 stands for all negative values
  created,      \* the directories it has created
  kept,         \* the files it has stored
  disturbed     \* history: something went wrong on the way

treeVars     == <<size, shortened>>
senderVars   == <<stack, sending, left>>
receiverVars == <<current_dir, receiving, file, got, wait_max, created, kept>>
vars         == <<treeVars, senderVars, stream, ended, receiverVars, disturbed>>

-----------------------------------------------------------------------------
(* create_response and send_header.  The size is printed with %x, which    *)
(* shows the low 32 bits of it.                                            *)
Header(kind, n) ==
  [kind |-> kind, node |-> n,
   size |-> IF kind = "REGULAR" THEN size[n] % SizeLimit ELSE 0,
   excess |-> IF kind # "RETPARENT" /\ n \in shortened THEN 1 ELSE 0]

Piece(n) == [kind |-> "piece", node |-> n, size |-> 0, excess |-> 0]

Units == [kind : {"DIR", "REGULAR", "RETPARENT", "piece"}, node : Nodes,
          size : 0..(SizeLimit - 1), excess : {0, 1}]

ASSUME GarbageAssumption == Garbage \subseteq Units

Write(u) ==
  /\ Len(stream) < Window
  /\ stream' = Append(stream, u)

Call(d, entries) ==
  [dir |-> d, files |-> entries \ Dirs, dirs |-> entries \cap Dirs]

NoFile == [kind |-> "none"]

Init ==
  /\ size \in [Files -> Sizes]
  /\ shortened \in SUBSET Convertible
  /\ stack = <<>>
  /\ sending = "start"
  /\ left = <<>>
  /\ stream = <<>>
  /\ ended = "no"
  /\ current_dir = <<>>
  /\ receiving = "header"
  /\ file = NoFile
  /\ got = <<>>
  /\ wait_max = Retry
  /\ created = {}
  /\ kept = {}
  /\ disturbed = FALSE

-----------------------------------------------------------------------------
(* The sender's handler thread.                                            *)

Caller == Last(stack)

(* send_directory(d): its header, then its entries.  A directory that      *)
(* cannot be read is taken for empty.                                      *)
send_directory(d, callers) ==
  /\ Write(Header("DIR", d))
  /\ \/ stack' = Append(callers, Call(d, Children[d])) /\ UNCHANGED disturbed
     \/ stack' = Append(callers, Call(d, {})) /\ disturbed' = TRUE
  /\ sending' = "walk"
  /\ UNCHANGED left

tcp_transfer_dir == sending = "start" /\ send_directory(Top, <<>>)

(* The files come first.  One whose name cannot be converted is passed     *)
(* over.                                                                   *)
read_directory_files(f) ==
  /\ sending = "walk"
  /\ f \in Caller.files
  /\ stack' = [stack EXCEPT ![Len(stack)].files = @ \ {f}]
  /\ \/ /\ Write(Header("REGULAR", f))
        /\ sending' = "file"
        /\ left' = [i \in 1..size[f] |-> Piece(f)]
        /\ UNCHANGED disturbed
     \/ /\ disturbed' = TRUE
        /\ UNCHANGED <<sending, left, stream>>

(* tcp_transfer_file, piece by piece. *)
SendPiece ==
  /\ sending = "file"
  /\ left # <<>>
  /\ Write(Head(left))
  /\ left' = Tail(left)
  /\ UNCHANGED <<stack, sending, disturbed>>

FileSent ==
  /\ sending = "file"
  /\ left = <<>>
  /\ sending' = "walk"
  /\ UNCHANGED <<stack, left, stream, disturbed>>

(* The file is not what the directory said: it cannot be opened or read to *)
(* the end, and its caller does not ask; or it has grown, and the last     *)
(* buffer is sent whole; or it has shrunk, and read returns 0 for ever.    *)
FileHasChanged ==
  /\ sending = "file"
  /\ left # <<>>
  /\ \/ left' = <<>> /\ UNCHANGED sending
     \/ ~disturbed /\ left' = Append(left, Head(left)) /\ UNCHANGED sending
     \/ sending' = "spinning" /\ UNCHANGED left
  /\ disturbed' = TRUE
  /\ UNCHANGED <<stack, stream>>

(* Then the subdirectories, each followed by a return to the parent. *)
SendSubdirectory(d) ==
  /\ sending = "walk"
  /\ Caller.files = {}
  /\ d \in Caller.dirs
  /\ send_directory(d, [stack EXCEPT ![Len(stack)].dirs = @ \ {d}])

MutantNoFinalReturn ==
  /\ sending = "walk"
  /\ Caller.files = {} /\ Caller.dirs = {}
  /\ IF Len(stack) = 1 THEN UNCHANGED stream
                       ELSE Write(Header("RETPARENT", Top))
  /\ stack' = Front(stack)
  /\ sending' = IF Len(stack) = 1 THEN "done" ELSE "walk"
  /\ UNCHANGED <<left, disturbed>>

(* The header names no directory.  finalize_send_directory returns from    *)
(* the top.                                                                *)
ReturnToParent ==
  /\ sending = "walk"
  /\ Caller.files = {} /\ Caller.dirs = {}
  /\ Write(Header("RETPARENT", Top))
  /\ stack' = Front(stack)
  /\ sending' = IF Len(stack) = 1 THEN "done" ELSE "walk"
  /\ UNCHANGED <<left, disturbed>>

(* A directory cannot be looked up, or its name not be converted: the walk *)
(* ends there, without a word to the receiver.                             *)
DirectoryFails ==
  /\ \/ sending = "start"
     \/ sending = "walk" /\ Caller.files = {} /\ Caller.dirs # {}
  /\ sending' = "failed"
  /\ disturbed' = TRUE
  /\ UNCHANGED <<stack, left, stream>>

(* The receiver has closed: the next header cannot be written. *)
SenderSeesClose ==
  /\ receiving \in {"done", "short", "error"}
  /\ sending \in {"walk", "file"}
  /\ sending' = "failed"
  /\ UNCHANGED <<stack, left, stream, disturbed>>

SenderStep ==
  /\ \/ tcp_transfer_dir
     \/ \E f \in Files : read_directory_files(f)
     \/ SendPiece
     \/ FileSent
     \/ \E d \in Dirs : SendSubdirectory(d)
     \/ ReturnToParent
     \/ SenderSeesClose
  /\ UNCHANGED <<treeVars, ended, receiverVars>>

(* The sender closes.  g2ipmsg itself never does, but its process may end; *)
(* as it has only peeked at the request, the peer's socket is then reset,  *)
(* and what has not been sent yet is dropped.                              *)
SenderCloses ==
  /\ ended = "no"
  /\ sending # "start"
  /\ sending' = IF sending = "done" THEN "done" ELSE "failed"
  /\ \/ ended' = "fin" /\ UNCHANGED stream
     \/ ended' = "reset" /\ stream' \in Prefixes(stream)
  /\ disturbed' = (disturbed \/ sending # "done" \/ stream' # stream)
  /\ UNCHANGED <<treeVars, stack, left, receiverVars>>

-----------------------------------------------------------------------------
(* The receiver, in the UI thread.                                         *)

(* The window is closed in a nested loop of the transfer, the user does    *)
(* not want a file or directory to be overwritten, or it cannot be         *)
(* created or written: the loop is left with an error.                     *)
Stop ==
  /\ receiving' = "error"
  /\ disturbed' = TRUE
  /\ UNCHANGED <<current_dir, file, got, wait_max, created, kept>>

NextHeader ==
  /\ receiving' = "header"
  /\ wait_max' = Retry

MutantFlat(h) ==
  /\ current_dir' = IF current_dir = <<>> THEN <<h.node>> ELSE current_dir
  /\ created' = created \cup {Append(current_dir, h.node)}
  /\ NextHeader
  /\ UNCHANGED <<file, got, kept>>

emulate_chdir(h) ==
  /\ current_dir' = Append(current_dir, h.node)
  /\ created' = created \cup {current_dir'}
  /\ NextHeader
  /\ UNCHANGED <<file, got, kept>>

(* check_end_condition compares the lengths of the two directories. *)
MutantEndsBelowTop(dir) == Len(dir) <= 1

MutantNeverEnds(dir) == FALSE

check_end_condition(dir) == dir = <<>>

(* create_parent_dir, and the end when that is the top. *)
create_parent_dir ==
  /\ current_dir' = Front(current_dir)
  /\ receiving' = IF check_end_condition(current_dir') THEN "done" ELSE "header"
  /\ wait_max' = Retry
  /\ UNCHANGED <<file, got, created, kept>>

(* do_download_regular_file begins. *)
OpenFile(h) ==
  /\ receiving' = "file"
  /\ file' = h
  /\ got' = <<>>
  /\ wait_max' = Retry
  /\ UNCHANGED <<current_dir, created, kept>>

FollowHeader(h) ==
  \/ h.kind = "DIR" /\ emulate_chdir(h)
  \/ h.kind = "RETPARENT" /\ create_parent_dir
  \/ h.kind = "REGULAR" /\ OpenFile(h)

(* As many bytes are dropped as the header says, or as many as are there:  *)
(* the excess takes the next unit away, or its beginning.  A header without *)
(* its beginning is as good as a piece of a file.                          *)
DropExcess(excess, rest) ==
  IF excess = 0 \/ rest = <<>>
    THEN {rest}
    ELSE {Tail(rest), [rest EXCEPT ![1] = Piece(@.node)]}

(* A header that has arrived whole. *)
parse_dir_request ==
  /\ receiving = "header"
  /\ stream # <<>>
  /\ Head(stream).kind # "piece"
  /\ stream' \in DropExcess(Head(stream).excess, Tail(stream))
  /\ \/ FollowHeader(Head(stream)) /\ UNCHANGED disturbed
     \/ Stop

(* Any text with three colons is a header.  One of an unknown kind is      *)
(* passed over; one that says it is empty ends the transfer without an     *)
(* error.  Bound: a piece is taken for one header.                         *)
Misread ==
  /\ receiving = "header"
  /\ stream # <<>>
  /\ Head(stream).kind = "piece"
  /\ stream' = Tail(stream)
  /\ \/ /\ \/ \E h \in Garbage : FollowHeader(h)
           \/ /\ NextHeader
              /\ UNCHANGED <<current_dir, file, got, created, kept>>
           \/ /\ receiving' = "done"
              /\ UNCHANGED <<current_dir, file, got, wait_max, created, kept>>
        /\ UNCHANGED disturbed
     \/ Stop

(* What is there is not a header: a piece of a file, the beginning of a    *)
(* header, or, once the tries are used up, nothing behind a FIN.  It is    *)
(* read again; wait_max is decremented without a look at its sign.         *)
ParseFails ==
  /\ receiving = "header"
  /\ \/ stream # <<>> /\ Head(stream).kind = "piece"
     \/ Len(stream) = 1
     \/ stream = <<>> /\ ended = "fin" /\ wait_max = 0
  /\ wait_max' = IF wait_max > 0 THEN wait_max - 1 ELSE -1
  /\ UNCHANGED <<current_dir, receiving, file, got, created, kept, stream,
                 disturbed>>

FirstRead == receiving = "header" \/ (receiving = "file" /\ got = <<>>)

(* Nothing there yet, or errno is left over from another call. *)
WaitAgain ==
  /\ FirstRead
  /\ wait_max > 0
  /\ wait_max' = wait_max - 1
  /\ UNCHANGED <<current_dir, receiving, file, got, created, kept, stream,
                 disturbed>>

(* recv has timed out as often as it may, or finds the connection reset.   *)
(* Within a file the tries start again with every timeout and every end of *)
(* file: retry_recv sets wait_max before it is tested.                     *)
GiveUp ==
  /\ stream = <<>>
  /\ \/ FirstRead /\ wait_max = 0 /\ ended = "no"
     \/ receiving = "header" /\ ended = "reset"
     \/ receiving = "file" /\ Len(got) < file.size /\ ended = "reset"
  /\ Stop
  /\ UNCHANGED stream

MutantReadsOn ==
  /\ receiving = "file"
  /\ Len(got) <= file.size
  /\ stream # <<>>
  /\ stream' = Tail(stream)
  /\ \/ /\ got' = Append(got, Head(stream))
        /\ UNCHANGED <<current_dir, receiving, file, wait_max, created, kept,
                       disturbed>>
     \/ Stop

(* Never more is read than the file still lacks. *)
ReadPiece ==
  /\ receiving = "file"
  /\ Len(got) < file.size
  /\ stream # <<>>
  /\ stream' = Tail(stream)
  /\ \/ /\ got' = Append(got, Head(stream))
        /\ UNCHANGED <<current_dir, receiving, file, wait_max, created, kept,
                       disturbed>>
     \/ Stop

(* The file is complete; or a write has stored less than it was given, and *)
(* do_download_directory returns what do_download_regular_file did: 0.     *)
FileComplete ==
  /\ receiving = "file"
  /\ Len(got) >= file.size
  /\ \/ /\ kept' = kept \cup {[dir |-> current_dir, node |-> file.node,
                              content |-> got]}
        /\ NextHeader
        /\ UNCHANGED <<current_dir, file, got, created, disturbed>>
     \/ /\ got # <<>>
        /\ receiving' = "short"
        /\ disturbed' = TRUE
        /\ UNCHANGED <<current_dir, file, got, wait_max, created, kept>>
     \/ Stop
  /\ UNCHANGED stream

ReceiverStep ==
  /\ \/ parse_dir_request
     \/ Misread
     \/ ParseFails
     \/ WaitAgain
     \/ GiveUp
     \/ ReadPiece
     \/ FileComplete
  /\ UNCHANGED <<treeVars, senderVars, ended>>

Next ==
  \/ SenderStep
  \/ /\ FileHasChanged \/ DirectoryFails
     /\ UNCHANGED <<treeVars, ended, receiverVars>>
  \/ SenderCloses
  \/ ReceiverStep

(* Both threads go on where they can.  That a file changes or a sender     *)
(* closes is not assumed, nor that it does not.                            *)
Spec ==
  Init /\ [][Next]_vars /\ WF_vars(SenderStep) /\ WF_vars(ReceiverStep)

-----------------------------------------------------------------------------

(* Nothing went wrong so far, and the headers say what they should. *)
Undisturbed ==
  ~disturbed /\ shortened = {} /\ \A f \in Files : size[f] < SizeLimit

IsPath(p) ==
  /\ p # <<>>
  /\ p[1] = Top
  /\ \A i \in 1..(Len(p) - 1) : p[i + 1] \in Children[p[i]]

(* Every file is stored in the directory it comes from, with its content:  *)
(* headers and pieces do not get mixed up, however the stream is cut into  *)
(* reads.                                                                  *)
FilesWhereTheyBelong ==
  Undisturbed => \A k \in kept :
    /\ IsPath(k.dir)
    /\ k.node \in Children[Last(k.dir)]
    /\ k.content = [i \in 1..size[k.node] |-> Piece(k.node)]

\* Where a unit leads to.
Follow(dir, u) ==
  CASE u.kind = "DIR"       -> Append(dir, u.node)
    [] u.kind = "RETPARENT" -> Front(dir)
    [] OTHER                -> dir

\* The receiver's directory when it has read k units more.
DirAfter[k \in 0..Len(stream)] ==
  IF k = 0 THEN current_dir ELSE Follow(DirAfter[k - 1], stream[k])

(* The receiver is where the sender was: the headers in flight lead from   *)
(* its directory to the sender's.                                          *)
ReceiverFollows ==
  Undisturbed => DirAfter[Len(stream)] = [i \in DOMAIN stack |-> stack[i].dir]

(* When the receiver has returned to the top it has everything, and the    *)
(* sender, who takes the directory off its queue, has come to its end too. *)
DoneIsWhole ==
  receiving = "done" /\ Undisturbed =>
    /\ {Last(p) : p \in created} = Dirs
    /\ {k.node : k \in kept} = Files
    /\ sending = "done"

(* Even when the two no longer agree where a header begins, the receiver   *)
(* creates nothing outside the directory it was told to fetch.             *)
StaysBelowTop ==
  \A p \in created \cup {k.dir : k \in kept} : p # <<>> /\ p[1] = Top

(* A transfer with which nothing goes wrong comes to its end on both       *)
(* sides, although each waits for the other.                               *)
CopyEnds == <>((receiving = "done" /\ sending = "done") \/ ~Undisturbed)
=============================================================================
