-------------------------- MODULE DirTransferProofs --------------------------
(***************************************************************************)
(* Whatever the tree, its names and its files are, and whatever goes wrong *)
(* on the way, a directory transfer creates nothing outside the directory  *)
(* that was asked for.                                                     *)
(*                                                                         *)
(* While nothing goes wrong, what has been written and not yet read leads  *)
(* from the receiver's place to the sender's, so that every file arrives   *)
(* whole and where it belongs; and what neither is with the receiver nor   *)
(* on its way waits in the sender's calls, so that the end is the whole    *)
(* tree.                                                                   *)
(***************************************************************************)
EXTENDS DirTransfer, SequenceTheorems, WellFoundedInduction, TLAPS

StreamType ==
  /\ size \in [Files -> Sizes]
  /\ left \in Seq(Units)
  /\ stream \in Seq(Units)
  /\ current_dir \in Seq(Nodes)

(* Before its first header the receiver will find that of Top, or nothing. *)
TopComesFirst ==
  /\ sending = "start" => stream = <<>>
  /\ current_dir = <<>> /\ receiving = "header" =>
       \/ stream = <<>> /\ sending \in {"start", "failed", "done"}
       \/ stream # <<>> /\ stream[1].kind = "DIR" /\ stream[1].node = Top

(* From then on it is below Top until it ends. *)
InTop ==
  /\ current_dir # <<>> => current_dir[1] = Top
  /\ receiving = "file" => current_dir # <<>>

BelowInv == StreamType /\ TopComesFirst /\ InTop /\ StaysBelowTop

-----------------------------------------------------------------------------
(* Headers and pieces are units. *)
LEMMA UnitTypes ==
  ASSUME StreamType
  PROVE  /\ \A n \in Nodes : Header("DIR", n) \in Units
         /\ \A n \in Files : Header("REGULAR", n) \in Units
         /\ Header("RETPARENT", Top) \in Units
         /\ \A n \in Nodes : Piece(n) \in Units
         /\ Top \in Nodes
<1>1. Top \in Nodes /\ Sizes \subseteq Nat /\ SizeLimit \in Nat /\ SizeLimit > 0
  BY TreeAssumption
<1>2. 0 \in 0..(SizeLimit - 1)
  BY <1>1
<1>3. ASSUME NEW n \in Files
      PROVE  size[n] % SizeLimit \in 0..(SizeLimit - 1)
  <2>1. size[n] \in Nat
    BY <1>1, <1>3 DEF StreamType
  <2> QED
    BY <1>1, <2>1
<1> QED
  BY <1>1, <1>2, <1>3 DEF Header, Piece, Units, Files

(* A sequence keeps its first element when something is appended. *)
LEMMA AppendKeepsFirst ==
  ASSUME NEW S, NEW s \in Seq(S), NEW e \in S
  PROVE  /\ Append(s, e) \in Seq(S)
         /\ Append(s, e) # <<>>
         /\ Append(s, e)[1] = IF s = <<>> THEN e ELSE s[1]
<1>1. CASE s = <<>>
  BY <1>1, AppendProperties, EmptySeq
<1>2. CASE s # <<>>
  <2>1. 1 \in 1..Len(s)
    BY <1>2, EmptySeq
  <2> QED
    BY <1>2, <2>1, AppendProperties
<1> QED
  BY <1>1, <1>2

(* So does a prefix of it that is not empty. *)
LEMMA PrefixKeepsFirst ==
  ASSUME NEW S, NEW s \in Seq(S), NEW k \in Int, k <= Len(s)
  PROVE  /\ SubSeq(s, 1, k) \in Seq(S)
         /\ SubSeq(s, 1, k) # <<>> => s # <<>> /\ SubSeq(s, 1, k)[1] = s[1]
<1>1. Len(s) \in Nat /\ \A i \in 1..k : s[i] \in S
  BY LenProperties, ElementOfSeq
<1>2. SubSeq(s, 1, k) \in Seq(S)
  BY <1>1, SubSeqProperties
<1>3. CASE k < 1
  BY <1>2, <1>3, SubSeqEmpty
<1>4. CASE k >= 1
  <2>1. 1 \in 1..(k - 1 + 1)
    BY <1>4
  <2>2. SubSeq(s, 1, k)[1] = s[1 + 1 - 1]
    BY <1>1, <2>1, SubSeqProperties
  <2>3. s # <<>>
    BY <1>1, <1>4, EmptySeq
  <2> QED
    BY <1>2, <2>2, <2>3
<1> QED
  BY <1>3, <1>4

-----------------------------------------------------------------------------
(* What the sender does to the stream: it writes the header of Top first,  *)
(* and behind what is there afterwards.                                    *)
LEMMA SenderAppends ==
  ASSUME StreamType, SenderStep
  PROVE  /\ UNCHANGED <<size, receiverVars>>
         /\ left' \in Seq(Units)
         /\ \/ /\ sending = "start" /\ sending' = "walk"
               /\ stream' = Append(stream, Header("DIR", Top))
            \/ /\ sending \in {"walk", "file"} /\ sending' # "start"
               /\ \/ stream' = stream /\ (sending' = "failed" =>
                         receiving \in {"done", "short", "error"})
                  \/ \E u \in Units : stream' = Append(stream, u)
<1>1. UNCHANGED <<size, receiverVars>>
  BY DEF SenderStep, treeVars
<1>2. ASSUME tcp_transfer_dir
      PROVE  /\ left' \in Seq(Units)
             /\ sending = "start" /\ sending' = "walk"
             /\ stream' = Append(stream, Header("DIR", Top))
  BY <1>2 DEF tcp_transfer_dir, send_directory, Write, StreamType
<1>3. ASSUME NEW f \in Files, read_directory_files(f)
      PROVE  /\ left' \in Seq(Units)
             /\ sending = "walk" /\ sending' \in {"walk", "file"}
             /\ \/ stream' = stream
                \/ \E u \in Units : stream' = Append(stream, u)
  <2>1. Header("REGULAR", f) \in Units /\ Piece(f) \in Units
    BY UnitTypes DEF Files
  <2>2. size[f] \in Nat
    BY TreeAssumption DEF StreamType
  <2>3. [i \in 1..size[f] |-> Piece(f)] \in Seq(Units)
    BY <2>1, <2>2, SeqDef
  <2> QED
    BY <1>3, <2>1, <2>3 DEF read_directory_files, Write, StreamType
<1>4. ASSUME SendPiece
      PROVE  /\ left' \in Seq(Units)
             /\ sending = "file" /\ sending' = "file"
             /\ \E u \in Units : stream' = Append(stream, u)
  <2>1. left \in Seq(Units) /\ left # <<>>
    BY <1>4 DEF SendPiece, StreamType
  <2>2. Head(left) \in Units /\ Tail(left) \in Seq(Units)
    BY <2>1, HeadTailProperties
  <2> QED
    BY <1>4, <2>2 DEF SendPiece, Write
<1>5. ASSUME FileSent
      PROVE  /\ left' \in Seq(Units)
             /\ sending = "file" /\ sending' = "walk"
             /\ stream' = stream
  BY <1>5 DEF FileSent, StreamType
<1>6. ASSUME NEW d \in Dirs, SendSubdirectory(d)
      PROVE  /\ left' \in Seq(Units)
             /\ sending = "walk" /\ sending' = "walk"
             /\ \E u \in Units : stream' = Append(stream, u)
  <2>1. Header("DIR", d) \in Units
    BY UnitTypes, TreeAssumption
  <2> QED
    BY <1>6, <2>1 DEF SendSubdirectory, send_directory, Write, StreamType
<1>7. ASSUME ReturnToParent
      PROVE  /\ left' \in Seq(Units)
             /\ sending = "walk" /\ sending' \in {"walk", "done"}
             /\ \E u \in Units : stream' = Append(stream, u)
  BY <1>7, UnitTypes DEF ReturnToParent, Write, StreamType
<1>8. ASSUME SenderSeesClose
      PROVE  /\ left' \in Seq(Units)
             /\ sending \in {"walk", "file"} /\ sending' = "failed"
             /\ stream' = stream
             /\ receiving \in {"done", "short", "error"}
  BY <1>8 DEF SenderSeesClose, StreamType
<1> QED
  BY <1>1, <1>2, <1>3, <1>4, <1>5, <1>6, <1>7, <1>8 DEF SenderStep

(* The sender leaves the receiver's first header first. *)
LEMMA SenderKeepsBelow ==
  ASSUME BelowInv, SenderStep
  PROVE  BelowInv'
<1>1. StreamType /\ UNCHANGED <<size, receiverVars>> /\ left' \in Seq(Units)
  BY SenderAppends DEF BelowInv
<1>2. InTop' /\ StaysBelowTop' /\ current_dir' \in Seq(Nodes)
  BY <1>1 DEF BelowInv, StreamType, InTop, StaysBelowTop, receiverVars
<1>3. stream' \in Seq(Units) /\ TopComesFirst'
  <2>1. CASE /\ sending = "start" /\ sending' = "walk"
             /\ stream' = Append(stream, Header("DIR", Top))
    <3>1. stream = <<>> /\ Header("DIR", Top) \in Units
      BY <1>1, <2>1, UnitTypes DEF BelowInv, TopComesFirst
    <3>2. stream' \in Seq(Units) /\ stream' # <<>>
             /\ stream'[1] = Header("DIR", Top)
      BY <1>1, <2>1, <3>1, AppendKeepsFirst DEF StreamType
    <3> QED
      BY <2>1, <3>2 DEF TopComesFirst, Header
  <2>2. ASSUME sending \in {"walk", "file"}, sending' # "start",
               NEW u \in Units, stream' = Append(stream, u)
        PROVE  stream' \in Seq(Units) /\ TopComesFirst'
    <3>1. /\ stream' \in Seq(Units)
          /\ stream' # <<>>
          /\ stream # <<>> => stream'[1] = stream[1]
      BY <1>1, <2>2, AppendKeepsFirst DEF StreamType
    <3> QED
      BY <1>1, <2>2, <3>1 DEF BelowInv, TopComesFirst, receiverVars
  <2>3. CASE /\ sending \in {"walk", "file"} /\ sending' # "start"
             /\ stream' = stream
             /\ sending' = "failed" => receiving \in {"done", "short", "error"}
    BY <1>1, <2>3 DEF BelowInv, StreamType, TopComesFirst, receiverVars
  <2> QED
    BY <1>1, <2>1, <2>2, <2>3, SenderAppends
<1> QED
  BY <1>1, <1>2, <1>3 DEF BelowInv, StreamType

(* So do a change of the tree and the sender's closing. *)
LEMMA FaultKeepsBelow ==
  ASSUME BelowInv,
         \/ /\ FileHasChanged \/ DirectoryFails
            /\ UNCHANGED <<treeVars, ended, receiverVars>>
         \/ SenderCloses
  PROVE  BelowInv'
<1>1. CASE FileHasChanged /\ UNCHANGED <<treeVars, ended, receiverVars>>
  <2>1. left \in Seq(Units) /\ left # <<>>
    BY <1>1 DEF FileHasChanged, BelowInv, StreamType
  <2>2. <<>> \in Seq(Units) /\ Append(left, Head(left)) \in Seq(Units)
    BY <2>1, EmptySeq, HeadTailProperties, AppendProperties
  <2> QED
    BY <1>1, <2>1, <2>2 DEF FileHasChanged, BelowInv, StreamType,
       TopComesFirst, InTop, StaysBelowTop, treeVars, receiverVars
<1>2. CASE SenderCloses
  <2>1. stream \in Seq(Units) /\ Len(stream) \in Nat
    BY LenProperties DEF BelowInv, StreamType
  <2>2. \A s \in Prefixes(stream) :
          s \in Seq(Units) /\ (s # <<>> => stream # <<>> /\ s[1] = stream[1])
    BY <2>1, PrefixKeepsFirst DEF Prefixes
  <2>3. /\ stream' \in Seq(Units)
        /\ stream' # <<>> => stream # <<>> /\ stream'[1] = stream[1]
        /\ stream' = stream \/ stream' \in Prefixes(stream)
    BY <1>2, <2>1, <2>2 DEF SenderCloses
  <2>4. sending # "start" /\ sending' \in {"done", "failed"}
    BY <1>2 DEF SenderCloses
  <2> QED
    BY <1>2, <2>3, <2>4 DEF SenderCloses, BelowInv, StreamType,
       TopComesFirst, InTop, StaysBelowTop, treeVars, receiverVars
<1>3. CASE DirectoryFails /\ UNCHANGED <<treeVars, ended, receiverVars>>
  BY <1>3 DEF DirectoryFails, BelowInv, StreamType, TopComesFirst, InTop,
     StaysBelowTop, treeVars, receiverVars
<1> QED
  BY <1>1, <1>2, <1>3

-----------------------------------------------------------------------------
(* Following a header keeps the receiver below Top: the first leads into   *)
(* it, a return never leaves it without ending the transfer.               *)
LEMMA FollowKeepsBelow ==
  ASSUME BelowInv, receiving = "header", stream # <<>>,
         UNCHANGED <<treeVars, senderVars, ended>>,
         stream' \in Seq(Units),
         NEW h \in Units, FollowHeader(h) \/ Stop,
         current_dir = <<>> => h.kind = "DIR" /\ h.node = Top
  PROVE  BelowInv'
<1>1. h.node \in Nodes /\ current_dir \in Seq(Nodes)
  BY DEF Units, BelowInv, StreamType
<1>2. sending' = sending /\ sending # "start" /\ UNCHANGED <<size, left>>
  BY DEF BelowInv, TopComesFirst, treeVars, senderVars
<1>3. CASE h.kind = "DIR" /\ emulate_chdir(h)
  <2>1. /\ current_dir' \in Seq(Nodes)
        /\ current_dir' # <<>>
        /\ current_dir'[1] = Top
    BY <1>1, <1>3, AppendKeepsFirst DEF emulate_chdir, BelowInv, InTop
  <2> QED
    BY <1>2, <1>3, <2>1 DEF emulate_chdir, NextHeader, BelowInv,
       StreamType, TopComesFirst, InTop, StaysBelowTop
<1>4. CASE h.kind = "RETPARENT" /\ create_parent_dir
  <2>1. Len(current_dir) \in Nat
    BY <1>1, LenProperties
  <2>2. /\ current_dir' \in Seq(Nodes)
        /\ current_dir' # <<>> => current_dir # <<>>
              /\ current_dir'[1] = current_dir[1]
    BY <1>1, <1>4, <2>1, PrefixKeepsFirst DEF create_parent_dir, Front
  <2>3. /\ current_dir' = <<>> => receiving' = "done"
        /\ receiving' \in {"header", "done"}
    BY <1>4 DEF create_parent_dir, check_end_condition
  <2> QED
    BY <1>2, <1>4, <2>2, <2>3 DEF create_parent_dir, BelowInv,
       StreamType, TopComesFirst, InTop, StaysBelowTop
<1>5. CASE h.kind = "REGULAR" /\ OpenFile(h)
  BY <1>2, <1>5 DEF OpenFile, BelowInv, StreamType, TopComesFirst, InTop,
     StaysBelowTop
<1>6. CASE Stop
  BY <1>2, <1>6 DEF Stop, BelowInv, StreamType, TopComesFirst, InTop,
     StaysBelowTop
<1> QED
  BY <1>3, <1>4, <1>5, <1>6 DEF FollowHeader

(* What is left behind a header is a stream, whatever the excess takes. *)
LEMMA HeaderKeepsBelow ==
  ASSUME BelowInv, parse_dir_request,
         UNCHANGED <<treeVars, senderVars, ended>>
  PROVE  BelowInv'
<1> DEFINE h == Head(stream)
           rest == Tail(stream)
<1>1. stream \in Seq(Units) /\ stream # <<>> /\ receiving = "header"
  BY DEF parse_dir_request, BelowInv, StreamType
<1>2. h \in Units /\ rest \in Seq(Units)
  BY <1>1, HeadTailProperties
<1>3. h = stream[1]
  BY <1>1, EmptySeq
<1>4. stream' \in Seq(Units)
  <2>1. \/ stream' = rest
        \/ /\ rest # <<>>
           /\ \/ stream' = Tail(rest)
              \/ stream' = [rest EXCEPT ![1] = Piece(rest[1].node)]
    BY DEF parse_dir_request, DropExcess
  <2>2. ASSUME rest # <<>>, stream' = Tail(rest)
        PROVE  stream' \in Seq(Units)
    BY <1>2, <2>2, HeadTailProperties
  <2>3. ASSUME rest # <<>>, stream' = [rest EXCEPT ![1] = Piece(rest[1].node)]
        PROVE  stream' \in Seq(Units)
    <3>1. rest[1] \in Units
      BY <1>2, <2>3, HeadTailProperties, EmptySeq
    <3>2. Piece(rest[1].node) \in Units
      BY <3>1, UnitTypes DEF Units, BelowInv
    <3> QED
      BY <1>2, <2>3, <3>2, ExceptSeq
  <2> QED
    BY <1>2, <2>1, <2>2, <2>3
<1>5. current_dir = <<>> => h.kind = "DIR" /\ h.node = Top
  BY <1>1, <1>3 DEF BelowInv, TopComesFirst
<1>6. FollowHeader(h) \/ Stop
  BY DEF parse_dir_request
<1> QED
  BY <1>1, <1>2, <1>4, <1>5, <1>6, FollowKeepsBelow

(* Nothing is misread before the first header: the receiver is inside Top. *)
LEMMA MisreadKeepsBelow ==
  ASSUME BelowInv, Misread, UNCHANGED <<treeVars, senderVars, ended>>
  PROVE  BelowInv'
<1>1. /\ stream \in Seq(Units) /\ stream # <<>> /\ receiving = "header"
      /\ stream' = Tail(stream) /\ Head(stream).kind = "piece"
  BY DEF Misread, BelowInv, StreamType
<1>2. stream' \in Seq(Units)
  BY <1>1, HeadTailProperties
<1>3. current_dir # <<>>
  <2>1. Head(stream) = stream[1]
    BY <1>1, EmptySeq
  <2> QED
    BY <1>1, <2>1 DEF BelowInv, TopComesFirst
<1>4. ASSUME NEW h \in Garbage, FollowHeader(h)
      PROVE  BelowInv'
  BY <1>1, <1>2, <1>3, <1>4, FollowKeepsBelow, GarbageAssumption
<1>5. CASE Stop
  BY <1>1, <1>2, <1>3, <1>5 DEF Stop, BelowInv, StreamType, TopComesFirst,
     InTop, StaysBelowTop, treeVars, senderVars
<1>6. CASE UNCHANGED <<current_dir, created, kept>>
           /\ receiving' \in {"header", "done"}
  BY <1>1, <1>2, <1>3, <1>6 DEF BelowInv, StreamType, TopComesFirst, InTop,
     StaysBelowTop, treeVars, senderVars
<1> QED
  BY <1>4, <1>5, <1>6 DEF Misread, NextHeader

(* The receiver's other steps leave its directory alone. *)
LEMMA ReaderKeepsBelow ==
  ASSUME BelowInv, UNCHANGED <<treeVars, senderVars, ended>>,
         ParseFails \/ WaitAgain \/ GiveUp \/ ReadPiece \/ FileComplete
  PROVE  BelowInv'
<1>1. UNCHANGED <<size, left, sending>>
  BY DEF treeVars, senderVars
<1>2. CASE ParseFails \/ WaitAgain
  BY <1>1, <1>2 DEF ParseFails, WaitAgain, BelowInv, StreamType,
     TopComesFirst, InTop, StaysBelowTop
<1>3. CASE GiveUp
  BY <1>1, <1>3 DEF GiveUp, Stop, BelowInv, StreamType, TopComesFirst, InTop,
     StaysBelowTop
<1>4. CASE ReadPiece
  <2>1. stream' \in Seq(Units)
    BY <1>4, HeadTailProperties DEF ReadPiece, BelowInv, StreamType
  <2>2. sending # "start" /\ receiving = "file"
    BY <1>4 DEF ReadPiece, BelowInv, TopComesFirst
  <2> QED
    BY <1>1, <1>4, <2>1, <2>2 DEF ReadPiece, Stop, BelowInv, StreamType,
       TopComesFirst, InTop, StaysBelowTop
<1>5. CASE FileComplete
  <2>1. receiving = "file" /\ current_dir # <<>> /\ current_dir[1] = Top
    BY <1>5 DEF FileComplete, BelowInv, InTop
  <2> QED
    BY <1>1, <1>5, <2>1 DEF FileComplete, NextHeader, Stop, BelowInv,
       StreamType, TopComesFirst, InTop, StaysBelowTop
<1> QED
  BY <1>2, <1>3, <1>4, <1>5

LEMMA BelowInvHolds == Spec => []BelowInv
<1>1. ASSUME Init PROVE BelowInv
  BY <1>1, EmptySeq DEF Init, BelowInv, StreamType, TopComesFirst, InTop,
     StaysBelowTop
<1>2. ASSUME BelowInv, [Next]_vars PROVE BelowInv'
  <2>1. CASE SenderStep
    BY <1>2, <2>1, SenderKeepsBelow
  <2>2. CASE \/ /\ FileHasChanged \/ DirectoryFails
                /\ UNCHANGED <<treeVars, ended, receiverVars>>
             \/ SenderCloses
    BY <1>2, <2>2, FaultKeepsBelow
  <2>3. CASE ReceiverStep
    BY <1>2, <2>3, HeaderKeepsBelow, MisreadKeepsBelow, ReaderKeepsBelow
    DEF ReceiverStep
  <2>4. CASE UNCHANGED vars
    BY <1>2, <2>4 DEF vars, treeVars, senderVars, receiverVars, BelowInv,
       StreamType, TopComesFirst, InTop, StaysBelowTop
  <2> QED
    BY <1>2, <2>1, <2>2, <2>3, <2>4 DEF Next
<1> QED
  BY <1>1, <1>2, PTL DEF Spec

(* However the tree changes, the names are converted, the connection is    *)
(* cut and headers are misread, do_download_directory creates and stores   *)
(* nothing outside the directory it was told to fetch.                     *)
THEOREM NothingOutsideTop == Spec => []StaysBelowTop
<1>1. BelowInv => StaysBelowTop
  BY DEF BelowInv
<1> QED
  BY <1>1, BelowInvHolds, PTL

-----------------------------------------------------------------------------
(* A transfer with which nothing goes wrong.  Headers and pieces lie       *)
(* between the two sides: the invariant is about where the receiver will   *)
(* be after each of them.                                                  *)

\* Where a receiver can be: its directory, and what it lacks of which file.
Points ==
  {a \in [dir : Seq(Dirs), node : Nodes, due : Nat] : a.dir # <<>> => IsPath(a.dir)}

\* A unit leads a receiver from a to b.
Leads(a, u, b) ==
  /\ b.dir = Follow(a.dir, u)
  /\ u.kind = "piece" =>
       a.due > 0 /\ u = Piece(a.node) /\ b.node = a.node /\ b.due = a.due - 1
  /\ u.kind # "piece" => a.due = 0 /\ u.excess = 0
  /\ u.kind = "DIR" =>
       /\ b.due = 0
       /\ u.node \in Dirs
       /\ IF a.dir = <<>> THEN u.node = Top ELSE u.node \in Children[Last(a.dir)]
  /\ u.kind = "RETPARENT" => b.due = 0 /\ a.dir # <<>>
  /\ u.kind = "REGULAR" =>
       /\ b.node = u.node /\ b.due = u.size
       /\ a.dir # <<>>
       /\ u.node \in Files /\ u.node \in Children[Last(a.dir)]

\* A file's header tells its size.
Truthful(u) == u.kind = "REGULAR" => u.size = size[u.node]

ReaderAt(a) ==
  /\ a.dir = current_dir
  /\ receiving = "file" => a.node = file.node /\ a.due = file.size - Len(got)
  /\ receiving # "file" => a.due = 0

Folders(calls) == [i \in DOMAIN calls |-> calls[i].dir]

SenderAt(a) ==
  /\ a.dir = Folders(stack)
  /\ a.due = Len(left)
  /\ \A m \in 1..Len(left) : left[m] = Piece(a.node)

\* The units of the stream lead from the receiver to the sender, and back to
\* the top only when that is the end.
Trace(at) ==
  /\ at \in [0..Len(stream) -> Points]
  /\ \A k \in 1..Len(stream) : Truthful(stream[k])
  /\ \A k \in 1..Len(stream) : Leads(at[k - 1], stream[k], at[k])
  /\ \A k \in 1..Len(stream) : at[k].dir = <<>> => k = Len(stream) /\ sending = "done"
  /\ ReaderAt(at[0])
  /\ SenderAt(at[Len(stream)])

InStep == \E at : Trace(at)

\* The receiver's file is in its directory, and so far it has its pieces.
Reading ==
  /\ receiving \in {"header", "file", "done"}
  /\ receiving = "done" => stream = <<>> /\ sending = "done"
  /\ receiving = "file" =>
       /\ current_dir # <<>>
       /\ file.node \in Files /\ file.node \in Children[Last(current_dir)]
       /\ file.size = size[file.node]
       /\ got \in Seq(Units) /\ Len(got) <= file.size
       /\ \A m \in 1..Len(got) : got[m] = Piece(file.node)

InPlace(k) ==
  /\ IsPath(k.dir)
  /\ k.node \in Files /\ k.node \in Children[Last(k.dir)]
  /\ k.content = [i \in 1..size[k.node] |-> Piece(k.node)]

Stored ==
  /\ \A p \in created : p # <<>> /\ Last(p) \in Dirs
  /\ \A k \in kept : InPlace(k)

\* The sender's calls, each with what it has still to send.
Frames ==
  {c \in [dir : Dirs, files : SUBSET Files, dirs : SUBSET Dirs] :
     c.files \cup c.dirs \subseteq Children[c.dir]}

Sending ==
  /\ stack \in Seq(Frames)
  /\ sending \in {"start", "walk", "file", "done"}
  /\ stack = <<>> <=> sending \in {"start", "done"}
  /\ left # <<>> => sending = "file"

\* A header is in the stream, and an entry waits in a call for its directory.
OnWay(units, kind, n) ==
  \E k \in 1..Len(units) : units[k].kind = kind /\ units[k].node = n

WaitsIn(calls, n, d) ==
  \E i \in 1..Len(calls) : calls[i].dir = d /\ n \in calls[i].files \cup calls[i].dirs

\* A node of the tree is with the receiver, or on its way.
DirUnderWay(n) == OnWay(stream, "DIR", n) \/ \E p \in created : Last(p) = n

FileUnderWay(n) ==
  \/ OnWay(stream, "REGULAR", n)
  \/ receiving = "file" /\ file.node = n
  \/ \E k \in kept : k.node = n

UnderWay(n) == IF n \in Dirs THEN DirUnderWay(n) ELSE FileUnderWay(n)

\* What is not, waits to be sent.
NothingLost ==
  /\ sending = "start" => created = {}
  /\ sending # "start" => UnderWay(Top)
  /\ sending # "start" => \A d \in Dirs : UnderWay(d) =>
       \A n \in Children[d] : UnderWay(n) \/ WaitsIn(stack, n, d)

CopyOK == Reading /\ Stored /\ Sending /\ InStep /\ NothingLost

CopyInv == BelowInv /\ (Undisturbed => CopyOK)

-----------------------------------------------------------------------------
(* Into a directory's child a path stays a path.                           *)
LEMMA PathGrows ==
  ASSUME NEW p \in Seq(Dirs), p # <<>> => IsPath(p), NEW n \in Dirs,
         IF p = <<>> THEN n = Top ELSE n \in Children[Last(p)]
  PROVE  /\ Append(p, n) \in Seq(Dirs)
         /\ Append(p, n) # <<>>
         /\ IsPath(Append(p, n))
         /\ Last(Append(p, n)) = n
<1>1. /\ Append(p, n) \in Seq(Dirs) /\ Append(p, n) # <<>>
      /\ Len(Append(p, n)) = Len(p) + 1 /\ Len(p) \in Nat
      /\ \A i \in 1..Len(p) : Append(p, n)[i] = p[i]
      /\ Append(p, n)[Len(p) + 1] = n
  BY AppendProperties, LenProperties
<1>2. CASE p = <<>>
  BY <1>1, <1>2, EmptySeq DEF IsPath, Last
<1>3. CASE p # <<>>
  <2>1. Len(p) \in Nat \ {0}
    BY <1>3, EmptySeq
  <2>2. p[1] = Top /\ \A i \in 1..(Len(p) - 1) : p[i + 1] \in Children[p[i]]
    BY <1>3 DEF IsPath
  <2>3. Append(p, n)[1] = Top
    BY <1>1, <2>1, <2>2
  <2>4. ASSUME NEW i \in 1..Len(p)
        PROVE  Append(p, n)[i + 1] \in Children[Append(p, n)[i]]
    <3>1. CASE i = Len(p)
      BY <1>1, <1>3, <3>1 DEF Last
    <3>2. CASE i # Len(p)
      <4>1. i \in 1..(Len(p) - 1) /\ i + 1 \in 1..Len(p)
        BY <1>1, <3>2
      <4> QED
        BY <1>1, <2>2, <4>1
    <3> QED
      BY <3>1, <3>2
  <2>5. (Len(p) + 1) - 1 = Len(p)
    BY <1>1
  <2> QED
    BY <1>1, <2>3, <2>4, <2>5 DEF IsPath, Last
<1> QED
  BY <1>2, <1>3

(* The beginning of a sequence.                                            *)
LEMMA PrefixIsPart ==
  ASSUME NEW S, NEW s \in Seq(S), NEW n \in Nat, n <= Len(s)
  PROVE  /\ SubSeq(s, 1, n) \in Seq(S)
         /\ Len(SubSeq(s, 1, n)) = n
         /\ \A i \in 1..n : SubSeq(s, 1, n)[i] = s[i]
<1>1. Len(s) \in Nat
  BY LenProperties
<1>2. \A i \in 1..n : i \in 1..Len(s)
  BY <1>1
<1>3. \A i \in 1..n : s[i] \in S
  BY <1>2, ElementOfSeq
<1>4. /\ SubSeq(s, 1, n) \in Seq(S)
      /\ Len(SubSeq(s, 1, n)) = IF 1 <= n THEN n - 1 + 1 ELSE 0
      /\ \A i \in 1..(n - 1 + 1) : SubSeq(s, 1, n)[i] = s[1 + i - 1]
  BY <1>3, SubSeqProperties
<1>5. (IF 1 <= n THEN n - 1 + 1 ELSE 0) = n
  OBVIOUS
<1>6. ASSUME NEW i \in 1..n
      PROVE  SubSeq(s, 1, n)[i] = s[i]
  <2>1. i \in 1..(n - 1 + 1) /\ 1 + i - 1 = i
    OBVIOUS
  <2> QED
    BY <1>4, <2>1
<1> QED
  BY <1>4, <1>5, <1>6

(* And back to the parent.                                                 *)
LEMMA PathShrinks ==
  ASSUME NEW p \in Seq(Dirs), p # <<>>, IsPath(p)
  PROVE  /\ Front(p) \in Seq(Dirs)
         /\ Front(p) # <<>> => IsPath(Front(p))
         /\ Front(p) = <<>> <=> Len(p) = 1
<1>1. Len(p) \in Nat \ {0}
  BY EmptySeq
<1>2. PICK n \in Nat : n = Len(p) - 1
  BY <1>1
<1>3. /\ SubSeq(p, 1, n) \in Seq(Dirs)
      /\ Len(SubSeq(p, 1, n)) = n
      /\ \A i \in 1..n : SubSeq(p, 1, n)[i] = p[i]
  BY <1>1, <1>2, PrefixIsPart
<1>4. Front(p) = SubSeq(p, 1, n)
  BY <1>2 DEF Front
<1>5. Front(p) = <<>> <=> n = 0
  BY <1>3, <1>4, EmptySeq
<1>6. ASSUME Front(p) # <<>>
      PROVE  IsPath(Front(p))
  BY <1>1, <1>2, <1>3, <1>4, <1>5, <1>6 DEF IsPath
<1> QED
  BY <1>1, <1>2, <1>3, <1>4, <1>5, <1>6

(* The directories of the sender's calls.                                  *)
LEMMA FoldersType ==
  ASSUME NEW calls \in Seq(Frames)
  PROVE  /\ Folders(calls) \in Seq(Dirs)
         /\ Len(Folders(calls)) = Len(calls)
         /\ \A i \in 1..Len(calls) : Folders(calls)[i] = calls[i].dir
<1>1. Len(calls) \in Nat /\ DOMAIN calls = 1..Len(calls)
  BY LenProperties
<1>2. \A i \in 1..Len(calls) : calls[i].dir \in Dirs
  BY ElementOfSeq DEF Frames
<1>3. Folders(calls) = [i \in 1..Len(calls) |-> calls[i].dir]
  BY <1>1 DEF Folders
<1>4. Folders(calls) \in [1..Len(calls) -> Dirs]
  BY <1>2, <1>3
<1>5. Folders(calls) \in Seq(Dirs)
  BY <1>1, <1>4, SeqDef
<1>6. DOMAIN Folders(calls) = 1..Len(Folders(calls)) /\ Len(Folders(calls)) \in Nat
  BY <1>5, LenProperties
<1>7. DOMAIN Folders(calls) = 1..Len(calls)
  BY <1>3
<1>8. Len(Folders(calls)) = Len(calls)
  <2>1. ASSUME NEW m \in Nat, NEW n \in Nat, 1..m = 1..n
        PROVE  m = n
    <3>1. m >= 1 => m \in 1..n
      BY <2>1
    <3>2. n >= 1 => n \in 1..m
      BY <2>1
    <3> QED
      BY <3>1, <3>2
  <2> QED
    BY <1>1, <1>6, <1>7, <2>1
<1> QED
  BY <1>3, <1>5, <1>8

LEMMA FoldersStay ==
  ASSUME NEW calls \in Seq(Frames), NEW calls2 \in Seq(Frames),
         Len(calls2) = Len(calls),
         \A i \in 1..Len(calls) : calls2[i].dir = calls[i].dir
  PROVE  Folders(calls2) = Folders(calls)
BY FoldersType, SeqEqual

LEMMA FoldersGrow ==
  ASSUME NEW calls \in Seq(Frames), NEW c \in Frames
  PROVE  Folders(Append(calls, c)) = Append(Folders(calls), c.dir)
<1>1. c.dir \in Dirs /\ Len(calls) \in Nat
  BY LenProperties DEF Frames
<1>2. /\ Append(calls, c) \in Seq(Frames)
      /\ Len(Append(calls, c)) = Len(calls) + 1
      /\ \A i \in 1..Len(calls) : Append(calls, c)[i] = calls[i]
      /\ Append(calls, c)[Len(calls) + 1] = c
  BY AppendProperties
<1>3. /\ Folders(calls) \in Seq(Dirs) /\ Len(Folders(calls)) = Len(calls)
      /\ \A i \in 1..Len(calls) : Folders(calls)[i] = calls[i].dir
  BY FoldersType
<1>4. /\ Append(Folders(calls), c.dir) \in Seq(Dirs)
      /\ Len(Append(Folders(calls), c.dir)) = Len(calls) + 1
      /\ \A i \in 1..Len(calls) :
           Append(Folders(calls), c.dir)[i] = Folders(calls)[i]
      /\ Append(Folders(calls), c.dir)[Len(calls) + 1] = c.dir
  BY <1>1, <1>3, AppendProperties
<1>5. /\ Folders(Append(calls, c)) \in Seq(Dirs)
      /\ Len(Folders(Append(calls, c))) = Len(calls) + 1
      /\ \A i \in 1..(Len(calls) + 1) :
           Folders(Append(calls, c))[i] = Append(calls, c)[i].dir
  BY <1>2, FoldersType
<1>6. ASSUME NEW i \in 1..(Len(calls) + 1)
      PROVE  Folders(Append(calls, c))[i] = Append(Folders(calls), c.dir)[i]
  <2>1. CASE i = Len(calls) + 1
    BY <1>2, <1>4, <1>5, <2>1
  <2>2. ASSUME i # Len(calls) + 1
        PROVE  Folders(Append(calls, c))[i] = Append(Folders(calls), c.dir)[i]
    <3>1. i \in 1..Len(calls)
      BY <1>1, <2>2
    <3> QED
      BY <1>2, <1>3, <1>4, <1>5, <3>1
  <2> QED
    BY <2>1, <2>2
<1> QED
  BY <1>4, <1>5, <1>6, SeqEqual

LEMMA FoldersShrink ==
  ASSUME NEW calls \in Seq(Frames), calls # <<>>
  PROVE  /\ Front(calls) \in Seq(Frames)
         /\ Len(Front(calls)) = Len(calls) - 1
         /\ \A i \in 1..(Len(calls) - 1) : Front(calls)[i] = calls[i]
         /\ Front(calls) = <<>> <=> Len(calls) = 1
         /\ Folders(Front(calls)) = Front(Folders(calls))
<1>1. Len(calls) \in Nat \ {0}
  BY EmptySeq
<1>2. PICK n \in Nat : n = Len(calls) - 1
  BY <1>1
<1>3. n <= Len(calls)
  BY <1>1, <1>2
<1>4. /\ SubSeq(calls, 1, n) \in Seq(Frames)
      /\ Len(SubSeq(calls, 1, n)) = n
      /\ \A i \in 1..n : SubSeq(calls, 1, n)[i] = calls[i]
  BY <1>3, PrefixIsPart
<1>5. /\ Folders(calls) \in Seq(Dirs) /\ Len(Folders(calls)) = Len(calls)
      /\ \A i \in 1..Len(calls) : Folders(calls)[i] = calls[i].dir
  BY FoldersType
<1>6. /\ SubSeq(Folders(calls), 1, n) \in Seq(Dirs)
      /\ Len(SubSeq(Folders(calls), 1, n)) = n
      /\ \A i \in 1..n : SubSeq(Folders(calls), 1, n)[i] = Folders(calls)[i]
  BY <1>3, <1>5, PrefixIsPart
<1>7. /\ Folders(SubSeq(calls, 1, n)) \in Seq(Dirs)
      /\ Len(Folders(SubSeq(calls, 1, n))) = n
      /\ \A i \in 1..n :
           Folders(SubSeq(calls, 1, n))[i] = SubSeq(calls, 1, n)[i].dir
  BY <1>4, FoldersType
<1>8. \A i \in 1..n :
        Folders(SubSeq(calls, 1, n))[i] = SubSeq(Folders(calls), 1, n)[i]
  BY <1>1, <1>2, <1>4, <1>5, <1>6, <1>7
<1>9. Folders(SubSeq(calls, 1, n)) = SubSeq(Folders(calls), 1, n)
  BY <1>6, <1>7, <1>8, SeqEqual
<1>10. Front(calls) = SubSeq(calls, 1, n)
       /\ Front(Folders(calls)) = SubSeq(Folders(calls), 1, n)
  BY <1>2, <1>5 DEF Front
<1>11. SubSeq(calls, 1, n) = <<>> <=> n = 0
  BY <1>4, EmptySeq
<1> QED
  BY <1>1, <1>2, <1>4, <1>9, <1>10, <1>11

-----------------------------------------------------------------------------
(* The sender writes a unit that leads on from where it is.                *)
LEMMA TraceGrows ==
  ASSUME stream \in Seq(Units), NEW at, Trace(at), sending # "done",
         NEW u \in Units, Truthful(u),
         NEW b \in Points, Leads(at[Len(stream)], u, b),
         stream' = Append(stream, u),
         UNCHANGED <<size, current_dir, receiving, file, got>>,
         SenderAt(b)', b.dir = <<>> => sending' = "done"
  PROVE  InStep'
<1>1. PICK n \in Nat : n = Len(stream)
  BY LenProperties
<1>2. /\ stream' \in Seq(Units) /\ Len(stream') = n + 1
      /\ \A k \in 1..n : stream'[k] = stream[k]
      /\ stream'[n + 1] = u
  BY <1>1, AppendProperties
<1>3. /\ at \in [0..n -> Points]
      /\ \A k \in 1..n : Leads(at[k - 1], stream[k], at[k])
      /\ \A k \in 1..n : at[k].dir # <<>>
      /\ ReaderAt(at[0])
      /\ Leads(at[n], u, b)
  BY <1>1 DEF Trace
<1>4. PICK at2 : at2 = [k \in 0..(n + 1) |-> IF k = n + 1 THEN b ELSE at[k]]
  OBVIOUS
<1>5. /\ at2 \in [0..(n + 1) -> Points]
      /\ \A k \in 0..n : at2[k] = at[k]
      /\ at2[n + 1] = b
  <2>1. \A k \in 0..(n + 1) : k # n + 1 => k \in 0..n
    OBVIOUS
  <2>2. \A k \in 0..(n + 1) : (IF k = n + 1 THEN b ELSE at[k]) \in Points
    BY <1>3, <2>1
  <2>3. \A k \in 0..n : k \in 0..(n + 1) /\ k # n + 1
    OBVIOUS
  <2> QED
    BY <1>4, <2>2, <2>3
<1>6. ASSUME NEW k \in 1..(n + 1)
      PROVE  /\ Leads(at2[k - 1], stream'[k], at2[k])
             /\ at2[k].dir = <<>> => k = n + 1 /\ sending' = "done"
  <2>1. CASE k = n + 1
    <3>1. k - 1 = n /\ n \in 0..n
      BY <2>1
    <3> QED
      BY <1>2, <1>3, <1>5, <2>1, <3>1
  <2>2. CASE k # n + 1
    <3>1. k \in 1..n /\ k - 1 \in 0..n /\ k \in 0..n
      BY <2>2
    <3> QED
      BY <1>2, <1>3, <1>5, <3>1
  <2> QED
    BY <2>1, <2>2
<1>7. \A k \in 1..(n + 1) : Truthful(stream[k])'
  <2>1. \A k \in 1..(n + 1) : k = n + 1 \/ k \in 1..n
    OBVIOUS
  <2>2. \A k \in 1..n : Truthful(stream[k])
    BY <1>1 DEF Trace
  <2> QED
    BY <1>2, <2>1, <2>2 DEF Truthful
<1>8. ReaderAt(at2[0])'
  <2>1. at2[0] = at[0]
    BY <1>5
  <2> QED
    BY <1>3, <2>1 DEF ReaderAt
<1>9. SenderAt(at2[n + 1])'
  BY <1>5
<1>10. Trace(at2)'
  BY <1>2, <1>5, <1>6, <1>7, <1>8, <1>9 DEF Trace
<1> QED
  BY <1>10 DEF InStep

(* The receiver takes the first unit and is where it leads.                *)
LEMMA TraceShrinks ==
  ASSUME stream \in Seq(Units), stream # <<>>, NEW at, Trace(at),
         NEW b, b = at[1], stream' = Tail(stream),
         UNCHANGED <<size, stack, sending, left>>,
         ReaderAt(b)'
  PROVE  InStep'
<1>1. PICK n \in Nat : n + 1 = Len(stream)
  <2>1. Len(stream) \in Nat \ {0}
    BY EmptySeq
  <2>2. Len(stream) - 1 \in Nat /\ (Len(stream) - 1) + 1 = Len(stream)
    BY <2>1
  <2> QED
    BY <2>2
<1>2. /\ stream' \in Seq(Units) /\ Len(stream') = n
      /\ \A k \in 1..n : stream'[k] = stream[k + 1]
  <2>1. Len(stream) - 1 = n
    BY <1>1
  <2> QED
    BY <2>1, HeadTailProperties
<1>3. /\ at \in [0..(n + 1) -> Points]
      /\ \A k \in 1..(n + 1) : Leads(at[k - 1], stream[k], at[k])
      /\ \A k \in 1..(n + 1) : at[k].dir = <<>> => k = n + 1 /\ sending = "done"
      /\ SenderAt(at[n + 1])
  BY <1>1 DEF Trace
<1>4. PICK at2 : at2 = [k \in 0..n |-> at[k + 1]]
  OBVIOUS
<1>5. /\ at2 \in [0..n -> Points]
      /\ \A k \in 0..n : at2[k] = at[k + 1]
  <2>1. \A k \in 0..n : k + 1 \in 0..(n + 1)
    OBVIOUS
  <2> QED
    BY <1>3, <1>4, <2>1
<1>6. ASSUME NEW k \in 1..n
      PROVE  /\ Leads(at2[k - 1], stream'[k], at2[k])
             /\ at2[k].dir = <<>> => k = n /\ sending = "done"
  <2>1. k - 1 \in 0..n /\ (k - 1) + 1 = k /\ k \in 0..n /\ k + 1 \in 1..(n + 1)
        /\ (k + 1) - 1 = k /\ (k + 1 = n + 1 => k = n)
    OBVIOUS
  <2>2. at2[k - 1] = at[k] /\ at2[k] = at[k + 1] /\ stream'[k] = stream[k + 1]
    BY <1>2, <1>5, <2>1
  <2>3. Leads(at[(k + 1) - 1], stream[k + 1], at[k + 1])
    BY <1>3, <2>1
  <2> QED
    BY <1>3, <2>1, <2>2, <2>3
<1>7. \A k \in 1..n : Truthful(stream[k])'
  <2>1. \A k \in 1..n : k + 1 \in 1..(n + 1)
    OBVIOUS
  <2>2. \A k \in 1..(n + 1) : Truthful(stream[k])
    BY <1>1 DEF Trace
  <2> QED
    BY <1>2, <2>1, <2>2 DEF Truthful
<1>8. at2[0] = at[1] /\ at2[n] = at[n + 1]
  BY <1>5
<1>9. SenderAt(at2[n])' /\ ReaderAt(at2[0])'
  BY <1>3, <1>8 DEF SenderAt
<1>10. Trace(at2)'
  BY <1>2, <1>5, <1>6, <1>7, <1>9 DEF Trace
<1> QED
  BY <1>10 DEF InStep

(* Or both stay where they are.                                            *)
LEMMA TraceStays ==
  ASSUME NEW at, Trace(at), UNCHANGED <<size, stream>>,
         sending = "done" => sending' = "done",
         ReaderAt(at[0])', SenderAt(at[Len(stream)])'
  PROVE  InStep'
<1>1. \A k \in 1..Len(stream) : Truthful(stream[k])'
  BY DEF Trace, Truthful
<1>2. Trace(at)'
  BY <1>1 DEF Trace
<1> QED
  BY <1>2 DEF InStep

-----------------------------------------------------------------------------
(* The headers of a stream when one is taken or written.                   *)
LEMMA TakenFromStream ==
  ASSUME NEW s \in Seq(Units), s # <<>>, NEW kind, NEW n
  PROVE  OnWay(s, kind, n) <=>
           (s[1].kind = kind /\ s[1].node = n) \/ OnWay(Tail(s), kind, n)
<1>1. PICK m \in Nat : m + 1 = Len(s)
  <2>1. Len(s) \in Nat \ {0}
    BY EmptySeq
  <2>2. Len(s) - 1 \in Nat /\ (Len(s) - 1) + 1 = Len(s)
    BY <2>1
  <2> QED
    BY <2>2
<1>2. Len(Tail(s)) = m /\ \A k \in 1..m : Tail(s)[k] = s[k + 1]
  <2>1. Len(s) - 1 = m
    BY <1>1
  <2> QED
    BY <2>1, HeadTailProperties
<1>3. ASSUME OnWay(s, kind, n)
      PROVE  (s[1].kind = kind /\ s[1].node = n) \/ OnWay(Tail(s), kind, n)
  <2>1. PICK k \in 1..(m + 1) : s[k].kind = kind /\ s[k].node = n
    BY <1>1, <1>3 DEF OnWay
  <2>2. CASE k = 1
    BY <2>1, <2>2
  <2>3. CASE k # 1
    <3>1. k - 1 \in 1..m /\ (k - 1) + 1 = k
      BY <2>3
    <3> QED
      BY <1>2, <2>1, <3>1 DEF OnWay
  <2> QED
    BY <2>2, <2>3
<1>4. ASSUME s[1].kind = kind /\ s[1].node = n
      PROVE  OnWay(s, kind, n)
  <2>1. 1 \in 1..(m + 1)
    OBVIOUS
  <2> QED
    BY <1>1, <1>4, <2>1 DEF OnWay
<1>5. ASSUME OnWay(Tail(s), kind, n)
      PROVE  OnWay(s, kind, n)
  <2>1. PICK k \in 1..m : Tail(s)[k].kind = kind /\ Tail(s)[k].node = n
    BY <1>2, <1>5 DEF OnWay
  <2>2. k + 1 \in 1..(m + 1)
    OBVIOUS
  <2> QED
    BY <1>1, <1>2, <2>1, <2>2 DEF OnWay
<1> QED
  BY <1>3, <1>4, <1>5

LEMMA WrittenToStream ==
  ASSUME NEW s \in Seq(Units), NEW u \in Units, NEW kind, NEW n
  PROVE  OnWay(Append(s, u), kind, n) <=>
           (u.kind = kind /\ u.node = n) \/ OnWay(s, kind, n)
<1>1. PICK m \in Nat : m = Len(s)
  BY LenProperties
<1>2. /\ Len(Append(s, u)) = m + 1
      /\ \A k \in 1..m : Append(s, u)[k] = s[k]
      /\ Append(s, u)[m + 1] = u
  BY <1>1, AppendProperties
<1>3. \A k : k \in 1..(m + 1) <=> k = m + 1 \/ k \in 1..m
  OBVIOUS
<1> QED
  BY <1>1, <1>2, <1>3 DEF OnWay

(* Nothing is lost in a step of the receiver that takes only what it has,  *)
(* and has what it takes.                                                  *)
LEMMA ReceiverLosesNothing ==
  ASSUME NothingLost, sending = "start" => created' = {},
         UNCHANGED <<stack, sending>>,
         \A n \in Nodes : UnderWay(n) => UnderWay(n)',
         \A d \in Dirs : UnderWay(d)' => UnderWay(d)
  PROVE  NothingLost'
<1>1. Top \in Nodes /\ \A d \in Dirs : Children[d] \subseteq Nodes
  BY TreeAssumption
<1>2. ASSUME sending # "start", NEW d \in Dirs, UnderWay(d)',
             NEW n \in Children[d]
      PROVE  UnderWay(n)' \/ WaitsIn(stack', n, d)
  <2>1. UnderWay(n) \/ WaitsIn(stack, n, d)
    BY <1>2 DEF NothingLost
  <2> QED
    BY <1>1, <1>2, <2>1
<1> QED
  BY <1>1, <1>2 DEF NothingLost

(* The receiver enters a directory, returns from one, or begins a file.    *)
LEMMA HeaderIsFollowed ==
  ASSUME BelowInv, CopyOK, parse_dir_request, ~disturbed',
         UNCHANGED <<treeVars, senderVars, ended>>
  PROVE  CopyOK'
<1>1. PICK at : Trace(at)
  BY DEF CopyOK, InStep
<1>2. /\ stream \in Seq(Units) /\ stream # <<>> /\ Len(stream) \in Nat \ {0}
      /\ current_dir \in Seq(Nodes)
      /\ receiving = "header" /\ sending # "start"
      /\ UNCHANGED <<size, stack, sending, left>>
  BY EmptySeq DEF parse_dir_request, BelowInv, StreamType, TopComesFirst,
     treeVars, senderVars
<1>3. PICK h \in Units : h = stream[1] /\ h = Head(stream)
  <2>1. 1 \in 1..Len(stream)
    BY <1>2
  <2> QED
    BY <1>2, <2>1, ElementOfSeq, EmptySeq
<1>4. PICK a \in Points, b \in Points :
        /\ a = at[0] /\ b = at[1]
        /\ Leads(a, h, b) /\ Truthful(h)
        /\ b.dir = <<>> => Len(stream) = 1 /\ sending = "done"
        /\ ReaderAt(a)
  <2>1. 1 \in 1..Len(stream) /\ 0 \in 0..Len(stream) /\ 1 \in 0..Len(stream)
        /\ 1 - 1 = 0
    BY <1>2
  <2>2. /\ Leads(at[1 - 1], stream[1], at[1]) /\ Truthful(stream[1])
        /\ at[1].dir = <<>> => Len(stream) = 1 /\ sending = "done"
        /\ at[0] \in Points /\ at[1] \in Points /\ ReaderAt(at[0])
    BY <1>1, <2>1 DEF Trace
  <2> QED
    BY <1>3, <2>1, <2>2
<1>5. /\ a.dir = current_dir /\ current_dir \in Seq(Dirs)
      /\ current_dir # <<>> => IsPath(current_dir)
  BY <1>4 DEF ReaderAt, Points
<1>6. h.kind # "piece" /\ stream' = Tail(stream) /\ FollowHeader(h)
  BY <1>3, <1>4 DEF parse_dir_request, Leads, DropExcess, Stop
<1>7. Len(stream) = 1 => stream' = <<>>
  <2>1. stream' \in Seq(Units) /\ Len(stream') = Len(stream) - 1
    BY <1>2, <1>6, HeadTailProperties
  <2> QED
    BY <2>1, EmptySeq
<1>8. Sending' /\ (\A k \in kept : InPlace(k)')
  BY <1>2 DEF CopyOK, Sending, Stored, InPlace
<1>9. \A kind, n : OnWay(stream, kind, n) <=>
                     (h.kind = kind /\ h.node = n) \/ OnWay(stream', kind, n)
  BY <1>2, <1>3, <1>6, TakenFromStream
<1>10. ASSUME h.kind = "DIR", emulate_chdir(h)
       PROVE  CopyOK'
  <2>1. h.node \in Dirs /\ b.due = 0
        /\ IF current_dir = <<>> THEN h.node = Top
                                 ELSE h.node \in Children[Last(current_dir)]
    BY <1>4, <1>5, <1>10 DEF Leads
  <2>2. current_dir' = Append(current_dir, h.node) /\ current_dir' # <<>>
        /\ Last(current_dir') = h.node
    BY <1>5, <1>10, <2>1, PathGrows DEF emulate_chdir
  <2>3. /\ receiving' = "header" /\ UNCHANGED <<file, got, kept>>
        /\ created' = created \cup {current_dir'}
    BY <1>10 DEF emulate_chdir, NextHeader
  <2>4. Reading' /\ Stored'
    BY <1>8, <2>1, <2>2, <2>3 DEF CopyOK, Reading, Stored
  <2>5. b.dir = current_dir'
    BY <1>4, <1>5, <1>10, <2>2 DEF Leads, Follow
  <2>6. ReaderAt(b)'
    BY <2>1, <2>3, <2>5 DEF ReaderAt
  <2>7. InStep'
    BY <1>1, <1>2, <1>4, <1>6, <2>6, TraceShrinks
  <2>8. \A n : DirUnderWay(n)' <=> DirUnderWay(n)
    BY <1>9, <1>10, <2>2, <2>3 DEF DirUnderWay
  <2>9. \A n : FileUnderWay(n)' <=> FileUnderWay(n)
    BY <1>2, <1>9, <1>10, <2>3 DEF FileUnderWay
  <2>10. NothingLost'
    BY <1>2, <2>8, <2>9, ReceiverLosesNothing DEF UnderWay, CopyOK
  <2> QED
    BY <1>8, <2>4, <2>7, <2>10 DEF CopyOK
<1>11. ASSUME h.kind = "RETPARENT", create_parent_dir
       PROVE  CopyOK'
  <2>1. /\ current_dir' = Front(current_dir)
        /\ receiving' = IF current_dir' = <<>> THEN "done" ELSE "header"
        /\ UNCHANGED <<file, got, created, kept>>
    BY <1>11 DEF create_parent_dir, check_end_condition
  <2>2. b.dir = current_dir' /\ b.due = 0
    BY <1>4, <1>5, <1>11, <2>1 DEF Leads, Follow
  <2>3. Reading' /\ Stored'
    BY <1>2, <1>4, <1>7, <1>8, <2>1, <2>2 DEF CopyOK, Reading, Stored
  <2>4. ReaderAt(b)'
    BY <2>1, <2>2 DEF ReaderAt
  <2>5. InStep'
    BY <1>1, <1>2, <1>4, <1>6, <2>4, TraceShrinks
  <2>6. \A n : DirUnderWay(n)' <=> DirUnderWay(n)
    BY <1>9, <1>11, <2>1 DEF DirUnderWay
  <2>7. \A n : FileUnderWay(n)' <=> FileUnderWay(n)
    BY <1>2, <1>9, <1>11, <2>1 DEF FileUnderWay
  <2>8. NothingLost'
    BY <1>2, <2>6, <2>7, ReceiverLosesNothing DEF UnderWay, CopyOK
  <2> QED
    BY <1>8, <2>3, <2>5, <2>8 DEF CopyOK
<1>12. ASSUME h.kind = "REGULAR", OpenFile(h)
       PROVE  CopyOK'
  <2>1. /\ receiving' = "file" /\ file' = h /\ got' = <<>>
        /\ UNCHANGED <<current_dir, created, kept>>
    BY <1>12 DEF OpenFile
  <2>2. /\ b.node = h.node /\ b.due = h.size /\ b.dir = current_dir
        /\ current_dir # <<>>
        /\ h.node \in Files /\ h.node \in Children[Last(current_dir)]
        /\ h.size = size[h.node] /\ h.size \in Nat
    BY <1>4, <1>5, <1>12 DEF Leads, Follow, Truthful, Units
  <2>3. got' \in Seq(Units) /\ Len(got') = 0
    BY <2>1, EmptySeq
  <2>4. Reading' /\ Stored'
    BY <1>2, <1>8, <2>1, <2>2, <2>3 DEF CopyOK, Reading, Stored
  <2>5. ReaderAt(b)'
    BY <2>1, <2>2, <2>3 DEF ReaderAt
  <2>6. InStep'
    BY <1>1, <1>2, <1>4, <1>6, <2>5, TraceShrinks
  <2>7. \A n : DirUnderWay(n)' <=> DirUnderWay(n)
    BY <1>9, <1>12, <2>1 DEF DirUnderWay
  <2>8. \A n : FileUnderWay(n) => FileUnderWay(n)'
    BY <1>2, <1>9, <1>12, <2>1 DEF FileUnderWay
  <2>9. NothingLost'
    BY <1>2, <2>1, <2>7, <2>8, ReceiverLosesNothing DEF UnderWay, CopyOK
  <2> QED
    BY <1>8, <2>4, <2>6, <2>9 DEF CopyOK
<1> QED
  BY <1>6, <1>10, <1>11, <1>12 DEF FollowHeader

(* The receiver reads a piece of its file: in step, it is one of that file. *)
LEMMA PieceIsRead ==
  ASSUME BelowInv, CopyOK, ReadPiece, ~disturbed',
         UNCHANGED <<treeVars, senderVars, ended>>
  PROVE  CopyOK'
<1>1. PICK at : Trace(at)
  BY DEF CopyOK, InStep
<1>2. /\ stream \in Seq(Units) /\ stream # <<>> /\ Len(stream) \in Nat \ {0}
      /\ receiving = "file" /\ sending # "start"
      /\ stream' = Tail(stream) /\ got' = Append(got, Head(stream))
      /\ UNCHANGED <<size, stack, sending, left>>
      /\ UNCHANGED <<current_dir, receiving, file, created, kept>>
  BY EmptySeq DEF ReadPiece, Stop, BelowInv, StreamType, TopComesFirst,
     treeVars, senderVars
<1>3. PICK h \in Units : h = stream[1] /\ h = Head(stream)
  <2>1. 1 \in 1..Len(stream)
    BY <1>2
  <2> QED
    BY <1>2, <2>1, ElementOfSeq, EmptySeq
<1>4. PICK a \in Points, b \in Points :
        a = at[0] /\ b = at[1] /\ Leads(a, h, b) /\ ReaderAt(a)
  <2>1. 1 \in 1..Len(stream) /\ 0 \in 0..Len(stream) /\ 1 \in 0..Len(stream)
        /\ 1 - 1 = 0
    BY <1>2
  <2>2. /\ Leads(at[1 - 1], stream[1], at[1])
        /\ at[0] \in Points /\ at[1] \in Points /\ ReaderAt(at[0])
    BY <1>1, <2>1 DEF Trace
  <2> QED
    BY <1>3, <2>1, <2>2
<1>5. /\ got \in Seq(Units) /\ Len(got) \in Nat /\ Len(got) < file.size
      /\ file.size = size[file.node] /\ file.node \in Files
      /\ \A m \in 1..Len(got) : got[m] = Piece(file.node)
  <2>1. got \in Seq(Units)
    BY <1>2 DEF CopyOK, Reading
  <2> QED
    BY <1>2, <2>1, LenProperties DEF CopyOK, Reading, ReadPiece
<1>6. file.size \in Nat
  BY <1>5, TreeAssumption DEF BelowInv, StreamType
<1>7. a.dir = current_dir /\ a.node = file.node /\ a.due = file.size - Len(got)
  BY <1>2, <1>4 DEF ReaderAt
<1>8. a.due > 0
  BY <1>5, <1>6, <1>7
<1>9. /\ h.kind = "piece" /\ h = Piece(file.node)
      /\ b.node = file.node /\ b.due = a.due - 1 /\ b.dir = current_dir
  BY <1>4, <1>7, <1>8 DEF Leads, Follow
<1>10. /\ got' \in Seq(Units) /\ Len(got') = Len(got) + 1
       /\ \A m \in 1..Len(got') : got'[m] = Piece(file.node)
  <2>1. /\ got' \in Seq(Units) /\ Len(got') = Len(got) + 1
        /\ \A m \in 1..Len(got) : got'[m] = got[m]
        /\ got'[Len(got) + 1] = h
    BY <1>2, <1>3, <1>5, AppendProperties
  <2>2. \A m \in 1..(Len(got) + 1) : m \in 1..Len(got) \/ m = Len(got) + 1
    BY <1>5
  <2> QED
    BY <1>5, <1>9, <2>1, <2>2
<1>11. Reading'
  <2>1. Len(got') <= file.size
    BY <1>5, <1>6, <1>10
  <2> QED
    BY <1>2, <1>10, <2>1 DEF CopyOK, Reading
<1>12. Sending' /\ Stored'
  BY <1>2 DEF CopyOK, Sending, Stored, InPlace
<1>13. ReaderAt(b)'
  <2>1. b.due = file.size - Len(got')
    BY <1>5, <1>6, <1>7, <1>9, <1>10
  <2> QED
    BY <1>2, <1>9, <2>1 DEF ReaderAt
<1>14. InStep'
  BY <1>1, <1>2, <1>4, <1>13, TraceShrinks
<1>15. \A kind, n : kind # "piece" =>
         (OnWay(stream, kind, n) <=> OnWay(stream', kind, n))
  BY <1>2, <1>3, <1>9, TakenFromStream
<1>16. \A n : DirUnderWay(n)' <=> DirUnderWay(n)
  BY <1>2, <1>15 DEF DirUnderWay
<1>17. \A n : FileUnderWay(n)' <=> FileUnderWay(n)
  BY <1>2, <1>15 DEF FileUnderWay
<1>18. NothingLost'
  BY <1>2, <1>16, <1>17, ReceiverLosesNothing DEF UnderWay, CopyOK
<1> QED
  BY <1>11, <1>12, <1>14, <1>18 DEF CopyOK

(* What the receiver stores is the file it read, whole and in its place.   *)
LEMMA FileIsStored ==
  ASSUME BelowInv, CopyOK, FileComplete, ~disturbed',
         UNCHANGED <<treeVars, senderVars, ended>>
  PROVE  CopyOK'
<1>1. PICK at : Trace(at)
  BY DEF CopyOK, InStep
<1>2. PICK k : k = [dir |-> current_dir, node |-> file.node, content |-> got]
  OBVIOUS
<1>3. /\ receiving = "file" /\ Len(got) >= file.size
      /\ kept' = kept \cup {k} /\ receiving' = "header"
      /\ UNCHANGED <<size, stack, sending, left, stream>>
      /\ UNCHANGED <<current_dir, file, got, created>>
  BY <1>2 DEF FileComplete, Stop, NextHeader, treeVars, senderVars
<1>4. PICK a \in Points : a = at[0] /\ ReaderAt(a)
  <2>1. 0 \in 0..Len(stream)
    BY LenProperties DEF BelowInv, StreamType
  <2> QED
    BY <1>1, <2>1 DEF Trace
<1>5. /\ current_dir # <<>>
      /\ file.node \in Files /\ file.node \in Children[Last(current_dir)]
      /\ file.size = size[file.node]
      /\ got \in Seq(Units) /\ Len(got) <= file.size
      /\ \A m \in 1..Len(got) : got[m] = Piece(file.node)
  BY <1>3 DEF CopyOK, Reading
<1>6. size[file.node] \in Nat
  BY <1>5, TreeAssumption DEF BelowInv, StreamType
<1>7. Len(got) = size[file.node] /\ got \in [1..Len(got) -> Units]
  BY <1>3, <1>5, <1>6, LenProperties
<1>8. got = [i \in 1..size[file.node] |-> Piece(file.node)]
  BY <1>5, <1>7
<1>9. InPlace(k)
  BY <1>2, <1>4, <1>5, <1>8 DEF InPlace, ReaderAt, Points
<1>10. Sending' /\ Reading' /\ Stored'
  BY <1>3, <1>9 DEF CopyOK, Sending, Reading, Stored, InPlace
<1>11. a.due = 0 /\ a.dir = current_dir
  BY <1>3, <1>4, <1>5, <1>6, <1>7 DEF ReaderAt
<1>12. ReaderAt(a)'
  BY <1>3, <1>11 DEF ReaderAt
<1>13. SenderAt(at[Len(stream)])'
  BY <1>1, <1>3 DEF Trace, SenderAt
<1>14. InStep'
  BY <1>1, <1>3, <1>4, <1>12, <1>13, TraceStays
<1>15. k.node = file.node
  BY <1>2
<1>16. \A n : FileUnderWay(n) <=> FileUnderWay(n)'
  BY <1>3, <1>15 DEF FileUnderWay
<1>17. \A n : DirUnderWay(n) <=> DirUnderWay(n)'
  BY <1>3 DEF DirUnderWay
<1>18. NothingLost'
  BY <1>3, <1>16, <1>17, ReceiverLosesNothing DEF UnderWay, CopyOK, NothingLost
<1> QED
  BY <1>10, <1>14, <1>18 DEF CopyOK

(* Nothing that both sides agree on changes.                               *)
LEMMA CopyStays ==
  ASSUME CopyOK, UNCHANGED <<size, stack, sending, left, stream>>,
         UNCHANGED <<current_dir, receiving, file, got, created, kept>>
  PROVE  CopyOK'
<1>1. PICK at : Trace(at)
  BY DEF CopyOK, InStep
<1>2. ReaderAt(at[0])' /\ SenderAt(at[Len(stream)])'
  BY <1>1 DEF Trace, ReaderAt, SenderAt
<1>3. InStep'
  BY <1>1, <1>2, TraceStays
<1>4. Reading' /\ Stored' /\ Sending'
  BY DEF CopyOK, Reading, Stored, Sending, InPlace
<1>5. NothingLost'
  BY DEF CopyOK, NothingLost, UnderWay, DirUnderWay, FileUnderWay
<1> QED
  BY <1>3, <1>4, <1>5 DEF CopyOK

(* In step, nothing is misread: every step of the receiver is accounted    *)
(* for.                                                                    *)
LEMMA ReceiverKeepsCopy ==
  ASSUME BelowInv, CopyOK, ReceiverStep, ~disturbed'
  PROVE  CopyOK'
<1>1. UNCHANGED <<treeVars, senderVars, ended>>
  BY DEF ReceiverStep
<1>2. CASE parse_dir_request
  BY <1>1, <1>2, HeaderIsFollowed
<1>3. CASE Misread
  <2>1. PICK at : Trace(at)
    BY DEF CopyOK, InStep
  <2>2. /\ stream \in Seq(Units) /\ stream # <<>> /\ Len(stream) \in Nat \ {0}
        /\ receiving = "header" /\ stream[1].kind = "piece"
    BY <1>3, EmptySeq DEF Misread, BelowInv, StreamType
  <2>3. 1 \in 1..Len(stream) /\ 1 - 1 = 0
    BY <2>2
  <2>4. Leads(at[0], stream[1], at[1]) /\ ReaderAt(at[0])
    BY <2>1, <2>3 DEF Trace
  <2>5. at[0].due = 0 /\ at[0].due > 0
    BY <2>2, <2>4 DEF Leads, ReaderAt
  <2> QED
    BY <2>5
<1>4. CASE ParseFails \/ WaitAgain
  BY <1>1, <1>4, CopyStays DEF ParseFails, WaitAgain, treeVars, senderVars
<1>5. CASE GiveUp
  BY <1>5 DEF GiveUp, Stop
<1>6. CASE ReadPiece
  BY <1>1, <1>6, PieceIsRead
<1>7. CASE FileComplete
  BY <1>1, <1>7, FileIsStored
<1> QED
  BY <1>2, <1>3, <1>4, <1>5, <1>6, <1>7 DEF ReceiverStep

-----------------------------------------------------------------------------
(* What waits in the sender's calls when one is made, ends, or takes up an *)
(* entry.                                                                  *)
LEMMA WaitsWhenCalled ==
  ASSUME NEW calls \in Seq(Frames), NEW c \in Frames, NEW n, NEW d
  PROVE  WaitsIn(Append(calls, c), n, d) <=>
           WaitsIn(calls, n, d) \/ (c.dir = d /\ n \in c.files \cup c.dirs)
<1>1. PICK m \in Nat : m = Len(calls)
  BY LenProperties
<1>2. /\ Len(Append(calls, c)) = m + 1
      /\ \A i \in 1..m : Append(calls, c)[i] = calls[i]
      /\ Append(calls, c)[m + 1] = c
  BY <1>1, AppendProperties
<1>3. \A i : i \in 1..(m + 1) <=> i = m + 1 \/ i \in 1..m
  OBVIOUS
<1> QED
  BY <1>1, <1>2, <1>3 DEF WaitsIn

LEMMA WaitsWhenReturned ==
  ASSUME NEW calls \in Seq(Frames), calls # <<>>, NEW n, NEW d,
         Last(calls).files = {}, Last(calls).dirs = {}
  PROVE  WaitsIn(calls, n, d) => WaitsIn(Front(calls), n, d)
<1>1. PICK m \in Nat : m + 1 = Len(calls)
  <2>1. Len(calls) \in Nat \ {0}
    BY EmptySeq
  <2>2. Len(calls) - 1 \in Nat /\ (Len(calls) - 1) + 1 = Len(calls)
    BY <2>1
  <2> QED
    BY <2>2
<1>2. Len(Front(calls)) = m /\ \A i \in 1..m : Front(calls)[i] = calls[i]
  <2>1. Len(calls) - 1 = m
    BY <1>1
  <2> QED
    BY <2>1, FoldersShrink
<1>3. \A i : i \in 1..(m + 1) <=> i = m + 1 \/ i \in 1..m
  OBVIOUS
<1>4. calls[m + 1].files = {} /\ calls[m + 1].dirs = {}
  BY <1>1 DEF Last
<1> QED
  BY <1>1, <1>2, <1>3, <1>4 DEF WaitsIn

LEMMA WaitsWhenTaken ==
  ASSUME NEW calls \in Seq(Frames), NEW taken \in Seq(Frames), NEW e,
         Len(taken) = Len(calls),
         \A i \in 1..Len(calls) :
           /\ taken[i].dir = calls[i].dir
           /\ calls[i].files \subseteq taken[i].files \cup {e}
           /\ calls[i].dirs \subseteq taken[i].dirs \cup {e}
  PROVE  \A n, p : WaitsIn(calls, n, p) => WaitsIn(taken, n, p) \/ n = e
<1> SUFFICES ASSUME NEW n, NEW d, WaitsIn(calls, n, d), n # e
             PROVE  WaitsIn(taken, n, d)
  OBVIOUS
<1>1. PICK i \in 1..Len(calls) :
        calls[i].dir = d /\ n \in calls[i].files \cup calls[i].dirs
  BY DEF WaitsIn
<1>2. taken[i].dir = d /\ n \in taken[i].files \cup taken[i].dirs
  BY <1>1
<1> QED
  BY <1>2 DEF WaitsIn

(* The last call takes up one of its files, or one of its directories.     *)
LEMMA EntryTaken ==
  ASSUME NEW calls \in Seq(Frames), calls # <<>>, NEW e, NEW c \in Frames,
         c.dir = Last(calls).dir,
         Last(calls).files \subseteq c.files \cup {e},
         Last(calls).dirs \subseteq c.dirs \cup {e},
         NEW taken \in Seq(Frames), Len(taken) = Len(calls),
         \A i \in 1..Len(calls) : taken[i] = IF i = Len(calls) THEN c ELSE calls[i]
  PROVE  /\ taken # <<>>
         /\ Folders(taken) = Folders(calls)
         /\ \A n, p : WaitsIn(calls, n, p) => WaitsIn(taken, n, p) \/ n = e
<1>1. \A i \in 1..Len(calls) : /\ taken[i].dir = calls[i].dir
                               /\ calls[i].files \subseteq taken[i].files \cup {e}
                               /\ calls[i].dirs \subseteq taken[i].dirs \cup {e}
  BY DEF Last
<1>2. Folders(taken) = Folders(calls)
  BY <1>1, FoldersStay
<1>3. \A n, p : WaitsIn(calls, n, p) => WaitsIn(taken, n, p) \/ n = e
  BY <1>1, WaitsWhenTaken
<1>4. taken # <<>>
  BY EmptySeq
<1> QED
  BY <1>2, <1>3, <1>4

(* Nothing is lost in a step of the sender that sends what it takes up,    *)
(* and waits with what is in a directory it enters.                        *)
LEMMA SenderLosesNothing ==
  ASSUME NothingLost, sending' # "start", UnderWay(Top)',
         \A n \in Nodes : UnderWay(n) => UnderWay(n)',
         \A d \in Dirs : UnderWay(d)' =>
           \/ sending # "start" /\ UnderWay(d)
           \/ \A n \in Children[d] : WaitsIn(stack', n, d),
         \A n \in Nodes, d \in Dirs :
           WaitsIn(stack, n, d) => WaitsIn(stack', n, d) \/ UnderWay(n)'
  PROVE  NothingLost'
<1>1. \A d \in Dirs : Children[d] \subseteq Nodes
  BY TreeAssumption
<1>2. ASSUME NEW d \in Dirs, UnderWay(d)', NEW n \in Children[d]
      PROVE  UnderWay(n)' \/ WaitsIn(stack', n, d)
  <2>1. CASE sending # "start" /\ UnderWay(d)
    <3>1. UnderWay(n) \/ WaitsIn(stack, n, d)
      BY <2>1 DEF NothingLost
    <3> QED
      BY <1>1, <3>1
  <2>2. CASE \A c \in Children[d] : WaitsIn(stack', c, d)
    BY <2>2
  <2> QED
    BY <1>2, <2>1, <2>2
<1> QED
  BY <1>2 DEF NothingLost

(* A sender that is not done leaves the receiver's side as it is.          *)
LEMMA SenderLeavesReader ==
  ASSUME CopyOK, sending # "done", UNCHANGED <<size, receiverVars>>
  PROVE  Reading' /\ Stored'
BY DEF CopyOK, Reading, Stored, InPlace, receiverVars

(* Where the sender is.                                                    *)
LEMMA SenderPlace ==
  ASSUME BelowInv, CopyOK, NEW at, Trace(at)
  PROVE  /\ stream \in Seq(Units)
         /\ at[Len(stream)] \in Points
         /\ at[Len(stream)].dir = Folders(stack)
         /\ at[Len(stream)].due = Len(left)
         /\ \A m \in 1..Len(left) : left[m] = Piece(at[Len(stream)].node)
         /\ Folders(stack) \in Seq(Dirs)
         /\ Folders(stack) # <<>> => IsPath(Folders(stack))
         /\ Folders(stack) = <<>> <=> stack = <<>>
         /\ stack # <<>> => /\ Last(stack) \in Frames
                            /\ Last(Folders(stack)) = Last(stack).dir
<1>1. stream \in Seq(Units) /\ stack \in Seq(Frames)
  BY DEF BelowInv, StreamType, CopyOK, Sending
<1>2. Len(stream) \in 0..Len(stream)
  BY <1>1, LenProperties
<1>3. at[Len(stream)] \in Points /\ SenderAt(at[Len(stream)])
  BY <1>2 DEF Trace
<1>4. /\ Folders(stack) \in Seq(Dirs) /\ Len(Folders(stack)) = Len(stack)
      /\ \A i \in 1..Len(stack) : Folders(stack)[i] = stack[i].dir
  BY <1>1, FoldersType
<1>5. Folders(stack) = <<>> <=> stack = <<>>
  BY <1>1, <1>4, EmptySeq
<1>6. ASSUME stack # <<>>
      PROVE  Last(stack) \in Frames /\ Last(Folders(stack)) = Last(stack).dir
  <2>1. Len(stack) \in 1..Len(stack)
    BY <1>1, <1>6, EmptySeq
  <2> QED
    BY <1>1, <1>4, <2>1, ElementOfSeq DEF Last
<1> QED
  BY <1>1, <1>3, <1>4, <1>5, <1>6 DEF SenderAt, Points

(* A directory is entered: its header leads there, and its entries wait.   *)
LEMMA DirectoryIsSent ==
  ASSUME BelowInv, Undisturbed, CopyOK, ~disturbed',
         UNCHANGED <<treeVars, ended, receiverVars>>,
         NEW d \in Dirs, NEW callers \in Seq(Frames), send_directory(d, callers),
         Folders(callers) = Folders(stack),
         \A n, p : WaitsIn(stack, n, p) => WaitsIn(callers, n, p) \/ n = d,
         \/ sending = "start" /\ d = Top
         \/ sending = "walk" /\ d \in Children[Last(stack).dir]
  PROVE  CopyOK'
<1>1. PICK at : Trace(at)
  BY DEF CopyOK, InStep
<1>2. PICK a : a = at[Len(stream)]
  OBVIOUS
<1>3. PICK u : u = Header("DIR", d)
  OBVIOUS
<1>4. /\ u \in Units /\ u.kind = "DIR" /\ u.node = d /\ u.excess = 0
      /\ d \in Nodes /\ Top \in Dirs
  BY <1>3, UnitTypes, TreeAssumption DEF Header, Undisturbed, BelowInv
<1>5. PICK c \in Frames : c = Call(d, Children[d])
  <2>1. Children[d] \subseteq Nodes
    BY TreeAssumption
  <2> QED
    BY <2>1 DEF Call, Frames, Files
<1>6. c.dir = d /\ Children[d] \subseteq c.files \cup c.dirs
  BY <1>5 DEF Call
<1>7. /\ stream' = Append(stream, u) /\ sending' = "walk"
      /\ stack' = Append(callers, c) /\ UNCHANGED left
      /\ UNCHANGED <<size, current_dir, receiving, file, got, created, kept>>
  BY <1>3, <1>5 DEF send_directory, Write, treeVars, receiverVars
<1>8. left = <<>> /\ Len(left) = 0
  BY EmptySeq DEF CopyOK, Sending
<1>9. /\ a \in Points /\ a.dir = Folders(stack) /\ a.due = 0
      /\ a.dir \in Seq(Dirs) /\ (a.dir # <<>> => IsPath(a.dir))
      /\ IF a.dir = <<>> THEN d = Top ELSE d \in Children[Last(a.dir)]
  <2>1. stack = <<>> <=> sending \in {"start", "done"}
    BY DEF CopyOK, Sending
  <2> QED
    BY <1>1, <1>2, <1>8, <2>1, SenderPlace
<1>10. /\ Append(a.dir, d) \in Seq(Dirs) /\ Append(a.dir, d) # <<>>
       /\ IsPath(Append(a.dir, d))
  BY <1>9, PathGrows
<1>11. PICK b : b = [dir |-> Append(a.dir, d), node |-> a.node, due |-> 0]
  OBVIOUS
<1>12. b \in Points
  BY <1>9, <1>10, <1>11 DEF Points
<1>13. Leads(a, u, b)
  BY <1>4, <1>9, <1>11 DEF Leads, Follow
<1>14. stack' \in Seq(Frames) /\ stack' # <<>>
       /\ Folders(stack') = Append(a.dir, d)
  BY <1>6, <1>7, <1>9, FoldersGrow, AppendProperties
<1>15. SenderAt(b)'
  <2>1. \A m \in 1..Len(left) : FALSE
    BY <1>8
  <2> QED
    BY <1>7, <1>8, <1>11, <1>14, <2>1 DEF SenderAt
<1>16. InStep'
  <2>1. stream \in Seq(Units) /\ Truthful(u) /\ b.dir # <<>>
    BY <1>4, <1>10, <1>11 DEF Truthful, BelowInv, StreamType
  <2> QED
    BY <1>1, <1>2, <1>4, <1>7, <1>12, <1>13, <1>15, <2>1, TraceGrows
<1>17. Sending'
  BY <1>7, <1>8, <1>14 DEF Sending
<1>18. Reading' /\ Stored'
  BY <1>7, SenderLeavesReader
<1>19. \A kind, n : OnWay(stream', kind, n) <=>
                      (u.kind = kind /\ u.node = n) \/ OnWay(stream, kind, n)
  BY <1>4, <1>7, WrittenToStream DEF BelowInv, StreamType
<1>20. \A n : DirUnderWay(n)' <=> n = d \/ DirUnderWay(n)
  BY <1>4, <1>7, <1>19 DEF DirUnderWay
<1>21. \A n : FileUnderWay(n)' <=> FileUnderWay(n)
  BY <1>4, <1>7, <1>19 DEF FileUnderWay
<1>22. \A n, e : WaitsIn(stack', n, e) <=>
                   WaitsIn(callers, n, e) \/ (e = d /\ n \in c.files \cup c.dirs)
  BY <1>6, <1>7, WaitsWhenCalled
<1>23. \A n : UnderWay(n) => UnderWay(n)'
  BY <1>20, <1>21 DEF UnderWay
<1>24. UnderWay(d)'
  BY <1>20 DEF UnderWay
<1>25. UnderWay(Top)'
  <2>1. sending # "start" => UnderWay(Top)
    BY DEF CopyOK, NothingLost
  <2> QED
    BY <1>23, <1>24, <2>1
<1>26. ASSUME sending = "start", NEW e
       PROVE  ~ DirUnderWay(e)
  <2>1. created = {} /\ stream = <<>>
    BY <1>26 DEF CopyOK, NothingLost, BelowInv, TopComesFirst
  <2> QED
    BY <2>1, EmptySeq DEF DirUnderWay, OnWay
<1>27. ASSUME NEW e \in Dirs, UnderWay(e)'
       PROVE  \/ sending # "start" /\ UnderWay(e)
              \/ \A n \in Children[e] : WaitsIn(stack', n, e)
  <2>1. e = d => \A n \in Children[e] : WaitsIn(stack', n, e)
    BY <1>6, <1>22
  <2>2. e # d => sending # "start" /\ UnderWay(e)
    BY <1>20, <1>26, <1>27 DEF UnderWay
  <2> QED
    BY <2>1, <2>2
<1>28. \A n, e : WaitsIn(stack, n, e) => WaitsIn(stack', n, e) \/ UnderWay(n)'
  BY <1>22, <1>24
<1>29. NothingLost'
  BY <1>7, <1>23, <1>25, <1>27, <1>28, SenderLosesNothing DEF CopyOK
<1> QED
  BY <1>16, <1>17, <1>18, <1>29 DEF CopyOK

(* A file's header: its pieces are due, and on hand.                       *)
LEMMA FileIsAnnounced ==
  ASSUME BelowInv, Undisturbed, CopyOK, ~disturbed',
         UNCHANGED <<treeVars, ended, receiverVars>>,
         NEW f \in Files, read_directory_files(f)
  PROVE  CopyOK'
<1>1. PICK at : Trace(at)
  BY DEF CopyOK, InStep
<1>2. PICK a : a = at[Len(stream)]
  OBVIOUS
<1>3. PICK u : u = Header("REGULAR", f)
  OBVIOUS
<1>4. /\ sending = "walk" /\ f \in Last(stack).files
      /\ stack' = [stack EXCEPT ![Len(stack)].files = @ \ {f}]
      /\ stream' = Append(stream, u) /\ sending' = "file"
      /\ left' = [i \in 1..size[f] |-> Piece(f)]
      /\ UNCHANGED <<size, current_dir, receiving, file, got, created, kept>>
  BY <1>3 DEF read_directory_files, Caller, Write, treeVars, receiverVars
<1>5. size[f] \in Nat /\ size[f] < SizeLimit /\ f \in Nodes /\ f \notin Dirs
  BY TreeAssumption DEF BelowInv, StreamType, Undisturbed, Files
<1>6. /\ u \in Units /\ u.kind = "REGULAR" /\ u.node = f /\ u.excess = 0
      /\ u.size = size[f]
  <2>1. size[f] % SizeLimit = size[f]
    BY <1>5, TreeAssumption
  <2> QED
    BY <1>3, <2>1, UnitTypes DEF Header, Undisturbed, BelowInv
<1>7. stack \in Seq(Frames) /\ stack # <<>> /\ left = <<>> /\ Len(left) = 0
  BY <1>4, EmptySeq DEF CopyOK, Sending
<1>8. /\ a \in Points /\ a.dir = Folders(stack) /\ a.due = 0 /\ a.dir # <<>>
      /\ f \in Children[Last(a.dir)]
  <2>1. Last(stack).files \subseteq Children[Last(stack).dir]
    BY <1>1, <1>7, SenderPlace DEF Frames
  <2> QED
    BY <1>1, <1>2, <1>4, <1>7, <2>1, SenderPlace
<1>9. PICK b : b = [dir |-> a.dir, node |-> f, due |-> size[f]]
  OBVIOUS
<1>10. b \in Points
  BY <1>5, <1>8, <1>9 DEF Points
<1>11. Leads(a, u, b) /\ Truthful(u)
  BY <1>6, <1>8, <1>9 DEF Leads, Follow, Truthful
<1>12. /\ stack' \in Seq(Frames) /\ stack' # <<>>
       /\ Folders(stack') = Folders(stack)
       /\ \A n, d : WaitsIn(stack, n, d) => WaitsIn(stack', n, d) \/ n = f
  <2>1. PICK c, taken : /\ c = [Last(stack) EXCEPT !.files = @ \ {f}]
                        /\ taken = [stack EXCEPT ![Len(stack)] = c]
    OBVIOUS
  <2>2. Last(stack) \in Frames /\ Len(stack) \in 1..Len(stack)
    BY <1>1, <1>7, SenderPlace, EmptySeq
  <2>3. /\ c \in Frames /\ c.dir = Last(stack).dir
        /\ Last(stack).files \subseteq c.files \cup {f}
        /\ Last(stack).dirs \subseteq c.dirs \cup {f}
    BY <2>1, <2>2 DEF Frames
  <2>4. /\ taken \in Seq(Frames) /\ Len(taken) = Len(stack)
        /\ \A i \in 1..Len(stack) : taken[i] = IF i = Len(stack) THEN c ELSE stack[i]
    BY <1>7, <2>1, <2>2, <2>3, ExceptSeq
  <2>5. /\ taken # <<>>
        /\ Folders(taken) = Folders(stack)
        /\ \A n, p : WaitsIn(stack, n, p) => WaitsIn(taken, n, p) \/ n = f
    BY <1>7, <2>3, <2>4, EntryTaken
  <2>6. stack' = taken
    BY <1>4, <2>1 DEF Last
  <2> QED
    BY <2>4, <2>5, <2>6
<1>13. left' \in Seq(Units) /\ Len(left') = size[f]
       /\ \A m \in 1..Len(left') : left'[m] = Piece(f)
  <2>1. Piece(f) \in Units
    BY <1>5, UnitTypes DEF BelowInv
  <2>2. [i \in 1..size[f] |-> Piece(f)] \in Seq(Units)
    BY <1>5, <2>1, SeqDef
  <2> QED
    BY <1>4, <1>5, <2>2
<1>14. SenderAt(b)'
  BY <1>8, <1>9, <1>12, <1>13 DEF SenderAt
<1>15. InStep'
  <2>1. stream \in Seq(Units) /\ b.dir # <<>>
    BY <1>8, <1>9 DEF BelowInv, StreamType
  <2> QED
    BY <1>1, <1>2, <1>4, <1>6, <1>10, <1>11, <1>14, <2>1, TraceGrows
<1>16. Sending'
  BY <1>4, <1>12 DEF Sending
<1>17. Reading' /\ Stored'
  BY <1>4, SenderLeavesReader
<1>18. \A kind, n : OnWay(stream', kind, n) <=>
                      (u.kind = kind /\ u.node = n) \/ OnWay(stream, kind, n)
  BY <1>4, <1>6, WrittenToStream DEF BelowInv, StreamType
<1>19. \A n : DirUnderWay(n)' <=> DirUnderWay(n)
  BY <1>4, <1>6, <1>18 DEF DirUnderWay
<1>20. \A n : FileUnderWay(n)' <=> n = f \/ FileUnderWay(n)
  BY <1>4, <1>6, <1>18 DEF FileUnderWay
<1>21. /\ \A n : UnderWay(n) => UnderWay(n)'
       /\ \A d \in Dirs : UnderWay(d)' => UnderWay(d)
       /\ UnderWay(f)'
  BY <1>5, <1>19, <1>20 DEF UnderWay
<1>22. UnderWay(Top)'
  BY <1>4, <1>21 DEF CopyOK, NothingLost
<1>23. \A n, d : WaitsIn(stack, n, d) => WaitsIn(stack', n, d) \/ UnderWay(n)'
  BY <1>12, <1>21
<1>24. NothingLost'
  BY <1>4, <1>21, <1>22, <1>23, SenderLosesNothing DEF CopyOK
<1> QED
  BY <1>15, <1>16, <1>17, <1>24 DEF CopyOK

(* A subdirectory is taken up by the call for its parent.                  *)
LEMMA SubdirectoryIsSent ==
  ASSUME BelowInv, Undisturbed, CopyOK, ~disturbed',
         UNCHANGED <<treeVars, ended, receiverVars>>,
         NEW d \in Dirs, SendSubdirectory(d)
  PROVE  CopyOK'
<1>1. PICK at : Trace(at)
  BY DEF CopyOK, InStep
<1>2. /\ sending = "walk" /\ d \in Last(stack).dirs
      /\ stack \in Seq(Frames) /\ stack # <<>>
  BY DEF SendSubdirectory, Caller, CopyOK, Sending
<1>3. PICK c, callers : /\ c = [Last(stack) EXCEPT !.dirs = @ \ {d}]
                        /\ callers = [stack EXCEPT ![Len(stack)] = c]
  OBVIOUS
<1>4. Last(stack) \in Frames /\ Len(stack) \in 1..Len(stack)
  BY <1>1, <1>2, SenderPlace, EmptySeq
<1>5. /\ c \in Frames /\ c.dir = Last(stack).dir
      /\ Last(stack).files \subseteq c.files \cup {d}
      /\ Last(stack).dirs \subseteq c.dirs \cup {d}
  BY <1>3, <1>4 DEF Frames
<1>6. /\ callers \in Seq(Frames) /\ Len(callers) = Len(stack)
      /\ \A i \in 1..Len(stack) : callers[i] = IF i = Len(stack) THEN c ELSE stack[i]
  BY <1>2, <1>3, <1>4, <1>5, ExceptSeq
<1>7. /\ callers # <<>>
      /\ Folders(callers) = Folders(stack)
      /\ \A n, p : WaitsIn(stack, n, p) => WaitsIn(callers, n, p) \/ n = d
  <2>1. stack \in Seq(Frames) /\ stack # <<>>
    BY <1>2
  <2> QED
    BY <1>5, <1>6, <2>1, EntryTaken
<1>8. callers = [stack EXCEPT ![Len(stack)].dirs = @ \ {d}]
  BY <1>3 DEF Last
<1>9. send_directory(d, callers)
  BY <1>8 DEF SendSubdirectory
<1>10. d \in Children[Last(stack).dir]
  BY <1>2, <1>4 DEF Frames
<1> QED
  BY <1>2, <1>6, <1>7, <1>9, <1>10, DirectoryIsSent

(* A piece of the file whose header the receiver will have read last.      *)
LEMMA PieceIsSent ==
  ASSUME BelowInv, CopyOK, SendPiece,
         UNCHANGED <<treeVars, ended, receiverVars>>
  PROVE  CopyOK'
<1>1. PICK at : Trace(at)
  BY DEF CopyOK, InStep
<1>2. PICK a : a = at[Len(stream)]
  OBVIOUS
<1>3. /\ sending = "file" /\ sending' = "file" /\ left \in Seq(Units) /\ left # <<>>
      /\ stream' = Append(stream, Head(left)) /\ left' = Tail(left)
      /\ UNCHANGED <<stack, size, current_dir, receiving, file, got, created, kept>>
  BY DEF SendPiece, Write, treeVars, receiverVars, BelowInv, StreamType
<1>4. /\ Len(left) \in Nat \ {0} /\ Head(left) = left[1]
      /\ left' \in Seq(Units) /\ Len(left') = Len(left) - 1
      /\ \A i \in 1..Len(left') : left'[i] = left[i + 1]
  BY <1>3, EmptySeq, HeadTailProperties
<1>5. /\ a \in Points /\ a.dir = Folders(stack) /\ a.due = Len(left)
      /\ \A m \in 1..Len(left) : left[m] = Piece(a.node)
      /\ a.dir # <<>>
  BY <1>1, <1>2, <1>3, SenderPlace DEF CopyOK, Sending
<1>6. PICK u : u = Piece(a.node)
  OBVIOUS
<1>7. u \in Units /\ u.kind = "piece" /\ Head(left) = u
  <2>1. 1 \in 1..Len(left) /\ a.node \in Nodes
    BY <1>4, <1>5 DEF Points
  <2> QED
    BY <1>4, <1>5, <1>6, <2>1, UnitTypes DEF Piece, BelowInv
<1>8. PICK b : b = [dir |-> a.dir, node |-> a.node, due |-> a.due - 1]
  OBVIOUS
<1>9. b \in Points
  <2>1. a.due - 1 \in Nat
    BY <1>4, <1>5
  <2> QED
    BY <1>5, <1>8, <2>1 DEF Points
<1>10. Leads(a, u, b) /\ Truthful(u)
  BY <1>4, <1>5, <1>6, <1>7, <1>8 DEF Leads, Follow, Truthful
<1>11. SenderAt(b)'
  <2>1. \A m \in 1..Len(left') : m + 1 \in 1..Len(left)
    BY <1>4
  <2> QED
    BY <1>3, <1>4, <1>5, <1>8, <2>1 DEF SenderAt
<1>12. InStep'
  <2>1. stream \in Seq(Units) /\ b.dir # <<>>
    BY <1>5, <1>8 DEF BelowInv, StreamType
  <2> QED
    BY <1>1, <1>2, <1>3, <1>7, <1>9, <1>10, <1>11, <2>1, TraceGrows
<1>13. Sending'
  BY <1>3 DEF CopyOK, Sending
<1>14. Reading' /\ Stored'
  BY <1>3, SenderLeavesReader
<1>15. \A kind, n : kind # "piece" =>
         (OnWay(stream', kind, n) <=> OnWay(stream, kind, n))
  BY <1>3, <1>7, WrittenToStream DEF BelowInv, StreamType
<1>16. \A n : UnderWay(n)' <=> UnderWay(n)
  BY <1>3, <1>15 DEF UnderWay, DirUnderWay, FileUnderWay
<1>17. NothingLost'
  BY <1>3, <1>16 DEF CopyOK, NothingLost
<1> QED
  BY <1>12, <1>13, <1>14, <1>17 DEF CopyOK

(* The file is sent: nothing of it is due any more.                        *)
LEMMA FileIsSent ==
  ASSUME CopyOK, FileSent, UNCHANGED <<treeVars, ended, receiverVars>>
  PROVE  CopyOK'
<1>1. PICK at : Trace(at)
  BY DEF CopyOK, InStep
<1>2. /\ sending = "file" /\ sending' = "walk" /\ left = <<>>
      /\ UNCHANGED <<stack, left, stream>>
      /\ UNCHANGED <<size, current_dir, receiving, file, got, created, kept>>
  BY DEF FileSent, treeVars, receiverVars
<1>3. ReaderAt(at[0])' /\ SenderAt(at[Len(stream)])'
  BY <1>1, <1>2 DEF Trace, ReaderAt, SenderAt
<1>4. InStep'
  BY <1>1, <1>2, <1>3, TraceStays
<1>5. Sending'
  BY <1>2 DEF CopyOK, Sending
<1>6. Reading' /\ Stored'
  BY <1>2, SenderLeavesReader
<1>7. NothingLost'
  BY <1>2 DEF CopyOK, NothingLost, UnderWay, DirUnderWay, FileUnderWay
<1> QED
  BY <1>4, <1>5, <1>6, <1>7 DEF CopyOK

(* A call ends when all it has is sent; the last one, below Top, ends the  *)
(* walk.                                                                   *)
LEMMA ParentIsReturnedTo ==
  ASSUME BelowInv, CopyOK, ReturnToParent,
         UNCHANGED <<treeVars, ended, receiverVars>>
  PROVE  CopyOK'
<1>1. PICK at : Trace(at)
  BY DEF CopyOK, InStep
<1>2. PICK a, u : a = at[Len(stream)] /\ u = Header("RETPARENT", Top)
  OBVIOUS
<1>3. /\ sending = "walk" /\ Last(stack).files = {} /\ Last(stack).dirs = {}
      /\ stream' = Append(stream, u) /\ stack' = Front(stack)
      /\ sending' = IF Len(stack) = 1 THEN "done" ELSE "walk"
      /\ UNCHANGED <<left, size, current_dir, receiving, file, got, created, kept>>
  BY <1>2 DEF ReturnToParent, Caller, Write, treeVars, receiverVars
<1>4. u \in Units /\ u.kind = "RETPARENT" /\ u.excess = 0
  BY <1>2, UnitTypes DEF Header, BelowInv
<1>5. stack \in Seq(Frames) /\ stack # <<>> /\ left = <<>> /\ Len(left) = 0
  BY <1>3, EmptySeq DEF CopyOK, Sending
<1>6. /\ stack' \in Seq(Frames)
      /\ stack' = <<>> <=> Len(stack) = 1
      /\ Folders(stack') = Front(Folders(stack))
  BY <1>3, <1>5, FoldersShrink
<1>7. /\ a \in Points /\ a.dir = Folders(stack) /\ a.due = 0 /\ a.dir # <<>>
      /\ a.dir \in Seq(Dirs) /\ IsPath(a.dir)
      /\ Len(a.dir) = Len(stack)
  BY <1>1, <1>2, <1>5, SenderPlace, FoldersType
<1>8. /\ Front(a.dir) \in Seq(Dirs)
      /\ Front(a.dir) # <<>> => IsPath(Front(a.dir))
      /\ Front(a.dir) = <<>> <=> Len(a.dir) = 1
  BY <1>7, PathShrinks
<1>9. PICK b : b = [dir |-> Front(a.dir), node |-> a.node, due |-> 0]
  OBVIOUS
<1>10. b \in Points
  BY <1>7, <1>8, <1>9 DEF Points
<1>11. Leads(a, u, b) /\ Truthful(u)
  BY <1>4, <1>7, <1>9 DEF Leads, Follow, Truthful
<1>12. SenderAt(b)'
  <2>1. \A m \in 1..Len(left) : FALSE
    BY <1>5
  <2> QED
    BY <1>3, <1>5, <1>6, <1>7, <1>9, <2>1 DEF SenderAt
<1>13. InStep'
  <2>1. stream \in Seq(Units) /\ (b.dir = <<>> => sending' = "done")
    BY <1>3, <1>7, <1>8, <1>9 DEF BelowInv, StreamType
  <2> QED
    BY <1>1, <1>2, <1>3, <1>4, <1>10, <1>11, <1>12, <2>1, TraceGrows
<1>14. Sending'
  BY <1>3, <1>5, <1>6 DEF Sending
<1>15. Reading' /\ Stored'
  BY <1>3, SenderLeavesReader
<1>16. \A kind, n : kind # "RETPARENT" =>
         (OnWay(stream', kind, n) <=> OnWay(stream, kind, n))
  BY <1>3, <1>4, WrittenToStream DEF BelowInv, StreamType
<1>17. \A n : UnderWay(n)' <=> UnderWay(n)
  BY <1>3, <1>16 DEF UnderWay, DirUnderWay, FileUnderWay
<1>18. \A n, d : WaitsIn(stack, n, d) => WaitsIn(stack', n, d)
  BY <1>3, <1>5, WaitsWhenReturned
<1>19. NothingLost'
  BY <1>3, <1>17, <1>18 DEF CopyOK, NothingLost
<1> QED
  BY <1>13, <1>14, <1>15, <1>19 DEF CopyOK

LEMMA SenderKeepsCopy ==
  ASSUME BelowInv, Undisturbed, CopyOK, SenderStep, ~disturbed'
  PROVE  CopyOK'
<1>1. UNCHANGED <<treeVars, ended, receiverVars>>
  BY DEF SenderStep
<1>2. CASE tcp_transfer_dir
  <2>1. sending = "start" /\ stack = <<>> /\ send_directory(Top, <<>>)
    BY <1>2 DEF tcp_transfer_dir, CopyOK, Sending
  <2>2. <<>> \in Seq(Frames) /\ Top \in Dirs
    BY EmptySeq, TreeAssumption
  <2> QED
    BY <1>1, <2>1, <2>2, DirectoryIsSent
<1>3. ASSUME NEW f \in Files, read_directory_files(f)
      PROVE  CopyOK'
  BY <1>1, <1>3, FileIsAnnounced
<1>4. CASE SendPiece
  BY <1>1, <1>4, PieceIsSent
<1>5. CASE FileSent
  BY <1>1, <1>5, FileIsSent
<1>6. ASSUME NEW d \in Dirs, SendSubdirectory(d)
      PROVE  CopyOK'
  BY <1>1, <1>6, SubdirectoryIsSent
<1>7. CASE ReturnToParent
  BY <1>1, <1>7, ParentIsReturnedTo
<1>8. CASE SenderSeesClose
  BY <1>8 DEF SenderSeesClose, CopyOK, Reading
<1> QED
  BY <1>2, <1>3, <1>4, <1>5, <1>6, <1>7, <1>8 DEF SenderStep

-----------------------------------------------------------------------------
(* What goes wrong stays known.                                            *)
LEMMA DisturbedStays ==
  ASSUME Next, Undisturbed'
  PROVE  Undisturbed /\ ~disturbed'
<1>1. UNCHANGED <<size, shortened>>
  BY DEF Next, SenderStep, SenderCloses, ReceiverStep, treeVars
<1>2. disturbed => disturbed'
  <2>1. CASE SenderStep
    BY <2>1 DEF SenderStep, tcp_transfer_dir, send_directory,
       read_directory_files, SendPiece, FileSent, SendSubdirectory,
       ReturnToParent, SenderSeesClose
  <2>2. CASE FileHasChanged \/ DirectoryFails \/ SenderCloses
    BY <2>2 DEF FileHasChanged, DirectoryFails, SenderCloses
  <2>3. CASE ReceiverStep
    BY <2>3 DEF ReceiverStep, parse_dir_request, Misread, ParseFails,
       WaitAgain, GiveUp, ReadPiece, FileComplete, Stop
  <2> QED
    BY <2>1, <2>2, <2>3 DEF Next
<1> QED
  BY <1>1, <1>2 DEF Undisturbed

LEMMA CopyInvHolds == Spec => []CopyInv
<1>1. ASSUME Init PROVE Undisturbed => CopyOK
  <2>1. /\ stack = <<>> /\ sending = "start" /\ left = <<>> /\ stream = <<>>
        /\ current_dir = <<>> /\ receiving = "header" /\ created = {} /\ kept = {}
    BY <1>1 DEF Init
  <2>2. <<>> \in Seq(Frames) /\ <<>> \in Seq(Dirs) /\ Len(stream) = 0 /\ Len(left) = 0
    BY <2>1, EmptySeq
  <2>3. Reading /\ Stored /\ Sending /\ NothingLost
    BY <2>1, <2>2 DEF Reading, Stored, Sending, NothingLost
  <2>4. PICK a : a = [dir |-> <<>>, node |-> Top, due |-> 0]
    OBVIOUS
  <2>5. a \in Points
    BY <2>2, <2>4, TreeAssumption DEF Points
  <2>6. Folders(stack) = <<>>
    <3>1. Folders(stack) \in Seq(Dirs) /\ Len(Folders(stack)) = 0
      BY <2>1, <2>2, FoldersType, EmptySeq
    <3> QED
      BY <3>1, EmptySeq
  <2>7. ReaderAt(a) /\ SenderAt(a)
    BY <2>1, <2>2, <2>4, <2>6 DEF ReaderAt, SenderAt
  <2>8. PICK at : at = [k \in 0..0 |-> a]
    OBVIOUS
  <2>9. Trace(at)
    <3>1. at[0] = a /\ at \in [0..Len(stream) -> Points]
      BY <2>2, <2>5, <2>8
    <3>2. \A k \in 1..Len(stream) : FALSE
      BY <2>2
    <3> QED
      BY <2>2, <2>7, <3>1, <3>2 DEF Trace
  <2> QED
    BY <2>3, <2>9 DEF CopyOK, InStep
<1>2. ASSUME BelowInv, Undisturbed => CopyOK, [Next]_vars
      PROVE  Undisturbed' => CopyOK'
  <2>1. CASE UNCHANGED vars
    <3>1. UNCHANGED <<size, stack, sending, left, stream>>
          /\ UNCHANGED <<current_dir, receiving, file, got, created, kept>>
          /\ (Undisturbed' => Undisturbed)
      BY <2>1 DEF vars, treeVars, senderVars, receiverVars, Undisturbed
    <3> QED
      BY <1>2, <3>1, CopyStays
  <2>2. ASSUME Next, Undisturbed'
        PROVE  CopyOK'
    <3>1. Undisturbed /\ CopyOK /\ ~disturbed'
      BY <1>2, <2>2, DisturbedStays
    <3>2. CASE SenderStep
      BY <1>2, <3>1, <3>2, SenderKeepsCopy
    <3>3. CASE FileHasChanged \/ DirectoryFails
      BY <3>1, <3>3 DEF FileHasChanged, DirectoryFails
    <3>4. CASE SenderCloses
      <4>1. /\ sending = "done" /\ sending' = "done" /\ stream' = stream
            /\ UNCHANGED <<size, stack, left>>
            /\ UNCHANGED <<current_dir, receiving, file, got, created, kept>>
        BY <3>1, <3>4 DEF SenderCloses, treeVars, receiverVars
      <4> QED
        BY <3>1, <4>1, CopyStays
    <3>5. CASE ReceiverStep
      BY <1>2, <3>1, <3>5, ReceiverKeepsCopy
    <3> QED
      BY <2>2, <3>2, <3>3, <3>4, <3>5 DEF Next
  <2> QED
    BY <1>2, <2>1, <2>2
<1>3. CopyInv <=> BelowInv /\ (Undisturbed => CopyOK)
  BY DEF CopyInv
<1> QED
  BY <1>1, <1>2, <1>3, BelowInvHolds, PTL DEF Spec

-----------------------------------------------------------------------------
(* However the stream is cut into reads, every file that a transfer with   *)
(* which nothing goes wrong has stored is in the directory it comes from,  *)
(* and has its content: do_download_directory follows the headers that     *)
(* send_directory writes, and takes no piece for a header or for another   *)
(* file's.                                                                 *)
THEOREM FilesAreInPlace == Spec => []FilesWhereTheyBelong
<1>1. CopyInv => FilesWhereTheyBelong
  BY DEF CopyInv, CopyOK, Stored, InPlace, FilesWhereTheyBelong
<1> QED
  BY <1>1, CopyInvHolds, PTL

(* When check_end_condition has ended such a transfer, every directory is  *)
(* created and every file is stored: what the receiver has is closed under *)
(* going down the tree, and below Top that is all of it.                   *)
THEOREM EndedIsWhole == Spec => []DoneIsWhole
<1>1. ASSUME CopyInv, receiving = "done", Undisturbed
      PROVE  /\ {Last(p) : p \in created} = Dirs
             /\ {k.node : k \in kept} = Files
             /\ sending = "done"
  <2>1. CopyOK /\ stream = <<>> /\ sending = "done"
    BY <1>1 DEF CopyInv, CopyOK, Reading
  <2>2. stack = <<>> /\ Len(stack) = 0 /\ Len(stream) = 0
    BY <2>1, EmptySeq DEF CopyOK, Sending
  <2>3. \A n, d : ~ WaitsIn(stack, n, d)
    BY <2>2 DEF WaitsIn
  <2>4. \A kind, n : ~ OnWay(stream, kind, n)
    BY <2>2 DEF OnWay
  <2>5. PICK S \in SUBSET Nodes : S = {n \in Nodes : UnderWay(n)}
    OBVIOUS
  <2>6. Top \in S
    BY <2>1, <2>5, TreeAssumption DEF CopyOK, NothingLost
  <2>7. ASSUME NEW d \in S \cap Dirs
        PROVE  Children[d] \subseteq S
    <3>1. Children[d] \subseteq Nodes
      BY TreeAssumption
    <3> QED
      BY <2>1, <2>3, <2>5, <3>1 DEF CopyOK, NothingLost
  <2>8. S = Nodes
    BY <2>5, <2>6, <2>7, ReachAssumption
  <2>9. \A d \in Dirs : \E p \in created : Last(p) = d
    BY <2>4, <2>5, <2>8, TreeAssumption DEF UnderWay, DirUnderWay
  <2>10. \A f \in Files : \E k \in kept : k.node = f
    BY <1>1, <2>4, <2>5, <2>8 DEF UnderWay, FileUnderWay, Files
  <2>11. /\ \A p \in created : Last(p) \in Dirs
         /\ \A k \in kept : k.node \in Files
    BY <2>1 DEF CopyOK, Stored, InPlace
  <2> QED
    BY <2>1, <2>9, <2>10, <2>11
<1>2. CopyInv => DoneIsWhole
  BY <1>1 DEF DoneIsWhole
<1> QED
  BY <1>2, CopyInvHolds, PTL

(* The numbers are well-ordered, in the form that the next lemma takes.    *)
LEMMA NumbersAreOrdered == IsWellFoundedOn({ss \in Nat \X Nat : ss[1] < ss[2]}, Nat)
<1>1. OpToRel(<, Nat) = {ss \in Nat \X Nat : ss[1] < ss[2]}
  BY Zenon DEF OpToRel
<1> QED
  BY <1>1, NatLessThanWellFounded, Zenon

(* The smallest of a set of numbers.                                       *)
LEMMA SmallestExists ==
  ASSUME NEW T \in SUBSET Nat, T # {}
  PROVE  \E m \in T : \A n \in T : m <= n
<1> DEFINE R == {ss \in Nat \X Nat : ss[1] < ss[2]}
<1>1. IsWellFoundedOn(R, Nat)
  BY NumbersAreOrdered
<1> HIDE DEF R
<1>2. PICK m \in T : \A n \in T : ~ (<<n, m>> \in R)
  BY <1>1, WFMin
<1>3. \A n \in T : ~ (n < m)
  BY <1>2 DEF R
<1> QED
  BY <1>3

(* A trace of the stream says where every unit of it leads to: DirAfter is *)
(* the only function that begins at the receiver and follows each.         *)
LEMMA TraceGivesPlace ==
  ASSUME stream \in Seq(Units), NEW at, Trace(at)
  PROVE  DirAfter[Len(stream)] = at[Len(stream)].dir
<1>1. PICK n \in Nat : n = Len(stream)
  BY LenProperties
<1>2. at[0].dir = current_dir
      /\ \A k \in 1..n : at[k].dir = Follow(at[k - 1].dir, stream[k])
  BY <1>1 DEF Trace, ReaderAt, Leads
<1>3. \E g : g = [k \in 0..n |-> IF k = 0 THEN current_dir
                                          ELSE Follow(g[k - 1], stream[k])]
  <2>1. PICK g : g = [k \in 0..n |-> at[k].dir]
    OBVIOUS
  <2>2. \A k \in 0..n : g[k] = IF k = 0 THEN current_dir
                                        ELSE Follow(g[k - 1], stream[k])
    <3>1. \A k \in 0..n : k = 0 \/ (k \in 1..n /\ k - 1 \in 0..n)
      OBVIOUS
    <3> QED
      BY <1>2, <2>1, <3>1
  <2>3. g = [k \in 0..n |-> IF k = 0 THEN current_dir
                                     ELSE Follow(g[k - 1], stream[k])]
    BY <2>1, <2>2
  <2> QED
    BY <2>3
<1>4. DirAfter = CHOOSE g : g = [k \in 0..n |-> IF k = 0 THEN current_dir
                                                ELSE Follow(g[k - 1], stream[k])]
  BY <1>1 DEF DirAfter
<1>5. DirAfter = [k \in 0..n |-> IF k = 0 THEN current_dir
                                 ELSE Follow(DirAfter[k - 1], stream[k])]
  BY <1>3, <1>4
<1>6. PICK T : T = {k \in 0..n : DirAfter[k] # at[k].dir}
  OBVIOUS
<1>7. T = {}
  <2>1. SUFFICES ASSUME T # {}
                 PROVE  FALSE
    OBVIOUS
  <2>2. PICK m \in T : \A k \in T : m <= k
    <3>1. T \in SUBSET Nat
      BY <1>6
    <3> QED
      BY <2>1, <3>1, SmallestExists
  <2>3. m \in 0..n /\ DirAfter[m] # at[m].dir
    BY <1>6
  <2>4. m # 0
    BY <1>2, <1>5, <2>3
  <2>5. m \in 1..n /\ m - 1 \in 0..n /\ m - 1 < m
    BY <2>3, <2>4
  <2>6. DirAfter[m - 1] = at[m - 1].dir
    BY <1>6, <2>2, <2>5
  <2>7. DirAfter[m] = Follow(DirAfter[m - 1], stream[m])
    BY <1>5, <2>3, <2>4
  <2> QED
    BY <1>2, <2>3, <2>5, <2>6, <2>7
<1>8. n \in 0..n
  OBVIOUS
<1> QED
  BY <1>1, <1>6, <1>7, <1>8

(* At every moment of such a transfer the units in flight lead from the    *)
(* receiver's directory to the one the sender is in: neither ever returns  *)
(* from, or enters, a directory that the other does not.                   *)
THEOREM SidesStayInStep == Spec => []ReceiverFollows
<1>1. ASSUME CopyInv, Undisturbed
      PROVE  DirAfter[Len(stream)] = [i \in DOMAIN stack |-> stack[i].dir]
  <2>1. BelowInv /\ CopyOK /\ stream \in Seq(Units)
    BY <1>1 DEF CopyInv, BelowInv, StreamType
  <2>2. PICK at : Trace(at)
    BY <2>1 DEF CopyOK, InStep
  <2>3. DirAfter[Len(stream)] = at[Len(stream)].dir
    BY <2>1, <2>2, TraceGivesPlace
  <2>4. at[Len(stream)].dir = Folders(stack)
    BY <2>2 DEF Trace, SenderAt
  <2> QED
    BY <2>3, <2>4 DEF Folders
<1>2. CopyInv => ReceiverFollows
  BY <1>1 DEF ReceiverFollows
<1> QED
  BY <1>2, CopyInvHolds, PTL
=============================================================================
