------------------------------- MODULE Receiving -------------------------------
(***************************************************************************)
(* The windows of received messages with the transfers that their download *)
(* windows start (downloads.c).  A transfer is a handler that never leaves *)
(* the GTK thread: between two pieces it runs the main loop, in which the  *)
(* user may close its window, open seals, or start the transfer of another *)
(* window, which then has to end first.                                    *)
(***************************************************************************)
EXTENDS RecvWindows

CONSTANT Disk0  \* the files in the download directory at start: name -> contents

\* What can be read of an attachment list names a file and its size.
ASSUME OfferAssumption ==
  \A m \in Messages :
    /\ Len(Offer[m]) \in Nat /\ DOMAIN Offer[m] = 1..Len(Offer[m])
    /\ \A i \in Rows(m) : Offer[m][i].size \in Nat /\ Offer[m][i].name # None

VARIABLES
  rows,   \* window -> the attachments its download window still lists
  disk,   \* the files in the download directory: name -> contents
  agreed  \* names the user has agreed to overwrite (history)

transferVars == <<rows, disk, agreed>>
vars == <<winVars, transferVars>>

\* What a step of a transfer leaves alone.
windowsStill == <<msgOf, view, flags, ext, opened, logged, settings, changed>>
listsStill   == <<dl, sent, displayed>>

\* The handler of a download window: the rows still to fetch, where
\* do_download stands with the first of them, the name of the file it
\* writes (None once that is gone from the directory), the pieces read and
\* the pieces written, which is where the descriptor stands.  `sole`
\* (history): it made the file, and no other opened it.
Transfer(kind, w, todo, all) ==
  [kind |-> kind, win |-> w, todo |-> todo, all |-> all,
   file |-> None, pos |-> 0, wrote |-> 0, sole |-> FALSE]

IsTransfer(f) == "todo" \in DOMAIN f
At(kind)  == stack # <<>> /\ Top.kind = kind
Entry(f)  == Offer[msgOf[f.win]][Head(f.todo)]
Pieces(f) == [i \in 1..Entry(f).size |-> <<msgOf[f.win], Head(f.todo), i>>]
Gone(f)   == dl[f.win] # "open"

Becomes(f) == stack' = Append(Below, f)

--------------------------------------------------------------------------------
\* The end of recv_attachments: the rows selected by now are removed -- the
\* user can change the selection all the while -- and a window left empty is
\* destroyed.  After a transfer of all files a dialog offers the directory.
Finish(f, rest, S) ==
  /\ rows' = [rows EXCEPT ![f.win] = @ \ S]
  /\ IF f.all
       THEN stack' = Append(rest, Transfer("opendir", f.win, <<>>, TRUE)) /\ UNCHANGED listsStill
       ELSE /\ stack' = rest
            /\ IF rows[f.win] \ S = {} THEN on_downloadWindow_destroy(f.win) ELSE UNCHANGED listsStill

\* do_download has returned.  If the window is gone, the rest of the loop
\* comes to nothing.
NextRow(f, rest) ==
  IF Gone(f)
    THEN stack' = rest /\ UNCHANGED rows /\ UNCHANGED listsStill
    ELSE IF Len(f.todo) > 1
      THEN /\ stack' = Append(rest, Transfer("connect", f.win, Tail(f.todo), f.all))
           /\ UNCHANGED rows /\ UNCHANGED listsStill
      ELSE \E S \in SUBSET rows[f.win] : Finish(f, rest, S)

\* The OK button, which is insensitive as long as its window has a transfer.
recv_attachments(w) ==
  /\ UserFree /\ dl[w] = "open"
  /\ \A i \in DOMAIN stack : stack[i].win = w => ~IsTransfer(stack[i])
  /\ \E S \in SUBSET rows[w], all \in BOOLEAN :
       \E todo \in [1..Cardinality(S) -> S] :
         /\ \A i, j \in DOMAIN todo : i < j => todo[i] < todo[j]
         /\ S # {} \/ all
         /\ stack' = Append(stack, Transfer(IF S = {} THEN "opendir" ELSE "connect", w, todo, all))
  /\ UNCHANGED windowsStill /\ UNCHANGED listsStill /\ UNCHANGED transferVars

\* A failed connection is not reported to the user.  The request is sent
\* with the main loop running, and no heed paid to its result.
Connect ==
  /\ At("connect")
  /\ \/ NextRow(Top, Below)
     \/ Becomes([Top EXCEPT !.kind = "request"]) /\ UNCHANGED rows /\ UNCHANGED listsStill
  /\ UNCHANGED windowsStill /\ UNCHANGED <<disk, agreed>>

WithFile(name) == [n \in DOMAIN disk \union {name} |-> IF n \in DOMAIN disk THEN disk[n] ELSE <<>>]

OpenFile ==
  /\ At("request") /\ Entry(Top).type = "regular"
  /\ \/ /\ Entry(Top).name \notin DOMAIN disk
        /\ disk' = WithFile(Entry(Top).name)
        /\ Becomes([Top EXCEPT !.kind = "reading", !.file = Entry(Top).name, !.pos = 0, !.wrote = 0,
                              !.sole = TRUE])
     \/ /\ Entry(Top).name \in DOMAIN disk
        /\ Becomes([Top EXCEPT !.kind = "overwrite"])
        /\ UNCHANGED disk
     \/ /\ Entry(Top).name \notin DOMAIN disk
        /\ Becomes([Top EXCEPT !.kind = "failed"])
        /\ UNCHANGED disk
  /\ UNCHANGED windowsStill /\ UNCHANGED listsStill /\ UNCHANGED <<rows, agreed>>

\* Directories are the subject of DirTransfer: here one ends, and if all
\* went well is offered to the user.  Other types are not fetched at all.
FetchOther ==
  /\ At("request") /\ Entry(Top).type # "regular"
  /\ \/ Entry(Top).type = "dir" /\ ~Top.all
        /\ Becomes([Top EXCEPT !.kind = "diropen"])
        /\ UNCHANGED rows /\ UNCHANGED listsStill
     \/ NextRow(Top, Below)
  /\ UNCHANGED windowsStill /\ UNCHANGED <<disk, agreed>>

\* Transfers that have the file open, when another opens it or unlinks it.
Shared(s, name, left) == [i \in DOMAIN s |->
  IF IsTransfer(s[i]) /\ s[i].file = name
    THEN [s[i] EXCEPT !.sole = FALSE, !.file = left] ELSE s[i]]

\* The existing file is opened without being truncated.
OverwriteAgreed ==
  /\ At("overwrite")
  /\ LET name == Entry(Top).name
     IN  /\ disk' = WithFile(name)
         /\ agreed' = agreed \union {name}
         /\ stack' = Append(Shared(Below, name, name),
              [Top EXCEPT !.kind = "reading", !.file = name, !.pos = 0, !.wrote = 0,
                        !.sole = FALSE])
  /\ UNCHANGED windowsStill /\ UNCHANGED listsStill /\ UNCHANGED rows

\* Mutant: the dialog's answer is not looked at.
MutantRefusalIgnored ==
  /\ At("overwrite")
  /\ Becomes([Top EXCEPT !.kind = "reading", !.file = Entry(Top).name, !.pos = 0, !.wrote = 0])
  /\ UNCHANGED windowsStill /\ UNCHANGED listsStill /\ UNCHANGED transferVars

\* Or the file cannot be opened for it, which is reported in the same way.
OverwriteRefused ==
  /\ At("overwrite")
  /\ Becomes([Top EXCEPT !.kind = "failed"])
  /\ UNCHANGED windowsStill /\ UNCHANGED listsStill /\ UNCHANGED transferVars

\* A piece is written where the descriptor stands.
Written(f) ==
  LET old == disk[f.file]
      at  == f.wrote + 1
  IN  [i \in 1..(IF Len(old) > f.wrote THEN Len(old) ELSE at) |->
         IF i = at THEN Pieces(f)[f.pos + 1] ELSE old[i]]

\* A short write is not taken up again: what it leaves out is missing in
\* the file.  The window is looked for after each piece.
ReadPiece ==
  /\ At("reading") /\ Top.pos < Entry(Top).size
  /\ \E whole \in BOOLEAN :
       /\ disk' = IF whole /\ Top.file # None THEN [disk EXCEPT ![Top.file] = Written(Top)] ELSE disk
       /\ IF Gone(Top) THEN NextRow(Top, Below)
          ELSE /\ Becomes([Top EXCEPT !.pos = @ + 1, !.wrote = IF whole THEN @ + 1 ELSE @])
               /\ UNCHANGED rows /\ UNCHANGED listsStill
  /\ UNCHANGED windowsStill /\ UNCHANGED agreed

\* All is read, or the read that follows a peek fails, which ends the loop
\* as well.  Progress is shown once more, and the main loop run, before the
\* file is closed.
ReadLast ==
  /\ At("reading")
  /\ Becomes([Top EXCEPT !.kind = "closing"])
  /\ UNCHANGED windowsStill /\ UNCHANGED listsStill /\ UNCHANGED transferVars

\* A timeout, an error of the peek or of the disk closes the file.
ReadFails ==
  /\ At("reading") /\ (Top.pos = 0 \/ Top.pos < Entry(Top).size)
  /\ Becomes(Transfer("failed", Top.win, Top.todo, Top.all))
  /\ UNCHANGED windowsStill /\ UNCHANGED listsStill /\ UNCHANGED transferVars

\* Mutant: the size that was written is not compared with that of the offer.
MutantSizeNotChecked ==
  /\ At("closing")
  /\ IF Top.all THEN NextRow(Top, Below)
     ELSE /\ Becomes([Top EXCEPT !.kind = "complete"])
          /\ UNCHANGED rows /\ UNCHANGED listsStill
  /\ UNCHANGED windowsStill /\ UNCHANGED <<disk, agreed>>

\* The user is told of a file of the offered size, unless all are fetched in
\* a row, and of one that came short nothing.
FileComplete ==
  /\ At("closing")
  /\ IF Top.all \/ Top.wrote # Entry(Top).size THEN NextRow(Top, Below)
     ELSE /\ Becomes([Top EXCEPT !.kind = "complete"])
          /\ UNCHANGED rows /\ UNCHANGED listsStill
  /\ UNCHANGED windowsStill /\ UNCHANGED <<disk, agreed>>

CompleteClosed ==
  /\ At("complete") \/ At("diropen")
  /\ NextRow(Top, Below)
  /\ UNCHANGED windowsStill /\ UNCHANGED <<disk, agreed>>

FailedRetry ==
  /\ At("failed")
  /\ Becomes([Top EXCEPT !.kind = "again"])
  /\ UNCHANGED windowsStill /\ UNCHANGED listsStill /\ UNCHANGED transferVars

ConnectAgain ==
  /\ At("again")
  /\ Becomes([Top EXCEPT !.kind = "connect"])
  /\ UNCHANGED windowsStill /\ UNCHANGED listsStill /\ UNCHANGED transferVars

\* The name is unlinked, whoever made the file.
FailedCancel ==
  /\ At("failed")
  /\ LET name == Entry(Top).name
     IN  /\ disk' = [n \in DOMAIN disk \ {name} |-> disk[n]]
         /\ NextRow(Top, Shared(Below, name, None))
  /\ UNCHANGED windowsStill /\ UNCHANGED agreed

DirectoryShown ==
  /\ At("opendir")
  /\ stack' = Below
  /\ IF rows[Top.win] = {} /\ ~Gone(Top) THEN on_downloadWindow_destroy(Top.win)
     ELSE UNCHANGED listsStill
  /\ UNCHANGED windowsStill /\ UNCHANGED transferVars

TransferNext ==
  \/ \E w \in Wins : recv_attachments(w)
  \/ Connect \/ OpenFile \/ FetchOther
  \/ OverwriteAgreed \/ OverwriteRefused
  \/ ReadPiece \/ ReadLast \/ ReadFails
  \/ FileComplete \/ CompleteClosed
  \/ FailedRetry \/ ConnectAgain \/ FailedCancel
  \/ DirectoryShown

--------------------------------------------------------------------------------
Init ==
  /\ WinInit
  /\ rows = [w \in Wins |-> {}]
  /\ disk = Disk0
  /\ agreed = {}

\* A download window lists what could be read, from the moment it is made.
WindowStep ==
  /\ WindowNext
  /\ rows' = [w \in Wins |-> IF dl[w] = "none" /\ dl'[w] = "open" THEN Rows(msgOf'[w]) ELSE rows[w]]
  /\ UNCHANGED <<disk, agreed>>

Next == WindowStep \/ TransferNext

Spec == Init /\ [][Next]_vars

--------------------------------------------------------------------------------
\* A file the user is told to be downloaded is what the sender has offered,
\* if its transfer made it and no transfer of another window, nested in it
\* or around it, has opened it too.
ReportedIsWhole ==
  \A i \in DOMAIN stack :
    stack[i].kind = "complete" /\ stack[i].sole => disk[stack[i].file] = Pieces(stack[i])

Untouched(n) == n \in DOMAIN disk /\ disk[n] = Disk0[n]

\* A file that was there is neither written nor removed until the user has
\* agreed to overwrite it, or has cancelled the dialog that reports a
\* failed download of its name -- which a refusal to overwrite leads to.
OldFilesKept ==
  [][\A n \in DOMAIN Disk0 :
       Untouched(n) => Untouched(n)' \/ n \in agreed \/ (At("failed") /\ Entry(Top).name = n)]_vars

\* interface.c:2015 asks whether to overwrite: a file the user has
\* not agreed to overwrite is still what it was.
RefusedFileKept ==
  \A n \in DOMAIN Disk0 \ agreed : Untouched(n)
================================================================================
