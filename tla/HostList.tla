------------------------------ MODULE HostList ------------------------------
(***************************************************************************)
(* The host list exchange: a host that does not hear everyone's broadcasts *)
(* asks a server, page by page, for the users it knows.  GETLIST carries   *)
(* the number of the first user wanted; ANSLIST carries two numbers and a  *)
(* page of users.  Neither side keeps any state between the pages, and the *)
(* server's list changes as users come and go.                             *)
(*                                                                         *)
(* One client and one server: exchanges with other servers, and a second   *)
(* one with the same server, run beside it and share nothing but the       *)
(* client's list, in which a user that is there already changes nothing.   *)
(*                                                                         *)
(* A definition named Mutant... is a plausible mistake in the operation    *)
(* that follows it, kept to show which property would notice it.           *)
(***************************************************************************)
EXTENDS Naturals, Sequences, SequencesExt

CONSTANTS
  MaxUsers,       \* bound: users the server may know
  MaxChanges,     \* bound: users that join or leave the server's list
  Length          \* G2IPMSG_DEFAULT_HOST_LIST_LEN, 1 in the source

ASSUME HostListAssumption ==
  /\ MaxUsers \in Nat \ {0}
  /\ MaxChanges \in Nat
  /\ Length \in Nat

Users == 1..MaxUsers

VARIABLES
  users,       \* the server's list
  known,       \* the users in the client's list
  net,         \* the datagrams of the exchange in flight
  keyAsked,    \* history: how often the client asked a user for its key
  phase,       \* history: "before", "during" or "after" the exchange
  changes,     \* how often the server's list has changed
  disturbed    \* history: it changed since the exchange began, or a datagram was
               \* lost

vars == <<users, known, net, keyAsked, phase, changes, disturbed>>

GetList(n) == [type |-> "GETLIST", start |-> n]
AnsList(n, total, page) ==
  [type |-> "ANSLIST", start |-> n, total |-> total, page |-> page]

Init ==
  /\ \E n \in 0..MaxUsers : users = [i \in 1..n |-> i]
  /\ known \in SUBSET Users
  /\ net = {}
  /\ keyAsked = [u \in Users |-> 0]
  /\ phase = "before"
  /\ changes = 0
  /\ disturbed = FALSE

Smaller(m, n) == IF m < n THEN m ELSE n

-----------------------------------------------------------------------------
(* The server.                                                             *)

(* userdb_get_hostlist_string: the users numbered from start, which is 0   *)
(* for the first, to start + length.  Its size limit is never reached by a *)
(* page that short.                                                        *)
Page(start) ==
  SubSeq(users, start + 1, Smaller(start + Length, Len(users) - 1) + 1)

(* The number is that of the page's last user, or 0 if that is the last    *)
(* user of all; the total is the number of the last user.                  *)
LastOfPage(start) ==
  IF Page(start) = <<>> THEN start ELSE start + Len(Page(start)) - 1

userdb_get_hostlist_string(start) ==
  AnsList(IF LastOfPage(start) = Len(users) - 1 THEN 0 ELSE LastOfPage(start),
          Len(users) - 1, Page(start))

(* An empty list is not answered. *)
ipmsg_proc_getlist ==
  \E d \in net :
    /\ d.type = "GETLIST"
    /\ net' = IF users = <<>> THEN {} ELSE {userdb_get_hostlist_string(d.start)}
    /\ phase' = IF users = <<>> THEN "after" ELSE phase
    /\ UNCHANGED <<users, known, keyAsked, changes, disturbed>>

(* Users come and go on the server's LAN, at any time. *)
ChangeList(list) ==
  /\ changes < MaxChanges
  /\ changes' = changes + 1
  /\ users' = list
  /\ disturbed' = (disturbed \/ phase # "before")
  /\ UNCHANGED <<known, net, keyAsked, phase>>

add_with_userdb_entry(u) ==
  /\ \A i \in DOMAIN users : users[i] # u
  /\ ChangeList(Append(users, u))

userdb_del_user(u) ==
  \E i \in DOMAIN users : users[i] = u /\ ChangeList(RemoveAt(users, i))

-----------------------------------------------------------------------------
(* The client.                                                             *)

(* OKGETLIST: the server is there, the exchange begins with user 0.        *)
ipmsg_proc_okgetlist ==
  /\ phase = "before"
  /\ net' = {GetList(0)}
  /\ phase' = "during"
  /\ UNCHANGED <<users, known, keyAsked, changes, disturbed>>

InPage(d, u) == \E i \in DOMAIN d.page : d.page[i] = u

MutantAsksAll(d) ==
  /\ known' = known \cup {u \in Users : InPage(d, u)}
  /\ keyAsked' = [u \in Users |-> keyAsked[u] + IF InPage(d, u) THEN 1 ELSE 0]

(* userdb_add_hostlist_entry, for every user of the page: a new one is     *)
(* added as a dial-up host and asked for its key, one that is in the list  *)
(* stays as it is.                                                         *)
userdb_add_hostlist_entry(d) ==
  /\ known' = known \cup {u \in Users : InPage(d, u)}
  /\ keyAsked' = [u \in Users |->
       keyAsked[u] + IF InPage(d, u) /\ u \notin known THEN 1 ELSE 0]

MutantSamePage(d) ==
  IF d.page = <<>> \/ d.total < d.start + Len(d.page) THEN 0 ELSE d.start

MutantForgetsStart(d) ==
  IF d.page = <<>> \/ d.total < d.start + Len(d.page) THEN 0
  ELSE Len(d.page)

(* hostlist_userinfo_add_with_answer: the page's number is taken for that  *)
(* of its first user, and the next page wanted is the one behind it; 0 is  *)
(* "no next page".                                                         *)
hostlist_userinfo_add_with_answer(d) ==
  IF d.page = <<>> \/ d.total < d.start + Len(d.page) THEN 0
  ELSE d.start + Len(d.page)

ipmsg_proc_anslist ==
  \E d \in net :
    /\ d.type = "ANSLIST"
    /\ userdb_add_hostlist_entry(d)
    /\ LET next == hostlist_userinfo_add_with_answer(d)
       IN  /\ net' = IF next = 0 THEN {} ELSE {GetList(next)}
           /\ phase' = IF next = 0 THEN "after" ELSE phase
    /\ UNCHANGED <<users, changes, disturbed>>

(* Nobody asks again. *)
Lose ==
  /\ net # {}
  /\ net' = {}
  /\ phase' = "after"
  /\ disturbed' = TRUE
  /\ UNCHANGED <<users, known, keyAsked, changes>>

Exchange == ipmsg_proc_getlist \/ ipmsg_proc_anslist

Next ==
  \/ ipmsg_proc_okgetlist
  \/ Exchange
  \/ \E u \in Users : add_with_userdb_entry(u)
  \/ \E u \in Users : userdb_del_user(u)
  \/ Lose

Spec == Init /\ [][Next]_vars

(* Both programs handle what they receive. *)
FairSpec == Spec /\ WF_vars(Exchange)

-----------------------------------------------------------------------------

(* The two sides do not agree on what the number in an ANSLIST is.  What   *)
(* comes of it, in an exchange that nothing disturbs: every user is        *)
(* learned, some of them twice, unless their number is a multiple of       *)
(* three; then every third one is missed.                                  *)
Missed ==
  IF Len(users) % 3 = 0 THEN {i \in DOMAIN users : i % 3 = 0} ELSE {}

WholeListUnlessThirds ==
  phase = "after" /\ ~disturbed =>
    {users[i] : i \in DOMAIN users \ Missed} \subseteq known

(* However often the pages repeat a user, its key is asked for once at     *)
(* most, and never if the user was known before.                           *)
KeyAskedOnce ==
  \A u \in Users : keyAsked[u] = 0 \/ (keyAsked[u] = 1 /\ u \in known)

(* An exchange that nothing disturbs ends, although pages are fetched      *)
(* again.                                                                  *)
ExchangeEnds == phase = "during" ~> phase = "after" \/ disturbed
=============================================================================
