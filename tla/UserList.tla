------------------------------ MODULE UserList ------------------------------
(***************************************************************************)
(* The user lists of the hosts on a LAN: userdb.c, and the announcements   *)
(* of protocol.c that keep the lists and the public keys in them up to     *)
(* date.  A host announces itself (BR_ENTRY), is answered (ANSENTRY), asks *)
(* for keys (GETPUBKEY, ANSPUBKEY), tells when its user goes and comes     *)
(* back (BR_ABSENCE), and leaves (BR_EXIT).                                *)
(*                                                                         *)
(* A handler of a datagram is one step: read_message takes the socket out  *)
(* of the main loop while it dispatches, so that even an error dialog's    *)
(* nested loop reads no other datagram.  Datagrams may be lost and may     *)
(* overtake each other.  Every host is built with encryption and says so.  *)
(*                                                                         *)
(* A definition named Mutant... is a plausible mistake in the operation    *)
(* that follows it, kept to show which property would notice it.           *)
(***************************************************************************)
EXTENDS Naturals, Bags, FiniteSets

CONSTANTS
  Hosts,       \* IP addresses
  Foreign,     \* hosts that run another IP Messenger
  Dialups,     \* hosts configured as dial-up hosts
  Reach,       \* of each host, the hosts its broadcast addresses reach
  MaxOps       \* bound: operations of users, starts and crashes

ASSUME HostsAssumption ==
  /\ Foreign \subseteq Hosts
  /\ Dialups \subseteq Hosts
  /\ Reach \in [Hosts -> SUBSET Hosts]
  /\ MaxOps \in Nat

VARIABLES
  up,        \* hosts on which the program runs
  absent,    \* hosts whose user is in absence mode
  users,     \* of each host, its user list: a set of entries
  net,       \* datagrams in flight: a bag
  ops,       \* operations so far
  apart,     \* history: <<i, j>> such that j may not have heard of i's last
             \* announcement, or not have been able to answer it, or has
             \* started since where i does not hear of it
  keyDue     \* history: <<i, j>> such that i has asked j for its keys, and
             \* nothing of that exchange was lost or undone since

vars == <<up, absent, users, net, ops, apart, keyDue>>

-----------------------------------------------------------------------------
(* The two options are the same bit, 0x100. *)
ABSENCEOPT   == "0x100"
SENDCHECKOPT == "0x100"
DIALUPOPT    == "DIALUP"

Types == {"BR_ENTRY", "ANSENTRY", "BR_ABSENCE", "BR_EXIT", "GETPUBKEY",
          "ANSPUBKEY"}
Flags == {ABSENCEOPT, DIALUPOPT}

Datagram(type, src, dst, flags) ==
  [type |-> type, src |-> src, dst |-> dst, flags |-> flags]

Datagrams ==
  [type : Types, src : Hosts, dst : Hosts, flags : SUBSET Flags]

Entries == [ipaddr : Hosts, cap : SUBSET Flags, keys : BOOLEAN]

Listed(i, j) == \E e \in users[i] : e.ipaddr = j

Init ==
  /\ up = {}
  /\ absent = {}
  /\ users = [i \in Hosts |-> {}]
  /\ net = EmptyBag
  /\ ops = 0
  /\ apart = {}
  /\ keyDue = {}

-----------------------------------------------------------------------------
(* Sending.                                                                *)

hostinfo_get_normal_entry_flags(i) ==
  {DIALUPOPT : x \in {i} \cap Dialups} \cup {ABSENCEOPT : x \in {i} \cap absent'}

(* ipmsg_send_packet registers a packet with SENDCHECKOPT for resending,   *)
(* and sends nothing if that fails: register_sent_message refuses a packet *)
(* without an address, which is what every broadcast is.                   *)
CanBroadcast(i, flags) == i \in Foreign \/ SENDCHECKOPT \notin flags

(* hostinfo_send_broad_cast and userdb_send_broad_cast: the broadcast      *)
(* addresses, and every dial-up host in the list.                          *)
DialupEntries(list) == {e \in list : DIALUPOPT \in e.cap}

Addressees(i, list) == Reach[i] \cup {e.ipaddr : e \in DialupEntries(list)}

Broadcast(type, i, flags, list) ==
  IF CanBroadcast(i, flags)
    THEN SetToBag({Datagram(type, i, j, flags) : j \in Reach[i]})
         (+) SetToBag({Datagram(type, i, e.ipaddr, flags) :
                       e \in DialupEntries(list)})
    ELSE EmptyBag

(* ipmsg_send_entry_packets takes an address and ignores it: an ANSENTRY   *)
(* is broadcast like the announcements.                                    *)
ipmsg_send_entry_packets(type, i, list) ==
  Broadcast(type, i, hostinfo_get_normal_entry_flags(i), list)

ipmsg_send_getpubkey(i, j) == SetToBag({Datagram("GETPUBKEY", i, j, {})})

Unreached(i, list) ==
  IF CanBroadcast(i, hostinfo_get_normal_entry_flags(i))
    THEN Hosts \ Addressees(i, list)
    ELSE Hosts

Pairs(S, T) == {p \in Hosts \X Hosts : p[1] \in S /\ p[2] \in T}

-----------------------------------------------------------------------------
(* What a host's user does.                                                *)

Operation == ops < MaxOps /\ ops' = ops + 1

(* ipmsg_send_br_entry: i announces itself with the list it has by then.   *)
ipmsg_send_br_entry(i, list) ==
  /\ users' = [users EXCEPT ![i] = list]
  /\ net' = net (+) ipmsg_send_entry_packets("BR_ENTRY", i, list)

Announced(i, list) == (apart \ Pairs({i}, Hosts)) \cup Pairs({i}, Unreached(i, list))

(* Starting takes longer than a BR_EXIT of the last run is on its way.     *)
init_ipmsg(i) ==
  /\ Operation
  /\ i \notin up
  /\ \A d \in BagToSet(net) : ~(d.type = "BR_EXIT" /\ d.src = i)
  /\ up' = up \cup {i}
  /\ absent' = absent \ {i}
  /\ ipmsg_send_br_entry(i, {})
  /\ apart' = Announced(i, {}) \cup Pairs(Unreached(i, {}), {i})
  /\ keyDue' = keyDue \ Pairs({i}, Hosts)

(* BR_EXIT goes out with the flags of a message, SENDCHECKOPT among them.  *)
cleanup_ipmsg(i) ==
  /\ Operation
  /\ i \in up
  /\ up' = up \ {i}
  /\ net' = net (+) Broadcast("BR_EXIT", i,
                     IF i \in Foreign THEN {} ELSE {SENDCHECKOPT}, users[i])
  /\ UNCHANGED <<absent, users, apart, keyDue>>

Crash(i) ==
  /\ Operation
  /\ i \in up
  /\ up' = up \ {i}
  /\ UNCHANGED <<absent, users, net, apart, keyDue>>

(* The update button: everything but the dial-up hosts goes from the list, *)
(* and the hosts that are there will answer.                               *)
userdb_invalidate_userdb(i) == DialupEntries(users[i])

ipmsg_update_ui_user_list(i) ==
  /\ Operation
  /\ i \in up
  /\ UNCHANGED <<up, absent, keyDue>>
  /\ ipmsg_send_br_entry(i, userdb_invalidate_userdb(i))
  /\ apart' = Announced(i, userdb_invalidate_userdb(i))

(* The user enters or leaves absence mode. *)
ipmsg_send_br_absence(i) ==
  /\ Operation
  /\ i \in up
  /\ absent' = (absent \ {i}) \cup ({i} \ absent)
  /\ net' = net (+) ipmsg_send_entry_packets("BR_ABSENCE", i, users[i])
  /\ UNCHANGED <<up, users, apart, keyDue>>

(* The user sends a message, encrypted if the keys are known.  If not, it  *)
(* goes in the clear and the keys are asked for.  A user who sends is not  *)
(* absent any more.  The message itself is the subject of SentMessages.    *)
ipmsg_send_sendmsg_packets(i, e) ==
  /\ Operation
  /\ i \in up
  /\ e \in users[i]
  /\ absent' = absent \ {i}
  /\ net' = net
       (+) (IF e.keys THEN EmptyBag ELSE ipmsg_send_getpubkey(i, e.ipaddr))
       (+) (IF i \in absent
              THEN ipmsg_send_entry_packets("BR_ABSENCE", i, users[i])
              ELSE EmptyBag)
  /\ keyDue' = IF e.keys THEN keyDue ELSE keyDue \cup {<<i, e.ipaddr>>}
  /\ UNCHANGED <<up, users, apart>>

-----------------------------------------------------------------------------
(* The handlers of datagram d at its destination.                          *)

Arrives(d, type) ==
  /\ d.type = type
  /\ d.dst \in up
  /\ UNCHANGED <<up, absent, ops>>

Taken(d) == net (-) SetToBag({d})

(* fill_user_info_with_message: the options of the command word. *)
NewEntry(d) == [ipaddr |-> d.src, cap |-> d.flags, keys |-> FALSE]

(* userdb_update_user: what is known of the host is replaced by what its   *)
(* datagram says, which are not the keys.                                  *)
userdb_update_user(d) ==
  {IF e.ipaddr = d.src THEN NewEntry(d) ELSE e : e \in users[d.dst]}

userdb_del_user(d) == {e \in users[d.dst] : e.ipaddr # d.src}

(* USR_ADD: userdb_add_user, or an update if the host is in the list. *)
ipmsg_protocol_user_opration(d) ==
  IF Listed(d.dst, d.src) THEN userdb_update_user(d)
  ELSE users[d.dst] \cup {NewEntry(d)}

AddAndAskKey(d, answer) ==
  /\ users' = [users EXCEPT ![d.dst] = ipmsg_protocol_user_opration(d)]
  /\ net' = Taken(d) (+) answer (+) ipmsg_send_getpubkey(d.dst, d.src)
  /\ keyDue' = keyDue \cup {<<d.dst, d.src>>}

(* The answer comes first: a dial-up host that the broadcast does not      *)
(* reach is not in the list yet, and does not get it.                      *)
ipmsg_proc_br_entry(d) ==
  /\ Arrives(d, "BR_ENTRY")
  /\ AddAndAskKey(d, ipmsg_send_entry_packets("ANSENTRY", d.dst, users[d.dst]))
  /\ apart' = IF d.src \in Unreached(d.dst, users[d.dst])
                THEN apart \cup {<<d.src, d.dst>>} ELSE apart

MutantOnlyUpdates(d) ==
  /\ Arrives(d, "ANSENTRY")
  /\ users' = [users EXCEPT ![d.dst] = userdb_update_user(d)]
  /\ net' = Taken(d)
  /\ UNCHANGED <<apart, keyDue>>

MutantKeyNotAsked(d) ==
  /\ Arrives(d, "ANSENTRY")
  /\ users' = [users EXCEPT ![d.dst] = ipmsg_protocol_user_opration(d)]
  /\ net' = Taken(d)
  /\ UNCHANGED <<apart, keyDue>>

MutantAnswersAnswer(d) ==
  /\ Arrives(d, "ANSENTRY")
  /\ AddAndAskKey(d, ipmsg_send_entry_packets("ANSENTRY", d.dst, users[d.dst]))
  /\ UNCHANGED apart

ipmsg_proc_ans_entry(d) ==
  /\ Arrives(d, "ANSENTRY")
  /\ AddAndAskKey(d, EmptyBag)
  /\ UNCHANGED apart

(* The entry is replaced, without its keys, and they are not asked for. *)
ipmsg_proc_br_absence(d) ==
  /\ Arrives(d, "BR_ABSENCE")
  /\ users' = [users EXCEPT ![d.dst] = userdb_update_user(d)]
  /\ net' = Taken(d)
  /\ keyDue' = keyDue \ {<<d.dst, d.src>>}
  /\ UNCHANGED apart

ipmsg_proc_br_exit(d) ==
  /\ Arrives(d, "BR_EXIT")
  /\ users' = [users EXCEPT ![d.dst] = userdb_del_user(d)]
  /\ net' = Taken(d)
  /\ UNCHANGED <<apart, keyDue>>

ipmsg_proc_get_public_key(d) ==
  /\ Arrives(d, "GETPUBKEY")
  /\ net' = Taken(d) (+) SetToBag({Datagram("ANSPUBKEY", d.dst, d.src, {})})
  /\ UNCHANGED <<users, apart, keyDue>>

(* The keys of a host that is not in the list are dropped. *)
userdb_replace_public_key_by_addr(d) ==
  {IF e.ipaddr = d.src THEN [e EXCEPT !.keys = TRUE] ELSE e :
   e \in users[d.dst]}

ipmsg_proc_anspubkey(d) ==
  /\ Arrives(d, "ANSPUBKEY")
  /\ users' = [users EXCEPT ![d.dst] = userdb_replace_public_key_by_addr(d)]
  /\ net' = Taken(d)
  /\ UNCHANGED <<apart, keyDue>>

(* d is lost, or finds no program running. *)
Lose(d) ==
  /\ net' = Taken(d)
  /\ apart' = IF d.dst \in up
                THEN apart \cup {<<d.src, d.dst>>, <<d.dst, d.src>>}
                ELSE apart
  /\ keyDue' = keyDue \ {<<d.src, d.dst>>, <<d.dst, d.src>>}
  /\ UNCHANGED <<up, absent, users, ops>>

ipmsg_dispatch_message(d) ==
  \/ ipmsg_proc_br_entry(d)
  \/ ipmsg_proc_ans_entry(d)
  \/ ipmsg_proc_br_absence(d)
  \/ ipmsg_proc_br_exit(d)
  \/ ipmsg_proc_get_public_key(d)
  \/ ipmsg_proc_anspubkey(d)

Transport == \E d \in BagToSet(net) : ipmsg_dispatch_message(d) \/ Lose(d)

UserOps(i) ==
  \/ init_ipmsg(i)
  \/ cleanup_ipmsg(i)
  \/ Crash(i)
  \/ ipmsg_update_ui_user_list(i)
  \/ ipmsg_send_br_absence(i)
  \/ \E e \in users[i] : ipmsg_send_sendmsg_packets(i, e)

Next == Transport \/ \E i \in Hosts : UserOps(i)

(* A datagram does not stay in flight for ever: it arrives or is lost. *)
Spec == Init /\ [][Next]_vars /\ WF_vars(Transport)

-----------------------------------------------------------------------------

Quiet == net = EmptyBag

(* When everything has arrived, a host that runs lists every other one     *)
(* that runs, itself included, unless a datagram between the two was lost  *)
(* since it last announced itself, or its announcement, the answer or that *)
(* of the other at its start was not addressed to the other end.           *)
(* Restarts, exits and updates in between do not make it miss one.         *)
ListedUnlessApart ==
  Quiet => \A i, j \in up : <<i, j>> \notin apart => Listed(i, j)

(* Every entry, answer and key that arrives out of order throws the keys   *)
(* of a host away or comes too early to be stored; still, when everything  *)
(* has arrived, the keys that were asked for are there.                    *)
KeysAskedForAreKnown ==
  Quiet => \A i \in up : \A e \in users[i] :
             <<i, e.ipaddr>> \in keyDue => e.keys

(* Announcements, answers and key requests do not go on answering each     *)
(* other: when the users stop, so does the traffic.                        *)
TrafficEnds == <>[]Quiet
=============================================================================
