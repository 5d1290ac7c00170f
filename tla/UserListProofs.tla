----------------------------- MODULE UserListProofs -----------------------------
(***************************************************************************)
(* For any number of hosts, whatever their broadcasts reach, and whatever  *)
(* is lost or overtaken: once everything has arrived, a host lists every   *)
(* other with which no datagram was lost, and knows the keys it asked for. *)
(***************************************************************************)
EXTENDS UserList, TLAPS

--------------------------------------------------------------------------------
(* Bags of datagrams.                                                      *)

Positive(B) == B \in [DOMAIN B -> Nat \ {0}]

LEMMA Put ==
  ASSUME NEW B, Positive(B), NEW C, Positive(C), NEW D, D = B (+) C
  PROVE  Positive(D) /\ DOMAIN D = DOMAIN B \cup DOMAIN C
BY DEF Positive, (+)

LEMMA SetPut ==
  ASSUME NEW S, NEW B, B = SetToBag(S)
  PROVE  Positive(B) /\ DOMAIN B = S
BY DEF SetToBag, Positive

LEMMA TakenOut ==
  ASSUME NEW B, Positive(B), NEW d \in DOMAIN B, NEW D, D = B (-) SetToBag({d})
  PROVE  Positive(D) /\ DOMAIN D \subseteq DOMAIN B /\ DOMAIN B \ {d} \subseteq DOMAIN D
BY DEF Positive, (-), SetToBag

LEMMA NothingPut ==
  ASSUME NEW B, B = EmptyBag
  PROVE  Positive(B) /\ DOMAIN B = {}
BY SetPut DEF EmptyBag

--------------------------------------------------------------------------------
UserType ==
  /\ up \subseteq Hosts
  /\ users \in [Hosts -> SUBSET Entries]
  /\ Positive(net) /\ DOMAIN net \subseteq Datagrams

InFlight(type, i, j) == \E d \in DOMAIN net : d.type = type /\ d.src = i /\ d.dst = j

(* A host is not started before its last goodbye is gone.                  *)
ExitsAreOver == \A d \in DOMAIN net : d.type = "BR_EXIT" => d.src \notin up

(* Whoever is not listed yet will be: an announcement of one of the two,   *)
(* or the answer to it, is on its way.                                     *)
FoundInv ==
  \A i, j \in up : <<i, j>> \notin apart =>
    \/ Listed(i, j)
    \/ InFlight("BR_ENTRY", i, j) \/ InFlight("ANSENTRY", j, i) \/ InFlight("BR_ENTRY", j, i)

KeysKnown(i, j) == \A e \in users[i] : e.ipaddr = j => e.keys

(* Keys that are due are known, or the request or its answer is on its way. *)
KeysInv ==
  \A i \in up, j \in Hosts : <<i, j>> \in keyDue =>
    \/ KeysKnown(i, j)
    \/ InFlight("GETPUBKEY", i, j) \/ InFlight("ANSPUBKEY", j, i)

UserInv == UserType /\ ExitsAreOver /\ FoundInv /\ KeysInv

--------------------------------------------------------------------------------
(* What a step does to the datagrams in flight: it takes `gone` (or a copy *)
(* of it) and sends `new`.                                                 *)
Moved(gone, new) ==
  /\ Positive(net') /\ DOMAIN net' \subseteq DOMAIN net \cup new
  /\ (DOMAIN net \ gone) \cup new \subseteq DOMAIN net'

Sends(new, type, i, j) == \E d \in new : d.type = type /\ d.src = i /\ d.dst = j

LEMMA StaysInFlight ==
  ASSUME NEW gone, NEW new, Moved(gone, new), NEW type, NEW i, NEW j, InFlight(type, i, j),
         ~Sends(gone, type, i, j)
  PROVE  InFlight(type, i, j)'
<1>1. PICK d \in DOMAIN net : d.type = type /\ d.src = i /\ d.dst = j
  BY DEF InFlight
<1>2. d \in DOMAIN net'
  BY <1>1 DEF Moved, Sends
<1> QED
  BY <1>1, <1>2 DEF InFlight

LEMMA IsSent ==
  ASSUME NEW gone, NEW new, Moved(gone, new), NEW type, NEW i, NEW j, Sends(new, type, i, j)
  PROVE  InFlight(type, i, j)'
BY DEF Moved, Sends, InFlight

LEMMA OneDatagram ==
  ASSUME NEW type \in Types, NEW i \in Hosts, NEW j \in Hosts, NEW flags \in SUBSET Flags,
         NEW B, B = SetToBag({Datagram(type, i, j, flags)})
  PROVE  /\ Positive(B) /\ DOMAIN B \subseteq Datagrams
         /\ \A d \in DOMAIN B : d.type = type /\ d.src = i
         /\ Sends(DOMAIN B, type, i, j)
<1>1. PICK g : g = Datagram(type, i, j, flags)
  OBVIOUS
<1>2. g.type = type /\ g.src = i /\ g.dst = j /\ g \in Datagrams
  BY <1>1 DEF Datagram, Datagrams
<1>3. Positive(B) /\ DOMAIN B = {g}
  BY <1>1, SetPut
<1> QED
  BY <1>2, <1>3 DEF Sends

LEMMA BroadcastReaches ==
  ASSUME NEW type \in Types, NEW i \in Hosts, NEW flags \in SUBSET Flags,
         NEW list \in SUBSET Entries, NEW B, B = Broadcast(type, i, flags, list)
  PROVE  /\ Positive(B) /\ DOMAIN B \subseteq Datagrams
         /\ \A d \in DOMAIN B : d.type = type /\ d.src = i
         /\ CanBroadcast(i, flags) =>
              \A j \in Addressees(i, list) : Sends(DOMAIN B, type, i, j)
<1>1. CASE ~CanBroadcast(i, flags)
  <2>1. B = EmptyBag
    BY <1>1 DEF Broadcast
  <2> QED
    BY <1>1, <2>1, NothingPut
<1>2. CASE CanBroadcast(i, flags)
  <2>1. PICK D : D = Addressees(i, list)
    OBVIOUS
  <2>2. D \subseteq Hosts
    <3>1. Reach[i] \subseteq Hosts
      BY HostsAssumption
    <3>2. \A e \in DialupEntries(list) : e.ipaddr \in Hosts
      BY DEF DialupEntries, Entries
    <3> QED
      BY <2>1, <3>1, <3>2 DEF Addressees
  <2>3. PICK b1, b2 : /\ b1 = SetToBag({Datagram(type, i, j, flags) : j \in Reach[i]})
                      /\ b2 = SetToBag({Datagram(type, i, e.ipaddr, flags) : e \in DialupEntries(list)})
    OBVIOUS
  <2>4. B = b1 (+) b2
    BY <1>2, <2>3 DEF Broadcast
  <2>5. /\ Positive(b1) /\ DOMAIN b1 = {Datagram(type, i, j, flags) : j \in Reach[i]}
        /\ Positive(b2) /\ DOMAIN b2 = {Datagram(type, i, e.ipaddr, flags) : e \in DialupEntries(list)}
    BY <2>3, SetPut
  <2>6. Positive(B) /\ DOMAIN B = {Datagram(type, i, j, flags) : j \in D}
    <3>1. Positive(B) /\ DOMAIN B = DOMAIN b1 \cup DOMAIN b2
      BY <2>4, <2>5, Put
    <3>2. D = Reach[i] \cup {e.ipaddr : e \in DialupEntries(list)}
      BY <2>1 DEF Addressees
    <3> QED
      BY <2>5, <3>1, <3>2, Zenon
  <2>7. \A j \in D : /\ Datagram(type, i, j, flags) \in Datagrams
                     /\ Datagram(type, i, j, flags).type = type
                     /\ Datagram(type, i, j, flags).src = i /\ Datagram(type, i, j, flags).dst = j
    BY <2>2 DEF Datagram, Datagrams
  <2> QED
    BY <2>1, <2>6, <2>7 DEF Sends
<1> QED
  BY <1>1, <1>2

LEMMA EntryPacketsReach ==
  ASSUME NEW type \in Types, NEW i \in Hosts, NEW list \in SUBSET Entries,
         NEW B, B = ipmsg_send_entry_packets(type, i, list)
  PROVE  /\ Positive(B) /\ DOMAIN B \subseteq Datagrams
         /\ \A d \in DOMAIN B : d.type = type /\ d.src = i
         /\ \A j \in Hosts \ Unreached(i, list) : Sends(DOMAIN B, type, i, j)
<1>1. PICK flags : flags = hostinfo_get_normal_entry_flags(i)
  OBVIOUS
<1>2. flags \in SUBSET Flags
  BY <1>1 DEF hostinfo_get_normal_entry_flags, Flags
<1>3. B = Broadcast(type, i, flags, list)
  BY <1>1 DEF ipmsg_send_entry_packets
<1>4. /\ Positive(B) /\ DOMAIN B \subseteq Datagrams
      /\ \A d \in DOMAIN B : d.type = type /\ d.src = i
      /\ CanBroadcast(i, flags) =>
           \A j \in Addressees(i, list) : Sends(DOMAIN B, type, i, j)
  BY <1>2, <1>3, BroadcastReaches
<1>5. \A j \in Hosts \ Unreached(i, list) : CanBroadcast(i, flags) /\ j \in Addressees(i, list)
  BY <1>1 DEF Unreached
<1> QED
  BY <1>4, <1>5

(* The two ways in which a step changes the network.                       *)
LEMMA PutMoves ==
  ASSUME UserType, NEW B, Positive(B), net' = net (+) B
  PROVE  Moved({}, DOMAIN B)
<1>1. PICK C, D : C = net /\ D = net'
  OBVIOUS
<1>2. Positive(D) /\ DOMAIN D = DOMAIN C \cup DOMAIN B
  BY <1>1, Put DEF UserType
<1> QED
  BY <1>1, <1>2 DEF Moved

LEMMA TakeMoves ==
  ASSUME UserType, NEW d \in BagToSet(net), NEW B, Positive(B), net' = Taken(d) (+) B
  PROVE  Moved({d}, DOMAIN B)
<1>1. PICK D : D = Taken(d)
  OBVIOUS
<1>2. d \in DOMAIN net
  BY DEF BagToSet
<1>3. Positive(D) /\ DOMAIN D \subseteq DOMAIN net /\ DOMAIN net \ {d} \subseteq DOMAIN D
  BY <1>1, <1>2, TakenOut DEF UserType, Taken
<1>4. PICK E : E = net'
  OBVIOUS
<1>5. Positive(E) /\ DOMAIN E = DOMAIN D \cup DOMAIN B
  BY <1>1, <1>3, <1>4, Put
<1> QED
  BY <1>3, <1>4, <1>5 DEF Moved

LEMMA TakenMoves ==
  ASSUME UserType, NEW d \in BagToSet(net), net' = Taken(d)
  PROVE  Moved({d}, {})
<1>2. d \in DOMAIN net
  BY DEF BagToSet
<1> QED
  BY <1>2, TakenOut DEF UserType, Taken, Moved

--------------------------------------------------------------------------------
(* Lists of hosts, as the handlers change them.                            *)

InList(list, j)  == \E e \in list : e.ipaddr = j
AllKeys(list, j) == \A e \in list : e.ipaddr = j => e.keys

LEMMA NewEntryIs ==
  ASSUME NEW d \in Datagrams, NEW e, e = NewEntry(d)
  PROVE  e \in Entries /\ e.ipaddr = d.src
BY DEF Datagrams, NewEntry, Entries

LEMMA UpdatedList ==
  ASSUME UserType, NEW d \in Datagrams, NEW list, list = userdb_update_user(d)
  PROVE  /\ list \in SUBSET Entries
         /\ \A j : InList(users[d.dst], j) => InList(list, j)
         /\ \A j : j # d.src /\ AllKeys(users[d.dst], j) => AllKeys(list, j)
<1>1. d.dst \in Hosts /\ users[d.dst] \in SUBSET Entries
  BY DEF Datagrams, UserType
<1>2. PICK n, old : n = NewEntry(d) /\ old = users[d.dst]
  OBVIOUS
<1>3. n \in Entries /\ n.ipaddr = d.src
  BY <1>2, NewEntryIs
<1>4. list = {IF e.ipaddr = d.src THEN n ELSE e : e \in old}
  BY <1>2 DEF userdb_update_user
<1>5. \A f \in list : f = n \/ f \in old
  BY <1>4
<1>6. \A e \in old : (IF e.ipaddr = d.src THEN n ELSE e) \in list
  BY <1>4
<1>7. list \in SUBSET Entries
  BY <1>1, <1>2, <1>3, <1>5
<1>8. \A j : InList(old, j) => InList(list, j)
  BY <1>3, <1>6 DEF InList
<1>9. \A j : j # d.src /\ AllKeys(old, j) => AllKeys(list, j)
  BY <1>3, <1>5 DEF AllKeys
<1> QED
  BY <1>2, <1>7, <1>8, <1>9

LEMMA AddedList ==
  ASSUME UserType, NEW d \in Datagrams, NEW list, list = ipmsg_protocol_user_opration(d)
  PROVE  /\ list \in SUBSET Entries
         /\ InList(list, d.src)
         /\ \A j : InList(users[d.dst], j) => InList(list, j)
         /\ \A j : j # d.src /\ AllKeys(users[d.dst], j) => AllKeys(list, j)
<1>1. CASE Listed(d.dst, d.src)
  <2>1. list = userdb_update_user(d) /\ InList(users[d.dst], d.src)
    BY <1>1 DEF ipmsg_protocol_user_opration, Listed, InList
  <2> QED
    BY <2>1, UpdatedList
<1>2. CASE ~Listed(d.dst, d.src)
  <2>1. PICK n : n = NewEntry(d)
    OBVIOUS
  <2>2. list = users[d.dst] \cup {n}
    BY <1>2, <2>1 DEF ipmsg_protocol_user_opration
  <2>3. n \in Entries /\ n.ipaddr = d.src
    BY <2>1, NewEntryIs
  <2>4. users[d.dst] \in SUBSET Entries
    BY DEF Datagrams, UserType
  <2> QED
    BY <2>2, <2>3, <2>4 DEF InList, AllKeys
<1> QED
  BY <1>1, <1>2

LEMMA KeyedEntry ==
  ASSUME NEW e \in Entries, NEW f, f = [e EXCEPT !.keys = TRUE]
  PROVE  f \in Entries /\ f.ipaddr = e.ipaddr /\ f.keys
<1>1. f \in Entries /\ f.ipaddr = e.ipaddr /\ f.keys = TRUE
  BY DEF Entries
<1>2. f.keys
  BY <1>1, Zenon
<1> QED
  BY <1>1, <1>2

LEMMA KeyedList ==
  ASSUME UserType, NEW d \in Datagrams, NEW list, list = userdb_replace_public_key_by_addr(d)
  PROVE  /\ list \in SUBSET Entries
         /\ \A j : InList(users[d.dst], j) => InList(list, j)
         /\ \A j : j # d.src /\ AllKeys(users[d.dst], j) => AllKeys(list, j)
         /\ AllKeys(list, d.src)
<1>1. PICK old : old = users[d.dst] /\ old \in SUBSET Entries
  BY DEF Datagrams, UserType
<1>2. list = {IF e.ipaddr = d.src THEN [e EXCEPT !.keys = TRUE] ELSE e : e \in old}
  BY <1>1 DEF userdb_replace_public_key_by_addr
<1>3. ASSUME NEW f \in list
      PROVE  \E e \in old : /\ f \in Entries /\ f.ipaddr = e.ipaddr
                            /\ f = e \/ f.keys
                            /\ f.ipaddr = d.src => f.keys
                            /\ f.ipaddr # d.src => f = e
  <2>1. PICK e \in old : f = IF e.ipaddr = d.src THEN [e EXCEPT !.keys = TRUE] ELSE e
    BY <1>2
  <2>2. CASE e.ipaddr = d.src
    BY <1>1, <2>1, <2>2, KeyedEntry
  <2>3. CASE e.ipaddr # d.src
    BY <1>1, <2>1, <2>3
  <2> QED
    BY <2>2, <2>3
<1>4. ASSUME NEW e \in old PROVE \E f \in list : f.ipaddr = e.ipaddr
  <2>1. PICK f : f = IF e.ipaddr = d.src THEN [e EXCEPT !.keys = TRUE] ELSE e
    OBVIOUS
  <2>2. f \in list
    BY <1>2, <2>1
  <2>3. f.ipaddr = e.ipaddr
    BY <1>1, <2>1, KeyedEntry
  <2> QED
    BY <2>2, <2>3
<1>5. list \in SUBSET Entries
  BY <1>3
<1>6. \A j : InList(old, j) => InList(list, j)
  BY <1>4 DEF InList
<1>7. AllKeys(list, d.src)
  BY <1>3 DEF AllKeys
<1>8. \A j : j # d.src /\ AllKeys(old, j) => AllKeys(list, j)
  BY <1>3 DEF AllKeys
<1> QED
  BY <1>1, <1>5, <1>6, <1>7, <1>8

LEMMA DroppedList ==
  ASSUME UserType, NEW d \in Datagrams, NEW list, list = userdb_del_user(d)
  PROVE  /\ list \in SUBSET Entries
         /\ \A j : j # d.src /\ InList(users[d.dst], j) => InList(list, j)
         /\ \A j : AllKeys(users[d.dst], j) => AllKeys(list, j)
<1>1. users[d.dst] \in SUBSET Entries
  BY DEF Datagrams, UserType
<1> QED
  BY <1>1 DEF userdb_del_user, InList, AllKeys

--------------------------------------------------------------------------------
(* The handlers of datagrams.                                              *)

(* What every handler has in common.                                       *)
HandlerOK(d, list, new) ==
  /\ Moved({d}, new) /\ new \subseteq Datagrams /\ \A n \in new : n.type # "BR_EXIT"
  /\ list \in SUBSET Entries /\ users' = [users EXCEPT ![d.dst] = list]
  /\ \A j : (d.type = "BR_EXIT" => j # d.src) /\ InList(users[d.dst], j) => InList(list, j)
  /\ d.type \in {"BR_ENTRY", "ANSENTRY"} => InList(list, d.src)
  /\ \A p \in apart : p \in apart'
  /\ d.type = "BR_ENTRY" /\ <<d.src, d.dst>> \notin apart' => Sends(new, "ANSENTRY", d.dst, d.src)
  /\ \A j : j # d.src /\ AllKeys(users[d.dst], j) => AllKeys(list, j)
  /\ \A p \in keyDue' : p \in keyDue \/ p = <<d.dst, d.src>>
  /\ d.type \in {"BR_ENTRY", "ANSENTRY"} => Sends(new, "GETPUBKEY", d.dst, d.src)
  /\ d.type = "BR_ABSENCE" => <<d.dst, d.src>> \notin keyDue'
  /\ d.type \in {"BR_EXIT", "GETPUBKEY", "ANSPUBKEY"} => UNCHANGED keyDue
  /\ d.type \in {"BR_EXIT", "GETPUBKEY"} =>
       (AllKeys(users[d.dst], d.src) => AllKeys(list, d.src))
  /\ d.type = "GETPUBKEY" => Sends(new, "ANSPUBKEY", d.dst, d.src)
  /\ d.type = "ANSPUBKEY" => AllKeys(list, d.src)

LEMMA HandledType ==
  ASSUME UserInv, NEW d \in Datagrams, d \in BagToSet(net), d.dst \in up, UNCHANGED up,
         NEW list, NEW new, HandlerOK(d, list, new)
  PROVE  UserType' /\ ExitsAreOver'
<1>1. d.dst \in Hosts
  BY DEF Datagrams
<1>2. UserType'
  BY <1>1 DEF UserInv, UserType, HandlerOK, Moved
<1>3. ExitsAreOver'
  BY DEF UserInv, ExitsAreOver, HandlerOK, Moved
<1> QED
  BY <1>2, <1>3

LEMMA HandledFound ==
  ASSUME UserInv, NEW d \in Datagrams, d \in BagToSet(net), d.dst \in up, UNCHANGED up,
         NEW list, NEW new, HandlerOK(d, list, new)
  PROVE  FoundInv'
<1> SUFFICES ASSUME NEW i \in up, NEW j \in up, <<i, j>> \notin apart'
             PROVE  \/ Listed(i, j)' \/ InFlight("BR_ENTRY", i, j)'
                    \/ InFlight("ANSENTRY", j, i)' \/ InFlight("BR_ENTRY", j, i)'
  BY DEF FoundInv
<1>1. /\ Moved({d}, new) /\ users' = [users EXCEPT ![d.dst] = list]
      /\ <<i, j>> \notin apart
  BY DEF HandlerOK
<1>2. d.type = "BR_EXIT" => j # d.src
  BY DEF UserInv, ExitsAreOver, BagToSet
<1>3. i \in Hosts /\ users \in [Hosts -> SUBSET Entries]
  BY DEF UserInv, UserType
<1>4. CASE Listed(i, j)
  <2>1. CASE i = d.dst
    <3>1. InList(list, j)
      BY <1>2, <1>4, <2>1 DEF HandlerOK, Listed, InList
    <3> QED
      BY <1>1, <1>3, <2>1, <3>1 DEF Listed, InList
  <2>2. CASE i # d.dst
    BY <1>1, <1>3, <1>4, <2>2 DEF Listed
  <2> QED
    BY <2>1, <2>2
<1>5. ASSUME i = d.dst, j = d.src, d.type \in {"BR_ENTRY", "ANSENTRY"} PROVE Listed(i, j)'
  <2>1. InList(list, j)
    BY <1>5 DEF HandlerOK
  <2> QED
    BY <1>1, <1>3, <1>5, <2>1 DEF Listed, InList
<1>6. CASE InFlight("BR_ENTRY", i, j)
  <2>1. CASE d.type = "BR_ENTRY" /\ d.src = i /\ d.dst = j
    <3>1. Sends(new, "ANSENTRY", j, i)
      BY <2>1 DEF HandlerOK
    <3> QED
      BY <1>1, <3>1, IsSent
  <2>2. CASE ~(d.type = "BR_ENTRY" /\ d.src = i /\ d.dst = j)
    <3>1. ~Sends({d}, "BR_ENTRY", i, j)
      BY <2>2 DEF Sends
    <3> QED
      BY <1>1, <1>6, <3>1, StaysInFlight
  <2> QED
    BY <2>1, <2>2
<1>7. ASSUME NEW type \in {"BR_ENTRY", "ANSENTRY"}, InFlight(type, j, i)
      PROVE  Listed(i, j)' \/ InFlight(type, j, i)'
  <2>1. CASE d.type = type /\ d.src = j /\ d.dst = i
    BY <1>5, <2>1
  <2>2. CASE ~(d.type = type /\ d.src = j /\ d.dst = i)
    <3>1. ~Sends({d}, type, j, i)
      BY <2>2 DEF Sends
    <3> QED
      BY <1>1, <1>7, <3>1, StaysInFlight
  <2> QED
    BY <2>1, <2>2
<1> QED
  BY <1>1, <1>4, <1>6, <1>7 DEF UserInv, FoundInv

LEMMA HandledKeys ==
  ASSUME UserInv, NEW d \in Datagrams, d \in BagToSet(net), d.dst \in up, UNCHANGED up,
         NEW list, NEW new, HandlerOK(d, list, new)
  PROVE  KeysInv'
<1> SUFFICES ASSUME NEW i \in up, NEW j \in Hosts, <<i, j>> \in keyDue'
             PROVE  \/ KeysKnown(i, j)'
                    \/ InFlight("GETPUBKEY", i, j)' \/ InFlight("ANSPUBKEY", j, i)'
  BY DEF KeysInv
<1>1. Moved({d}, new) /\ users' = [users EXCEPT ![d.dst] = list]
  BY DEF HandlerOK
<1>2. i \in Hosts /\ users \in [Hosts -> SUBSET Entries]
  BY DEF UserInv, UserType
<1>3. ASSUME i = d.dst, AllKeys(list, j) PROVE KeysKnown(i, j)'
  BY <1>1, <1>2, <1>3 DEF KeysKnown, AllKeys
<1>4. ASSUME NEW type, NEW k, NEW l, Sends(new, type, k, l) PROVE InFlight(type, k, l)'
  BY <1>1, <1>4, IsSent
<1>5. CASE i = d.dst /\ j = d.src /\ d.type \in {"BR_ENTRY", "ANSENTRY"}
  <2>1. Sends(new, "GETPUBKEY", i, j)
    BY <1>5 DEF HandlerOK
  <2> QED
    BY <1>4, <2>1
<1>6. CASE ~(i = d.dst /\ j = d.src /\ d.type \in {"BR_ENTRY", "ANSENTRY"})
  <2>1. d.type \in Types /\ (i = d.dst /\ j = d.src => d.type \in {"BR_EXIT", "GETPUBKEY", "ANSPUBKEY"})
    BY <1>6 DEF HandlerOK, Datagrams, Types
  <2>2. <<i, j>> \in keyDue
    BY <2>1 DEF HandlerOK
  <2>3. CASE KeysKnown(i, j)
    <3>1. CASE i = d.dst
      <4>1. AllKeys(users[d.dst], j)
        BY <2>3, <3>1 DEF KeysKnown, AllKeys
      <4>2. AllKeys(list, j)
        BY <2>1, <3>1, <4>1 DEF HandlerOK
      <4> QED
        BY <1>3, <3>1, <4>2
    <3>2. CASE i # d.dst
      BY <1>1, <1>2, <2>3, <3>2 DEF KeysKnown
    <3> QED
      BY <3>1, <3>2
  <2>4. CASE InFlight("GETPUBKEY", i, j)
    <3>1. CASE d.type = "GETPUBKEY" /\ d.src = i /\ d.dst = j
      <4>1. Sends(new, "ANSPUBKEY", j, i)
        BY <3>1 DEF HandlerOK
      <4> QED
        BY <1>4, <4>1
    <3>2. CASE ~(d.type = "GETPUBKEY" /\ d.src = i /\ d.dst = j)
      <4>1. ~Sends({d}, "GETPUBKEY", i, j)
        BY <3>2 DEF Sends
      <4> QED
        BY <1>1, <2>4, <4>1, StaysInFlight
    <3> QED
      BY <3>1, <3>2
  <2>5. CASE InFlight("ANSPUBKEY", j, i)
    <3>1. CASE d.type = "ANSPUBKEY" /\ d.src = j /\ d.dst = i
      <4>1. AllKeys(list, j)
        BY <3>1 DEF HandlerOK
      <4> QED
        BY <1>3, <3>1, <4>1
    <3>2. CASE ~(d.type = "ANSPUBKEY" /\ d.src = j /\ d.dst = i)
      <4>1. ~Sends({d}, "ANSPUBKEY", j, i)
        BY <3>2 DEF Sends
      <4> QED
        BY <1>1, <2>5, <4>1, StaysInFlight
    <3> QED
      BY <3>1, <3>2
  <2> QED
    BY <2>2, <2>3, <2>4, <2>5 DEF UserInv, KeysInv
<1> QED
  BY <1>5, <1>6

LEMMA Handled ==
  ASSUME UserInv, NEW d \in Datagrams, d \in BagToSet(net), d.dst \in up, UNCHANGED up,
         NEW list, NEW new, HandlerOK(d, list, new)
  PROVE  UserInv'
BY HandledType, HandledFound, HandledKeys DEF UserInv

LEMMA DatagramIs ==
  ASSUME UserInv, NEW d \in BagToSet(net)
  PROVE  d \in Datagrams /\ d.src \in Hosts /\ d.dst \in Hosts /\ d.flags \in SUBSET Flags
BY DEF UserInv, UserType, BagToSet, Datagrams

(* The request for keys that goes with an answer, or with none.            *)
LEMMA KeysAreAsked ==
  ASSUME UserInv, NEW d \in BagToSet(net), NEW B, Positive(B), DOMAIN B \subseteq Datagrams,
         net' = Taken(d) (+) B (+) ipmsg_send_getpubkey(d.dst, d.src)
  PROVE  \E new : /\ Moved({d}, new) /\ new \subseteq Datagrams /\ DOMAIN B \subseteq new
                  /\ \A n \in new : n \in DOMAIN B \/ n.type = "GETPUBKEY"
                  /\ Sends(new, "GETPUBKEY", d.dst, d.src)
<1>1. d \in DOMAIN net /\ d.src \in Hosts /\ d.dst \in Hosts
  BY DatagramIs DEF BagToSet
<1>2. PICK G, D, E, F : /\ G = SetToBag({Datagram("GETPUBKEY", d.dst, d.src, {})})
                        /\ D = Taken(d) /\ E = D (+) B /\ F = net'
  OBVIOUS
<1>3. F = E (+) G
  BY <1>2 DEF ipmsg_send_getpubkey
<1>4. /\ Positive(G) /\ DOMAIN G \subseteq Datagrams
      /\ \A n \in DOMAIN G : n.type = "GETPUBKEY"
      /\ Sends(DOMAIN G, "GETPUBKEY", d.dst, d.src)
  <2>1. "GETPUBKEY" \in Types /\ {} \in SUBSET Flags
    BY DEF Types
  <2> QED
    BY <1>1, <1>2, <2>1, OneDatagram
<1>5. Positive(D) /\ DOMAIN D \subseteq DOMAIN net /\ DOMAIN net \ {d} \subseteq DOMAIN D
  BY <1>1, <1>2, TakenOut DEF UserInv, UserType, Taken
<1>6. Positive(E) /\ DOMAIN E = DOMAIN D \cup DOMAIN B
  BY <1>2, <1>5, Put
<1>7. Positive(F) /\ DOMAIN F = DOMAIN E \cup DOMAIN G
  BY <1>3, <1>4, <1>6, Put
<1>8. PICK new : new = DOMAIN B \cup DOMAIN G
  OBVIOUS
<1>9. Moved({d}, new)
  BY <1>2, <1>5, <1>6, <1>7, <1>8 DEF Moved
<1>10. Sends(new, "GETPUBKEY", d.dst, d.src)
  BY <1>4, <1>8 DEF Sends
<1> QED
  BY <1>4, <1>8, <1>9, <1>10

LEMMA EntryHandled ==
  ASSUME UserInv, NEW d \in BagToSet(net), ipmsg_proc_br_entry(d)
  PROVE  UserInv'
<1>1. d \in Datagrams /\ d.src \in Hosts /\ d.dst \in Hosts /\ users[d.dst] \in SUBSET Entries
  BY DatagramIs DEF UserInv, UserType
<1>2. PICK B, list : /\ B = ipmsg_send_entry_packets("ANSENTRY", d.dst, users[d.dst])
                     /\ list = ipmsg_protocol_user_opration(d)
  OBVIOUS
<1>3. /\ Positive(B) /\ DOMAIN B \subseteq Datagrams
      /\ \A n \in DOMAIN B : n.type = "ANSENTRY"
      /\ \A j \in Hosts \ Unreached(d.dst, users[d.dst]) : Sends(DOMAIN B, "ANSENTRY", d.dst, j)
  <2>1. "ANSENTRY" \in Types
    BY DEF Types
  <2> QED
    BY <1>1, <1>2, <2>1, EntryPacketsReach
<1>4. /\ d.type = "BR_ENTRY" /\ d.dst \in up /\ UNCHANGED up
      /\ users' = [users EXCEPT ![d.dst] = list]
      /\ net' = Taken(d) (+) B (+) ipmsg_send_getpubkey(d.dst, d.src)
      /\ keyDue' = keyDue \cup {<<d.dst, d.src>>}
      /\ apart' = IF d.src \in Unreached(d.dst, users[d.dst])
                    THEN apart \cup {<<d.src, d.dst>>} ELSE apart
  BY <1>2 DEF ipmsg_proc_br_entry, Arrives, AddAndAskKey
<1>5. PICK new : /\ Moved({d}, new) /\ new \subseteq Datagrams /\ DOMAIN B \subseteq new
                 /\ \A n \in new : n \in DOMAIN B \/ n.type = "GETPUBKEY"
                 /\ Sends(new, "GETPUBKEY", d.dst, d.src)
  BY <1>3, <1>4, KeysAreAsked
<1>6. /\ list \in SUBSET Entries /\ InList(list, d.src)
      /\ \A j : InList(users[d.dst], j) => InList(list, j)
      /\ \A j : j # d.src /\ AllKeys(users[d.dst], j) => AllKeys(list, j)
  BY <1>1, <1>2, AddedList DEF UserInv
<1>7. <<d.src, d.dst>> \notin apart' => Sends(new, "ANSENTRY", d.dst, d.src)
  BY <1>1, <1>3, <1>4, <1>5 DEF Sends
<1>8. HandlerOK(d, list, new)
  BY <1>3, <1>4, <1>5, <1>6, <1>7 DEF HandlerOK
<1> QED
  BY <1>1, <1>4, <1>8, Handled

LEMMA AnswerHandled ==
  ASSUME UserInv, NEW d \in BagToSet(net), ipmsg_proc_ans_entry(d)
  PROVE  UserInv'
<1>1. d \in Datagrams /\ d.src \in Hosts /\ d.dst \in Hosts
  BY DatagramIs
<1>2. PICK B, list : B = EmptyBag /\ list = ipmsg_protocol_user_opration(d)
  OBVIOUS
<1>3. Positive(B) /\ DOMAIN B = {}
  BY <1>2, NothingPut
<1>4. /\ d.type = "ANSENTRY" /\ d.dst \in up /\ UNCHANGED <<up, apart>>
      /\ users' = [users EXCEPT ![d.dst] = list]
      /\ net' = Taken(d) (+) B (+) ipmsg_send_getpubkey(d.dst, d.src)
      /\ keyDue' = keyDue \cup {<<d.dst, d.src>>}
  BY <1>2 DEF ipmsg_proc_ans_entry, Arrives, AddAndAskKey
<1>5. PICK new : /\ Moved({d}, new) /\ new \subseteq Datagrams /\ DOMAIN B \subseteq new
                 /\ \A n \in new : n \in DOMAIN B \/ n.type = "GETPUBKEY"
                 /\ Sends(new, "GETPUBKEY", d.dst, d.src)
  BY <1>3, <1>4, KeysAreAsked
<1>6. /\ list \in SUBSET Entries /\ InList(list, d.src)
      /\ \A j : InList(users[d.dst], j) => InList(list, j)
      /\ \A j : j # d.src /\ AllKeys(users[d.dst], j) => AllKeys(list, j)
  BY <1>1, <1>2, AddedList DEF UserInv
<1>7. HandlerOK(d, list, new)
  BY <1>3, <1>4, <1>5, <1>6 DEF HandlerOK
<1> QED
  BY <1>1, <1>4, <1>7, Handled

LEMMA AbsenceHandled ==
  ASSUME UserInv, NEW d \in BagToSet(net), ipmsg_proc_br_absence(d)
  PROVE  UserInv'
<1>1. d \in Datagrams
  BY DatagramIs
<1>2. PICK list, new : list = userdb_update_user(d) /\ new = {}
  OBVIOUS
<1>3. /\ d.type = "BR_ABSENCE" /\ d.dst \in up /\ UNCHANGED <<up, apart>>
      /\ users' = [users EXCEPT ![d.dst] = list] /\ net' = Taken(d)
      /\ keyDue' = keyDue \ {<<d.dst, d.src>>}
  BY <1>2 DEF ipmsg_proc_br_absence, Arrives
<1>4. Moved({d}, new)
  BY <1>2, <1>3, TakenMoves DEF UserInv
<1>5. /\ list \in SUBSET Entries
      /\ \A j : InList(users[d.dst], j) => InList(list, j)
      /\ \A j : j # d.src /\ AllKeys(users[d.dst], j) => AllKeys(list, j)
  BY <1>1, <1>2, UpdatedList DEF UserInv
<1>6. HandlerOK(d, list, new)
  BY <1>2, <1>3, <1>4, <1>5 DEF HandlerOK
<1> QED
  BY <1>1, <1>3, <1>6, Handled

LEMMA ExitHandled ==
  ASSUME UserInv, NEW d \in BagToSet(net), ipmsg_proc_br_exit(d)
  PROVE  UserInv'
<1>1. d \in Datagrams
  BY DatagramIs
<1>2. PICK list, new : list = userdb_del_user(d) /\ new = {}
  OBVIOUS
<1>3. /\ d.type = "BR_EXIT" /\ d.dst \in up /\ UNCHANGED <<up, apart, keyDue>>
      /\ users' = [users EXCEPT ![d.dst] = list] /\ net' = Taken(d)
  BY <1>2 DEF ipmsg_proc_br_exit, Arrives
<1>4. Moved({d}, new)
  BY <1>2, <1>3, TakenMoves DEF UserInv
<1>5. /\ list \in SUBSET Entries
      /\ \A j : j # d.src /\ InList(users[d.dst], j) => InList(list, j)
      /\ \A j : AllKeys(users[d.dst], j) => AllKeys(list, j)
  BY <1>1, <1>2, DroppedList DEF UserInv
<1>6. HandlerOK(d, list, new)
  BY <1>2, <1>3, <1>4, <1>5 DEF HandlerOK
<1> QED
  BY <1>1, <1>3, <1>6, Handled

LEMMA RequestHandled ==
  ASSUME UserInv, NEW d \in BagToSet(net), ipmsg_proc_get_public_key(d)
  PROVE  UserInv'
<1>1. d \in Datagrams /\ d.src \in Hosts /\ d.dst \in Hosts
  BY DatagramIs
<1>2. PICK list, B : /\ list = users[d.dst]
                     /\ B = SetToBag({Datagram("ANSPUBKEY", d.dst, d.src, {})})
  OBVIOUS
<1>3. /\ d.type = "GETPUBKEY" /\ d.dst \in up /\ UNCHANGED <<up, users, apart, keyDue>>
      /\ net' = Taken(d) (+) B
  BY <1>2 DEF ipmsg_proc_get_public_key, Arrives
<1>4. /\ Positive(B) /\ DOMAIN B \subseteq Datagrams
      /\ \A n \in DOMAIN B : n.type = "ANSPUBKEY"
      /\ Sends(DOMAIN B, "ANSPUBKEY", d.dst, d.src)
  <2>1. "ANSPUBKEY" \in Types /\ {} \in SUBSET Flags
    BY DEF Types
  <2> QED
    BY <1>1, <1>2, <2>1, OneDatagram
<1>5. PICK new : new = DOMAIN B
  OBVIOUS
<1>6. Moved({d}, new)
  BY <1>3, <1>4, <1>5, TakeMoves DEF UserInv
<1>7. list \in SUBSET Entries /\ users' = [users EXCEPT ![d.dst] = list]
  BY <1>1, <1>2, <1>3 DEF UserInv, UserType
<1>8. HandlerOK(d, list, new)
  BY <1>2, <1>3, <1>4, <1>5, <1>6, <1>7 DEF HandlerOK
<1> QED
  BY <1>1, <1>3, <1>8, Handled

LEMMA KeysHandled ==
  ASSUME UserInv, NEW d \in BagToSet(net), ipmsg_proc_anspubkey(d)
  PROVE  UserInv'
<1>1. d \in Datagrams
  BY DatagramIs
<1>2. PICK list, new : list = userdb_replace_public_key_by_addr(d) /\ new = {}
  OBVIOUS
<1>3. /\ d.type = "ANSPUBKEY" /\ d.dst \in up /\ UNCHANGED <<up, apart, keyDue>>
      /\ users' = [users EXCEPT ![d.dst] = list] /\ net' = Taken(d)
  BY <1>2 DEF ipmsg_proc_anspubkey, Arrives
<1>4. Moved({d}, new)
  BY <1>2, <1>3, TakenMoves DEF UserInv
<1>5. /\ list \in SUBSET Entries
      /\ \A j : InList(users[d.dst], j) => InList(list, j)
      /\ \A j : j # d.src /\ AllKeys(users[d.dst], j) => AllKeys(list, j)
      /\ AllKeys(list, d.src)
  BY <1>1, <1>2, KeyedList DEF UserInv
<1>6. HandlerOK(d, list, new)
  BY <1>2, <1>3, <1>4, <1>5 DEF HandlerOK
<1> QED
  BY <1>1, <1>3, <1>6, Handled

(* A loss sets the two hosts apart, and no keys are due between them.      *)
LEMMA Lost ==
  ASSUME UserInv, NEW d \in BagToSet(net), Lose(d)
  PROVE  UserInv'
<1>1. /\ net' = Taken(d) /\ UNCHANGED <<up, users>>
      /\ \A p \in apart : p \in apart'
      /\ d.dst \in up => <<d.src, d.dst>> \in apart' /\ <<d.dst, d.src>> \in apart'
      /\ \A p \in keyDue' : p \in keyDue /\ p # <<d.src, d.dst>> /\ p # <<d.dst, d.src>>
  BY DEF Lose
<1>2. Moved({d}, {})
  BY <1>1, TakenMoves DEF UserInv
<1>3. UserType' /\ ExitsAreOver'
  BY <1>1, <1>2 DEF UserInv, UserType, ExitsAreOver, Moved
<1>4. ASSUME NEW type, NEW i, NEW j, InFlight(type, i, j), ~(i = d.src /\ j = d.dst)
      PROVE  InFlight(type, i, j)'
  <2>1. ~Sends({d}, type, i, j)
    BY <1>4 DEF Sends
  <2> QED
    BY <1>2, <1>4, <2>1, StaysInFlight
<1>5. FoundInv'
  <2> SUFFICES ASSUME NEW i \in up, NEW j \in up, <<i, j>> \notin apart'
               PROVE  \/ Listed(i, j)' \/ InFlight("BR_ENTRY", i, j)'
                      \/ InFlight("ANSENTRY", j, i)' \/ InFlight("BR_ENTRY", j, i)'
    BY <1>1 DEF FoundInv
  <2>1. <<i, j>> \notin apart /\ ~(i = d.src /\ j = d.dst) /\ ~(j = d.src /\ i = d.dst)
    BY <1>1
  <2>2. Listed(i, j) => Listed(i, j)'
    BY <1>1 DEF Listed
  <2> QED
    BY <1>4, <2>1, <2>2 DEF UserInv, FoundInv
<1>6. KeysInv'
  <2> SUFFICES ASSUME NEW i \in up, NEW j \in Hosts, <<i, j>> \in keyDue'
               PROVE  \/ KeysKnown(i, j)'
                      \/ InFlight("GETPUBKEY", i, j)' \/ InFlight("ANSPUBKEY", j, i)'
    BY <1>1 DEF KeysInv
  <2>1. <<i, j>> \in keyDue /\ ~(i = d.src /\ j = d.dst) /\ ~(j = d.src /\ i = d.dst)
    BY <1>1
  <2>2. KeysKnown(i, j) => KeysKnown(i, j)'
    BY <1>1 DEF KeysKnown
  <2> QED
    BY <1>4, <2>1, <2>2 DEF UserInv, KeysInv
<1> QED
  BY <1>3, <1>5, <1>6 DEF UserInv

--------------------------------------------------------------------------------
(* What users do.                                                          *)

LEMMA TypeAfterOp ==
  ASSUME UserType, NEW new, Moved({}, new), new \subseteq Datagrams, up' \subseteq Hosts,
         UNCHANGED users \/ \E i \in Hosts, list \in SUBSET Entries : users' = [users EXCEPT ![i] = list]
  PROVE  UserType'
<1>1. users' \in [Hosts -> SUBSET Entries]
  BY DEF UserType
<1> QED
  BY <1>1 DEF UserType, Moved

(* Lists stay as they are; datagrams are sent.                             *)
LEMMA ListsStay ==
  ASSUME UserInv, NEW new, Moved({}, new), new \subseteq Datagrams, up' \subseteq up,
         UNCHANGED <<users, apart>>, \A n \in new : n.type = "BR_EXIT" => n.src \notin up',
         \A i, j : <<i, j>> \in keyDue' => <<i, j>> \in keyDue \/ Sends(new, "GETPUBKEY", i, j)
  PROVE  UserInv'
<1>1. UserType'
  BY TypeAfterOp DEF UserInv, UserType
<1>2. ExitsAreOver'
  BY DEF UserInv, ExitsAreOver, Moved
<1>3. ASSUME NEW type, NEW i, NEW j, InFlight(type, i, j) PROVE InFlight(type, i, j)'
  <2>1. ~Sends({}, type, i, j)
    BY DEF Sends
  <2> QED
    BY <1>3, <2>1, StaysInFlight
<1>4. FoundInv'
  <2> SUFFICES ASSUME NEW i \in up', NEW j \in up', <<i, j>> \notin apart'
               PROVE  \/ Listed(i, j)' \/ InFlight("BR_ENTRY", i, j)'
                      \/ InFlight("ANSENTRY", j, i)' \/ InFlight("BR_ENTRY", j, i)'
    BY DEF FoundInv
  <2>1. Listed(i, j) => Listed(i, j)'
    BY DEF Listed
  <2> QED
    BY <1>3, <2>1 DEF UserInv, FoundInv
<1>5. KeysInv'
  <2> SUFFICES ASSUME NEW i \in up', NEW j \in Hosts, <<i, j>> \in keyDue'
               PROVE  \/ KeysKnown(i, j)'
                      \/ InFlight("GETPUBKEY", i, j)' \/ InFlight("ANSPUBKEY", j, i)'
    BY DEF KeysInv
  <2>1. KeysKnown(i, j) => KeysKnown(i, j)'
    BY DEF KeysKnown
  <2>2. CASE Sends(new, "GETPUBKEY", i, j)
    BY <2>2, IsSent
  <2>3. CASE <<i, j>> \in keyDue
    BY <1>3, <2>1, <2>3 DEF UserInv, KeysInv
  <2> QED
    BY <2>2, <2>3
<1> QED
  BY <1>1, <1>2, <1>4, <1>5 DEF UserInv

(* A host announces itself, as it starts or with part of its list.         *)
LEMMA HostAnnounced ==
  ASSUME UserInv, NEW i \in Hosts, NEW list \in SUBSET Entries,
         up' = up \cup {i}, ipmsg_send_br_entry(i, list),
         i \notin up => \A d \in DOMAIN net : ~(d.type = "BR_EXIT" /\ d.src = i),
         \A j \in Hosts : j \in Unreached(i, list) => <<i, j>> \in apart',
         \A k, j : k # i /\ <<k, j>> \in apart => <<k, j>> \in apart',
         i \notin up => \A k \in Hosts : k \in Unreached(i, list) => <<k, i>> \in apart',
         \A p \in keyDue' : p \in keyDue,
         \A j \in Hosts : <<i, j>> \in keyDue' => i \in up /\ list \subseteq users[i]
  PROVE  UserInv'
<1>1. PICK B : B = ipmsg_send_entry_packets("BR_ENTRY", i, list)
  OBVIOUS
<1>2. /\ Positive(B) /\ DOMAIN B \subseteq Datagrams
      /\ \A d \in DOMAIN B : d.type = "BR_ENTRY" /\ d.src = i
      /\ \A j \in Hosts \ Unreached(i, list) : Sends(DOMAIN B, "BR_ENTRY", i, j)
  <2>1. "BR_ENTRY" \in Types
    BY DEF Types
  <2> QED
    BY <1>1, <2>1, EntryPacketsReach
<1>3. users' = [users EXCEPT ![i] = list] /\ net' = net (+) B
  BY <1>1 DEF ipmsg_send_br_entry
<1>4. PICK new : new = DOMAIN B
  OBVIOUS
<1>5. Moved({}, new)
  BY <1>2, <1>3, <1>4, PutMoves DEF UserInv
<1>6. up \subseteq Hosts /\ users \in [Hosts -> SUBSET Entries]
  BY DEF UserInv, UserType
<1>7. UserType'
  <2>1. up' \subseteq Hosts
    BY <1>6
  <2> QED
    BY <1>2, <1>3, <1>4, <1>5, <2>1, TypeAfterOp DEF UserInv
<1>8. ExitsAreOver'
  BY <1>2, <1>4, <1>5 DEF UserInv, ExitsAreOver, Moved
<1>9. ASSUME NEW type, NEW k, NEW j, InFlight(type, k, j) PROVE InFlight(type, k, j)'
  <2>1. ~Sends({}, type, k, j)
    BY DEF Sends
  <2> QED
    BY <1>5, <1>9, <2>1, StaysInFlight
<1>10. ASSUME NEW j \in Hosts \ Unreached(i, list) PROVE InFlight("BR_ENTRY", i, j)'
  BY <1>2, <1>4, <1>5, IsSent
<1>11. FoundInv'
  <2> SUFFICES ASSUME NEW k \in up', NEW j \in up', <<k, j>> \notin apart'
               PROVE  \/ Listed(k, j)' \/ InFlight("BR_ENTRY", k, j)'
                      \/ InFlight("ANSENTRY", j, k)' \/ InFlight("BR_ENTRY", j, k)'
    BY DEF FoundInv
  <2>1. k \in Hosts /\ j \in Hosts
    BY <1>6
  <2>2. CASE k = i
    BY <1>10, <2>1, <2>2
  <2>3. CASE k # i /\ j = i /\ i \notin up
    BY <1>10, <2>1, <2>3
  <2>4. CASE k # i /\ ~(j = i /\ i \notin up)
    <3>1. k \in up /\ j \in up /\ <<k, j>> \notin apart
      BY <2>4
    <3>2. Listed(k, j) => Listed(k, j)'
      BY <1>3, <1>6, <2>1, <2>4 DEF Listed
    <3> QED
      BY <1>9, <3>1, <3>2 DEF UserInv, FoundInv
  <2> QED
    BY <2>2, <2>3, <2>4
<1>12. KeysInv'
  <2> SUFFICES ASSUME NEW k \in up', NEW j \in Hosts, <<k, j>> \in keyDue'
               PROVE  \/ KeysKnown(k, j)'
                      \/ InFlight("GETPUBKEY", k, j)' \/ InFlight("ANSPUBKEY", j, k)'
    BY DEF KeysInv
  <2>1. <<k, j>> \in keyDue /\ k \in up /\ k \in Hosts
    BY <1>6
  <2>2. KeysKnown(k, j) => KeysKnown(k, j)'
    <3>1. users'[k] \subseteq users[k]
      BY <1>3, <1>6, <2>1
    <3> QED
      BY <3>1 DEF KeysKnown
  <2> QED
    BY <1>9, <2>1, <2>2 DEF UserInv, KeysInv
<1> QED
  BY <1>7, <1>8, <1>11, <1>12 DEF UserInv

LEMMA HostStarts ==
  ASSUME UserInv, NEW i \in Hosts, init_ipmsg(i)
  PROVE  UserInv'
<1>1. /\ i \notin up /\ up' = up \cup {i} /\ ipmsg_send_br_entry(i, {})
      /\ \A d \in DOMAIN net : ~(d.type = "BR_EXIT" /\ d.src = i)
      /\ apart' = ((apart \ Pairs({i}, Hosts)) \cup Pairs({i}, Unreached(i, {})))
                  \cup Pairs(Unreached(i, {}), {i})
      /\ keyDue' = keyDue \ Pairs({i}, Hosts)
  BY DEF init_ipmsg, Announced, BagToSet
<1>2. /\ \A j \in Hosts : j \in Unreached(i, {}) => <<i, j>> \in apart' /\ <<j, i>> \in apart'
      /\ \A k, j : k # i /\ <<k, j>> \in apart => <<k, j>> \in apart'
      /\ \A p \in keyDue' : p \in keyDue
      /\ \A j \in Hosts : <<i, j>> \notin keyDue'
  BY <1>1 DEF Pairs
<1>3. {} \in SUBSET Entries
  OBVIOUS
<1> QED
  BY <1>1, <1>2, <1>3, HostAnnounced

LEMMA ListUpdates ==
  ASSUME UserInv, NEW i \in Hosts, ipmsg_update_ui_user_list(i)
  PROVE  UserInv'
<1>1. PICK list : list = userdb_invalidate_userdb(i)
  OBVIOUS
<1>2. /\ i \in up /\ UNCHANGED <<up, keyDue>> /\ ipmsg_send_br_entry(i, list)
      /\ apart' = (apart \ Pairs({i}, Hosts)) \cup Pairs({i}, Unreached(i, list))
  BY <1>1 DEF ipmsg_update_ui_user_list, Announced
<1>3. list \in SUBSET Entries /\ list \subseteq users[i]
  BY <1>1 DEF userdb_invalidate_userdb, DialupEntries, UserInv, UserType
<1>4. /\ \A j \in Hosts : j \in Unreached(i, list) => <<i, j>> \in apart'
      /\ \A k, j : k # i /\ <<k, j>> \in apart => <<k, j>> \in apart'
      /\ \A p \in keyDue' : p \in keyDue
      /\ up' = up \cup {i}
  BY <1>2 DEF Pairs
<1> QED
  BY <1>2, <1>3, <1>4, HostAnnounced

LEMMA HostLeaves ==
  ASSUME UserInv, NEW i \in Hosts, cleanup_ipmsg(i)
  PROVE  UserInv'
<1>1. PICK flags, list : /\ flags = (IF i \in Foreign THEN {} ELSE {SENDCHECKOPT})
                         /\ list = users[i]
  OBVIOUS
<1>2. PICK B : B = Broadcast("BR_EXIT", i, flags, list)
  OBVIOUS
<1>3. /\ up' = up \ {i} /\ net' = net (+) B /\ UNCHANGED <<users, apart, keyDue>>
  BY <1>1, <1>2 DEF cleanup_ipmsg
<1>4. Positive(B) /\ DOMAIN B \subseteq Datagrams /\ \A d \in DOMAIN B : d.src = i
  <2>1. "BR_EXIT" \in Types /\ flags \in SUBSET Flags /\ list \in SUBSET Entries
    BY <1>1 DEF Types, Flags, SENDCHECKOPT, ABSENCEOPT, UserInv, UserType
  <2> QED
    BY <1>2, <2>1, BroadcastReaches
<1>5. PICK new : new = DOMAIN B
  OBVIOUS
<1>6. Moved({}, new)
  BY <1>3, <1>4, <1>5, PutMoves DEF UserInv
<1> QED
  BY <1>3, <1>4, <1>5, <1>6, ListsStay

LEMMA HostCrashes ==
  ASSUME UserInv, NEW i \in Hosts, Crash(i)
  PROVE  UserInv'
<1>1. up' = up \ {i} /\ UNCHANGED <<users, net, apart, keyDue>>
  BY DEF Crash
<1>2. PICK new : new = {}
  OBVIOUS
<1>3. Moved({}, new)
  BY <1>1, <1>2 DEF Moved, UserInv, UserType
<1> QED
  BY <1>1, <1>2, <1>3, ListsStay

LEMMA UserGoes ==
  ASSUME UserInv, NEW i \in Hosts, ipmsg_send_br_absence(i)
  PROVE  UserInv'
<1>1. PICK B, list : B = ipmsg_send_entry_packets("BR_ABSENCE", i, users[i]) /\ list = users[i]
  OBVIOUS
<1>2. net' = net (+) B /\ UNCHANGED <<up, users, apart, keyDue>>
  BY <1>1 DEF ipmsg_send_br_absence
<1>3. Positive(B) /\ DOMAIN B \subseteq Datagrams /\ \A d \in DOMAIN B : d.type = "BR_ABSENCE"
  <2>1. "BR_ABSENCE" \in Types /\ list \in SUBSET Entries
    BY <1>1 DEF Types, UserInv, UserType
  <2> QED
    BY <1>1, <2>1, EntryPacketsReach
<1>4. PICK new : new = DOMAIN B
  OBVIOUS
<1>5. Moved({}, new)
  BY <1>2, <1>3, <1>4, PutMoves DEF UserInv
<1> QED
  BY <1>2, <1>3, <1>4, <1>5, ListsStay

LEMMA MessageGoes ==
  ASSUME UserInv, NEW i \in Hosts, NEW e \in users[i], ipmsg_send_sendmsg_packets(i, e)
  PROVE  UserInv'
<1>1. PICK G, A, list :
        /\ G = (IF e.keys THEN EmptyBag ELSE ipmsg_send_getpubkey(i, e.ipaddr))
        /\ A = (IF i \in absent THEN ipmsg_send_entry_packets("BR_ABSENCE", i, users[i])
                ELSE EmptyBag)
        /\ list = users[i]
  OBVIOUS
<1>2. /\ net' = net (+) G (+) A /\ UNCHANGED <<up, users, apart>>
      /\ keyDue' = IF e.keys THEN keyDue ELSE keyDue \cup {<<i, e.ipaddr>>}
  BY <1>1 DEF ipmsg_send_sendmsg_packets
<1>3. list \in SUBSET Entries /\ e.ipaddr \in Hosts
  BY <1>1 DEF UserInv, UserType, Entries
<1>4. /\ Positive(G) /\ DOMAIN G \subseteq Datagrams /\ \A d \in DOMAIN G : d.type = "GETPUBKEY"
      /\ ~e.keys => Sends(DOMAIN G, "GETPUBKEY", i, e.ipaddr)
  <2>1. CASE e.keys
    BY <1>1, <2>1, NothingPut
  <2>2. CASE ~e.keys
    <3>1. G = SetToBag({Datagram("GETPUBKEY", i, e.ipaddr, {})})
      BY <1>1, <2>2 DEF ipmsg_send_getpubkey
    <3>2. "GETPUBKEY" \in Types /\ {} \in SUBSET Flags
      BY DEF Types
    <3> QED
      BY <1>3, <3>1, <3>2, OneDatagram
  <2> QED
    BY <2>1, <2>2
<1>5. Positive(A) /\ DOMAIN A \subseteq Datagrams /\ \A d \in DOMAIN A : d.type = "BR_ABSENCE"
  <2>1. CASE i \in absent
    <3>1. A = ipmsg_send_entry_packets("BR_ABSENCE", i, list)
      BY <1>1, <2>1
    <3>2. "BR_ABSENCE" \in Types
      BY DEF Types
    <3> QED
      BY <1>3, <3>1, <3>2, EntryPacketsReach
  <2>2. CASE i \notin absent
    BY <1>1, <2>2, NothingPut
  <2> QED
    BY <2>1, <2>2
<1>6. PICK C, D, E, new : C = net /\ D = C (+) G /\ E = net' /\ new = DOMAIN G \cup DOMAIN A
  OBVIOUS
<1>7. Positive(C) /\ E = D (+) A
  BY <1>2, <1>6 DEF UserInv, UserType
<1>8. Positive(D) /\ DOMAIN D = DOMAIN C \cup DOMAIN G
  BY <1>4, <1>6, <1>7, Put
<1>9. Positive(E) /\ DOMAIN E = DOMAIN D \cup DOMAIN A
  BY <1>5, <1>7, <1>8, Put
<1>10. Moved({}, new)
  BY <1>6, <1>8, <1>9 DEF Moved
<1>11. \A n \in new : n.type # "BR_EXIT"
  BY <1>4, <1>5, <1>6
<1>12. \A k, j : <<k, j>> \in keyDue' => <<k, j>> \in keyDue \/ Sends(new, "GETPUBKEY", k, j)
  <2>1. ~e.keys => Sends(new, "GETPUBKEY", i, e.ipaddr)
    BY <1>4, <1>6 DEF Sends
  <2>2. CASE e.keys
    BY <1>2, <2>2
  <2>3. CASE ~e.keys
    <3>1. keyDue' = keyDue \cup {<<i, e.ipaddr>>}
      BY <1>2, <2>3
    <3> QED
      BY <2>1, <2>3, <3>1
  <2> QED
    BY <2>2, <2>3
<1> QED
  BY <1>2, <1>4, <1>5, <1>6, <1>10, <1>11, <1>12, ListsStay

--------------------------------------------------------------------------------
LEMMA UsersStart == Init => UserInv
<1> SUFFICES ASSUME Init PROVE UserInv
  OBVIOUS
<1>1. Positive(net) /\ DOMAIN net = {}
  BY NothingPut DEF Init
<1> QED
  BY <1>1 DEF Init, UserInv, UserType, ExitsAreOver, FoundInv, KeysInv

LEMMA UsersNext == UserInv /\ [Next]_vars => UserInv'
<1> SUFFICES ASSUME UserInv, [Next]_vars PROVE UserInv'
  OBVIOUS
<1>1. CASE Transport
  BY <1>1, EntryHandled, AnswerHandled, AbsenceHandled, ExitHandled, RequestHandled, KeysHandled,
     Lost DEF Transport, ipmsg_dispatch_message
<1>2. CASE \E i \in Hosts : UserOps(i)
  BY <1>2, HostStarts, HostLeaves, HostCrashes, ListUpdates, UserGoes, MessageGoes DEF UserOps
<1>3. CASE UNCHANGED vars
  BY <1>3 DEF vars, UserInv, UserType, ExitsAreOver, FoundInv, KeysInv, Listed, InFlight, KeysKnown
<1> QED
  BY <1>1, <1>2, <1>3 DEF Next

(* Lists, datagrams in flight and what was lost agree, between any two.    *)
THEOREM UserListsAreSound == Spec => []UserInv
<1> QED
  BY UsersStart, UsersNext, PTL DEF Spec

LEMMA QuietIsEmpty ==
  ASSUME Quiet
  PROVE  \A type, i, j : ~InFlight(type, i, j)
<1>1. DOMAIN net = {}
  BY NothingPut DEF Quiet
<1> QED
  BY <1>1 DEF InFlight

(* When everything has arrived, the hosts that run list each other, but    *)
(* those between which a datagram was lost or could not be addressed.      *)
THEOREM HostsFindEachOther == Spec => []ListedUnlessApart
<1>1. UserInv => ListedUnlessApart
  BY QuietIsEmpty DEF UserInv, FoundInv, ListedUnlessApart
<1> QED
  BY <1>1, UserListsAreSound, PTL

(* When everything has arrived, the keys that were asked for are known.    *)
THEOREM KeysAskedForCome == Spec => []KeysAskedForAreKnown
<1>1. UserInv => KeysAskedForAreKnown
  <2> SUFFICES ASSUME UserInv, Quiet, NEW i \in up, NEW e \in users[i],
                      <<i, e.ipaddr>> \in keyDue
               PROVE  e.keys
    BY DEF KeysAskedForAreKnown
  <2>1. e.ipaddr \in Hosts
    BY DEF UserInv, UserType, Entries
  <2>2. KeysKnown(i, e.ipaddr)
    BY <2>1, QuietIsEmpty DEF UserInv, KeysInv
  <2> QED
    BY <2>2 DEF KeysKnown
<1> QED
  BY <1>1, UserListsAreSound, PTL
=================================================================================
