---------------------------- MODULE HostListProofs ----------------------------
(***************************************************************************)
(* The host list exchange, for any number of users and of changes.  That   *)
(* a key is asked for once holds for any page length; what an undisturbed  *)
(* exchange learns is proved for the page length of the source, 1, because *)
(* the thirds that go missing come from pages of two users.                *)
(***************************************************************************)
EXTENDS HostList, SequenceTheorems, TLAPS

TypeOK ==
  /\ users \in Seq(Users)
  /\ known \subseteq Users
  /\ keyAsked \in [Users -> Nat]
  /\ phase \in {"before", "during", "after"}
  /\ changes \in Nat
  /\ disturbed \in BOOLEAN

(* What the client knows when it asks for the page from start.  A start    *)
(* that is a multiple of three belongs to the first pass: of the users     *)
(* behind it, every third one is missing.  Any other start belongs to a    *)
(* second pass, which begins when the last page's number, 0, is taken for  *)
(* that of its first user: the first pass is complete, and every user      *)
(* before start is known.                                                  *)
Covered(i, start) ==
  \/ i - 1 < start /\ (start % 3 # 0 \/ i % 3 # 0)
  \/ start % 3 # 0 /\ i % 3 # 0

Learned(start) ==
  \A i \in DOMAIN users : Covered(i, start) => users[i] \in known

Reached(start) ==
  /\ start = 0 \/ start < Len(users)
  /\ start % 3 = 0 \/ start % 3 = Len(users) % 3
  /\ Learned(start)

(* While nothing disturbs the exchange there is one datagram in flight:    *)
(* the request for a page that was reached, or the answer to it.           *)
PageInFlight ==
  phase = "during" /\ ~disturbed =>
    \E start \in 0..Len(users) :
      /\ Reached(start)
      /\ \/ net = {GetList(start)}
         \/ users # <<>> /\ net = {userdb_get_hostlist_string(start)}

QuietOutside == phase # "during" => net = {}

ExchangeInv ==
  TypeOK /\ QuietOutside /\ PageInFlight /\ WholeListUnlessThirds

-----------------------------------------------------------------------------
LEMMA Removed ==
  ASSUME NEW S, NEW s \in Seq(S), NEW i \in DOMAIN s
  PROVE  RemoveAt(s, i) \in Seq(S)
<1>1. i \in 1..Len(s) /\ Len(s) \in Nat /\ \A j \in 1..Len(s) : s[j] \in S
  BY LenProperties, ElementOfSeq
<1>2. SubSeq(s, 1, i - 1) \in Seq(S)
  BY <1>1, SubSeqProperties
<1>3. SubSeq(s, i + 1, Len(s)) \in Seq(S)
  BY <1>1, SubSeqProperties
<1> QED
  BY <1>2, <1>3, ConcatProperties DEF RemoveAt

(* A user joins or leaves the server's list. *)
ListChanges == \E list \in Seq(Users) : ChangeList(list)

LEMMA ListChangesTyped ==
  ASSUME TypeOK, NEW u \in Users,
         add_with_userdb_entry(u) \/ userdb_del_user(u)
  PROVE  ListChanges
<1>1. CASE add_with_userdb_entry(u)
  BY <1>1, AppendProperties DEF add_with_userdb_entry, TypeOK, ListChanges
<1>2. CASE userdb_del_user(u)
  <2>1. PICK i \in DOMAIN users : ChangeList(RemoveAt(users, i))
    BY <1>2 DEF userdb_del_user
  <2>2. RemoveAt(users, i) \in Seq(Users)
    BY Removed DEF TypeOK
  <2> QED
    BY <2>1, <2>2 DEF ListChanges
<1> QED
  BY <1>1, <1>2

(* The page the server answers with: up to two users.                      *)
LEMMA PageIs ==
  ASSUME Length = 1, users \in Seq(Users),
         NEW start \in Nat, start < Len(users),
         NEW d, d = userdb_get_hostlist_string(start)
  PROVE  /\ d.type = "ANSLIST"
         /\ d.total = Len(users) - 1
         /\ Len(d.page) = IF start + 1 = Len(users) THEN 1 ELSE 2
         /\ DOMAIN d.page = 1..Len(d.page)
         /\ \A i \in DOMAIN d.page : d.page[i] = users[start + i]
         /\ d.start = IF start + 2 < Len(users) THEN start + 1 ELSE 0
<1>1. PICK n \in Nat : n = Len(users)
  BY LenProperties
<1>2. PICK last \in Nat : last = Smaller(start + 1, n - 1) + 1
  BY <1>1 DEF Smaller
<1>3. /\ last = IF start + 1 = n THEN n ELSE start + 2
      /\ start + 1 <= last /\ last <= n
  BY <1>1, <1>2 DEF Smaller
<1>4. PICK page : page = Page(start)
  OBVIOUS
<1>5. page = SubSeq(users, start + 1, last)
  BY <1>1, <1>2, <1>4 DEF Page
<1>6. \A i \in (start + 1)..last : users[i] \in Users
  BY <1>1, <1>3, ElementOfSeq
<1>7. /\ page \in Seq(Users)
      /\ Len(page) = last - start
      /\ \A i \in 1..(last - start) : page[i] = users[start + i]
  <2>1. /\ page \in Seq(Users)
        /\ Len(page) = IF start + 1 <= last THEN last - (start + 1) + 1 ELSE 0
        /\ \A i \in 1..(last - (start + 1) + 1) :
             page[i] = users[start + 1 + i - 1]
    BY <1>3, <1>5, <1>6, SubSeqProperties
  <2>2. last - (start + 1) + 1 = last - start /\ start + 1 <= last
    BY <1>3
  <2>3. \A i \in 1..(last - start) : start + 1 + i - 1 = start + i
    BY <1>3
  <2> QED
    BY <2>1, <2>2, <2>3
<1>8. DOMAIN page = 1..(last - start) /\ page # <<>>
  BY <1>3, <1>7, LenProperties, EmptySeq
<1>9. LastOfPage(start) = last - 1
  BY <1>3, <1>4, <1>7, <1>8 DEF LastOfPage
<1>10. d = AnsList(IF last = n THEN 0 ELSE last - 1, n - 1, page)
  BY <1>1, <1>3, <1>4, <1>9 DEF userdb_get_hostlist_string
<1> QED
  BY <1>1, <1>3, <1>7, <1>8, <1>10 DEF AnsList

-----------------------------------------------------------------------------
LEMMA InitType == Init => TypeOK
<1> SUFFICES ASSUME Init PROVE TypeOK
  OBVIOUS
<1>1. PICK n \in 0..MaxUsers : users = [i \in 1..n |-> i]
  BY DEF Init
<1>2. users \in Seq(Users)
  <2>1. n \in Nat /\ \A i \in 1..n : i \in Users
    BY HostListAssumption DEF Users
  <2>2. [i \in 1..n |-> i] \in [1..n -> Users]
    BY <2>1
  <2> QED
    BY <1>1, <2>1, <2>2, SeqDef
<1> QED
  BY <1>2 DEF Init, TypeOK

LEMMA NextType ==
  ASSUME TypeOK, [Next]_vars
  PROVE  TypeOK'
<1>1. CASE ipmsg_proc_okgetlist
  BY <1>1 DEF ipmsg_proc_okgetlist, TypeOK
<1>2. CASE ipmsg_proc_getlist
  BY <1>2 DEF ipmsg_proc_getlist, TypeOK
<1>3. CASE ipmsg_proc_anslist
  BY <1>3 DEF ipmsg_proc_anslist, userdb_add_hostlist_entry, TypeOK
<1>4. CASE ListChanges
  BY <1>4 DEF ListChanges, ChangeList, TypeOK
<1>5. CASE Lose
  BY <1>5 DEF Lose, TypeOK
<1>6. CASE UNCHANGED vars
  BY <1>6 DEF vars, TypeOK
<1> QED
  BY <1>1, <1>2, <1>3, <1>4, <1>5, <1>6, ListChangesTyped DEF Next, Exchange

LEMMA NextKeyAsked ==
  ASSUME TypeOK, KeyAskedOnce, [Next]_vars
  PROVE  KeyAskedOnce'
<1>1. CASE ipmsg_proc_anslist
  <2>1. PICK d \in net : userdb_add_hostlist_entry(d)
    BY <1>1 DEF ipmsg_proc_anslist
  <2> SUFFICES ASSUME NEW u \in Users
               PROVE  \/ keyAsked'[u] = 0
                      \/ keyAsked'[u] = 1 /\ u \in known'
    BY DEF KeyAskedOnce
  <2>2. /\ known \subseteq known'
        /\ InPage(d, u) => u \in known'
        /\ keyAsked'[u] =
             keyAsked[u] + IF InPage(d, u) /\ u \notin known THEN 1 ELSE 0
    BY <2>1 DEF userdb_add_hostlist_entry, TypeOK
  <2>3. keyAsked[u] \in Nat
    BY DEF TypeOK
  <2> QED
    BY <2>2, <2>3 DEF KeyAskedOnce
<1>2. CASE UNCHANGED <<known, keyAsked>>
  BY <1>2 DEF KeyAskedOnce
<1>3. ASSUME ~ipmsg_proc_anslist PROVE UNCHANGED <<known, keyAsked>>
  BY <1>3, ListChangesTyped
  DEF Next, Exchange, ipmsg_proc_okgetlist, ipmsg_proc_getlist, Lose,
      ListChanges, ChangeList, vars
<1> QED
  BY <1>1, <1>2, <1>3

(* However often a page repeats a user, or two answers do, the user's key  *)
(* is asked for once at most, and not at all if the user was known.        *)
THEOREM KeyIsAskedOnce == Spec => []KeyAskedOnce
<1>1. Init => TypeOK /\ KeyAskedOnce
  BY InitType DEF Init, KeyAskedOnce
<1>2. (TypeOK /\ KeyAskedOnce) /\ [Next]_vars => (TypeOK /\ KeyAskedOnce)'
  BY NextType, NextKeyAsked
<1> QED
  BY <1>1, <1>2, PTL DEF Spec

-----------------------------------------------------------------------------
(* What one answer teaches. *)
LEMMA AnswerTeaches ==
  ASSUME TypeOK, NEW d, userdb_add_hostlist_entry(d)
  PROVE  /\ known \subseteq known'
         /\ \A i \in DOMAIN d.page : d.page[i] \in Users => d.page[i] \in known'
BY DEF userdb_add_hostlist_entry, InPage

(* The client's step from one page to the next.  n is the length of the    *)
(* server's list, and next what the client computes.                       *)
LEMMA NextPage ==
  ASSUME NEW n \in Nat, NEW start \in Nat, start < n,
         start % 3 = 0 \/ start % 3 = n % 3,
         NEW len, len = IF start + 1 = n THEN 1 ELSE 2,
         NEW number, number = IF start + 2 < n THEN start + 1 ELSE 0,
         NEW next, next = IF n - 1 < number + len THEN 0 ELSE number + len
  PROVE  /\ next \in Nat
         /\ next = 0 \/ next < n
         /\ next % 3 = 0 \/ next % 3 = n % 3
         /\ next = 0 =>
              \/ start + 3 = n
              \/ start % 3 = 0 /\ n = start + len /\ n < 3
         /\ next # 0 =>
              \/ next = start + 3
              \/ start % 3 = 0 /\ start + len = n /\ next % 3 # 0
                 /\ next = len
<1>1. CASE start + 2 < n
  <2>1. number = start + 1 /\ len = 2
    BY <1>1
  <2>2. CASE n - 1 < start + 3
    BY <1>1, <2>1, <2>2
  <2>3. CASE ~(n - 1 < start + 3)
    <3>1. next = start + 3
      BY <2>1, <2>3
    <3> QED
      BY <2>3, <3>1
  <2> QED
    BY <2>2, <2>3
<1>2. CASE start + 2 = n
  <2>1. number = 0 /\ len = 2
    BY <1>2
  <2> QED
    BY <1>2, <2>1
<1>3. CASE start + 1 = n
  <2>1. number = 0 /\ len = 1
    BY <1>3
  <2> QED
    BY <1>3, <2>1
<1> QED
  BY <1>1, <1>2, <1>3

LEMMA PagesCover ==
  ASSUME NEW n \in Nat, NEW start \in Nat, start < n,
         start % 3 = 0 \/ start % 3 = n % 3,
         NEW len, len = IF start + 1 = n THEN 1 ELSE 2,
         NEW next \in Nat,
         next = 0 =>
           \/ start + 3 = n
           \/ start % 3 = 0 /\ n = start + len /\ n < 3,
         next # 0 =>
           \/ next = start + 3
           \/ start % 3 = 0 /\ start + len = n /\ next % 3 # 0
              /\ next = len,
         NEW i \in 1..n,
         IF next = 0 THEN n % 3 # 0 \/ i % 3 # 0 ELSE Covered(i, next)
  PROVE  Covered(i, start) \/ i = start + 1 \/ i = start + 2
<1>1. CASE start + 3 = n /\ next = 0
  <2>1. start % 3 = n % 3
    BY <1>1
  <2>2. i - 1 < start \/ i = start + 1 \/ i = start + 2 \/ i = n
    BY <1>1
  <2> QED
    BY <1>1, <2>1, <2>2 DEF Covered
<1>2. CASE next = 0 /\ start % 3 = 0 /\ n = start + len /\ n < 3
  <2>1. start = 0
    BY <1>2
  <2> QED
    BY <1>2, <2>1 DEF Covered
<1>3. CASE start % 3 = 0 /\ n = start + len /\ next # 0 /\ next = len
  <2>1. i - 1 < start \/ i = start + 1 \/ i = start + 2
    BY <1>3
  <2>2. i % 3 # 0
    <3>1. i - 1 < next \/ i % 3 # 0
      BY <1>3 DEF Covered
    <3>2. next < 3
      BY <1>3
    <3>3. i < 3 => i % 3 # 0
      OBVIOUS
    <3> QED
      BY <3>1, <3>2, <3>3
  <2> QED
    BY <1>3, <2>1, <2>2 DEF Covered
<1>4. CASE next = start + 3
  <2>1. next % 3 = start % 3
    BY <1>4
  <2>2. i - 1 < next => i - 1 < start \/ i = start + 1 \/ i = start + 2
                        \/ i = start + 3
    BY <1>4
  <2>3. (start + 3) % 3 = start % 3
    OBVIOUS
  <2> QED
    BY <1>4, <2>1, <2>2, <2>3 DEF Covered
<1> QED
  BY <1>1, <1>2, <1>3, <1>4

(* Nothing that happens while the exchange is undisturbed touches the      *)
(* server's list, and a disturbed one promises nothing.                    *)
LEMMA ChangesDisturb ==
  ASSUME ExchangeInv, ListChanges \/ Lose
  PROVE  PageInFlight' /\ WholeListUnlessThirds'
<1>1. CASE Lose
  BY <1>1 DEF Lose, PageInFlight, WholeListUnlessThirds
<1>2. CASE ListChanges
  <2>1. phase' = phase /\ (disturbed' \/ phase = "before")
    BY <1>2 DEF ListChanges, ChangeList
  <2> QED
    BY <2>1 DEF PageInFlight, WholeListUnlessThirds
<1> QED
  BY <1>1, <1>2

LEMMA RequestAnswered ==
  ASSUME Length = 1, ExchangeInv, ipmsg_proc_getlist, ~disturbed,
         phase = "during"
  PROVE  PageInFlight' /\ WholeListUnlessThirds'
<1>1. PICK d \in net :
        /\ d.type = "GETLIST"
        /\ net' = IF users = <<>> THEN {}
                  ELSE {userdb_get_hostlist_string(d.start)}
        /\ phase' = IF users = <<>> THEN "after" ELSE phase
        /\ UNCHANGED <<users, known, keyAsked, changes, disturbed>>
  BY DEF ipmsg_proc_getlist
<1>2. CASE users = <<>>
  <2>1. users' = <<>> /\ phase' = "after"
    BY <1>1, <1>2
  <2>2. DOMAIN users' = {}
    BY <2>1
  <2> QED
    BY <2>1, <2>2 DEF PageInFlight, WholeListUnlessThirds
<1>3. CASE users # <<>>
  <2>1. PICK start \in 0..Len(users) :
          /\ Reached(start)
          /\ \/ net = {GetList(start)}
             \/ users # <<>> /\ net = {userdb_get_hostlist_string(start)}
    BY LenProperties DEF ExchangeInv, TypeOK, PageInFlight
  <2>2. d = GetList(start)
    BY <1>1, <2>1 DEF userdb_get_hostlist_string, AnsList
  <2>3. d.start = start
    BY <2>2 DEF GetList
  <2>4. Reached(start)'
    BY <1>1, <2>1 DEF Reached, Learned
  <2>5. userdb_get_hostlist_string(start)' = userdb_get_hostlist_string(start)
    BY <1>1 DEF userdb_get_hostlist_string, LastOfPage, Page
  <2> QED
    BY <1>1, <1>3, <2>1, <2>3, <2>4, <2>5 DEF PageInFlight, WholeListUnlessThirds
<1> QED
  BY <1>2, <1>3

(* What is known once the page from start has been read.                   *)
LEMMA LearnedFromPage ==
  ASSUME TypeOK, NEW start \in Nat, start < Len(users),
         NEW d, userdb_add_hostlist_entry(d), Learned(start),
         users' = users,
         Len(d.page) = IF start + 1 = Len(users) THEN 1 ELSE 2,
         DOMAIN d.page = 1..Len(d.page),
         \A i \in DOMAIN d.page : d.page[i] = users[start + i]
  PROVE  /\ DOMAIN users = 1..Len(users) /\ Len(users) \in Nat
         /\ \A i \in DOMAIN users :
              \/ Covered(i, start)
              \/ i = start + 1 \/ i = start + 2
              => users'[i] \in known'
<1>1. DOMAIN users = 1..Len(users) /\ Len(users) \in Nat
  BY LenProperties DEF TypeOK
<1>2. ASSUME NEW i \in DOMAIN users, i = start + 1 \/ i = start + 2
      PROVE  users[i] \in known'
  <2>1. users[i] \in Users
    BY <1>1, ElementOfSeq DEF TypeOK
  <2>2. i - start \in DOMAIN d.page /\ start + (i - start) = i
    BY <1>1, <1>2
  <2>3. d.page[i - start] = users[i]
    BY <2>2
  <2> QED
    BY <2>1, <2>2, <2>3, AnswerTeaches
<1> QED
  BY <1>1, <1>2, AnswerTeaches DEF Learned

LEMMA AnswerRead ==
  ASSUME Length = 1, ExchangeInv, ipmsg_proc_anslist, ~disturbed,
         phase = "during"
  PROVE  PageInFlight' /\ WholeListUnlessThirds'
<1>1. PICK d \in net :
        /\ d.type = "ANSLIST"
        /\ userdb_add_hostlist_entry(d)
        /\ LET next == hostlist_userinfo_add_with_answer(d)
           IN  /\ net' = IF next = 0 THEN {} ELSE {GetList(next)}
               /\ phase' = IF next = 0 THEN "after" ELSE phase
        /\ UNCHANGED <<users, changes, disturbed>>
  BY DEF ipmsg_proc_anslist
<1>2. PICK start \in Nat :
        /\ Reached(start)
        /\ \/ net = {GetList(start)}
           \/ users # <<>> /\ net = {userdb_get_hostlist_string(start)}
  BY LenProperties DEF ExchangeInv, TypeOK, PageInFlight
<1>3. d = userdb_get_hostlist_string(start) /\ users # <<>>
  BY <1>1, <1>2 DEF GetList
<1>4. PICK n \in Nat : n = Len(users)
  BY LenProperties DEF ExchangeInv, TypeOK
<1>5. start \in Nat /\ start < n /\ n > 0
  BY <1>2, <1>3, <1>4, EmptySeq DEF Reached, ExchangeInv, TypeOK
<1>6. /\ d.total = n - 1
      /\ Len(d.page) = IF start + 1 = n THEN 1 ELSE 2
      /\ DOMAIN d.page = 1..Len(d.page)
      /\ \A i \in DOMAIN d.page : d.page[i] = users[start + i]
      /\ d.start = IF start + 2 < n THEN start + 1 ELSE 0
  BY <1>3, <1>4, <1>5, PageIs DEF ExchangeInv, TypeOK
<1>7. d.page # <<>>
  BY <1>6
<1>8. PICK next : next = hostlist_userinfo_add_with_answer(d)
  OBVIOUS
<1>9. next = IF n - 1 < d.start + Len(d.page) THEN 0
             ELSE d.start + Len(d.page)
  BY <1>6, <1>7, <1>8 DEF hostlist_userinfo_add_with_answer
<1>10. /\ next \in Nat
       /\ next = 0 \/ next < n
       /\ next % 3 = 0 \/ next % 3 = n % 3
       /\ next = 0 =>
            \/ start + 3 = n
            \/ start % 3 = 0 /\ n = start + Len(d.page) /\ n < 3
       /\ next # 0 =>
            \/ next = start + 3
            \/ start % 3 = 0 /\ start + Len(d.page) = n /\ next % 3 # 0
               /\ next = Len(d.page)
  BY <1>2, <1>4, <1>5, <1>6, <1>9, NextPage DEF Reached
<1>11. /\ DOMAIN users = 1..n
       /\ \A i \in DOMAIN users :
            \/ Covered(i, start)
            \/ i = start + 1 \/ i = start + 2
            => users'[i] \in known'
  BY <1>1, <1>2, <1>4, <1>5, <1>6, LearnedFromPage DEF Reached, ExchangeInv
<1>12. users' = users /\ phase' = IF next = 0 THEN "after" ELSE phase
  BY <1>1, <1>8
<1>13. CASE next = 0
  <2>1. ASSUME NEW i \in DOMAIN users, n % 3 # 0 \/ i % 3 # 0
        PROVE  users'[i] \in known'
    <3>1. Covered(i, start) \/ i = start + 1 \/ i = start + 2
      BY <1>2, <1>4, <1>5, <1>6, <1>10, <1>11, <1>13, <2>1, PagesCover
      DEF Reached
    <3> QED
      BY <1>11, <3>1
  <2>2. \A i \in DOMAIN users' \ Missed' : users'[i] \in known'
    BY <1>4, <1>12, <2>1 DEF Missed
  <2> QED
    BY <1>12, <1>13, <2>2 DEF PageInFlight, WholeListUnlessThirds
<1>14. CASE next # 0
  <2>1. ASSUME NEW i \in DOMAIN users, Covered(i, next)
        PROVE  users'[i] \in known'
    <3>1. Covered(i, start) \/ i = start + 1 \/ i = start + 2
      BY <1>2, <1>4, <1>5, <1>6, <1>10, <1>11, <1>14, <2>1, PagesCover
      DEF Reached
    <3> QED
      BY <1>11, <3>1
  <2>2. Reached(next)'
    BY <1>4, <1>10, <1>12, <2>1 DEF Reached, Learned
  <2>3. net' = {GetList(next)}
    BY <1>1, <1>8, <1>14
  <2>4. next \in 0..Len(users')
    BY <1>4, <1>10, <1>12
  <2> QED
    BY <1>4, <1>10, <1>12, <1>14, <2>2, <2>3, <2>4 DEF PageInFlight, WholeListUnlessThirds
<1> QED
  BY <1>13, <1>14

LEMMA NextExchange ==
  ASSUME Length = 1, ExchangeInv, [Next]_vars
  PROVE  PageInFlight' /\ WholeListUnlessThirds'
<1>1. CASE ipmsg_proc_okgetlist
  <2>1. /\ net' = {GetList(0)} /\ phase' = "during"
        /\ users' = users /\ known' = known
    BY <1>1 DEF ipmsg_proc_okgetlist
  <2>2. DOMAIN users = 1..Len(users)
    BY LenProperties DEF ExchangeInv, TypeOK
  <2>3. Reached(0)' /\ 0 \in 0..Len(users')
    BY <2>1, <2>2, LenProperties DEF Reached, Learned, Covered, ExchangeInv, TypeOK
  <2> QED
    BY <2>1, <2>3 DEF PageInFlight, WholeListUnlessThirds
<1>2. CASE UNCHANGED vars
  BY <1>2 DEF ExchangeInv, PageInFlight, WholeListUnlessThirds, Missed, Reached,
     Learned, userdb_get_hostlist_string, LastOfPage, Page, vars
<1>3. CASE Exchange /\ phase = "during" /\ ~disturbed
  BY <1>3, RequestAnswered, AnswerRead DEF Exchange
<1>4. CASE Exchange /\ disturbed
  <2>1. disturbed'
    BY <1>4 DEF Exchange, ipmsg_proc_getlist, ipmsg_proc_anslist
  <2> QED
    BY <2>1 DEF PageInFlight, WholeListUnlessThirds
<1>5. ASSUME Exchange PROVE phase = "during"
  BY <1>5 DEF Exchange, ipmsg_proc_getlist, ipmsg_proc_anslist, ExchangeInv,
              QuietOutside
<1> QED
  BY <1>1, <1>2, <1>3, <1>4, <1>5, ListChangesTyped, ChangesDisturb
  DEF Next, ExchangeInv

LEMMA NextQuiet ==
  ASSUME QuietOutside, [Next]_vars
  PROVE  QuietOutside'
<1>1. ASSUME ipmsg_proc_okgetlist \/ ipmsg_proc_getlist \/ ipmsg_proc_anslist
             \/ Lose
      PROVE  QuietOutside'
  BY <1>1 DEF ipmsg_proc_okgetlist, ipmsg_proc_getlist, ipmsg_proc_anslist,
              Lose, QuietOutside
<1>2. ASSUME NEW u \in Users, add_with_userdb_entry(u) \/ userdb_del_user(u)
      PROVE  QuietOutside'
  BY <1>2 DEF add_with_userdb_entry, userdb_del_user, ChangeList, QuietOutside
<1>3. CASE UNCHANGED vars
  BY <1>3 DEF vars, QuietOutside
<1> QED
  BY <1>1, <1>2, <1>3 DEF Next, Exchange

(* For any number of users on the server, and whatever the client knew     *)
(* before: an exchange that nothing disturbs teaches the client every      *)
(* user, or, if their number is a multiple of three, all but every third.  *)
THEOREM WholeListIsLearned ==
  ASSUME Length = 1
  PROVE  Spec => []WholeListUnlessThirds
<1>1. Init => ExchangeInv
  BY InitType DEF Init, ExchangeInv, QuietOutside, PageInFlight,
                  WholeListUnlessThirds
<1>2. ExchangeInv /\ [Next]_vars => ExchangeInv'
  BY NextType, NextQuiet, NextExchange DEF ExchangeInv
<1>3. ExchangeInv => WholeListUnlessThirds
  BY DEF ExchangeInv
<1> QED
  BY <1>1, <1>2, <1>3, PTL DEF Spec
===============================================================================
