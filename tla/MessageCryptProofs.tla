--------------------------- MODULE MessageCryptProofs ---------------------------
(***************************************************************************)
(* For any number of hosts, settings and restarts: the two halves of a key *)
(* belong together, a known key is the one its owner uses, keys survive    *)
(* restarts, an encrypted message can be read where the settings agree,    *)
(* and a message goes in the clear only if no key fits.                    *)
(***************************************************************************)
EXTENDS MessageCrypt, TLAPS

LEMMA BagFacts ==
  /\ \A A, B : BagToSet(A (+) B) = BagToSet(A) \union BagToSet(B)
  /\ \A A, B : BagToSet(A (-) B) \subseteq BagToSet(A)
  /\ \A S : BagToSet(SetToBag(S)) = S
  /\ BagToSet(EmptyBag) = {}
<1>1. \A A, B : BagToSet(A (+) B) = BagToSet(A) \union BagToSet(B)
  BY DEF BagToSet, (+)
<1>2. \A A, B : BagToSet(A (-) B) \subseteq BagToSet(A)
  BY DEF BagToSet, (-)
<1>3. \A S : BagToSet(SetToBag(S)) = S
  BY DEF BagToSet, SetToBag
<1> QED
  BY <1>1, <1>2, <1>3 DEF EmptyBag

--------------------------------------------------------------------------------
(* The keys in memory.                                                     *)

KeysType ==
  /\ DOMAIN rsa_keys = Hosts
  /\ \A i \in Hosts : DOMAIN rsa_keys[i] = RsaTypes

PairsInv == KeysType /\ PairsMatch

NextKeys(i) ==
  \E lock, T : rsa_keys' = [rsa_keys EXCEPT ![i] = pcrypt_crypt_set_rsa_key(i, T, lock)]

(* Keys change when a host starts and when it stops, and at no other time. *)
LEMMA KeysChange ==
  ASSUME [Next]_vars
  PROVE  \/ UNCHANGED rsa_keys
         \/ \E i \in Hosts : NextKeys(i)
         \/ \E i \in Hosts : rsa_keys' = [rsa_keys EXCEPT ![i] = [t \in RsaTypes |-> NoPair]]
<1>1. ASSUME NEW i \in Hosts, pcrypt_crypt_init_keys(i) PROVE NextKeys(i)
  BY <1>1 DEF pcrypt_crypt_init_keys, NextKeys
<1>2. ASSUME NEW i \in Hosts, pcrypt_crypt_release_keys(i)
      PROVE  rsa_keys' = [rsa_keys EXCEPT ![i] = [t \in RsaTypes |-> NoPair]]
  BY <1>2 DEF pcrypt_crypt_release_keys
<1>3. ASSUME NEW i \in Hosts,
             \/ StopWhileStoring(i)
             \/ \E s \in LaterSettings : apply_crypt_config_window(i, s)
             \/ \E p \in DOMAIN Passwords \union {NoPassword} : on_passWordOKBtn_clicked(i, p)
             \/ \E j \in Hosts, text \in Texts : ipmsg_send_sendmsg_packets(i, j, text)
      PROVE  UNCHANGED rsa_keys
  BY <1>3 DEF StopWhileStoring, apply_crypt_config_window, on_passWordOKBtn_clicked,
     ipmsg_send_sendmsg_packets
<1>4. ASSUME NEW d,
             \/ ipmsg_proc_br_entry(d) \/ ipmsg_proc_ans_entry(d)
             \/ ipmsg_proc_get_public_key(d) \/ ipmsg_proc_anspubkey(d) \/ read_message(d)
      PROVE  UNCHANGED rsa_keys
  BY <1>4 DEF ipmsg_proc_br_entry, ipmsg_proc_ans_entry, ipmsg_proc_get_public_key,
     ipmsg_proc_anspubkey, read_message, Arrives
<1> QED
  BY <1>1, <1>2, <1>3, <1>4 DEF Next, vars

LEMMA KeysSet ==
  ASSUME NEW i \in Hosts, NEW T, NEW lock
  PROVE  LET k == pcrypt_crypt_set_rsa_key(i, T, lock)
         IN  DOMAIN k = RsaTypes /\ \A t \in RsaTypes : k[t].priv = k[t].pub
BY DEF pcrypt_crypt_set_rsa_key, pcrypt_load_rsa_key, RSA_check_key, NoPair

LEMMA PairsStay == PairsInv /\ [Next]_vars => PairsInv'
<1> SUFFICES ASSUME PairsInv, [Next]_vars PROVE PairsInv'
  OBVIOUS
<1>1. ASSUME NEW i \in Hosts, NEW k, rsa_keys' = [rsa_keys EXCEPT ![i] = k],
             DOMAIN k = RsaTypes, \A t \in RsaTypes : k[t].priv = k[t].pub
      PROVE  PairsInv'
  BY <1>1 DEF PairsInv, KeysType, PairsMatch
<1>2. ASSUME NEW i \in Hosts, NextKeys(i) PROVE PairsInv'
  <2>1. PICK lock, T : rsa_keys' = [rsa_keys EXCEPT ![i] = pcrypt_crypt_set_rsa_key(i, T, lock)]
    BY <1>2 DEF NextKeys
  <2>2. PICK k : k = pcrypt_crypt_set_rsa_key(i, T, lock)
    OBVIOUS
  <2>3. DOMAIN k = RsaTypes /\ \A t \in RsaTypes : k[t].priv = k[t].pub
    BY <2>2, KeysSet
  <2> QED
    BY <1>1, <2>1, <2>2, <2>3
<1>3. ASSUME NEW i \in Hosts, rsa_keys' = [rsa_keys EXCEPT ![i] = [t \in RsaTypes |-> NoPair]]
      PROVE  PairsInv'
  <2>1. PICK k : k = [t \in RsaTypes |-> NoPair]
    OBVIOUS
  <2>2. DOMAIN k = RsaTypes /\ \A t \in RsaTypes : k[t].priv = k[t].pub
    BY <2>1 DEF NoPair
  <2> QED
    BY <1>1, <1>3, <2>1, <2>2
<1>4. CASE UNCHANGED rsa_keys
  BY <1>4 DEF PairsInv, KeysType, PairsMatch
<1> QED
  BY <1>2, <1>3, <1>4, KeysChange

(* The two halves of a key belong together, whatever files a start finds.  *)
THEOREM KeysArePairs == Spec => []PairsMatch
<1>1. Init => PairsInv
  BY DEF Init, PairsInv, KeysType, PairsMatch, NoPair
<1>2. PairsInv => PairsMatch
  BY DEF PairsInv
<1> QED
  BY <1>1, <1>2, PairsStay, PTL DEF Spec

--------------------------------------------------------------------------------
(* The key files of a host that nothing has spoiled: none before its first *)
(* run, and those of that run ever since, open to it.                      *)

Sound(i) == i \in Hosts /\ i \notin Unsafe \union spoiled

NothingStored(i, t) == runs[i] = 0 /\ files[i][t].priv = 0

FirstStored(i, t) ==
  /\ runs[i] # 0
  /\ files[i][t].priv = 1 /\ files[i][t].pub = 1
  /\ files[i][t].lock \in {NoPassword, ipmsg_pem_passwd_dialog(conf[i])}

FilesType ==
  /\ up \subseteq Hosts
  /\ DOMAIN rsa_keys = Hosts /\ DOMAIN files = Hosts /\ DOMAIN conf = Hosts
  /\ runs \in [Hosts -> Nat]
  /\ \A i \in Hosts : \A t \in RsaTypes : DOMAIN files[i][t] = {"priv", "lock", "pub"}

FilesKept(i, t) == /\ NothingStored(i, t) \/ FirstStored(i, t)
                   /\ i \in up => rsa_keys[i][t].pub = 1

StoredInv ==
  FilesType /\ \A i \in Hosts : Sound(i) => \A t \in RsaTypes \ Failing[i] : FilesKept(i, t)

(* A start that makes the keys of its first run, or finds them.            *)
LEMMA KeysAtStart ==
  ASSUME StoredInv, NEW i \in Hosts, pcrypt_crypt_init_keys(i), Sound(i),
         NEW t \in RsaTypes \ Failing[i]
  PROVE  /\ runs'[i] # 0
         /\ files'[i][t].priv = 1 /\ files'[i][t].pub = 1
         /\ files'[i][t].lock \in {NoPassword, ipmsg_pem_passwd_dialog(conf[i])}
         /\ rsa_keys'[i][t].pub = 1
<1> DEFINE lock == ipmsg_pem_passwd_dialog(conf[i])
<1>1. PICK failed \in SUBSET Failing[i] :
        /\ rsa_keys' = [rsa_keys EXCEPT ![i] = pcrypt_crypt_set_rsa_key(i, generate_rsa_key(i, lock, failed), lock)]
        /\ files' = [files EXCEPT ![i] = pcrypt_store_rsa_key(i, generate_rsa_key(i, lock, failed), lock)]
  BY DEF pcrypt_crypt_init_keys
<1>2. runs' = [runs EXCEPT ![i] = @ + 1] /\ runs[i] \in Nat
  BY DEF pcrypt_crypt_init_keys, CanStart, StoredInv, FilesType
<1>3. check_secure_directory(i)
  BY DEF Sound, check_secure_directory
<1> DEFINE made == generate_rsa_key(i, lock, failed)
<1>4. /\ rsa_keys'[i] = pcrypt_crypt_set_rsa_key(i, made, lock)
      /\ files'[i] = pcrypt_store_rsa_key(i, made, lock)
  BY <1>1 DEF StoredInv, FilesType
<1>5. t \in RsaTypes /\ t \notin failed
  BY <1>1
<1>6. FilesKept(i, t)
  BY DEF StoredInv
<1>7. runs'[i] # 0
  BY <1>2 DEF StoredInv, FilesType
<1> HIDE DEF lock
<1>8. CASE NothingStored(i, t)
  <2>1. ~pcrypt_load_rsa_key(i, t, lock)
    BY <1>8 DEF NothingStored, pcrypt_load_rsa_key, load_private_key, open_key_file_for_read
  <2>2. t \in made
    BY <1>5, <2>1 DEF generate_rsa_key
  <2> HIDE DEF made
  <2>3. rsa_keys'[i][t] = [priv |-> runs[i] + 1, pub |-> runs[i] + 1]
    BY <1>4, <1>5, <2>2 DEF pcrypt_crypt_set_rsa_key
  <2>4. files'[i][t] = store_public_key(store_private_key(files[i][t], runs[i] + 1, lock), runs[i] + 1)
    BY <1>3, <1>4, <1>5, <2>2 DEF pcrypt_store_rsa_key
  <2>5. runs[i] + 1 = 1
    BY <1>8 DEF NothingStored
  <2> QED
    BY <1>5, <1>7, <2>3, <2>4, <2>5 DEF store_public_key, store_private_key, lock, StoredInv,
       FilesType
<1>9. CASE FirstStored(i, t)
  <2>1. files[i][t].priv = 1 /\ files[i][t].pub = 1 /\ files[i][t].lock \in {NoPassword, lock}
    BY <1>9 DEF FirstStored, lock
  <2>2. pcrypt_load_rsa_key(i, t, lock)
    BY <1>3, <2>1 DEF pcrypt_load_rsa_key, load_private_key, load_public_key, RSA_check_key,
       open_key_file_for_read
  <2>3. t \notin made
    BY <2>2 DEF generate_rsa_key
  <2> HIDE DEF made
  <2>4. rsa_keys'[i][t] = [priv |-> files[i][t].priv, pub |-> files[i][t].pub]
    BY <1>4, <1>5, <2>2, <2>3 DEF pcrypt_crypt_set_rsa_key
  <2>5. files'[i][t] = files[i][t]
    BY <1>4, <1>5, <2>3 DEF pcrypt_store_rsa_key
  <2> QED
    BY <1>7, <2>1, <2>4, <2>5 DEF lock
<1> QED
  BY <1>6, <1>8, <1>9 DEF FilesKept

(* What stores keys leaves the form of the files alone.                    *)
LEMMA FormKept ==
  ASSUME FilesType, NEW i \in Hosts, NEW T, NEW lock
  PROVE  \A t \in RsaTypes :
           DOMAIN pcrypt_store_rsa_key(i, T, lock)[t] = {"priv", "lock", "pub"}
BY DEF FilesType, pcrypt_store_rsa_key, store_public_key, store_private_key

LEMMA TypeAtStart ==
  ASSUME FilesType, NEW i \in Hosts, pcrypt_crypt_init_keys(i)
  PROVE  FilesType'
<1>1. PICK T, lock : files' = [files EXCEPT ![i] = pcrypt_store_rsa_key(i, T, lock)]
  BY DEF pcrypt_crypt_init_keys
<1>2. PICK k : rsa_keys' = [rsa_keys EXCEPT ![i] = k]
  BY DEF pcrypt_crypt_init_keys
<1>3. runs' = [runs EXCEPT ![i] = @ + 1] /\ UNCHANGED conf /\ up' = up \union {i}
  BY DEF pcrypt_crypt_init_keys, CanStart
<1>4. PICK g : g = pcrypt_store_rsa_key(i, T, lock)
  OBVIOUS
<1>5. files' = [files EXCEPT ![i] = g] /\ \A t \in RsaTypes : DOMAIN g[t] = {"priv", "lock", "pub"}
  BY <1>1, <1>4, FormKept
<1> QED
  BY <1>2, <1>3, <1>5 DEF FilesType

LEMMA StartStores ==
  ASSUME StoredInv, NEW i \in Hosts, pcrypt_crypt_init_keys(i)
  PROVE  StoredInv'
<1>1. FilesType'
  BY TypeAtStart DEF StoredInv
<1>2. ASSUME NEW j \in Hosts, Sound(j)', NEW t \in RsaTypes \ Failing[j]
      PROVE  FilesKept(j, t)'
  <2>1. Sound(j) /\ UNCHANGED conf
    BY <1>2 DEF pcrypt_crypt_init_keys, CanStart, Sound
  <2>2. CASE j = i
    BY <1>2, <2>1, <2>2, KeysAtStart DEF FilesKept, FirstStored
  <2>3. CASE j # i
    <3>1. /\ rsa_keys'[j] = rsa_keys[j] /\ files'[j] = files[j] /\ runs'[j] = runs[j]
          /\ j \in up' => j \in up
      BY <2>3 DEF pcrypt_crypt_init_keys, CanStart, StoredInv, FilesType
    <3> QED
      BY <1>2, <2>1, <3>1 DEF StoredInv, FilesKept, FirstStored, NothingStored
  <2> QED
    BY <2>2, <2>3
<1> QED
  BY <1>1, <1>2 DEF StoredInv

LEMMA StopStores ==
  ASSUME StoredInv, NEW i \in Hosts, StopWhileStoring(i)
  PROVE  StoredInv'
<1>1. PICK g : /\ files' = [files EXCEPT ![i] = g]
               /\ \A t \in RsaTypes : DOMAIN g[t] = {"priv", "lock", "pub"}
  <2>1. PICK T, lock, t, priv :
          files' = [files EXCEPT ![i] =
            [pcrypt_store_rsa_key(i, T, lock) EXCEPT ![t] = store_private_key(@, priv, lock)]]
    BY DEF StopWhileStoring
  <2>2. PICK done : done = pcrypt_store_rsa_key(i, T, lock)
    OBVIOUS
  <2>3. DOMAIN done = RsaTypes /\ \A u \in RsaTypes : DOMAIN done[u] = {"priv", "lock", "pub"}
    BY <2>2, FormKept DEF StoredInv, pcrypt_store_rsa_key
  <2>4. files' = [files EXCEPT ![i] = [done EXCEPT ![t] = store_private_key(@, priv, lock)]]
    BY <2>1, <2>2
  <2>5. \A u \in RsaTypes :
          DOMAIN [done EXCEPT ![t] = store_private_key(@, priv, lock)][u] = {"priv", "lock", "pub"}
    BY <2>3 DEF store_private_key
  <2> QED
    BY <2>4, <2>5
<1>2. runs' = [runs EXCEPT ![i] = @ + 1] /\ UNCHANGED <<conf, up, rsa_keys>>
      /\ spoiled' = spoiled \union {i}
  BY DEF StopWhileStoring, CanStart
<1>3. FilesType'
  BY <1>1, <1>2 DEF StoredInv, FilesType
<1>4. ASSUME NEW j \in Hosts, Sound(j)', NEW t \in RsaTypes \ Failing[j]
      PROVE  FilesKept(j, t)'
  <2>1. Sound(j) /\ j # i
    BY <1>2, <1>4 DEF Sound
  <2>2. files'[j] = files[j] /\ runs'[j] = runs[j]
    BY <1>1, <1>2, <2>1 DEF StoredInv, FilesType
  <2> QED
    BY <1>2, <1>4, <2>1, <2>2 DEF StoredInv, FilesKept, FirstStored, NothingStored
<1> QED
  BY <1>3, <1>4 DEF StoredInv

(* A change of settings leaves the lock of a sound host's files open.      *)
LEMMA SettingsStored ==
  ASSUME StoredInv, NEW i \in Hosts, NEW s, conf' = [conf EXCEPT ![i] = s], spoiled' = Spoils(i),
         UNCHANGED <<up, rsa_keys, files, runs>>
  PROVE  StoredInv'
<1>1. FilesType'
  BY DEF StoredInv, FilesType
<1>2. ASSUME NEW j \in Hosts, Sound(j)', NEW t \in RsaTypes \ Failing[j]
      PROVE  FilesKept(j, t)'
  <2>1. Sound(j) /\ FilesKept(j, t)
    BY <1>2 DEF Sound, Spoils, StoredInv
  <2>2. CASE NothingStored(j, t)
    BY <2>1, <2>2 DEF FilesKept, NothingStored
  <2>3. CASE FirstStored(j, t)
    <3>1. ipmsg_pem_passwd_dialog(conf[j]) \in {NoPassword, ipmsg_pem_passwd_dialog(conf'[j])}
      <4>1. CASE j = i
        BY <1>2, <4>1 DEF Spoils, Sound
      <4>2. CASE j # i
        BY <4>2 DEF StoredInv, FilesType
      <4> QED
        BY <4>1, <4>2
    <3> QED
      BY <2>1, <2>3, <3>1 DEF FilesKept, FirstStored
  <2> QED
    BY <2>1, <2>2, <2>3 DEF FilesKept
<1> QED
  BY <1>1, <1>2 DEF StoredInv

LEMMA FilesLeft ==
  ASSUME StoredInv, UNCHANGED <<conf, files, runs, spoiled>>,
         UNCHANGED <<up, rsa_keys>> \/ \E i \in Hosts : pcrypt_crypt_release_keys(i)
  PROVE  StoredInv'
<1>1. ASSUME NEW j \in up' PROVE j \in up /\ rsa_keys'[j] = rsa_keys[j]
  BY <1>1 DEF pcrypt_crypt_release_keys, StoredInv, FilesType
<1>2. up' \subseteq up /\ DOMAIN rsa_keys' = DOMAIN rsa_keys
  BY DEF pcrypt_crypt_release_keys
<1> QED
  BY <1>1, <1>2 DEF StoredInv, FilesType, Sound, FilesKept, FirstStored, NothingStored

LEMMA InitStores == Init => StoredInv
<1> SUFFICES ASSUME Init PROVE StoredInv
  OBVIOUS
<1>1. PICK s \in FirstStates :
        /\ conf = s.conf
        /\ runs = [i \in Hosts |-> IF s.stored[i] = NotStored THEN 0 ELSE 1]
        /\ files = [i \in Hosts |-> [t \in RsaTypes |->
             IF s.stored[i] = NotStored THEN NoFiles ELSE [priv |-> 1, lock |-> s.stored[i], pub |-> 1]]]
        /\ spoiled = {i \in Hosts : s.stored[i] \notin
             {NotStored, NoPassword, ipmsg_pem_passwd_dialog(s.conf[i])}}
  BY DEF Init
<1>2. up = {} /\ DOMAIN rsa_keys = Hosts
  BY DEF Init
<1>3. FilesType
  BY <1>1, <1>2, CryptAssumption DEF FilesType, NoFiles
<1>4. ASSUME NEW i \in Hosts, Sound(i), NEW t \in RsaTypes
      PROVE  FilesKept(i, t)
  <2>1. CASE s.stored[i] = NotStored
    BY <1>1, <1>2, <2>1 DEF FilesKept, NothingStored, NoFiles
  <2>2. CASE s.stored[i] # NotStored
    <3>1. s.stored[i] \in {NoPassword, ipmsg_pem_passwd_dialog(conf[i])}
      BY <1>1, <1>4, <2>2 DEF Sound
    <3> QED
      BY <1>1, <1>2, <2>2, <3>1 DEF FilesKept, FirstStored
  <2> QED
    BY <2>1, <2>2
<1> QED
  BY <1>3, <1>4 DEF StoredInv

LEMMA NextStores == StoredInv /\ [Next]_vars => StoredInv'
<1> SUFFICES ASSUME StoredInv, [Next]_vars PROVE StoredInv'
  OBVIOUS
<1>1. ASSUME NEW i \in Hosts, pcrypt_crypt_release_keys(i) PROVE StoredInv'
  BY <1>1, FilesLeft DEF pcrypt_crypt_release_keys
<1>2. ASSUME NEW i \in Hosts, NEW s, apply_crypt_config_window(i, s) PROVE StoredInv'
  BY <1>2, SettingsStored DEF apply_crypt_config_window
<1>3. ASSUME NEW i \in Hosts, NEW p, on_passWordOKBtn_clicked(i, p) PROVE StoredInv'
  <2>1. conf' = [conf EXCEPT ![i] = [conf[i] EXCEPT !.password = pbkdf2_encrypt(p)]]
    BY <1>3 DEF on_passWordOKBtn_clicked
  <2> QED
    BY <1>3, <2>1, SettingsStored DEF on_passWordOKBtn_clicked
<1>4. ASSUME NEW i, NEW j, NEW text, ipmsg_send_sendmsg_packets(i, j, text) PROVE StoredInv'
  BY <1>4, FilesLeft DEF ipmsg_send_sendmsg_packets
<1>5. ASSUME NEW d,
             \/ ipmsg_proc_br_entry(d) \/ ipmsg_proc_ans_entry(d)
             \/ ipmsg_proc_get_public_key(d) \/ ipmsg_proc_anspubkey(d) \/ read_message(d)
      PROVE  StoredInv'
  BY <1>5, FilesLeft DEF ipmsg_proc_br_entry, ipmsg_proc_ans_entry, ipmsg_proc_get_public_key,
     ipmsg_proc_anspubkey, read_message, Arrives
<1>6. CASE UNCHANGED vars
  BY <1>6, FilesLeft DEF vars
<1> QED
  BY <1>1, <1>2, <1>3, <1>4, <1>5, <1>6, StartStores, StopStores DEF Next

(* A host keeps the keys of its first run, unless its files were out of    *)
(* reach, locked differently, or being written when it stopped.            *)
THEOREM KeysAreKept == Spec => []KeysSurviveRestarts
<1>1. StoredInv => KeysSurviveRestarts
  BY DEF StoredInv, FilesType, Sound, FilesKept, KeysSurviveRestarts
<1> QED
  BY <1>1, InitStores, NextStores, PTL DEF Spec

--------------------------------------------------------------------------------
(* The keys that hosts know of each other.                                 *)

AnsweredAreCurrent ==
  \A d \in BagToSet(net) :
    d.type = "ANSPUBKEY" /\ d.src \in up => d.key.made = rsa_keys[d.src][d.key.type].pub

KnownType ==
  /\ DOMAIN rsa_keys = Hosts /\ DOMAIN known = Hosts /\ up \subseteq Hosts
  /\ \A i \in Hosts : DOMAIN known[i] = Hosts
  /\ \A d \in BagToSet(net) : d.src \in Hosts /\ d.dst \in Hosts

KnownInv == KnownType /\ AnsweredAreCurrent /\ KeysKnownAreCurrent

(* What a step may add to the network: answers that carry a current key.   *)
Good(d) ==
  /\ d.src \in Hosts /\ d.dst \in Hosts
  /\ d.type = "ANSPUBKEY" => d.key.made = rsa_keys[d.src][d.key.type].pub

LEMMA EntriesAreGood ==
  ASSUME NEW type \in {"BR_ENTRY", "ANSENTRY"}, NEW i \in Hosts
  PROVE  \A d \in BagToSet(ipmsg_send_entry_packets(type, i)) : Good(d)
BY BagFacts DEF ipmsg_send_entry_packets, Entry, Good

LEMMA QuestionsAreGood ==
  ASSUME NEW i \in Hosts, NEW j \in Hosts
  PROVE  \A d \in BagToSet(ipmsg_send_getpubkey(i, j)) : Good(d)
BY BagFacts DEF ipmsg_send_getpubkey, GetPubKey, Good

LEMMA AnswersAreGood ==
  ASSUME NEW i \in Hosts, NEW j \in Hosts, NEW cap
  PROVE  \A d \in pcrypt_crypt_generate_anspubkey_string(i, j, cap) : Good(d)
BY DEF pcrypt_crypt_generate_anspubkey_string, AnsPubKey, Good

(* Steps that leave the keys of the running hosts and what is known alone. *)
LEMMA KnownKept ==
  ASSUME KnownInv, UNCHANGED <<up, rsa_keys, known, unheard>>,
         \A d \in BagToSet(net') : d \in BagToSet(net) \/ Good(d)
  PROVE  KnownInv'
<1>1. AnsweredAreCurrent'
  BY DEF KnownInv, AnsweredAreCurrent, Good
<1>2. KnownType'
  BY DEF KnownInv, KnownType, Good
<1> QED
  BY <1>1, <1>2 DEF KnownInv, KeysKnownAreCurrent

LEMMA KnownAtStart ==
  ASSUME KnownInv, NEW i \in Hosts, pcrypt_crypt_init_keys(i)
  PROVE  KnownInv'
<1>1. PICK k : rsa_keys' = [rsa_keys EXCEPT ![i] = k]
  BY DEF pcrypt_crypt_init_keys
<1>2. /\ i \notin up /\ up' = up \union {i}
      /\ known' = [known EXCEPT ![i] = [j \in Hosts |-> Unlisted]]
      /\ net' = Remaining(i) (+) ipmsg_send_entry_packets("BR_ENTRY", i)
      /\ unheard' = (unheard \ (Hosts \X {i})) \union ({i} \X (Hosts \ {i}))
  BY DEF pcrypt_crypt_init_keys, CanStart
<1>3. BagToSet(Remaining(i)) = {d \in BagToSet(net) : d.src # i}
  BY DEF Remaining, BagToSet
<1>4. ASSUME NEW d \in BagToSet(net')
      PROVE  \/ d \in BagToSet(net) /\ d.src # i
             \/ d.src = i /\ d.dst \in Hosts /\ d.type # "ANSPUBKEY"
  <2>1. d \in BagToSet(Remaining(i)) \/ d \in BagToSet(ipmsg_send_entry_packets("BR_ENTRY", i))
    BY <1>2, BagFacts
  <2>2. CASE d \in BagToSet(Remaining(i))
    BY <1>3, <2>2
  <2>3. CASE d \in BagToSet(ipmsg_send_entry_packets("BR_ENTRY", i))
    BY <2>3, BagFacts DEF ipmsg_send_entry_packets, Entry
  <2> QED
    BY <2>1, <2>2, <2>3
<1>5. AnsweredAreCurrent'
  BY <1>1, <1>2, <1>4 DEF KnownInv, AnsweredAreCurrent, KnownType
<1>6. KnownType'
  BY <1>1, <1>2, <1>4 DEF KnownInv, KnownType
<1>7. ASSUME NEW g \in up', NEW h \in up', known'[g][h].key # NoKey, <<h, g>> \notin unheard'
      PROVE  known'[g][h].key.made = rsa_keys'[h][known'[g][h].key.type].pub
  <2>1. g # i
    BY <1>2, <1>7 DEF KnownInv, KnownType, Unlisted
  <2>2. h # i
    BY <1>2, <1>7, <2>1 DEF KnownInv, KnownType
  <2>3. <<h, g>> \notin unheard
    BY <1>2, <1>7, <2>1
  <2> QED
    BY <1>1, <1>2, <1>7, <2>1, <2>2, <2>3 DEF KnownInv, KnownType, KeysKnownAreCurrent
<1>8. KeysKnownAreCurrent'
  BY <1>7 DEF KeysKnownAreCurrent
<1> QED
  BY <1>5, <1>6, <1>8 DEF KnownInv

LEMMA KnownAtStop ==
  ASSUME KnownInv, NEW i \in Hosts, pcrypt_crypt_release_keys(i)
  PROVE  KnownInv'
<1>1. PICK k : rsa_keys' = [rsa_keys EXCEPT ![i] = k]
  BY DEF pcrypt_crypt_release_keys
<1>2. up' = up \ {i} /\ UNCHANGED <<known, net, unheard>>
  BY DEF pcrypt_crypt_release_keys
<1> QED
  BY <1>1, <1>2 DEF KnownInv, KnownType, AnsweredAreCurrent, KeysKnownAreCurrent

(* An announcement makes the sender known without a key.                   *)
LEMMA KnownAnew ==
  ASSUME KnownInv, NEW d \in BagToSet(net), NEW answer, HearsEntry(d, answer),
         \A e \in BagToSet(answer) : Good(e), UNCHANGED <<up, rsa_keys>>
  PROVE  KnownInv'
<1>1. /\ known' = [known EXCEPT ![d.dst][d.src] = Keyless]
      /\ net' = Taken(d) (+) answer (+) ipmsg_send_getpubkey(d.dst, d.src)
      /\ unheard' = unheard \ {<<d.src, d.dst>>}
  BY DEF HearsEntry, userdb_update_user
<1>2. d.src \in Hosts /\ d.dst \in Hosts
  BY DEF KnownInv, KnownType
<1>3. \A e \in BagToSet(net') : e \in BagToSet(net) \/ Good(e)
  BY <1>1, <1>2, BagFacts, QuestionsAreGood DEF Taken
<1>4. AnsweredAreCurrent'
  BY <1>3 DEF KnownInv, AnsweredAreCurrent, Good
<1>5. KnownType'
  BY <1>1, <1>3 DEF KnownInv, KnownType, Good
<1>6. ASSUME NEW g \in up, NEW h \in up, known'[g][h].key # NoKey, <<h, g>> \notin unheard'
      PROVE  known'[g][h].key.made = rsa_keys[h][known'[g][h].key.type].pub
  <2>1. Keyless.key = NoKey
    BY DEF Keyless, Unlisted
  <2>2. g \in Hosts /\ h \in Hosts
    BY DEF KnownInv, KnownType
  <2>3. ~ (g = d.dst /\ h = d.src)
    BY <1>1, <1>2, <1>6, <2>1 DEF KnownInv, KnownType
  <2>4. known'[g][h] = known[g][h] /\ <<h, g>> \notin unheard
    BY <1>1, <1>2, <1>6, <2>2, <2>3 DEF KnownInv, KnownType
  <2> QED
    BY <1>6, <2>4 DEF KnownInv, KeysKnownAreCurrent
<1> QED
  BY <1>4, <1>5, <1>6 DEF KnownInv, KeysKnownAreCurrent

LEMMA KnownAnswered ==
  ASSUME KnownInv, NEW d \in BagToSet(net), ipmsg_proc_anspubkey(d)
  PROVE  KnownInv'
<1>1. /\ known' = [known EXCEPT ![d.dst][d.src] = userdb_replace_public_key_by_addr(d.dst, d)]
      /\ net' = Taken(d) /\ d.type = "ANSPUBKEY" /\ UNCHANGED <<up, rsa_keys, unheard>>
  BY DEF ipmsg_proc_anspubkey, Arrives
<1>2. d.src \in Hosts /\ d.dst \in Hosts
  BY DEF KnownInv, KnownType
<1>3. \A e \in BagToSet(net') : e \in BagToSet(net)
  BY <1>1, BagFacts DEF Taken
<1>4. AnsweredAreCurrent'
  BY <1>1, <1>3 DEF KnownInv, AnsweredAreCurrent
<1>5. KnownType'
  BY <1>1, <1>3 DEF KnownInv, KnownType
<1>6. ASSUME NEW g \in up, NEW h \in up, known'[g][h].key # NoKey, <<h, g>> \notin unheard
      PROVE  known'[g][h].key.made = rsa_keys[h][known'[g][h].key.type].pub
  <2>1. g \in Hosts /\ h \in Hosts
    BY DEF KnownInv, KnownType
  <2>2. CASE g = d.dst /\ h = d.src
    <3>1. known'[g][h] = userdb_replace_public_key_by_addr(d.dst, d)
      BY <1>1, <1>2, <2>2 DEF KnownInv, KnownType
    <3>2. known'[g][h].key = d.key \/ known'[g][h] = known[g][h]
      BY <2>2, <3>1 DEF userdb_replace_public_key_by_addr
    <3>3. d.key.made = rsa_keys[h][d.key.type].pub
      BY <1>1, <2>2 DEF KnownInv, AnsweredAreCurrent
    <3> QED
      BY <1>6, <3>2, <3>3 DEF KnownInv, KeysKnownAreCurrent
  <2>3. CASE ~ (g = d.dst /\ h = d.src)
    <3>1. known'[g][h] = known[g][h]
      BY <1>1, <1>2, <2>1, <2>3 DEF KnownInv, KnownType
    <3> QED
      BY <1>6, <3>1 DEF KnownInv, KeysKnownAreCurrent
  <2> QED
    BY <2>2, <2>3
<1> QED
  BY <1>1, <1>4, <1>5, <1>6 DEF KnownInv, KeysKnownAreCurrent

LEMMA MessagesAreGood ==
  ASSUME NEW i \in Hosts, NEW j \in Hosts, NEW text
  PROVE  /\ Good(InClear(i, j, text))
         /\ \A d \in ipmsg_encrypt_message(i, j, text) : Good(d)
BY DEF InClear, ipmsg_encrypt_message, SendMsg, Good

(* A click on Send adds one datagram with the message or none.             *)
LEMMA WhatIsSent ==
  ASSUME NEW i, NEW j, NEW text, ipmsg_send_sendmsg_packets(i, j, text)
  PROVE  \E sent \in SUBSET ({InClear(i, j, text)} \union ipmsg_encrypt_message(i, j, text)) :
           \/ net' = net (+) ipmsg_send_getpubkey(i, j) (+) SetToBag(sent)
           \/ net' = net (+) SetToBag(sent)
<1>1. PICK clear : /\ clear = SentInClear(i, j, text)
                   /\ clear \subseteq {InClear(i, j, text)}
  BY DEF SentInClear
<1>2. \/ net' = net (+) ipmsg_send_getpubkey(i, j) (+) SetToBag(clear)
      \/ net' = net (+) SetToBag(clear)
      \/ \E d \in ipmsg_encrypt_message(i, j, text) : net' = net (+) SetToBag({d})
  BY <1>1 DEF ipmsg_send_sendmsg_packets
<1> QED
  BY <1>1, <1>2

LEMMA KnownWhenSent ==
  ASSUME KnownInv, NEW i \in Hosts, NEW j \in Hosts, NEW text, ipmsg_send_sendmsg_packets(i, j, text)
  PROVE  KnownInv'
<1>1. UNCHANGED <<up, rsa_keys, known, unheard>>
  BY DEF ipmsg_send_sendmsg_packets
<1>2. PICK sent : /\ \A d \in sent : Good(d)
                  /\ \/ net' = net (+) ipmsg_send_getpubkey(i, j) (+) SetToBag(sent)
                     \/ net' = net (+) SetToBag(sent)
  BY WhatIsSent, MessagesAreGood
<1>3. \A e \in BagToSet(net') : e \in BagToSet(net) \/ Good(e)
  BY <1>2, BagFacts, QuestionsAreGood
<1> QED
  BY <1>1, <1>3, KnownKept

LEMMA NextKnows == KnownInv /\ [Next]_vars => KnownInv'
<1> SUFFICES ASSUME KnownInv, [Next]_vars PROVE KnownInv'
  OBVIOUS
<1>1. ASSUME NEW i \in Hosts,
             \/ StopWhileStoring(i)
             \/ \E s \in LaterSettings : apply_crypt_config_window(i, s)
             \/ \E p \in DOMAIN Passwords \union {NoPassword} : on_passWordOKBtn_clicked(i, p)
      PROVE  KnownInv'
  BY <1>1, KnownKept DEF StopWhileStoring, apply_crypt_config_window, on_passWordOKBtn_clicked
<1>2. ASSUME NEW d \in BagToSet(net), ipmsg_proc_br_entry(d) PROVE KnownInv'
  BY <1>2, KnownAnew, EntriesAreGood DEF ipmsg_proc_br_entry, Arrives, KnownInv, KnownType
<1>3. ASSUME NEW d \in BagToSet(net), ipmsg_proc_ans_entry(d) PROVE KnownInv'
  BY <1>3, KnownAnew, BagFacts DEF ipmsg_proc_ans_entry, Arrives
<1>4. ASSUME NEW d \in BagToSet(net), ipmsg_proc_get_public_key(d) PROVE KnownInv'
  <2>1. /\ net' = Taken(d) (+) SetToBag(pcrypt_crypt_generate_anspubkey_string(d.dst, d.src, d.cap))
        /\ UNCHANGED <<up, rsa_keys, known, unheard>>
    BY <1>4 DEF ipmsg_proc_get_public_key, Arrives
  <2>2. d.src \in Hosts /\ d.dst \in Hosts
    BY DEF KnownInv, KnownType
  <2>3. \A e \in BagToSet(net') : e \in BagToSet(net) \/ Good(e)
    BY <2>1, <2>2, BagFacts, AnswersAreGood DEF Taken
  <2> QED
    BY <2>1, <2>3, KnownKept
<1>5. ASSUME NEW d \in BagToSet(net), read_message(d) PROVE KnownInv'
  BY <1>5, KnownKept, BagFacts DEF read_message, Arrives, Taken
<1>6. CASE UNCHANGED vars
  BY <1>6, KnownKept DEF vars
<1> QED
  BY <1>1, <1>2, <1>3, <1>4, <1>5, <1>6, KnownAtStart, KnownAtStop, KnownAnswered, KnownWhenSent
     DEF Next

(* Once a host has heard of a peer's last start, the key it has of the     *)
(* peer is the one the peer uses.                                          *)
THEOREM KnownKeysAreCurrent == Spec => []KeysKnownAreCurrent
<1>1. Init => KnownInv
  BY BagFacts DEF Init, KnownInv, KnownType, AnsweredAreCurrent, KeysKnownAreCurrent
<1>2. KnownInv => KeysKnownAreCurrent
  BY DEF KnownInv
<1> QED
  BY <1>1, <1>2, NextKnows, PTL DEF Spec

--------------------------------------------------------------------------------
(* The algorithms on which two hosts agree.                                *)

ConfType == conf \in [Hosts -> Settings]

(* The type of the key that i gets from j, if neither changes algorithms.  *)
Agreed(i, j) ==
  Choice(RsaTable, hostinfo_refer_ipmsg_cipher(i) \intersect hostinfo_refer_ipmsg_cipher(j), conf[j].speed)

(* A key fits the capability it comes with, and the question it answers.   *)
AnswerFits(cap, key, asked) ==
  /\ key = [type |-> key.type, made |-> key.made]
  /\ key.type \in RsaTypes \intersect cap \intersect asked
  /\ \E s \in asked : cap \intersect Entries(SymTable) = {s}

AskedWithSetting(d) == d.src \notin altered => d.cap = hostinfo_refer_ipmsg_cipher(d.src)

AnswerAgreed(d) ==
  /\ AnswerFits(d.cap, d.key, d.asked)
  /\ d.src \notin altered /\ d.dst \notin altered => d.key.type \in Agreed(d.dst, d.src)

(* The sender signs with its key of the type the message is encrypted with. *)
SignedInKind(d) ==
  /\ d.sign.type = d.key.type
  /\ d.src \in up => d.sign.made = rsa_keys[d.src][d.key.type].priv

WellEncrypted(d) ==
  /\ d.key = [type |-> d.key.type, made |-> d.key.made]
  /\ d.key.type \in d.cap \intersect RsaTypes
  /\ d.body.by \in d.cap
  /\ d.cap \intersect Entries(SignTable) # {} => SignedInKind(d)

Fine(d) ==
  /\ d.type = "GETPUBKEY" => AskedWithSetting(d)
  /\ d.type = "ANSPUBKEY" => AnswerAgreed(d)
  /\ d.type = "SENDMSG" /\ d.cap # {} => WellEncrypted(d)

FineEntry(i, j) ==
  known[i][j].key # NoKey =>
    /\ AnswerFits(known[i][j].cap, known[i][j].key, known[i][j].asked)
    /\ i \notin altered /\ j \notin altered => known[i][j].key.type \in Agreed(i, j)

AgreementInv ==
  /\ ConfType
  /\ IsABag(net)
  /\ \A d \in BagToSet(net) : Fine(d)
  /\ \A i, j \in Hosts : FineEntry(i, j)


(* No algorithm is in two tables.                                          *)
LEMMA Tables ==
  /\ Entries(SymTable) = {"AES_256", "BLOWFISH_256", "RC2_256", "AES_192", "AES_128",
                          "BLOWFISH_128", "RC2_128", "RC2_40"}
  /\ RsaTypes = {"RSA_2048", "RSA_1024", "RSA_512"}
  /\ Entries(SignTable) = {"SHA1", "MD5"}
<1>1. DOMAIN SymTable = 1..8 /\ DOMAIN RsaTable = 1..3 /\ DOMAIN SignTable = 1..2
  BY DEF SymTable, RsaTable, SignTable
<1>2. Entries(SymTable) = {"AES_256", "BLOWFISH_256", "RC2_256", "AES_192", "AES_128",
                          "BLOWFISH_128", "RC2_128", "RC2_40"}
  BY <1>1 DEF Entries, SymTable
<1>3. RsaTypes = {"RSA_2048", "RSA_1024", "RSA_512"}
  BY <1>1 DEF RsaTypes, Entries, RsaTable
<1>4. Entries(SignTable) = {"SHA1", "MD5"}
  BY <1>1 DEF Entries, SignTable
<1> QED
  BY <1>2, <1>3, <1>4

(* A choice is a candidate of the table, and there is never another.       *)
LEMMA ChoiceIsOne ==
  ASSUME NEW table, DOMAIN table \subseteq Nat, NEW candidates, NEW speed
  PROVE  /\ Choice(table, candidates, speed) \subseteq Entries(table) \intersect candidates
         /\ \A x, y \in Choice(table, candidates, speed) : x = y
<1>1. Choice(table, candidates, speed) \subseteq Entries(table) \intersect candidates
  BY DEF Choice, Entries
<1>2. ASSUME NEW x \in Choice(table, candidates, speed), NEW y \in Choice(table, candidates, speed)
      PROVE  x = y
  <2>1. PICK k \in DOMAIN table :
          /\ x = table[k] /\ table[k] \in candidates
          /\ \A j \in DOMAIN table :
               table[j] \in candidates => IF speed THEN j <= k ELSE k <= j
    BY DEF Choice
  <2>2. PICK l \in DOMAIN table :
          /\ y = table[l] /\ table[l] \in candidates
          /\ \A j \in DOMAIN table :
               table[j] \in candidates => IF speed THEN j <= l ELSE l <= j
    BY DEF Choice
  <2>3. IF speed THEN k <= l /\ l <= k ELSE k <= l /\ l <= k
    BY <2>1, <2>2
  <2>4. k = l
    BY <2>3
  <2> QED
    BY <2>1, <2>2, <2>4
<1> QED
  BY <1>1, <1>2

LEMMA TablesAreSequences ==
  /\ DOMAIN SymTable \subseteq Nat /\ DOMAIN RsaTable \subseteq Nat /\ DOMAIN SignTable \subseteq Nat
<1>1. DOMAIN SymTable = 1..8 /\ DOMAIN RsaTable = 1..3 /\ DOMAIN SignTable = 1..2
  BY DEF SymTable, RsaTable, SignTable
<1> QED
  BY <1>1

(* The only candidate of a table is chosen, under either policy.           *)
LEMMA OnlyCandidate ==
  ASSUME NEW candidates, NEW s, candidates \intersect Entries(SymTable) = {s}, NEW speed
  PROVE  Choice(SymTable, candidates, speed) = {s}
<1>1. DOMAIN SymTable = 1..8
  BY DEF SymTable
<1>2. PICK k \in DOMAIN SymTable : SymTable[k] = s
  BY DEF Entries
<1>3. \A j \in DOMAIN SymTable : SymTable[j] \in candidates => SymTable[j] = s
  BY DEF Entries
<1>4. \A j \in DOMAIN SymTable : SymTable[j] = s => j = k
  BY <1>1, <1>2 DEF SymTable
<1>5. \A j \in DOMAIN SymTable : SymTable[j] \in candidates => j = k
  BY <1>3, <1>4
<1>6. k <= k
  BY <1>1
<1>7. s \in candidates
  OBVIOUS
<1>8. s \in Choice(SymTable, candidates, speed)
  BY <1>2, <1>5, <1>6, <1>7 DEF Choice
<1> QED
  BY <1>8, ChoiceIsOne, TablesAreSequences

LEMMA SettingsInUse ==
  ASSUME ConfType, NEW i \in Hosts
  PROVE  hostinfo_refer_ipmsg_cipher(i) \subseteq AllCaps
<1>1. conf[i] \in Settings
  BY DEF ConfType
<1>2. conf[i].cipher \in SUBSET AllCaps
  BY <1>1 DEF Settings
<1> QED
  BY <1>2 DEF hostinfo_refer_ipmsg_cipher

(* Only the crypt configuration window changes algorithms or policy.       *)
LEMMA AlgorithmsKept ==
  ASSUME ConfType, [Next]_vars
  PROVE  /\ ConfType'
         /\ altered \subseteq altered'
         /\ \A i \in Hosts \ altered' :
              /\ hostinfo_refer_ipmsg_cipher(i)' = hostinfo_refer_ipmsg_cipher(i)
              /\ conf'[i].speed = conf[i].speed
<1> DEFINE Goal ==
         /\ conf' \in [Hosts -> Settings]
         /\ altered \subseteq altered'
         /\ \A i \in Hosts \ altered' :
              conf'[i].cipher = conf[i].cipher /\ conf'[i].speed = conf[i].speed
<1>1. ASSUME UNCHANGED <<conf, altered>> PROVE Goal
  BY <1>1 DEF ConfType
<1>2. ASSUME NEW i \in Hosts, NEW s \in LaterSettings, apply_crypt_config_window(i, s)
      PROVE  Goal
  <2>1. s \in Settings /\ conf[i] \in Settings /\ conf \in [Hosts -> Settings]
    BY CryptAssumption DEF ConfType
  <2>2. PICK t : t = [s EXCEPT !.encrypt = @ /\ conf[i].password # NoPassword,
                               !.password = conf[i].password]
    OBVIOUS
  <2>3. DOMAIN s = {"cipher", "speed", "encrypt", "password"} /\ s.cipher \in SUBSET AllCaps
        /\ s.speed \in BOOLEAN /\ conf[i].password \in DOMAIN Passwords \union {NoPassword}
    BY <2>1 DEF Settings
  <2>4. t = [cipher |-> s.cipher, speed |-> s.speed,
             encrypt |-> s.encrypt /\ conf[i].password # NoPassword, password |-> conf[i].password]
    BY <2>1, <2>2 DEF Settings
  <2>5. (s.encrypt /\ conf[i].password # NoPassword) \in BOOLEAN
    OBVIOUS
  <2>6. t \in Settings /\ t.cipher = s.cipher /\ t.speed = s.speed
    BY <2>3, <2>4, <2>5 DEF Settings
  <2>7. conf' = [conf EXCEPT ![i] = t]
    BY <1>2, <2>2 DEF apply_crypt_config_window
  <2>8. altered' = IF s.cipher # conf[i].cipher \/ s.speed # conf[i].speed
                   THEN altered \union {i} ELSE altered
    BY <1>2 DEF apply_crypt_config_window
  <2>9. ASSUME NEW j \in Hosts \ altered'
        PROVE  conf'[j].cipher = conf[j].cipher /\ conf'[j].speed = conf[j].speed
    <3>1. CASE j = i
      BY <2>1, <2>6, <2>7, <2>8, <2>9, <3>1
    <3>2. CASE j # i
      BY <2>1, <2>7, <3>2
    <3> QED
      BY <3>1, <3>2
  <2>10. conf' \in [Hosts -> Settings]
    BY <2>1, <2>6, <2>7
  <2> QED
    BY <2>8, <2>9, <2>10
<1>3. ASSUME NEW i \in Hosts, NEW p \in DOMAIN Passwords \union {NoPassword},
             on_passWordOKBtn_clicked(i, p)
      PROVE  Goal
  <2>1. conf[i] \in Settings /\ conf \in [Hosts -> Settings]
    BY DEF ConfType
  <2>2. PICK t : t = [conf[i] EXCEPT !.password = p]
    OBVIOUS
  <2>3. t \in Settings /\ t.cipher = conf[i].cipher /\ t.speed = conf[i].speed
    BY <2>1, <2>2 DEF Settings
  <2>4. conf' = [conf EXCEPT ![i] = t] /\ UNCHANGED altered
    BY <1>3, <2>2 DEF on_passWordOKBtn_clicked, pbkdf2_encrypt
  <2> QED
    BY <2>1, <2>3, <2>4
<1>4. ASSUME NEW i \in Hosts,
             \/ pcrypt_crypt_init_keys(i) \/ StopWhileStoring(i) \/ pcrypt_crypt_release_keys(i)
             \/ \E j \in Hosts, text \in Texts : ipmsg_send_sendmsg_packets(i, j, text)
      PROVE  UNCHANGED <<conf, altered>>
  BY <1>4 DEF pcrypt_crypt_init_keys, StopWhileStoring, CanStart, pcrypt_crypt_release_keys,
     ipmsg_send_sendmsg_packets
<1>5. ASSUME NEW d,
             \/ ipmsg_proc_br_entry(d) \/ ipmsg_proc_ans_entry(d)
             \/ ipmsg_proc_get_public_key(d) \/ ipmsg_proc_anspubkey(d) \/ read_message(d)
      PROVE  UNCHANGED <<conf, altered>>
  BY <1>5 DEF ipmsg_proc_br_entry, ipmsg_proc_ans_entry, ipmsg_proc_get_public_key,
     ipmsg_proc_anspubkey, read_message, Arrives
<1>6. ASSUME UNCHANGED vars PROVE Goal
  BY <1>1, <1>6 DEF vars
<1>7. Goal
  BY <1>1, <1>2, <1>3, <1>4, <1>5, <1>6 DEF Next
<1> QED
  BY <1>7 DEF ConfType, hostinfo_refer_ipmsg_cipher


LEMMA AgreedKept ==
  ASSUME ConfType, [Next]_vars, NEW i \in Hosts \ altered', NEW j \in Hosts \ altered'
  PROVE  Agreed(i, j)' = Agreed(i, j)
BY AlgorithmsKept DEF Agreed

(* What is in flight stays in order; a message as long as its sender runs. *)
LEMMA FineKept ==
  ASSUME ConfType, [Next]_vars, NEW d, Fine(d), d.src \in Hosts, d.dst \in Hosts,
         d.type = "SENDMSG" /\ d.src \in up' => d.src \in up /\ rsa_keys'[d.src] = rsa_keys[d.src]
  PROVE  Fine(d)'
<1>1. altered \subseteq altered'
  BY AlgorithmsKept
<1>2. ASSUME d.type = "GETPUBKEY" PROVE AskedWithSetting(d)'
  BY <1>1, <1>2, AlgorithmsKept DEF Fine, AskedWithSetting
<1>3. ASSUME d.type = "ANSPUBKEY" PROVE AnswerAgreed(d)'
  <2>1. AnswerAgreed(d)
    BY <1>3 DEF Fine
  <2>2. ASSUME d.src \notin altered', d.dst \notin altered' PROVE d.key.type \in Agreed(d.dst, d.src)'
    BY <1>1, <2>1, <2>2, AgreedKept DEF AnswerAgreed
  <2> QED
    BY <2>1, <2>2 DEF AnswerAgreed, AnswerFits
<1>4. ASSUME d.type = "SENDMSG", d.cap # {} PROVE WellEncrypted(d)'
  <2>1. WellEncrypted(d)
    BY <1>4 DEF Fine
  <2> QED
    BY <1>4, <2>1 DEF WellEncrypted, SignedInKind
<1> QED
  BY <1>2, <1>3, <1>4 DEF Fine

LEMMA EntryKept ==
  ASSUME ConfType, [Next]_vars, NEW i \in Hosts, NEW j \in Hosts, FineEntry(i, j),
         known'[i][j] = known[i][j]
  PROVE  FineEntry(i, j)'
<1>1. SUFFICES ASSUME known[i][j].key # NoKey
               PROVE  /\ AnswerFits(known[i][j].cap, known[i][j].key, known[i][j].asked)
                      /\ i \notin altered' /\ j \notin altered' =>
                           known[i][j].key.type \in Agreed(i, j)'
  BY DEF FineEntry, AnswerFits, NoKey
<1>2. /\ AnswerFits(known[i][j].cap, known[i][j].key, known[i][j].asked)
      /\ i \notin altered /\ j \notin altered => known[i][j].key.type \in Agreed(i, j)
  BY <1>1 DEF FineEntry
<1> QED
  BY <1>2, AlgorithmsKept, AgreedKept

LEMMA EntriesAreFine ==
  ASSUME NEW type \in {"BR_ENTRY", "ANSENTRY"}, NEW i
  PROVE  \A d \in BagToSet(ipmsg_send_entry_packets(type, i)) : Fine(d)
BY BagFacts DEF ipmsg_send_entry_packets, Entry, Fine

LEMMA QuestionsAreFine ==
  ASSUME NEW i, NEW j
  PROVE  \A d \in BagToSet(ipmsg_send_getpubkey(i, j)) : Fine(d)
BY BagFacts DEF ipmsg_send_getpubkey, GetPubKey, Fine, AskedWithSetting

(* A key goes with one symmetric algorithm of those the question names.    *)
LEMMA AnswersAreFine ==
  ASSUME NEW i \in Hosts, NEW j \in Hosts, NEW cap,
         j \notin altered => cap = hostinfo_refer_ipmsg_cipher(j)
  PROVE  \A d \in pcrypt_crypt_generate_anspubkey_string(i, j, cap) : Fine(d)
<1> TAKE d \in pcrypt_crypt_generate_anspubkey_string(i, j, cap)
<1>1. PICK sym, sign : sym = select_symmetric_key(i, cap) /\ sign = select_signature(i, cap)
  OBVIOUS
<1>2. PICK t \in select_rsa_key_for_answer(i, cap) :
        /\ sym # {}
        /\ d = AnsPubKey(i, j, {t} \union sym \union sign, [type |-> t, made |-> rsa_keys[i][t].pub], cap)
  BY <1>1 DEF pcrypt_crypt_generate_anspubkey_string
<1>3. t \in RsaTypes \intersect cap
  BY ChoiceIsOne, TablesAreSequences DEF select_rsa_key_for_answer, RsaTypes
<1>4. /\ sym \subseteq Entries(SymTable) \intersect cap
      /\ \A x, y \in sym : x = y
      /\ sign \subseteq Entries(SignTable)
  <2>1. PICK both, speed : /\ both = cap \intersect hostinfo_refer_ipmsg_cipher(i)
                           /\ speed = conf[i].speed
    OBVIOUS
  <2>2. sym = Choice(SymTable, both, speed) /\ sign = Choice(SignTable, cap, speed)
    BY <1>1, <2>1 DEF select_symmetric_key, select_signature
  <2>3. sym \subseteq Entries(SymTable) \intersect both /\ \A x, y \in sym : x = y
    BY <2>2, ChoiceIsOne, TablesAreSequences
  <2>4. sign \subseteq Entries(SignTable)
    BY <2>2, ChoiceIsOne, TablesAreSequences
  <2> QED
    BY <2>1, <2>3, <2>4
<1>5. PICK s \in sym : TRUE
  BY <1>2
<1>6. ({t} \union sym \union sign) \intersect Entries(SymTable) = {s}
  BY <1>3, <1>4, <1>5, Tables
<1>7. /\ d.type = "ANSPUBKEY" /\ d.src = i /\ d.dst = j /\ d.cap = {t} \union sym \union sign
      /\ d.key = [type |-> t, made |-> rsa_keys[i][t].pub] /\ d.asked = cap
  BY <1>2 DEF AnsPubKey
<1>8. AnswerFits(d.cap, d.key, d.asked)
  BY <1>3, <1>4, <1>5, <1>6, <1>7 DEF AnswerFits
<1>9. ASSUME j \notin altered PROVE d.key.type \in Agreed(j, i)
  BY <1>2, <1>7, <1>9 DEF select_rsa_key_for_answer, Agreed
<1> QED
  BY <1>7, <1>8, <1>9 DEF Fine, AnswerAgreed

(* What an encrypted message is made of.                                   *)
LEMMA Encrypted ==
  ASSUME ConfType, NEW i \in Hosts, NEW j \in Hosts, FineEntry(i, j), NEW text,
         NEW d \in ipmsg_encrypt_message(i, j, text)
  PROVE  Fine(d) /\ d.cap # {}
<1>1. PICK cap, key, sign :
        cap = known[i][j].cap /\ key = known[i][j].key /\ sign = select_signature(i, cap)
  OBVIOUS
<1>2. PICK c \in select_symmetric_key(i, cap) \X select_asymmetric_key(i, key, cap) \X BOOLEAN :
        d = SendMsg(i, j, symcrypt_encrypt_message(c[1], text), {c[1], c[2]} \union sign, key,
                    IF sign = {} THEN NoKey ELSE pcrypt_sign(i, c[2]), c[3])
  BY <1>1 DEF ipmsg_encrypt_message, userdb_wait_public_key, userdb_get_public_key_by_addr
<1>3. c[1] \in Entries(SymTable)
  BY <1>2, ChoiceIsOne, TablesAreSequences DEF select_symmetric_key
<1>4. c[2] = key.type /\ key.type \in AllCaps
  BY <1>2, SettingsInUse DEF select_asymmetric_key
<1>5. key # NoKey
  BY <1>4, Tables DEF NoKey, AllCaps
<1>6. key = [type |-> key.type, made |-> key.made] /\ key.type \in RsaTypes
  BY <1>1, <1>5 DEF FineEntry, AnswerFits
<1>7. /\ d.type = "SENDMSG" /\ d.src = i /\ d.key = key /\ d.cap = {c[1], c[2]} \union sign
      /\ d.body.by = c[1] /\ d.sign = IF sign = {} THEN NoKey ELSE pcrypt_sign(i, c[2])
  BY <1>2 DEF SendMsg, symcrypt_encrypt_message
<1>8. d.cap \intersect Entries(SignTable) # {} => sign # {}
  BY <1>3, <1>4, <1>6, <1>7, Tables
<1>9. WellEncrypted(d)
  BY <1>4, <1>6, <1>7, <1>8 DEF WellEncrypted, SignedInKind, pcrypt_sign
<1> QED
  BY <1>7, <1>9 DEF Fine

LEMMA ClearIsFine == ASSUME NEW i, NEW j, NEW text PROVE Fine(InClear(i, j, text))
BY DEF InClear, SendMsg, Fine


LEMMA BagsStayBags ==
  /\ \A A, B : IsABag(A) /\ IsABag(B) => IsABag(A (+) B)
  /\ \A A, B : IsABag(A) /\ IsABag(B) => IsABag(A (-) B)
  /\ \A S : IsABag(SetToBag(S))
<1>1. ASSUME NEW A, NEW B, IsABag(A), IsABag(B) PROVE IsABag(A (+) B)
  <2>1. \A e \in DOMAIN A : A[e] \in Nat /\ A[e] > 0
    BY <1>1 DEF IsABag
  <2>2. \A e \in DOMAIN B : B[e] \in Nat /\ B[e] > 0
    BY <1>1 DEF IsABag
  <2> QED
    BY <2>1, <2>2 DEF IsABag, (+)
<1>2. ASSUME NEW A, NEW B, IsABag(A), IsABag(B) PROVE IsABag(A (-) B)
  <2>1. \A e \in DOMAIN A : A[e] \in Nat /\ A[e] > 0
    BY <1>2 DEF IsABag
  <2>2. \A e \in DOMAIN B : B[e] \in Nat /\ B[e] > 0
    BY <1>2 DEF IsABag
  <2> QED
    BY <2>1, <2>2 DEF IsABag, (-)
<1>3. ASSUME NEW S PROVE IsABag(SetToBag(S))
  BY DEF IsABag, SetToBag
<1> QED
  BY <1>1, <1>2, <1>3

LEMMA TakenIsABag ==
  ASSUME IsABag(net), NEW d
  PROVE  IsABag(Taken(d)) /\ BagToSet(Taken(d)) \subseteq BagToSet(net)
BY BagsStayBags, BagFacts DEF Taken

(* A message in flight from a running host is of its present run.          *)
InUse(d) ==
  d.type = "SENDMSG" /\ d.src \in up' => d.src \in up /\ rsa_keys'[d.src] = rsa_keys[d.src]

LEMMA AgreementKept ==
  ASSUME AgreementInv, KnownType, [Next]_vars, IsABag(net'),
         \A d \in BagToSet(net') : Fine(d)' \/ (d \in BagToSet(net) /\ InUse(d)),
         \A i, j \in Hosts : known'[i][j] = known[i][j] \/ FineEntry(i, j)'
  PROVE  AgreementInv'
<1>1. ConfType'
  BY AlgorithmsKept DEF AgreementInv
<1>2. ASSUME NEW d \in BagToSet(net') PROVE Fine(d)'
  BY FineKept DEF AgreementInv, KnownType, InUse
<1>3. ASSUME NEW i \in Hosts, NEW j \in Hosts PROVE FineEntry(i, j)'
  BY EntryKept DEF AgreementInv
<1> QED
  BY <1>1, <1>2, <1>3 DEF AgreementInv

LEMMA FineNow ==
  ASSUME NEW d, Fine(d), UNCHANGED <<up, conf, rsa_keys, altered>>
  PROVE  Fine(d)'
BY DEF Fine, AskedWithSetting, AnswerAgreed, AnswerFits, Agreed, WellEncrypted, SignedInKind,
   hostinfo_refer_ipmsg_cipher

LEMMA NothingInOrder ==
  ASSUME NEW i, NEW j, known[i][j].key = NoKey PROVE FineEntry(i, j)
BY DEF FineEntry

(* Steps that change no key and only add datagrams that are in order.      *)
LEMMA AgreementGrows ==
  ASSUME AgreementInv, KnownType, [Next]_vars, IsABag(net'),
         UNCHANGED <<up, conf, rsa_keys, altered>>,
         \A d \in BagToSet(net') : d \in BagToSet(net) \/ Fine(d),
         \A i, j \in Hosts : known'[i][j] = known[i][j] \/ FineEntry(i, j)'
  PROVE  AgreementInv'
<1>1. ASSUME NEW d \in BagToSet(net') PROVE Fine(d)' \/ (d \in BagToSet(net) /\ InUse(d))
  BY FineNow DEF InUse
<1> QED
  BY <1>1, AgreementKept

LEMMA AgreementAtStart ==
  ASSUME AgreementInv, KnownType, [Next]_vars, NEW i \in Hosts, pcrypt_crypt_init_keys(i)
  PROVE  AgreementInv'
<1>1. PICK k : rsa_keys' = [rsa_keys EXCEPT ![i] = k]
  BY DEF pcrypt_crypt_init_keys
<1>2. /\ up' = up \union {i}
      /\ known' = [known EXCEPT ![i] = [j \in Hosts |-> Unlisted]]
      /\ net' = Remaining(i) (+) ipmsg_send_entry_packets("BR_ENTRY", i)
  BY DEF pcrypt_crypt_init_keys
<1>3. PICK rest, entries : rest = Remaining(i) /\ entries = ipmsg_send_entry_packets("BR_ENTRY", i)
  OBVIOUS
<1>4. rest = [d \in {d \in DOMAIN net : d.src # i} |-> net[d]]
  BY <1>3 DEF Remaining, BagToSet
<1>5. IsABag(rest) /\ BagToSet(rest) = {d \in BagToSet(net) : d.src # i}
  <2>1. \A d \in DOMAIN net : net[d] \in Nat /\ net[d] > 0
    BY DEF AgreementInv, IsABag
  <2> QED
    BY <1>4, <2>1 DEF IsABag, BagToSet
<1>6. IsABag(entries) /\ \A d \in BagToSet(entries) : d.type = "BR_ENTRY"
  BY <1>3, BagsStayBags, BagFacts DEF ipmsg_send_entry_packets, Entry
<1>7. IsABag(net') /\ BagToSet(net') = BagToSet(rest) \union BagToSet(entries)
  BY <1>2, <1>3, <1>5, <1>6, BagsStayBags, BagFacts
<1>8. ASSUME NEW d \in BagToSet(net') PROVE Fine(d)' \/ (d \in BagToSet(net) /\ InUse(d))
  <2>1. CASE d \in BagToSet(rest)
    BY <1>1, <1>2, <1>5, <2>1 DEF InUse, KnownType
  <2>2. CASE d \in BagToSet(entries)
    BY <1>6, <2>2 DEF Fine
  <2> QED
    BY <1>7, <2>1, <2>2
<1>9. ASSUME NEW g \in Hosts, NEW h \in Hosts
      PROVE  known'[g][h] = known[g][h] \/ FineEntry(g, h)'
  <2>1. CASE g = i
    <3>1. known'[g][h].key = NoKey
      BY <1>2, <2>1 DEF KnownType, Unlisted
    <3> QED
      BY <3>1 DEF FineEntry
  <2>2. CASE g # i
    BY <1>2, <2>2 DEF KnownType
  <2> QED
    BY <2>1, <2>2
<1> QED
  BY <1>7, <1>8, <1>9, AgreementKept

LEMMA AgreementAnew ==
  ASSUME AgreementInv, KnownType, [Next]_vars, NEW d \in BagToSet(net), NEW answer,
         HearsEntry(d, answer), IsABag(answer), \A e \in BagToSet(answer) : Fine(e),
         UNCHANGED <<up, conf, rsa_keys, altered>>
  PROVE  AgreementInv'
<1>1. /\ known' = [known EXCEPT ![d.dst][d.src] = Keyless]
      /\ net' = Taken(d) (+) answer (+) ipmsg_send_getpubkey(d.dst, d.src)
  BY DEF HearsEntry, userdb_update_user
<1>2. PICK rest, question : rest = Taken(d) /\ question = ipmsg_send_getpubkey(d.dst, d.src)
  OBVIOUS
<1>3. IsABag(rest) /\ BagToSet(rest) \subseteq BagToSet(net)
  BY <1>2, TakenIsABag DEF AgreementInv
<1>4. IsABag(question) /\ \A e \in BagToSet(question) : Fine(e)
  BY <1>2, BagsStayBags, QuestionsAreFine DEF ipmsg_send_getpubkey
<1>5. net' = (rest (+) answer) (+) question
  BY <1>1, <1>2
<1>6. IsABag(rest (+) answer) /\ BagToSet(rest (+) answer) = BagToSet(rest) \union BagToSet(answer)
  BY <1>3, BagsStayBags, BagFacts
<1>7. IsABag(net') /\ \A e \in BagToSet(net') : e \in BagToSet(net) \/ Fine(e)
  BY <1>3, <1>4, <1>5, <1>6, BagsStayBags, BagFacts
<1>8. ASSUME NEW g \in Hosts, NEW h \in Hosts
      PROVE  known'[g][h] = known[g][h] \/ FineEntry(g, h)'
  <2>1. known'[g][h] = known[g][h] \/ known'[g][h] = Keyless
    BY <1>1 DEF KnownType
  <2>2. Keyless.key = NoKey
    BY DEF Keyless, Unlisted
  <2> QED
    BY <2>1, <2>2 DEF FineEntry
<1> QED
  BY <1>7, <1>8, AgreementGrows

LEMMA AgreementAnswered ==
  ASSUME AgreementInv, KnownType, [Next]_vars, NEW d \in BagToSet(net), ipmsg_proc_anspubkey(d)
  PROVE  AgreementInv'
<1>1. /\ known' = [known EXCEPT ![d.dst][d.src] = userdb_replace_public_key_by_addr(d.dst, d)]
      /\ net' = Taken(d) /\ d.type = "ANSPUBKEY" /\ UNCHANGED <<up, conf, rsa_keys, altered>>
  BY DEF ipmsg_proc_anspubkey, Arrives
<1>2. IsABag(net') /\ \A e \in BagToSet(net') : e \in BagToSet(net) \/ Fine(e)
  BY <1>1, TakenIsABag DEF AgreementInv
<1>3. AnswerAgreed(d)
  BY <1>1 DEF AgreementInv, Fine
<1>4. ASSUME NEW g \in Hosts, NEW h \in Hosts
      PROVE  known'[g][h] = known[g][h] \/ FineEntry(g, h)'
  <2>1. CASE g = d.dst /\ h = d.src
    <3>1. known'[g][h] = userdb_replace_public_key_by_addr(d.dst, d)
      BY <1>1, <2>1 DEF KnownType
    <3>2. CASE known'[g][h] = [listed |-> TRUE, cap |-> d.cap, key |-> d.key, asked |-> d.asked]
      <4>1. known'[g][h].cap = d.cap /\ known'[g][h].key = d.key /\ known'[g][h].asked = d.asked
        BY <3>2
      <4>2. Agreed(g, h)' = Agreed(g, h)
        BY <1>1 DEF Agreed, hostinfo_refer_ipmsg_cipher
      <4>3. \/ d.src \in altered \/ d.dst \in altered \/ d.key.type \in Agreed(g, h)
        BY <1>3, <2>1 DEF AnswerAgreed
      <4> QED
        BY <1>1, <1>3, <2>1, <4>1, <4>2, <4>3 DEF FineEntry, AnswerAgreed, AnswerFits
    <3> QED
      BY <2>1, <3>1, <3>2 DEF userdb_replace_public_key_by_addr
  <2>2. CASE ~ (g = d.dst /\ h = d.src)
    BY <1>1, <2>2 DEF KnownType
  <2> QED
    BY <2>1, <2>2
<1> QED
  BY <1>1, <1>2, <1>4, AgreementGrows

LEMMA AgreementWhenSent ==
  ASSUME AgreementInv, KnownType, [Next]_vars, NEW i \in Hosts, NEW j \in Hosts, NEW text,
         ipmsg_send_sendmsg_packets(i, j, text)
  PROVE  AgreementInv'
<1>1. UNCHANGED <<up, conf, rsa_keys, known, altered>>
  BY DEF ipmsg_send_sendmsg_packets
<1>2. PICK sent : /\ \A d \in sent : Fine(d)
                  /\ \/ net' = net (+) ipmsg_send_getpubkey(i, j) (+) SetToBag(sent)
                     \/ net' = net (+) SetToBag(sent)
  BY WhatIsSent, ClearIsFine, Encrypted DEF AgreementInv
<1>3. PICK question, message : question = ipmsg_send_getpubkey(i, j) /\ message = SetToBag(sent)
  OBVIOUS
<1>4. /\ IsABag(question) /\ \A e \in BagToSet(question) : Fine(e)
      /\ IsABag(message) /\ \A e \in BagToSet(message) : Fine(e)
  BY <1>2, <1>3, BagsStayBags, BagFacts, QuestionsAreFine DEF ipmsg_send_getpubkey
<1>5. net' = (net (+) question) (+) message \/ net' = net (+) message
  BY <1>2, <1>3
<1>6. /\ IsABag(net (+) question)
      /\ BagToSet(net (+) question) = BagToSet(net) \union BagToSet(question)
  BY <1>4, BagsStayBags, BagFacts DEF AgreementInv
<1>7. IsABag(net')
  BY <1>4, <1>5, <1>6, BagsStayBags DEF AgreementInv
<1>8. \A e \in BagToSet(net') : e \in BagToSet(net) \/ Fine(e)
  BY <1>4, <1>5, <1>6, BagFacts
<1> QED
  BY <1>1, <1>7, <1>8, AgreementGrows

LEMMA AgreementLeft ==
  ASSUME AgreementInv, KnownType, [Next]_vars, UNCHANGED <<known, net>>,
         UNCHANGED <<up, rsa_keys>> \/ \E i \in Hosts : pcrypt_crypt_release_keys(i)
  PROVE  AgreementInv'
<1>1. ASSUME NEW d \in BagToSet(net) PROVE InUse(d)
  BY DEF InUse, pcrypt_crypt_release_keys, KnownType
<1>2. IsABag(net')
  BY DEF AgreementInv
<1> QED
  BY <1>1, <1>2, AgreementKept

LEMMA NextAgrees == KnownInv /\ AgreementInv /\ [Next]_vars => AgreementInv'
<1> SUFFICES ASSUME KnownInv, AgreementInv, [Next]_vars PROVE AgreementInv'
  OBVIOUS
<1>0. KnownType /\ \A d \in BagToSet(net) : d.src \in Hosts /\ d.dst \in Hosts
  BY DEF KnownInv, KnownType
<1>1. ASSUME NEW i \in Hosts,
             \/ StopWhileStoring(i)
             \/ \E s \in LaterSettings : apply_crypt_config_window(i, s)
             \/ \E p \in DOMAIN Passwords \union {NoPassword} : on_passWordOKBtn_clicked(i, p)
      PROVE  AgreementInv'
  <2>1. UNCHANGED <<known, net, up, rsa_keys>>
    BY <1>1 DEF StopWhileStoring, apply_crypt_config_window, on_passWordOKBtn_clicked
  <2> QED
    BY <1>0, <2>1, AgreementLeft
<1>2. ASSUME NEW i \in Hosts, pcrypt_crypt_release_keys(i) PROVE AgreementInv'
  BY <1>0, <1>2, AgreementLeft DEF pcrypt_crypt_release_keys
<1>3. ASSUME NEW d \in BagToSet(net), ipmsg_proc_br_entry(d) PROVE AgreementInv'
  <2>1. PICK answer : answer = ipmsg_send_entry_packets("ANSENTRY", d.dst)
    OBVIOUS
  <2>2. IsABag(answer) /\ \A e \in BagToSet(answer) : Fine(e)
    BY <2>1, BagsStayBags, EntriesAreFine DEF ipmsg_send_entry_packets
  <2>3. HearsEntry(d, answer) /\ UNCHANGED <<up, conf, rsa_keys, altered>>
    BY <1>3, <2>1 DEF ipmsg_proc_br_entry, Arrives
  <2> QED
    BY <1>0, <2>2, <2>3, AgreementAnew
<1>4. ASSUME NEW d \in BagToSet(net), ipmsg_proc_ans_entry(d) PROVE AgreementInv'
  <2>1. IsABag(EmptyBag) /\ \A e \in BagToSet(EmptyBag) : Fine(e)
    BY BagsStayBags, BagFacts DEF EmptyBag
  <2>2. HearsEntry(d, EmptyBag) /\ UNCHANGED <<up, conf, rsa_keys, altered>>
    BY <1>4 DEF ipmsg_proc_ans_entry, Arrives
  <2> QED
    BY <1>0, <2>1, <2>2, AgreementAnew
<1>5. ASSUME NEW d \in BagToSet(net), ipmsg_proc_get_public_key(d) PROVE AgreementInv'
  <2>1. PICK rest, answers :
          /\ rest = Taken(d)
          /\ answers = SetToBag(pcrypt_crypt_generate_anspubkey_string(d.dst, d.src, d.cap))
    OBVIOUS
  <2>2. /\ net' = rest (+) answers
        /\ d.type = "GETPUBKEY" /\ UNCHANGED <<up, conf, rsa_keys, altered, known>>
    BY <1>5, <2>1 DEF ipmsg_proc_get_public_key, Arrives
  <2>3. d.src \notin altered => d.cap = hostinfo_refer_ipmsg_cipher(d.src)
    BY <2>2 DEF AgreementInv, Fine, AskedWithSetting
  <2>4. IsABag(answers) /\ \A e \in BagToSet(answers) : Fine(e)
    BY <1>0, <2>1, <2>3, BagsStayBags, BagFacts, AnswersAreFine
  <2>5. IsABag(rest) /\ BagToSet(rest) \subseteq BagToSet(net)
    BY <2>1, TakenIsABag DEF AgreementInv
  <2>6. IsABag(net') /\ \A e \in BagToSet(net') : e \in BagToSet(net) \/ Fine(e)
    BY <2>2, <2>4, <2>5, BagsStayBags, BagFacts
  <2> QED
    BY <1>0, <2>2, <2>6, AgreementGrows
<1>6. ASSUME NEW d \in BagToSet(net), read_message(d) PROVE AgreementInv'
  <2>1. net' = Taken(d) /\ UNCHANGED <<up, conf, rsa_keys, altered, known>>
    BY <1>6 DEF read_message, Arrives
  <2>2. IsABag(net') /\ \A e \in BagToSet(net') : e \in BagToSet(net) \/ Fine(e)
    BY <2>1, TakenIsABag DEF AgreementInv
  <2> QED
    BY <1>0, <2>1, <2>2, AgreementGrows
<1>7. ASSUME UNCHANGED vars PROVE AgreementInv'
  BY <1>0, <1>7, AgreementLeft DEF vars
<1> QED
  BY <1>0, <1>1, <1>2, <1>3, <1>4, <1>5, <1>6, <1>7, AgreementAtStart, AgreementAnswered,
     AgreementWhenSent DEF Next

LEMMA InitAgrees == Init => AgreementInv
<1> SUFFICES ASSUME Init PROVE AgreementInv
  OBVIOUS
<1>1. ConfType
  BY CryptAssumption DEF Init, ConfType
<1>2. IsABag(net) /\ BagToSet(net) = {}
  BY BagFacts, BagsStayBags DEF Init, EmptyBag
<1>3. \A i, j \in Hosts : FineEntry(i, j)
  BY DEF Init, FineEntry, Unlisted
<1> QED
  BY <1>1, <1>2, <1>3 DEF AgreementInv


CryptInv == PairsInv /\ KnownInv /\ AgreementInv

LEMMA InitIsSound == Init => CryptInv
<1>1. Init => PairsInv
  BY DEF Init, PairsInv, KeysType, PairsMatch, NoPair
<1>2. Init => KnownInv
  BY BagFacts DEF Init, KnownInv, KnownType, AnsweredAreCurrent, KeysKnownAreCurrent
<1> QED
  BY <1>1, <1>2, InitAgrees DEF CryptInv

LEMMA NextIsSound == CryptInv /\ [Next]_vars => CryptInv'
BY PairsStay, NextKnows, NextAgrees DEF CryptInv

(* Both hosts choose the same type, so that the signature is checked with  *)
(* the key it was made with; and the message is for the key at hand.       *)
LEMMA AgreedIsReadable == CryptInv => AgreedReadable
<1> SUFFICES ASSUME CryptInv, NEW d \in BagToSet(net),
                    d.type = "SENDMSG", d.cap # {}, ~d.short,
                    d.src \in up, d.src \notin altered, d.dst \in up, d.dst \notin altered,
                    <<d.src, d.dst>> \notin unheard, <<d.dst, d.src>> \notin unheard,
                    conf[d.src].speed = conf[d.dst].speed,
                    d.key = known[d.src][d.dst].key, known[d.dst][d.src].key # NoKey
             PROVE  ipmsg_decrypt_message(d) = "read"
  BY DEF AgreedReadable, Heard
<1>1. PICK i, j : i = d.src /\ j = d.dst
  OBVIOUS
<1>2. i \in Hosts /\ j \in Hosts
  BY <1>1 DEF CryptInv, KnownInv, KnownType
<1>3. WellEncrypted(d)
  BY DEF CryptInv, AgreementInv, Fine
<1>4. PICK t : t = d.key.type
  OBVIOUS
<1>5. t \in RsaTypes /\ t \in d.cap /\ d.key = [type |-> t, made |-> d.key.made]
  BY <1>3, <1>4 DEF WellEncrypted
<1>6. d.key # NoKey
  BY <1>4, <1>5, Tables DEF NoKey
<1>7. d.key.made = rsa_keys[j][t].pub
  BY <1>1, <1>4, <1>6 DEF CryptInv, KnownInv, KeysKnownAreCurrent
<1>8. rsa_keys[j][t].pub = rsa_keys[j][t].priv /\ rsa_keys[i][t].pub = rsa_keys[i][t].priv
  BY <1>2, <1>5 DEF CryptInv, PairsInv, PairsMatch
<1>9. pcrypt_decrypt_message(j, d)
  <2>1. d.key = [type |-> t, made |-> rsa_keys[j][t].priv]
    BY <1>5, <1>7, <1>8
  <2> QED
    BY <1>5, <2>1 DEF pcrypt_decrypt_message
<1>10. symcrypt_decrypt_message(d)
  BY <1>3 DEF WellEncrypted, symcrypt_decrypt_message
<1>11. ASSUME Verifies(j, d) PROVE pcrypt_verify_sign(d, known[j][i].key)
  <2>1. SignedInKind(d)
    BY <1>3, <1>11 DEF Verifies, WellEncrypted
  <2>2. t \in Agreed(i, j)
    BY <1>1, <1>2, <1>4, <1>6 DEF CryptInv, AgreementInv, FineEntry
  <2>3. known[j][i].key.type \in Agreed(j, i)
    BY <1>1, <1>2 DEF CryptInv, AgreementInv, FineEntry
  <2>4. known[j][i].key.type = t
    <3>1. PICK both, speed :
            /\ both = hostinfo_refer_ipmsg_cipher(i) \intersect hostinfo_refer_ipmsg_cipher(j)
            /\ speed = conf[i].speed
      OBVIOUS
    <3>2. hostinfo_refer_ipmsg_cipher(j) \intersect hostinfo_refer_ipmsg_cipher(i) = both
      BY <3>1
    <3>3. Agreed(i, j) = Choice(RsaTable, both, speed) /\ Agreed(j, i) = Choice(RsaTable, both, speed)
      BY <1>1, <3>1, <3>2 DEF Agreed
    <3> QED
      BY <2>2, <2>3, <3>3, ChoiceIsOne, TablesAreSequences
  <2>5. known[j][i].key.made = rsa_keys[i][t].pub
    BY <1>1, <2>4 DEF CryptInv, KnownInv, KeysKnownAreCurrent
  <2>6. d.sign.type = t /\ d.sign.made = rsa_keys[i][t].priv
    BY <1>1, <1>4, <2>1 DEF SignedInKind
  <2> QED
    BY <1>8, <2>4, <2>5, <2>6 DEF pcrypt_verify_sign
<1> QED
  BY <1>1, <1>9, <1>10, <1>11 DEF ipmsg_decrypt_message, userdb_get_public_key_by_addr

(* An encrypted message can be read where the two hosts are set to the     *)
(* same policy and have never changed their algorithms.                    *)
THEOREM AgreedMessagesAreReadable == Spec => []AgreedReadable
BY InitIsSound, NextIsSound, AgreedIsReadable, PTL DEF Spec

--------------------------------------------------------------------------------
(* Messages in the clear.                                                  *)

LEMMA CopiesAdded ==
  ASSUME NEW A, NEW B, IsABag(A), IsABag(B), NEW c
  PROVE  /\ c \notin BagToSet(B) => Copies(c, A (+) B) = Copies(c, A)
         /\ Copies(c, A) \in Nat
<1>1. \A e \in DOMAIN A : A[e] \in Nat
  BY DEF IsABag
<1> QED
  BY <1>1 DEF Copies, BagIn, BagToSet, (+)

LEMMA CopiesTaken ==
  ASSUME NEW A, NEW B, IsABag(A), IsABag(B), NEW c
  PROVE  Copies(c, A (-) B) <= Copies(c, A)
<1>1. \A e \in DOMAIN A : A[e] \in Nat
  BY DEF IsABag
<1>2. \A e \in DOMAIN B : B[e] \in Nat
  BY DEF IsABag
<1>3. PICK C : C = A (-) B
  OBVIOUS
<1>4. /\ DOMAIN C \subseteq DOMAIN A
      /\ \A e \in DOMAIN C : C[e] = IF e \in DOMAIN B THEN A[e] - B[e] ELSE A[e]
  BY <1>3 DEF (-)
<1>5. Copies(c, C) <= Copies(c, A)
  BY <1>1, <1>2, <1>4 DEF Copies, BagIn, BagToSet
<1> QED
  BY <1>3, <1>5

(* A message that a key fits is encrypted, if there is one to sign it with. *)
LEMMA KeyIsUsed ==
  ASSUME AgreementInv, NEW i \in Hosts, NEW j \in Hosts, NEW text,
         known[i][j].key # NoKey,
         known[i][j].asked = hostinfo_refer_ipmsg_cipher(i),
         rsa_keys[i][known[i][j].key.type] # NoPair
  PROVE  /\ userdb_get_cap_by_addr(i, j) # {}
         /\ ipmsg_encrypt_message(i, j, text) # {}
<1>1. PICK cap, key, sign :
        cap = known[i][j].cap /\ key = known[i][j].key /\ sign = select_signature(i, cap)
  OBVIOUS
<1>2. PICK s \in hostinfo_refer_ipmsg_cipher(i) :
        /\ cap \intersect Entries(SymTable) = {s}
        /\ key.type \in RsaTypes \intersect cap \intersect hostinfo_refer_ipmsg_cipher(i)
  BY <1>1 DEF AgreementInv, FineEntry, AnswerFits
<1>3. userdb_get_cap_by_addr(i, j) # {}
  BY <1>1, <1>2 DEF userdb_get_cap_by_addr
<1>4. s \in select_symmetric_key(i, cap)
  <2>1. PICK both, speed : /\ both = cap \intersect hostinfo_refer_ipmsg_cipher(i)
                           /\ speed = conf[i].speed
    OBVIOUS
  <2>2. both \intersect Entries(SymTable) = {s}
    BY <1>2, <2>1
  <2> QED
    BY <2>1, <2>2, OnlyCandidate DEF select_symmetric_key
<1>5. key.type \in select_asymmetric_key(i, key, cap)
  BY <1>2 DEF select_asymmetric_key
<1>6. pcrypt_encrypt_message(key, s)
  <2>1. s \in Entries(SymTable) /\ key.type \in RsaTypes
    BY <1>2
  <2>2. symcrypt_get_skey_length[s] \in {5, 16, 24, 32}
    BY <2>1, Tables DEF symcrypt_get_skey_length
  <2>3. RSA_size[key.type] \in {64, 128, 256}
    BY <2>1, Tables DEF RSA_size
  <2> QED
    BY <2>2, <2>3 DEF pcrypt_encrypt_message
<1>7. PICK c : c = <<s, key.type, FALSE>>
  OBVIOUS
<1>8. /\ c \in select_symmetric_key(i, cap) \X select_asymmetric_key(i, key, cap) \X BOOLEAN
      /\ c[1] = s /\ c[2] = key.type /\ ~c[3]
  BY <1>4, <1>5, <1>7
<1>9. SendMsg(i, j, symcrypt_encrypt_message(c[1], text), {c[1], c[2]} \union sign, key,
              IF sign = {} THEN NoKey ELSE pcrypt_sign(i, c[2]), c[3])
      \in ipmsg_encrypt_message(i, j, text)
  BY <1>1, <1>6, <1>8 DEF ipmsg_encrypt_message, userdb_wait_public_key, userdb_get_public_key_by_addr
<1> QED
  BY <1>3, <1>9

LEMMA EncryptedIsNotClear ==
  ASSUME NEW i, NEW j, NEW text, NEW k \in Hosts, NEW l \in Hosts, NEW t, AgreementInv
  PROVE  /\ InClear(i, j, text).type = "SENDMSG" /\ InClear(i, j, text).cap = {}
         /\ InClear(i, j, text).src = i /\ InClear(i, j, text).dst = j
         /\ InClear(i, j, text).body.text = text
         /\ InClear(i, j, text) \notin ipmsg_encrypt_message(k, l, t)
<1>1. \A d \in ipmsg_encrypt_message(k, l, t) : d.cap # {}
  BY Encrypted DEF AgreementInv
<1>2. /\ InClear(i, j, text).type = "SENDMSG" /\ InClear(i, j, text).cap = {}
      /\ InClear(i, j, text).src = i /\ InClear(i, j, text).dst = j
      /\ InClear(i, j, text).body.text = text
  BY DEF InClear, SendMsg
<1> QED
  BY <1>1, <1>2

(* Where the key fits, no step adds a message in the clear.                *)
LEMMA ClearIsNotSent ==
  ASSUME KnownType, AgreementInv, [Next]_vars,
         NEW i \in Hosts, NEW j \in Hosts, NEW text \in Texts,
         known[i][j].key # NoKey,
         known[i][j].asked = hostinfo_refer_ipmsg_cipher(i),
         rsa_keys[i][known[i][j].key.type] # NoPair
  PROVE  Copies(InClear(i, j, text), net') <= Copies(InClear(i, j, text), net)
<1>1. PICK c : c = InClear(i, j, text)
  OBVIOUS
<1>2. /\ c.type = "SENDMSG" /\ c.cap = {} /\ c.src = i /\ c.dst = j /\ c.body.text = text
      /\ \A k, l \in Hosts : \A t : c \notin ipmsg_encrypt_message(k, l, t)
  BY <1>1, EncryptedIsNotClear
<1>3. IsABag(net) /\ Copies(c, net) \in Nat
  BY CopiesAdded DEF AgreementInv
<1>4. ASSUME UNCHANGED net PROVE Copies(c, net') <= Copies(c, net)
  BY <1>3, <1>4
<1>5. ASSUME NEW d PROVE IsABag(Taken(d)) /\ Copies(c, Taken(d)) <= Copies(c, net)
  BY <1>3, BagsStayBags, CopiesTaken DEF Taken
<1>6. ASSUME NEW k \in Hosts, pcrypt_crypt_init_keys(k)
      PROVE  Copies(c, net') <= Copies(c, net)
  <2>1. PICK rest, entries : rest = Remaining(k) /\ entries = ipmsg_send_entry_packets("BR_ENTRY", k)
    OBVIOUS
  <2>2. rest = [d \in {d \in DOMAIN net : d.src # k} |-> net[d]]
    BY <2>1 DEF Remaining, BagToSet
  <2>3. \A d \in DOMAIN net : net[d] \in Nat /\ net[d] > 0
    BY <1>3 DEF IsABag
  <2>4. IsABag(rest) /\ Copies(c, rest) <= Copies(c, net)
    BY <2>2, <2>3 DEF IsABag, Copies, BagIn, BagToSet
  <2>5. IsABag(entries) /\ c \notin BagToSet(entries)
    BY <1>2, <2>1, BagsStayBags, BagFacts DEF ipmsg_send_entry_packets, Entry
  <2>6. net' = rest (+) entries
    BY <1>6, <2>1 DEF pcrypt_crypt_init_keys
  <2> QED
    BY <2>4, <2>5, <2>6, CopiesAdded
<1>7. ASSUME NEW d, NEW answer, HearsEntry(d, answer), IsABag(answer), c \notin BagToSet(answer)
      PROVE  Copies(c, net') <= Copies(c, net)
  <2>1. PICK rest, question : rest = Taken(d) /\ question = ipmsg_send_getpubkey(d.dst, d.src)
    OBVIOUS
  <2>2. net' = (rest (+) answer) (+) question
    BY <1>7, <2>1 DEF HearsEntry
  <2>3. IsABag(rest) /\ Copies(c, rest) <= Copies(c, net)
    BY <1>5, <2>1
  <2>4. IsABag(rest (+) answer) /\ Copies(c, rest (+) answer) = Copies(c, rest)
    BY <1>7, <2>3, BagsStayBags, CopiesAdded
  <2>5. IsABag(question) /\ c \notin BagToSet(question)
    BY <1>2, <2>1, BagsStayBags, BagFacts DEF ipmsg_send_getpubkey, GetPubKey
  <2>6. Copies(c, net') = Copies(c, rest (+) answer)
    BY <2>2, <2>4, <2>5, CopiesAdded
  <2> QED
    BY <2>3, <2>4, <2>6
<1>8. ASSUME NEW d, ipmsg_proc_br_entry(d) PROVE Copies(c, net') <= Copies(c, net)
  <2>1. PICK answer : answer = ipmsg_send_entry_packets("ANSENTRY", d.dst)
    OBVIOUS
  <2>2. IsABag(answer) /\ c \notin BagToSet(answer)
    BY <1>2, <2>1, BagsStayBags, BagFacts DEF ipmsg_send_entry_packets, Entry
  <2> QED
    BY <1>7, <1>8, <2>1, <2>2 DEF ipmsg_proc_br_entry
<1>9. ASSUME NEW d, ipmsg_proc_ans_entry(d) PROVE Copies(c, net') <= Copies(c, net)
  <2>1. IsABag(EmptyBag) /\ c \notin BagToSet(EmptyBag)
    BY BagsStayBags, BagFacts DEF EmptyBag
  <2> QED
    BY <1>7, <1>9, <2>1 DEF ipmsg_proc_ans_entry
<1>10. ASSUME NEW d, ipmsg_proc_get_public_key(d) PROVE Copies(c, net') <= Copies(c, net)
  <2>1. PICK rest, answers :
          /\ rest = Taken(d)
          /\ answers = SetToBag(pcrypt_crypt_generate_anspubkey_string(d.dst, d.src, d.cap))
    OBVIOUS
  <2>2. net' = rest (+) answers
    BY <1>10, <2>1 DEF ipmsg_proc_get_public_key
  <2>3. \A e \in BagToSet(answers) : e.type = "ANSPUBKEY"
    BY <2>1, BagFacts DEF pcrypt_crypt_generate_anspubkey_string, AnsPubKey
  <2>4. IsABag(answers) /\ c \notin BagToSet(answers)
    BY <1>2, <2>1, <2>3, BagsStayBags
  <2>5. IsABag(rest) /\ Copies(c, rest) <= Copies(c, net)
    BY <1>5, <2>1
  <2> QED
    BY <2>2, <2>4, <2>5, CopiesAdded
<1>11. ASSUME NEW d, ipmsg_proc_anspubkey(d) \/ read_message(d)
       PROVE  Copies(c, net') <= Copies(c, net)
  BY <1>5, <1>11 DEF ipmsg_proc_anspubkey, read_message
<1>12. ASSUME NEW k \in Hosts, NEW l \in Hosts, NEW t \in Texts, ipmsg_send_sendmsg_packets(k, l, t)
       PROVE  Copies(c, net') <= Copies(c, net)
  <2>1. PICK question : question = ipmsg_send_getpubkey(k, l)
    OBVIOUS
  <2>2. IsABag(question) /\ c \notin BagToSet(question)
    BY <1>2, <2>1, BagsStayBags, BagFacts DEF ipmsg_send_getpubkey, GetPubKey
  <2>3. IsABag(net (+) question) /\ Copies(c, net (+) question) = Copies(c, net)
    BY <1>3, <2>2, BagsStayBags, CopiesAdded
  <2>4. PICK sent : /\ c \notin sent
                    /\ \/ net' = (net (+) question) (+) SetToBag(sent)
                       \/ net' = net (+) SetToBag(sent)
    <3>1. CASE k = i /\ l = j /\ t = text
      <4>1. userdb_get_cap_by_addr(k, l) # {} /\ ipmsg_encrypt_message(k, l, t) # {}
        BY <3>1, KeyIsUsed
      <4>2. CASE t \in Unconvertible
        <5>1. net' = net (+) SetToBag({})
          BY <1>12, <4>1, <4>2 DEF ipmsg_send_sendmsg_packets, SentInClear
        <5> QED
          BY <5>1
      <4>3. CASE t \notin Unconvertible
        <5>1. PICK d \in ipmsg_encrypt_message(k, l, t) : net' = net (+) SetToBag({d})
          BY <1>12, <4>1, <4>3 DEF ipmsg_send_sendmsg_packets
        <5> QED
          BY <1>2, <5>1
      <4> QED
        BY <4>2, <4>3
    <3>2. CASE ~ (k = i /\ l = j /\ t = text)
      <4>1. InClear(k, l, t) # c
        BY <1>2, <3>2, EncryptedIsNotClear
      <4>2. PICK sent \in SUBSET ({InClear(k, l, t)} \union ipmsg_encrypt_message(k, l, t)) :
              \/ net' = (net (+) question) (+) SetToBag(sent)
              \/ net' = net (+) SetToBag(sent)
        BY <1>12, <2>1, WhatIsSent
      <4> QED
        BY <1>2, <4>1, <4>2
    <3> QED
      BY <3>1, <3>2
  <2>5. IsABag(SetToBag(sent)) /\ c \notin BagToSet(SetToBag(sent))
    BY <2>4, BagsStayBags, BagFacts
  <2>6. Copies(c, net') = Copies(c, net)
    BY <1>3, <2>3, <2>4, <2>5, CopiesAdded
  <2> QED
    BY <1>3, <2>6
<1>13. ASSUME NEW k \in Hosts,
              \/ StopWhileStoring(k) \/ pcrypt_crypt_release_keys(k)
              \/ \E s \in LaterSettings : apply_crypt_config_window(k, s)
              \/ \E p \in DOMAIN Passwords \union {NoPassword} : on_passWordOKBtn_clicked(k, p)
       PROVE  UNCHANGED net
  BY <1>13 DEF StopWhileStoring, pcrypt_crypt_release_keys, apply_crypt_config_window,
     on_passWordOKBtn_clicked
<1>14. Copies(c, net') <= Copies(c, net)
  BY <1>4, <1>6, <1>8, <1>9, <1>10, <1>11, <1>12, <1>13 DEF Next, vars
<1> QED
  BY <1>1, <1>14

(* A message goes in the clear to a peer whose key is known only if the    *)
(* sender's algorithms have changed since, or it has no such key itself.   *)
THEOREM ClearOnlyWithoutKey == Spec => PlainOnlyWithoutKey
<1>1. ASSUME CryptInv, [Next]_vars,
             NEW i \in Hosts, NEW j \in Hosts, NEW text \in Texts,
             Copies(InClear(i, j, text), net') > Copies(InClear(i, j, text), net),
             known[i][j].key # NoKey
      PROVE  \/ known[i][j].asked # hostinfo_refer_ipmsg_cipher(i)
             \/ rsa_keys[i][known[i][j].key.type] = NoPair
  <2>1. SUFFICES ASSUME known[i][j].asked = hostinfo_refer_ipmsg_cipher(i),
                        rsa_keys[i][known[i][j].key.type] # NoPair
                 PROVE  FALSE
    OBVIOUS
  <2>2. PICK m, n : m = Copies(InClear(i, j, text), net) /\ n = Copies(InClear(i, j, text), net')
    OBVIOUS
  <2>3. IsABag(net) /\ IsABag(net')
    BY <1>1, NextAgrees DEF CryptInv, AgreementInv
  <2>4. m \in Nat /\ n \in Nat
    BY <2>2, <2>3, CopiesAdded
  <2>5. n <= m
    BY <1>1, <2>1, <2>2, ClearIsNotSent DEF CryptInv, KnownInv
  <2>6. n > m
    BY <1>1, <2>2
  <2> QED
    BY <2>4, <2>5, <2>6
<1>2. CryptInv /\ [Next]_vars =>
        (\A i, j \in Hosts, text \in Texts :
           /\ Copies(InClear(i, j, text), net') > Copies(InClear(i, j, text), net)
           /\ known[i][j].key # NoKey
           => \/ known[i][j].asked # hostinfo_refer_ipmsg_cipher(i)
              \/ rsa_keys[i][known[i][j].key.type] = NoPair)
  BY <1>1
<1> QED
  BY <1>2, InitIsSound, NextIsSound, PTL DEF Spec, PlainOnlyWithoutKey
=================================================================================
