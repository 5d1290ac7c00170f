------------------------------ MODULE MessageCrypt ------------------------------
(***************************************************************************)
(* The encryption of messages: the RSA keys of a host and their files      *)
(* (pubcrypt.c), the exchange of keys and capabilities between hosts       *)
(* (protocol.c, userdb.c), the choice of algorithms and the way a message  *)
(* is encrypted, signed, verified and decrypted (cryptif.c, symcrypt.c).   *)
(*                                                                         *)
(* A handler of a datagram is one step, as in UserList.  Datagrams may     *)
(* overtake each other, and may never arrive.  Every host runs this        *)
(* program, has its user present and reaches every other by broadcasts.    *)
(***************************************************************************)
EXTENDS Naturals, Bags, FiniteSets

CONSTANTS
  Hosts,          \* IP addresses
  Unsafe,         \* hosts whose key directory is not safe: no file is read or written
  Failing,        \* host -> the RSA types of which it may fail to make a key
  ShortSigners,   \* hosts whose signatures may begin with a zero byte
  Passwords,      \* password -> its first character
  FirstStates,    \* bound: settings and key files that there may be at first
  LaterSettings,  \* bound: the settings users may apply
  Texts,          \* bound: the texts of messages
  Unconvertible,  \* the texts that the character set of a peer lacks
  MaxRuns,        \* bound: host -> its runs
  MaxChanges,     \* bound: host -> settings its user changes
  MaxSends        \* bound: messages sent

--------------------------------------------------------------------------------
(* Algorithms                                                              *)

\* The tables the choices go through, strongest first.
SymTable  == <<"AES_256", "BLOWFISH_256", "RC2_256", "AES_192", "AES_128",
               "BLOWFISH_128", "RC2_128", "RC2_40">>
RsaTable  == <<"RSA_2048", "RSA_1024", "RSA_512">>
SignTable == <<"SHA1", "MD5">>

Entries(table) == {table[i] : i \in DOMAIN table}
RsaTypes == Entries(RsaTable)
AllCaps  == Entries(SymTable) \union RsaTypes \union Entries(SignTable)

\* In bytes.
symcrypt_get_skey_length ==
  [a \in Entries(SymTable) |->
     CASE a \in {"AES_256", "BLOWFISH_256", "RC2_256"} -> 32
       [] a = "AES_192" -> 24
       [] a \in {"AES_128", "BLOWFISH_128", "RC2_128"} -> 16
       [] a = "RC2_40" -> 5]

RSA_size == [t \in RsaTypes |->
  CASE t = "RSA_2048" -> 256 [] t = "RSA_1024" -> 128 [] t = "RSA_512" -> 64]

\* The first candidate of a table, or its last if speed comes first: a set
\* of one, or none if there is no candidate.
Choice(table, candidates, speed) ==
  {table[i] : i \in {i \in DOMAIN table :
     /\ table[i] \in candidates
     /\ \A j \in DOMAIN table : table[j] \in candidates => IF speed THEN j <= i ELSE i <= j}}

--------------------------------------------------------------------------------
NoPassword == ""

Settings == [cipher : SUBSET AllCaps, speed : BOOLEAN, encrypt : BOOLEAN,
             password : DOMAIN Passwords \union {NoPassword}]

\* What locks a key file; a host may have no files at first.
Locks == {Passwords[p] : p \in DOMAIN Passwords} \union {NoPassword}
NotStored == "not stored"

ASSUME CryptAssumption ==
  /\ Unsafe \subseteq Hosts /\ ShortSigners \subseteq Hosts /\ Failing \in [Hosts -> SUBSET RsaTypes]
  /\ NoPassword \notin DOMAIN Passwords
  /\ \A p \in DOMAIN Passwords : Passwords[p] \notin {NoPassword, NotStored}
  /\ \A s \in FirstStates :
       /\ s.conf \in [Hosts -> Settings]
       /\ s.stored \in [Hosts -> Locks \union {NotStored}]
  /\ LaterSettings \subseteq Settings
  /\ Unconvertible \subseteq Texts
  /\ MaxRuns \in [Hosts -> Nat]
  /\ MaxChanges \in [Hosts -> Nat] /\ MaxSends \in Nat

VARIABLES
  up,       \* hosts on which the program runs
  conf,     \* host -> its settings
  rsa_keys, \* host -> RSA type -> key pair in memory
  files,    \* host -> RSA type -> the private and the public key file
  known,    \* host -> host -> what its user list has about the other
  net,      \* datagrams in flight: a bag
  runs,     \* host -> runs started
  changes, sends, \* how many so far
  unheard,  \* history: <<i, j>> such that j has not yet heard of i's last start
  altered,  \* history: hosts whose user has changed cipher or policy
  spoiled   \* history: hosts that have changed what locks their key files, or
            \* stopped in the middle of storing keys

vars == <<up, conf, rsa_keys, files, known, net, runs, changes, sends,
          unheard, altered, spoiled>>

\* A key is named by the run that has made it; 0 is no key, or a file that
\* cannot be read.
NoPair  == [priv |-> 0, pub |-> 0]
NoFiles == [priv |-> 0, lock |-> NoPassword, pub |-> 0]
NoKey   == [type |-> "none", made |-> 0]

\* The entry of a user list.  `asked` (history) is the capability that the
\* question for the key has named.
Unlisted == [listed |-> FALSE, cap |-> {}, key |-> NoKey, asked |-> {}]
Keyless  == [Unlisted EXCEPT !.listed = TRUE]

\* ipmsg_pem_passwd_call_back tells OpenSSL that the password is one byte
\* long: its first character is what locks a file.
ipmsg_pem_passwd_call_back(password) ==
  IF password = NoPassword THEN NoPassword ELSE Passwords[password]

\* The dialog at the start: a wrong password ends the program, which is
\* not a step.
ipmsg_pem_passwd_dialog(c) ==
  IF c.encrypt THEN ipmsg_pem_passwd_call_back(c.password) ELSE NoPassword

Init ==
  /\ up = {}
  /\ \E s \in FirstStates :
       /\ conf = s.conf
       /\ runs = [i \in Hosts |-> IF s.stored[i] = NotStored THEN 0 ELSE 1]
       /\ files = [i \in Hosts |-> [t \in RsaTypes |->
            IF s.stored[i] = NotStored THEN NoFiles ELSE [priv |-> 1, lock |-> s.stored[i], pub |-> 1]]]
       /\ spoiled = {i \in Hosts : s.stored[i] \notin
            {NotStored, NoPassword, ipmsg_pem_passwd_dialog(s.conf[i])}}
  /\ rsa_keys = [i \in Hosts |-> [t \in RsaTypes |-> NoPair]]
  /\ known = [i \in Hosts |-> [j \in Hosts |-> Unlisted]]
  /\ net = EmptyBag
  /\ changes = [i \in Hosts |-> 0] /\ sends = 0
  /\ unheard = {} /\ altered = {}

--------------------------------------------------------------------------------
(* Datagrams                                                               *)

Entry(type, i, j)  == [type |-> type, src |-> i, dst |-> j]
GetPubKey(i, j, c) == [type |-> "GETPUBKEY", src |-> i, dst |-> j, cap |-> c]
AnsPubKey(i, j, c, key, asked) ==
  [type |-> "ANSPUBKEY", src |-> i, dst |-> j, cap |-> c, key |-> key, asked |-> asked]

\* A message in the clear has no capability field.
SendMsg(i, j, body, c, key, sign, short) ==
  [type |-> "SENDMSG", src |-> i, dst |-> j, body |-> body, cap |-> c,
   key |-> key, sign |-> sign, short |-> short]

ipmsg_send_entry_packets(type, i) == SetToBag({Entry(type, i, j) : j \in Hosts \ {i}})

\* A setting without an RSA type or without a symmetric one is overruled.
hostinfo_refer_ipmsg_cipher(i) ==
  IF conf[i].cipher \intersect RsaTypes = {} \/ conf[i].cipher \intersect Entries(SymTable) = {}
    THEN AllCaps ELSE conf[i].cipher

ipmsg_send_getpubkey(i, j) == SetToBag({GetPubKey(i, j, hostinfo_refer_ipmsg_cipher(i))})

--------------------------------------------------------------------------------
(* Key files                                                               *)

\* Neither the directory nor one above it can be written to by others.
check_secure_directory(i) == i \notin Unsafe

\* A key, or 0 where there is no file.
open_key_file_for_read(content) == content # 0

MutantLoadsUnlockedOnly(f, lock) == open_key_file_for_read(f.priv) /\ f.lock = NoPassword

\* An unlocked file is read whatever the password.
load_private_key(f, lock) ==
  open_key_file_for_read(f.priv) /\ (f.lock = NoPassword \/ f.lock = lock)

load_public_key(f) == open_key_file_for_read(f.pub)

MutantUnchecked(f) == TRUE

RSA_check_key(f) == f.priv = f.pub

pcrypt_load_rsa_key(i, t, lock) ==
  LET f == files[i][t]
  IN  /\ check_secure_directory(i)
      /\ load_private_key(f, lock) /\ load_public_key(f) /\ RSA_check_key(f)

\* The types for which a start makes and stores a new key, except those for
\* which making one fails, again and again.
generate_rsa_key(i, lock, failed) ==
  {t \in RsaTypes : ~pcrypt_load_rsa_key(i, t, lock)} \ failed

store_private_key(f, made, lock) == [f EXCEPT !.priv = made, !.lock = lock]
store_public_key(f, made)        == [f EXCEPT !.pub = made]

pcrypt_store_rsa_key(i, T, lock) ==
  [t \in RsaTypes |->
     IF t \in T /\ check_secure_directory(i)
       THEN store_public_key(store_private_key(files[i][t], runs[i] + 1, lock), runs[i] + 1)
       ELSE files[i][t]]

pcrypt_crypt_set_rsa_key(i, T, lock) ==
  [t \in RsaTypes |->
     IF t \in T THEN [priv |-> runs[i] + 1, pub |-> runs[i] + 1]
     ELSE IF pcrypt_load_rsa_key(i, t, lock) THEN [priv |-> files[i][t].priv, pub |-> files[i][t].pub]
     ELSE NoPair]

--------------------------------------------------------------------------------
(* What users do                                                           *)

\* Starting takes longer than a datagram of the last run is on its way: what
\* has not arrived by then is lost.
Remaining(i) ==
  LET kept == {d \in BagToSet(net) : d.src # i} IN [d \in kept |-> net[d]]

CanStart(i) ==
  /\ i \notin up /\ runs[i] < MaxRuns[i]
  /\ runs' = [runs EXCEPT ![i] = @ + 1]
  /\ UNCHANGED <<conf, changes, sends, altered>>

\* pcrypt_crypt_init_keys, and the announcement that follows it.
pcrypt_crypt_init_keys(i) ==
  /\ CanStart(i)
  /\ LET lock == ipmsg_pem_passwd_dialog(conf[i])
     IN  \E failed \in SUBSET Failing[i] :
           /\ rsa_keys' = [rsa_keys EXCEPT ![i] = pcrypt_crypt_set_rsa_key(i, generate_rsa_key(i, lock, failed), lock)]
           /\ files' = [files EXCEPT ![i] = pcrypt_store_rsa_key(i, generate_rsa_key(i, lock, failed), lock)]
  /\ up' = up \union {i}
  /\ known' = [known EXCEPT ![i] = [j \in Hosts |-> Unlisted]]
  /\ net' = Remaining(i) (+) ipmsg_send_entry_packets("BR_ENTRY", i)
  /\ unheard' = (unheard \ (Hosts \X {i})) \union ({i} \X (Hosts \ {i}))
  /\ UNCHANGED spoiled

Before(t) == {u \in RsaTypes : \E m, n \in DOMAIN RsaTable :
                m < n /\ RsaTable[m] = u /\ RsaTable[n] = t}

\* The program stops while it stores the key of a type: the private key is
\* written, or written in part, and the public one is not.
StopWhileStoring(i) ==
  /\ CanStart(i) /\ check_secure_directory(i)
  /\ LET lock == ipmsg_pem_passwd_dialog(conf[i])
     IN  \E t \in generate_rsa_key(i, lock, {}), priv \in {0, runs[i] + 1} :
           LET done == pcrypt_store_rsa_key(i, generate_rsa_key(i, lock, {}) \intersect Before(t), lock)
           IN  files' = [files EXCEPT ![i] =
                 [done EXCEPT ![t] = store_private_key(@, priv, lock)]]
  /\ spoiled' = spoiled \union {i}
  /\ UNCHANGED <<up, rsa_keys, known, net, unheard>>

\* The program ends or crashes.  A BR_EXIT is not heard (see UserList).
pcrypt_crypt_release_keys(i) ==
  /\ i \in up
  /\ up' = up \ {i}
  /\ rsa_keys' = [rsa_keys EXCEPT ![i] = [t \in RsaTypes |-> NoPair]]
  /\ UNCHANGED <<conf, files, known, net, runs, changes, sends, unheard, altered, spoiled>>

\* A change of what locks the key files at the next start.
Spoils(i) ==
  IF ipmsg_pem_passwd_dialog(conf[i]) \notin {NoPassword, ipmsg_pem_passwd_dialog(conf'[i])}
    THEN spoiled \union {i} ELSE spoiled

\* The crypt configuration window: the keys are to be encrypted only if
\* there is a password.
apply_crypt_config_window(i, s) ==
  /\ i \in up /\ changes[i] < MaxChanges[i]
  /\ conf' = [conf EXCEPT ![i] =
       [s EXCEPT !.encrypt = @ /\ conf[i].password # NoPassword, !.password = conf[i].password]]
  /\ conf' # conf
  /\ changes' = [changes EXCEPT ![i] = @ + 1]
  /\ altered' = IF s.cipher # conf[i].cipher \/ s.speed # conf[i].speed
                THEN altered \union {i} ELSE altered
  /\ spoiled' = Spoils(i)
  /\ UNCHANGED <<up, rsa_keys, files, known, net, runs, sends, unheard>>

\* Different passwords have different encoded forms (of one salt).
pbkdf2_encrypt(password) == password

pbkdf2_verify(typed, stored) == pbkdf2_encrypt(typed) = stored

\* The OK button is sensitive once the new password has been typed twice,
\* and the old one verified if there is one.
password_window_passwd_changed(i, typed) ==
  conf[i].password = NoPassword \/ pbkdf2_verify(typed, conf[i].password)

\* The password window: an empty password takes the password away, and
\* leaves the setting that asks for it.
on_passWordOKBtn_clicked(i, password) ==
  /\ i \in up /\ changes[i] < MaxChanges[i] /\ password # conf[i].password
  /\ \E typed \in DOMAIN Passwords \union {NoPassword} : password_window_passwd_changed(i, typed)
  /\ changes' = [changes EXCEPT ![i] = @ + 1]
  /\ conf' = [conf EXCEPT ![i].password = pbkdf2_encrypt(password)]
  /\ spoiled' = Spoils(i)
  /\ UNCHANGED <<up, rsa_keys, files, known, net, runs, sends, unheard, altered>>

--------------------------------------------------------------------------------
(* Keys of peers                                                           *)

select_symmetric_key(i, cap) ==
  Choice(SymTable, cap \intersect hostinfo_refer_ipmsg_cipher(i), conf[i].speed)

MutantOwnTypesOnly(i, cap) == Choice(RsaTable, hostinfo_refer_ipmsg_cipher(i), conf[i].speed)

select_rsa_key_for_answer(i, cap) ==
  Choice(RsaTable, cap \intersect hostinfo_refer_ipmsg_cipher(i), conf[i].speed)

\* Whether the own setting has the algorithm is not asked.
select_signature(i, cap) == Choice(SignTable, cap, conf[i].speed)

\* The datagrams that answer a question for the key.
pcrypt_crypt_generate_anspubkey_string(i, j, cap) ==
  LET rsa  == {t \in select_rsa_key_for_answer(i, cap) : rsa_keys[i][t] # NoPair}
      sym  == select_symmetric_key(i, cap)
  IN  {AnsPubKey(i, j, {t} \union sym \union select_signature(i, cap),
                 [type |-> t, made |-> rsa_keys[i][t].pub], cap) :
       t \in IF sym = {} THEN {} ELSE rsa}

Taken(d) == net (-) SetToBag({d})

Arrives(d, type) ==
  /\ d.type = type /\ d.dst \in up
  /\ UNCHANGED <<up, conf, rsa_keys, files, runs, changes, sends, altered, spoiled>>

MutantKeepsKey(i, j) == IF known[i][j].listed THEN known[i][j] ELSE Keyless

\* USR_ADD: an entry is added or replaced, and has no key either way.
userdb_update_user(i, j) == Keyless

HearsEntry(d, answer) ==
  /\ known' = [known EXCEPT ![d.dst][d.src] = userdb_update_user(d.dst, d.src)]
  /\ net' = Taken(d) (+) answer (+) ipmsg_send_getpubkey(d.dst, d.src)
  /\ unheard' = unheard \ {<<d.src, d.dst>>}

ipmsg_proc_br_entry(d) ==
  Arrives(d, "BR_ENTRY") /\ HearsEntry(d, ipmsg_send_entry_packets("ANSENTRY", d.dst))

ipmsg_proc_ans_entry(d) == Arrives(d, "ANSENTRY") /\ HearsEntry(d, EmptyBag)

ipmsg_proc_get_public_key(d) ==
  /\ Arrives(d, "GETPUBKEY")
  /\ net' = Taken(d) (+) SetToBag(pcrypt_crypt_generate_anspubkey_string(d.dst, d.src, d.cap))
  /\ UNCHANGED <<known, unheard>>

userdb_replace_public_key_by_addr(i, d) ==
  IF known[i][d.src].listed
    THEN [listed |-> TRUE, cap |-> d.cap, key |-> d.key, asked |-> d.asked]
    ELSE known[i][d.src]

ipmsg_proc_anspubkey(d) ==
  /\ Arrives(d, "ANSPUBKEY")
  /\ known' = [known EXCEPT ![d.dst][d.src] = userdb_replace_public_key_by_addr(d.dst, d)]
  /\ net' = Taken(d)
  /\ UNCHANGED unheard

--------------------------------------------------------------------------------
(* Messages                                                                *)

userdb_get_public_key_by_addr(i, j) == known[i][j].key

\* The key is stored with the capability that has been looked up before: the
\* loop that waits for it finds it at once.
userdb_wait_public_key(i, j) == userdb_get_public_key_by_addr(i, j)

\* The session key goes with the body, and is good for one algorithm.
symcrypt_encrypt_message(sym, text) == [by |-> sym, text |-> text]

\* The type of the key the peer has sent.
select_asymmetric_key(i, key, cap) ==
  {key.type} \intersect cap \intersect hostinfo_refer_ipmsg_cipher(i)

\* PKCS#1 padding takes 11 bytes.
pcrypt_encrypt_message(key, sym) == symcrypt_get_skey_length[sym] + 11 <= RSA_size[key.type]

MutantSignsWithStrongest(i, t) == [type |-> "RSA_2048", made |-> rsa_keys[i]["RSA_2048"].priv]

\* The own key of the type the message is encrypted with, not of the type
\* that the peer has been sent.
pcrypt_sign(i, t) == [type |-> t, made |-> rsa_keys[i][t].priv]

\* The encrypted forms of a text: none if an algorithm or a key is missing.
ipmsg_encrypt_message(i, j, text) ==
  LET cap  == known[i][j].cap
      key  == userdb_wait_public_key(i, j)
      sign == select_signature(i, cap)
      \* c: the symmetric algorithm, the RSA type, and whether the signature is short
  IN  {SendMsg(i, j, symcrypt_encrypt_message(c[1], text), {c[1], c[2]} \union sign, key,
               IF sign = {} THEN NoKey ELSE pcrypt_sign(i, c[2]), c[3]) :
       c \in {c \in select_symmetric_key(i, cap) \X select_asymmetric_key(i, key, cap) \X BOOLEAN :
                /\ pcrypt_encrypt_message(key, c[1])
                /\ sign # {} => rsa_keys[i][c[2]] # NoPair
                /\ c[3] => sign # {} /\ i \in ShortSigners}}

\* userdb_get_cap_by_addr: both parts are needed.
userdb_get_cap_by_addr(i, j) ==
  IF known[i][j].cap \intersect RsaTypes = {} \/ known[i][j].cap \intersect Entries(SymTable) = {}
    THEN {} ELSE known[i][j].cap

InClear(i, j, text) == SendMsg(i, j, [by |-> "clear", text |-> text], {}, NoKey, NoKey, FALSE)

\* build_ipmsg_packet converts the text, once more after an attempt to encrypt
\* it: of one that cannot be converted no datagram leaves.
SentInClear(i, j, text) == IF text \in Unconvertible THEN {} ELSE {InClear(i, j, text)}

ipmsg_send_sendmsg_packets(i, j, text) ==
  /\ i \in up /\ known[i][j].listed /\ sends < MaxSends
  /\ sends' = sends + 1
  /\ IF userdb_get_cap_by_addr(i, j) = {}
       THEN net' = net (+) ipmsg_send_getpubkey(i, j) (+) SetToBag(SentInClear(i, j, text))
       ELSE LET encrypted == IF text \in Unconvertible THEN {} ELSE ipmsg_encrypt_message(i, j, text)
            IN  IF encrypted = {}
                  THEN net' = net (+) SetToBag(SentInClear(i, j, text))
                  ELSE \E d \in encrypted : net' = net (+) SetToBag({d})
  /\ UNCHANGED <<up, conf, rsa_keys, files, known, runs, changes, unheard, altered, spoiled>>

\* The signature is of the length of the key that is at hand, and by it.
pcrypt_verify_sign(d, key) ==
  /\ ~d.short /\ RSA_size[d.sign.type] = RSA_size[key.type]
  /\ d.sign.made = key.made

\* The private key is that of the type the message names.
pcrypt_decrypt_message(j, d) ==
  \E t \in d.cap \intersect RsaTypes : d.key = [type |-> t, made |-> rsa_keys[j][t].priv]

symcrypt_decrypt_message(d) == d.body.by \in d.cap

Verifies(j, d) == d.cap \intersect Entries(SignTable) \intersect hostinfo_refer_ipmsg_cipher(j) # {}

\* What becomes of a message at its destination.  Only one that is read is
\* dispatched, and acknowledged.
ipmsg_decrypt_message(d) ==
  LET j == d.dst
      key == userdb_get_public_key_by_addr(j, d.src)
  IN  IF d.cap = {} THEN "read"
      ELSE IF Verifies(j, d) /\ key = NoKey THEN "unknown"
      ELSE IF Verifies(j, d) /\ ~pcrypt_verify_sign(d, key) THEN "refused"
      ELSE IF ~pcrypt_decrypt_message(j, d) \/ ~symcrypt_decrypt_message(d) THEN "undecodable"
      ELSE "read"

\* Either way, the datagram is used up.
read_message(d) ==
  Arrives(d, "SENDMSG") /\ net' = Taken(d) /\ UNCHANGED <<known, unheard>>

--------------------------------------------------------------------------------
Next ==
  \/ \E i \in Hosts :
       \/ pcrypt_crypt_init_keys(i)
       \/ StopWhileStoring(i)
       \/ pcrypt_crypt_release_keys(i)
       \/ \E s \in LaterSettings : apply_crypt_config_window(i, s)
       \/ \E p \in DOMAIN Passwords \union {NoPassword} : on_passWordOKBtn_clicked(i, p)
       \/ \E j \in Hosts, text \in Texts : ipmsg_send_sendmsg_packets(i, j, text)
  \/ \E d \in BagToSet(net) :
       \/ ipmsg_proc_br_entry(d)
       \/ ipmsg_proc_ans_entry(d)
       \/ ipmsg_proc_get_public_key(d)
       \/ ipmsg_proc_anspubkey(d)
       \/ read_message(d)

Spec == Init /\ [][Next]_vars

--------------------------------------------------------------------------------
\* The two halves of a key belong together: a start that finds the private
\* key of one run beside the public key of another makes a new pair.
PairsMatch == \A i \in Hosts, t \in RsaTypes : rsa_keys[i][t].priv = rsa_keys[i][t].pub

\* Once a host has heard of a peer's last start, the key it has of the peer
\* is the one the peer uses, whichever runs have made keys before.
KeysKnownAreCurrent ==
  \A i, j \in up :
    known[i][j].key # NoKey /\ <<j, i>> \notin unheard
    => known[i][j].key.made = rsa_keys[j][known[i][j].key.type].pub

\* A host keeps its keys over restarts, so that peers that do not hear of
\* one can go on: unless the files are out of reach, were locked when the
\* settings to open them changed, or were being stored when the program
\* stopped.
KeysSurviveRestarts ==
  \A i \in up \ (Unsafe \union spoiled) : \A t \in RsaTypes \ Failing[i] :
    rsa_keys[i][t].pub = 1

Heard(i, j) == {<<i, j>>, <<j, i>>} \intersect unheard = {}

\* An encrypted message can be read where the two hosts are set to the same
\* policy, strength or speed, and neither has ever changed its algorithms or
\* policy -- whatever has been lost, and whichever keys have been made anew
\* since.  A message overtaken by a restart of its destination, or signed
\* with a leading zero byte, is another matter.
AgreedReadable ==
  \A d \in BagToSet(net) :
    /\ d.type = "SENDMSG" /\ d.cap # {} /\ ~d.short
    /\ {d.src, d.dst} \subseteq up \ altered /\ Heard(d.src, d.dst)
    /\ conf[d.src].speed = conf[d.dst].speed
    /\ d.key = known[d.src][d.dst].key /\ known[d.dst][d.src].key # NoKey
    => ipmsg_decrypt_message(d) = "read"

Copies(d, bag) == IF BagIn(d, bag) THEN bag[d] ELSE 0

\* A message goes to a peer in the clear although the peer's key is known
\* only if the sender's own algorithms have changed since it has asked, or
\* the sender has no key of the peer's type to sign with.
PlainOnlyWithoutKey ==
  [][\A i, j \in Hosts, text \in Texts :
       /\ Copies(InClear(i, j, text), net') > Copies(InClear(i, j, text), net)
       /\ known[i][j].key # NoKey
       => \/ known[i][j].asked # hostinfo_refer_ipmsg_cipher(i)
          \/ rsa_keys[i][known[i][j].key.type] = NoPair]_vars
================================================================================
