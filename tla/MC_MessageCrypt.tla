---------------------------- MODULE MC_MessageCrypt ----------------------------
(***************************************************************************)
(* Two hosts set alike, for strength or for speed, or a host and one whose *)
(* setting is overruled.  One of them restarts once and has its settings   *)
(* changed once, the other may fail to make a key.                         *)
(***************************************************************************)
EXTENDS MessageCrypt, TLC

Some == {"AES_256", "RC2_40", "RSA_2048", "RSA_1024", "SHA1"}
Old  == {"RC2_40", "RSA_1024", "SHA1", "MD5"}

Set(cipher, speed, encrypt, password) ==
  [cipher |-> cipher, speed |-> speed, encrypt |-> encrypt, password |-> password]

MCPasswords == "p" :> "x" @@ "q" :> "y"

CONSTANTS a, b
Strong == Set(Some, FALSE, FALSE, "p")
Quick  == Set(Some, TRUE, TRUE, "p")
Forced == Set({"MD5"}, FALSE, FALSE, "p")

First(s, t, stored) == [conf |-> a :> s @@ b :> t, stored |-> a :> stored @@ b :> NotStored]
MCFirst  == {First(Strong, Strong, NoPassword), First(Quick, Quick, "x"), First(Strong, Forced, "y")}
MCLater  == {Set(Old, FALSE, FALSE, "p"), Set(Some, FALSE, TRUE, "p")}
MCFailing == a :> {} @@ b :> {"RSA_1024"}
MCRuns    == a :> 3 @@ b :> 1
MCChanges == a :> 1 @@ b :> 0
================================================================================
