------------------------------ MODULE Registry ------------------------------
(***************************************************************************)
(* What the user registry promises (spec sections 3 and 4.4), with every  *)
(* operation atomic: a user is created by a registration under a name no  *)
(* live user holds, with a fresh uuid and a fresh AES key; storing a      *)
(* public key and an accepted reconnect each give that one user a fresh   *)
(* AES key; a user is removed, never revived.  Keys are fresh: no key is  *)
(* handed out twice.                                                       *)
(***************************************************************************)
EXTENDS Naturals

CONSTANTS
    UUIDs,    \* uuids the registry may hand out
    Names,    \* usernames
    PubKeys,  \* RSA public keys
    Keys,     \* AES keys
    Free,     \* a uuid never handed out
    Gone,     \* a uuid whose user was removed
    NoPubKey  \* the public key of a user who has not sent one

VARIABLES
    accounts, \* accounts[u]: Free, Gone, or the user's name, public key, key
    issued    \* the AES keys handed out so far

vars == <<accounts, issued>>

Account == [name : Names, pub : PubKeys \cup {NoPubKey}, key : Keys]

TypeOK ==
    /\ accounts \in [UUIDs -> Account \cup {Free, Gone}]
    /\ issued \in SUBSET Keys

Live == {u \in UUIDs : accounts[u] \notin {Free, Gone}}
LiveNames == {accounts[u].name : u \in Live}
Unused == {u \in UUIDs : accounts[u] = Free}
FreshKeys == Keys \ issued

Init ==
    /\ accounts = [u \in UUIDs |-> Free]
    /\ issued = {}

\* register(name): rejected when the name collides; otherwise a new user.
Register(u, n, k) ==
    /\ accounts[u] = Free /\ n \notin LiveNames /\ k \in FreshKeys
    /\ accounts' = [accounts EXCEPT ![u] = [name |-> n, pub |-> NoPubKey, key |-> k]]
    /\ issued' = issued \cup {k}

\* set_public_key(name, pub): the matching user's key is stored and its
\* AES key rotated.
SetPublicKey(u, pk, k) ==
    /\ u \in Live /\ k \in FreshKeys
    /\ accounts' = [accounts EXCEPT ![u].pub = pk, ![u].key = k]
    /\ issued' = issued \cup {k}

\* The accepted reconnect: a fresh AES key for the user.
Rotate(u, k) ==
    /\ u \in Live /\ k \in FreshKeys
    /\ accounts' = [accounts EXCEPT ![u].key = k]
    /\ issued' = issued \cup {k}

\* remove_if_matches on the rejected reconnect.
Remove(u) ==
    /\ u \in Live
    /\ accounts' = [accounts EXCEPT ![u] = Gone]
    /\ UNCHANGED issued

Next ==
    \/ \E u \in Unused, n \in Names \ LiveNames, k \in FreshKeys :
          Register(u, n, k)
    \/ \E u \in Live, pk \in PubKeys, k \in FreshKeys : SetPublicKey(u, pk, k)
    \/ \E u \in Live, k \in FreshKeys : Rotate(u, k)
    \/ \E u \in Live : Remove(u)

Spec == Init /\ [][Next]_vars
=============================================================================
