------------------------------ MODULE Custody ------------------------------
(***************************************************************************)
(* What a holder of short-lived credentials promises, whatever language it *)
(* is written in: every credential it mints is given up at most once,      *)
(* borrowed only while it has not been given up, and revoked exactly once, *)
(* by whoever is last to let go of it, so never under a call that still    *)
(* carries it.                                                             *)
(*                                                                         *)
(* The promise is stated by src/nodejs/src/internal/auth.ts (class         *)
(* Renewing), src/go/internal/transport/renewing.go and                    *)
(* src/python/memcoai/_auth.py; Renewing.tla, GoRenewing.tla and           *)
(* PyRenewing.tla are the three of them, shown to keep it.                 *)
(***************************************************************************)
CONSTANTS
    Creds,      \* the credentials that may come to exist
    Calls       \* the calls that borrow them

VARIABLES
    state,      \* where each credential is in its life
    borrowers   \* the calls carrying each credential now

custodyVars == <<state, borrowers>>

CustodyTypeOK ==
    /\ state \in [Creds -> {"unminted", "held", "given_up", "revoked"}]
    /\ borrowers \in [Creds -> SUBSET Calls]

CustodyInit ==
    /\ state = [c \in Creds |-> "unminted"]
    /\ borrowers = [c \in Creds |-> {}]

(* Where a credential goes when its holder lets go of it: straight to      *)
(* revoked when nothing carries it, otherwise left to its last borrower.   *)
LetGo(c) == IF borrowers[c] = {} THEN "revoked" ELSE "given_up"

(* A fresh credential, and the older one given up for it if there is one.  *)
Mint(c) ==
    /\ state[c] = "unminted"
    /\ \A d \in Creds : state[d] # "held"
    /\ state' = [state EXCEPT ![c] = "held"]
    /\ UNCHANGED borrowers

Replace(c, old) ==
    /\ state[c] = "unminted"
    /\ state[old] = "held"
    /\ state' = [state EXCEPT ![c] = "held", ![old] = LetGo(old)]
    /\ UNCHANGED borrowers

(* One that arrives when its holder has closed is revoked, never held.     *)
Discard(c) ==
    /\ state[c] = "unminted"
    /\ state' = [state EXCEPT ![c] = "revoked"]
    /\ UNCHANGED borrowers

GiveUp(c) ==
    /\ state[c] = "held"
    /\ state' = [state EXCEPT ![c] = LetGo(c)]
    /\ UNCHANGED borrowers

Borrow(c, l) ==
    /\ state[c] = "held"
    /\ \A d \in Creds : l \notin borrowers[d]
    /\ borrowers' = [borrowers EXCEPT ![c] = @ \cup {l}]
    /\ UNCHANGED state

(* The last borrower of a credential given up meanwhile revokes it.        *)
Return(c, l) ==
    /\ l \in borrowers[c]
    /\ borrowers' = [borrowers EXCEPT ![c] = @ \ {l}]
    /\ state' = IF state[c] = "given_up" /\ borrowers[c] = {l}
                THEN [state EXCEPT ![c] = "revoked"]
                ELSE state

CustodyNext ==
    \/ \E c \in Creds : Mint(c) \/ Discard(c) \/ GiveUp(c)
    \/ \E c, old \in Creds : Replace(c, old)
    \/ \E c \in Creds, l \in Calls : Borrow(c, l) \/ Return(c, l)

CustodySpec == CustodyInit /\ [][CustodyNext]_custodyVars

----------------------------------------------------------------------------
(* Nothing carries a revoked credential, and one that was given up but not *)
(* revoked is still carried: no revocation under a call, and no credential *)
(* left live with nobody to end it.                                        *)
CustodySafe ==
    \A c \in Creds :
        /\ state[c] \in {"unminted", "revoked"} => borrowers[c] = {}
        /\ state[c] = "given_up" => borrowers[c] # {}

(* A holder has at most one credential it has not given up: a fresh one    *)
(* never leaves its predecessor live and unowned.                          *)
OneHeld ==
    \A c, d \in Creds : state[c] = "held" /\ state[d] = "held" => c = d
=============================================================================
