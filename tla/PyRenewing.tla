----------------------------- MODULE PyRenewing -----------------------------
(***************************************************************************)
(* The Python holder of one credential, for threads: class Renewing of     *)
(* src/python/memcoai/_auth.py.                                            *)
(*                                                                         *)
(* A step is one critical section of Renewing._state, a condition variable *)
(* whose waiters tell from a count of finished mints whether the one they  *)
(* wait for is over: by the time one looks, others may be over too.  The   *)
(* mints share their numbers with the credentials they bring.              *)
(***************************************************************************)
EXTENDS Naturals, FiniteSets

CONSTANTS
    Calls,      \* the leases taken over the life of the holder
    MaxMints    \* bound: how many mints are started

ASSUME CallsAssumption == IsFiniteSet(Calls)
ASSUME MaxMintsAssumption == MaxMints \in Nat

Creds == 1 .. MaxMints
None  == 0
Ages  == {"valid", "due", "expired"}

VARIABLES
    current,    \* _current
    age,        \* where the clock stands against its renew_at and expires
    minting,    \* _minting
    attempts,   \* _attempts
    failed,     \* whether _failed holds an exception
    minted,     \* the credentials minted
    closed,     \* _closed
    users,      \* Minted.users
    retired,    \* Minted.retired
    ends,       \* how many threads are to call _end, or did, per credential
    phase,      \* how far each lease() has come
    seen,       \* _leasable()'s local: the mints finished as it began to wait
    held        \* the credential a call was given and has not let go of

mintVars  == <<minting, attempts, failed, minted>>
credVars  == <<users, retired, ends>>
callVars  == <<phase, seen, held>>
vars == <<current, age, mintVars, closed, credVars, callVars>>

Over == {"returned", "failed", "skewed", "gaveup", "refused"}

TypeOK ==
    /\ current \in Creds \cup {None} /\ age \in Ages
    /\ minting \in BOOLEAN /\ attempts \in 0 .. MaxMints
    /\ minting => attempts < MaxMints
    /\ failed \in BOOLEAN /\ minted \in SUBSET Creds
    /\ closed \in BOOLEAN
    /\ users \in [Creds -> Nat] /\ retired \in [Creds -> BOOLEAN]
    /\ ends \in [Creds -> Nat]
    /\ phase \in [Calls -> {"idle", "waiting", "using"} \cup Over]
    /\ seen \in [Calls -> 0 .. MaxMints]
    /\ held \in [Calls -> Creds \cup {None}]

Init ==
    /\ current = None /\ age = "valid"
    /\ minting = FALSE /\ attempts = 0 /\ failed = FALSE /\ minted = {}
    /\ closed = FALSE
    /\ users = [c \in Creds |-> 0]
    /\ retired = [c \in Creds |-> FALSE]
    /\ ends = [c \in Creds |-> 0]
    /\ phase = [l \in Calls |-> "idle"]
    /\ seen = [l \in Calls |-> 0]
    /\ held = [l \in Calls |-> None]

----------------------------------------------------------------------------
(* Helpers.                                                                *)

(* A mint on a thread of its own, unless one is running.                   *)
Renews ==
    /\ minting \/ attempts < MaxMints
    /\ minting' = TRUE
    /\ UNCHANGED <<attempts, failed, minted>>

(* The credential held is honoured until it expires.                       *)
Honoured == current # None /\ age # "expired"

(* _retire(): what its caller is to end.                                   *)
Retire(c) ==
    retired' = IF c = None THEN retired ELSE [retired EXCEPT ![c] = TRUE]
Idle(c) == IF c # None /\ users[c] = 0 THEN c ELSE None

(* A thread goes on to call _end, if there is something to end.            *)
ToEnd(c) == ends' = IF c = None THEN ends ELSE [ends EXCEPT ![c] = @ + 1]

(* lease()'s finally: the last use of a retired credential ends it.        *)
LastUse_Never(c) == FALSE
LastUse(c) == retired[c] /\ users[c] = 1

Uses_Uncounted(l) ==
    /\ users' = users
    /\ phase' = [phase EXCEPT ![l] = "using"]
    /\ held' = [held EXCEPT ![l] = current]
Uses(l) ==
    /\ users' = [users EXCEPT ![current] = @ + 1]
    /\ phase' = [phase EXCEPT ![l] = "using"]
    /\ held' = [held EXCEPT ![l] = current]

Settles(l, outcome) ==
    /\ phase' = [phase EXCEPT ![l] = outcome]
    /\ UNCHANGED <<seen, held, current, age, mintVars, closed, credVars>>

----------------------------------------------------------------------------
(* lease() and _leasable().                                                *)

(* Closed, or the thread of the mint it needs cannot be started.           *)
LeaseRefused(l) == phase[l] = "idle" /\ closed /\ Settles(l, "refused")
LeaseFails(l) ==
    /\ phase[l] = "idle" /\ ~closed
    /\ current = None \/ age # "valid"
    /\ ~minting
    /\ Settles(l, "failed")

LeaseServed(l) ==
    /\ phase[l] = "idle" /\ ~closed /\ Honoured
    /\ \/ age = "valid" /\ UNCHANGED mintVars
       \/ age = "due" /\ Renews
    /\ Uses(l)
    /\ UNCHANGED <<current, age, closed, retired, ends, seen>>

LeaseWaits(l) ==
    /\ phase[l] = "idle" /\ ~closed /\ ~Honoured
    /\ Renews
    /\ phase' = [phase EXCEPT ![l] = "waiting"]
    /\ seen' = [seen EXCEPT ![l] = attempts]
    /\ UNCHANGED <<current, age, closed, credVars, held>>

(* The loop around wait() ends: a mint is over since, or the holder closed.*)
Woken_OnItsMint(l) ==
    phase[l] = "waiting" /\ (attempts = seen[l] + 1 \/ closed)
Woken(l) == phase[l] = "waiting" /\ (attempts # seen[l] \/ closed)

WakesRefused(l) == Woken(l) /\ closed /\ Settles(l, "refused")

WakesServed(l) ==
    /\ Woken(l) /\ ~closed /\ Honoured
    /\ Uses(l)
    /\ UNCHANGED <<current, age, mintVars, closed, retired, ends, seen>>

(* _honoured(): what the last mint raised, or the word that the clock is   *)
(* ahead of the service's.                                                 *)
WakesFailed(l) ==
    /\ Woken(l) /\ ~closed /\ ~Honoured
    /\ Settles(l, IF failed THEN "failed" ELSE "skewed")

GivesUp(l) == phase[l] = "waiting" /\ ~Woken(l) /\ Settles(l, "gaveup")

Finish(l) ==
    LET c == held[l] IN
    /\ phase[l] = "using"
    /\ users' = [users EXCEPT ![c] = @ - 1]
    /\ ToEnd(IF LastUse(c) THEN c ELSE None)
    /\ phase' = [phase EXCEPT ![l] = "returned"]
    /\ held' = [held EXCEPT ![l] = None]
    /\ UNCHANGED <<seen, current, age, mintVars, closed, retired>>

----------------------------------------------------------------------------
(* _renew(): its critical section, which ends the mint for its waiters.    *)

Landing ==
    /\ minting
    /\ minting' = FALSE
    /\ attempts' = attempts + 1
    /\ UNCHANGED <<closed, users, callVars>>

(* What is held is replaced; the fresh one may have come so late that it   *)
(* is due or has expired already.                                          *)
MintLands(a) ==
    /\ Landing /\ ~closed
    /\ failed' = FALSE
    /\ minted' = minted \cup {attempts + 1}
    /\ Retire(current)
    /\ ToEnd(Idle(current))
    /\ current' = attempts + 1
    /\ age' = a

MintDiscarded ==
    /\ Landing /\ closed
    /\ failed' = FALSE
    /\ minted' = minted \cup {attempts + 1}
    /\ ToEnd(attempts + 1)
    /\ UNCHANGED <<current, age, retired>>

(* The Exception it raises is recorded, and the waiters are woken.         *)
MintFails_Unrecorded ==
    /\ Landing
    /\ failed' = FALSE
    /\ UNCHANGED <<minted, current, age, retired, ends>>
MintFails ==
    /\ Landing
    /\ failed' = TRUE
    /\ UNCHANGED <<minted, current, age, retired, ends>>

----------------------------------------------------------------------------
(* close(): then waits for the end, if it is its to call.                  *)

Close ==
    /\ ~closed
    /\ closed' = TRUE
    /\ Retire(current)
    /\ ToEnd(Idle(current))
    /\ current' = None
    /\ UNCHANGED <<age, mintVars, users, callVars>>

Tick ==
    /\ current # None
    /\ \/ age = "valid" /\ age' = "due"
       \/ age = "due" /\ age' = "expired"
    /\ UNCHANGED <<current, mintVars, closed, credVars, callVars>>

----------------------------------------------------------------------------

Wakes(l) == WakesRefused(l) \/ WakesServed(l) \/ WakesFailed(l)
LeaseStep(l) ==
    \/ LeaseRefused(l) \/ LeaseFails(l) \/ LeaseServed(l) \/ LeaseWaits(l)
    \/ Wakes(l) \/ GivesUp(l) \/ Finish(l)
MintSettles == (\E a \in Ages : MintLands(a)) \/ MintDiscarded \/ MintFails

Next ==
    \/ \E l \in Calls : LeaseStep(l)
    \/ MintSettles \/ Close \/ Tick

Spec == Init /\ [][Next]_vars

(* Threads that can run do; every RPC has a deadline, so mints and calls   *)
(* come back.  A lease without a timeout waits for as long as it takes,    *)
(* and nothing obliges a caller to lease or close.                         *)
Fairness ==
    /\ \A l \in Calls : WF_vars(Wakes(l)) /\ WF_vars(Finish(l))
    /\ WF_vars(MintSettles)

FairSpec == Spec /\ Fairness

----------------------------------------------------------------------------
(* Properties.                                                             *)

Users(c) == {l \in Calls : phase[l] = "using" /\ held[l] = c}

(* A lease that waited is told the clock is ahead of the service's only    *)
(* when a credential did land and has expired (_auth.py:270): however many *)
(* mints finished before it woke, it never finds neither a credential nor  *)
(* the Exception that the last of them raised.                             *)
SkewIsTheClock ==
    \A l \in Calls : Woken(l) /\ ~closed /\ ~failed => current # None

(* "Whatever happens, they are woken" (_auth.py:472): a lease on a mint    *)
(* settles without a timeout of its own.                                   *)
LeasesSettle ==
    \A l \in Calls : phase[l] \in {"waiting", "using"} ~> phase[l] \in Over

(* What the use counts, the marks and the ends say about who carries what, *)
(* and the outcome of the last mint about what is held.                    *)
Books ==
    /\ \A c \in Creds : users[c] = Cardinality(Users(c))
    /\ \A c \in Creds :
          ends[c] = IF c \in minted /\ c # current /\ Users(c) = {}
                    THEN 1 ELSE 0
    /\ \A l \in Calls : phase[l] = "using" => held[l] \in minted
    /\ \A c \in Creds : retired[c] => c \in minted /\ c # current
    /\ \A c \in Creds : Users(c) # {} => c = current \/ retired[c]
    /\ current # None => current \in minted
    /\ closed => current = None
Outcomes ==
    /\ \A c \in minted : c <= attempts
    /\ attempts > 0 /\ ~failed => closed \/ current # None
    /\ \A l \in Calls : seen[l] <= attempts

IInv == TypeOK /\ Books /\ Outcomes

----------------------------------------------------------------------------
(* The promise of Custody.                                                 *)
custodyState ==
    [c \in Creds |-> IF c \notin minted THEN "unminted"
                     ELSE IF c = current THEN "held"
                     ELSE IF ends[c] = 0 THEN "given_up" ELSE "revoked"]

C == INSTANCE Custody
        WITH state <- custodyState, borrowers <- [c \in Creds |-> Users(c)]

(* "exactly one party ends each credential" (_auth.py:331), never under a  *)
(* call, and none is left behind: the holder implements Custody.           *)
KeepsCustody == C!CustodySpec
=============================================================================
