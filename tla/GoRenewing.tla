----------------------------- MODULE GoRenewing -----------------------------
(***************************************************************************)
(* The Go holder of one credential: type Renewing of                       *)
(* src/go/internal/transport/renewing.go.                                  *)
(*                                                                         *)
(* Leases, releases, closes and mints run on goroutines of their own, so a *)
(* step here is one critical section of Renewing.mu, or one step outside   *)
(* it that others can tell apart: a flight is over for the holder before   *)
(* its done channel is closed, and what end() is to be called for is       *)
(* settled before it is called.  A flight and the credential it mints      *)
(* share a number.                                                         *)
(***************************************************************************)
EXTENDS Naturals, FiniteSets

CONSTANTS
    Calls,      \* the leases taken over the life of the holder
    MaxFlights  \* bound: how many mints are started

ASSUME CallsAssumption == IsFiniteSet(Calls)
ASSUME MaxFlightsAssumption == MaxFlights \in Nat

Creds == 1 .. MaxFlights
None  == 0                  \* a nil pointer

Ages == {"valid", "due", "expired"}

VARIABLES
    current,    \* r.current
    age,        \* where the clock stands against current's RenewAt, Expires
    flight,     \* r.flight
    started,    \* how many flights have been started
    stage,      \* how far each flight has come
    err,        \* flight.err: whether each flight failed
    minted,     \* the credentials minted
    closed,     \* r.closed
    closing,    \* how far Close() has come
    idle,       \* Close()'s local: the credential it ends
    users,      \* Minted.users
    retired,    \* Minted.retired
    ends,       \* how many goroutines are to call end(), or did, per credential
    endDone,    \* whether a call of end() has returned, per credential
    phase,      \* how far each Lease() has come
    waits,      \* Lease()'s local f: the flight it waits for
    held        \* the credential a call was given and has not released

holderVars == <<current, age, flight, started, closed>>
flightVars == <<stage, err, minted>>
closeVars  == <<closing, idle>>
credVars   == <<users, retired, ends, endDone>>
callVars   == <<phase, waits, held>>
vars == <<holderVars, flightVars, closeVars, credVars, callVars>>

Phases == {"idle", "waiting", "using", "returned", "failed", "gaveup", "refused"}

TypeOK ==
    /\ current \in Creds \cup {None}
    /\ age \in Ages
    /\ flight \in Creds \cup {None}
    /\ started \in 0 .. MaxFlights
    /\ stage \in [Creds -> {"none", "minting", "settling", "done"}]
    /\ err \in [Creds -> BOOLEAN]
    /\ minted \in SUBSET Creds
    /\ closed \in BOOLEAN
    /\ closing \in {"open", "ending", "done"}
    /\ idle \in Creds \cup {None}
    /\ users \in [Creds -> Nat]
    /\ retired \in [Creds -> BOOLEAN]
    /\ ends \in [Creds -> Nat]
    /\ endDone \in [Creds -> BOOLEAN]
    /\ phase \in [Calls -> Phases]
    /\ waits \in [Calls -> Creds \cup {None}]
    /\ held \in [Calls -> Creds \cup {None}]

Init ==
    /\ current = None
    /\ age = "valid"
    /\ flight = None
    /\ started = 0
    /\ stage = [f \in Creds |-> "none"]
    /\ err = [f \in Creds |-> FALSE]
    /\ minted = {}
    /\ closed = FALSE
    /\ closing = "open"
    /\ idle = None
    /\ users = [c \in Creds |-> 0]
    /\ retired = [c \in Creds |-> FALSE]
    /\ ends = [c \in Creds |-> 0]
    /\ endDone = [c \in Creds |-> FALSE]
    /\ phase = [l \in Calls |-> "idle"]
    /\ waits = [l \in Calls |-> None]
    /\ held = [l \in Calls |-> None]

----------------------------------------------------------------------------
(* Helpers.                                                                *)

(* r.flight = &flight{...}; go r.renew(...), unless one is under way.      *)
StartOrJoin_Always ==
    /\ started < MaxFlights
    /\ started' = started + 1
    /\ flight' = started + 1
    /\ stage' = [stage EXCEPT ![started + 1] = "minting"]
StartOrJoin ==
    \/ flight # None /\ UNCHANGED <<flight, started, stage>>
    \/ /\ flight = None
       /\ started < MaxFlights
       /\ started' = started + 1
       /\ flight' = started + 1
       /\ stage' = [stage EXCEPT ![started + 1] = "minting"]

(* retire(): marks the credential, if there is one.                        *)
Retire(c) ==
    retired' = IF c = None THEN retired ELSE [retired EXCEPT ![c] = TRUE]

(* retire()'s result: what its caller is to end.                           *)
Idle_Counted(c) == IF c # None /\ users[c] <= 1 THEN c ELSE None
Idle(c) == IF c # None /\ users[c] = 0 THEN c ELSE None

(* A goroutine goes on to call end(), if there is something to end.        *)
ToEnd_Forgotten(c) == ends' = ends
ToEnd(c) == ends' = IF c = None THEN ends ELSE [ends EXCEPT ![c] = @ + 1]

(* Release() lets go of the last use of a retired credential.              *)
LastUse(c) == retired[c] /\ users[c] = 1

(* users++ under the lock, for what is then current.                       *)
Use(l) ==
    /\ users' = [users EXCEPT ![current] = @ + 1]
    /\ phase' = [phase EXCEPT ![l] = "using"]
    /\ held' = [held EXCEPT ![l] = current]

----------------------------------------------------------------------------
(* Lease(): its first critical section, then its wait and its second.      *)

LeaseRefused(l) ==
    /\ phase[l] = "idle"
    /\ closed
    /\ phase' = [phase EXCEPT ![l] = "refused"]
    /\ UNCHANGED <<waits, held, holderVars, flightVars, closeVars, credVars>>

(* The current credential serves; one past its renewal point also starts a *)
(* renewal beside the call.                                                *)
LeaseServed(l) ==
    /\ phase[l] = "idle"
    /\ ~closed
    /\ current # None
    /\ \/ age = "valid" /\ UNCHANGED <<flight, started, stage>>
       \/ age = "due" /\ StartOrJoin
    /\ Use(l)
    /\ UNCHANGED <<current, age, closed, err, minted, closeVars>>
    /\ UNCHANGED <<retired, ends, endDone, waits>>

LeaseWaits(l) ==
    /\ phase[l] = "idle"
    /\ ~closed
    /\ current = None \/ age = "expired"
    /\ StartOrJoin
    /\ phase' = [phase EXCEPT ![l] = "waiting"]
    /\ waits' = [waits EXCEPT ![l] = flight']
    /\ UNCHANGED <<current, age, closed, err, minted, closeVars>>
    /\ UNCHANGED <<held, credVars>>

(* The flight is done: its failure, a close since, or what is current now. *)
Woken(l) == phase[l] = "waiting" /\ stage[waits[l]] = "done"

WaitFails(l) ==
    /\ Woken(l)
    /\ err[waits[l]]
    /\ phase' = [phase EXCEPT ![l] = "failed"]
    /\ waits' = [waits EXCEPT ![l] = None]
    /\ UNCHANGED <<held, holderVars, flightVars, closeVars, credVars>>

WaitRefused(l) ==
    /\ Woken(l)
    /\ ~err[waits[l]]
    /\ closed
    /\ phase' = [phase EXCEPT ![l] = "refused"]
    /\ waits' = [waits EXCEPT ![l] = None]
    /\ UNCHANGED <<held, holderVars, flightVars, closeVars, credVars>>

WaitServed(l) ==
    /\ Woken(l)
    /\ ~err[waits[l]]
    /\ ~closed
    /\ Use(l)
    /\ waits' = [waits EXCEPT ![l] = None]
    /\ UNCHANGED <<holderVars, flightVars, closeVars>>
    /\ UNCHANGED <<retired, ends, endDone>>

(* ctx ended first, or the select picked it though the flight was done.    *)
GivesUp(l) ==
    /\ phase[l] = "waiting"
    /\ phase' = [phase EXCEPT ![l] = "gaveup"]
    /\ waits' = [waits EXCEPT ![l] = None]
    /\ UNCHANGED <<held, holderVars, flightVars, closeVars, credVars>>

Release(l) ==
    LET c == held[l] IN
    /\ phase[l] = "using"
    /\ users' = [users EXCEPT ![c] = @ - 1]
    /\ ToEnd(IF LastUse(c) THEN c ELSE None)
    /\ phase' = [phase EXCEPT ![l] = "returned"]
    /\ held' = [held EXCEPT ![l] = None]
    /\ UNCHANGED <<waits, holderVars, flightVars, closeVars, retired, endDone>>

----------------------------------------------------------------------------
(* renew(): the critical section after r.mint(), then close(f.done).       *)

Landing(f) ==
    /\ stage[f] = "minting"
    /\ flight' = None
    /\ stage' = [stage EXCEPT ![f] = "settling"]
    /\ UNCHANGED <<started, closed, closeVars, users, endDone, callVars>>

(* A fresh credential replaces the current one; it may have come so late   *)
(* that it is due or expired already.                                      *)
MintLands(f, a) ==
    /\ Landing(f)
    /\ ~closed
    /\ minted' = minted \cup {f}
    /\ Retire(current)
    /\ ToEnd(Idle(current))
    /\ current' = f
    /\ age' = a
    /\ UNCHANGED err

(* Closed meanwhile: the fresh credential is ended, never held.            *)
MintDiscarded(f) ==
    /\ Landing(f)
    /\ closed
    /\ minted' = minted \cup {f}
    /\ ToEnd(f)
    /\ UNCHANGED <<current, age, err, retired>>

(* The current credential, if it has not expired, serves on.               *)
Serving_NilUnchecked == age # "expired"
Serving == current # None /\ age # "expired"

MintFails(f) ==
    /\ Landing(f)
    /\ err' = [err EXCEPT ![f] = ~Serving]
    /\ UNCHANGED <<current, age, minted, retired, ends>>

Settles_OnSuccess(f) ==
    /\ stage[f] = "settling"
    /\ ~err[f]
    /\ stage' = [stage EXCEPT ![f] = "done"]
    /\ UNCHANGED <<holderVars, err, minted, closeVars, credVars, callVars>>
Settles(f) ==
    /\ stage[f] = "settling"
    /\ stage' = [stage EXCEPT ![f] = "done"]
    /\ UNCHANGED <<holderVars, err, minted, closeVars, credVars, callVars>>

----------------------------------------------------------------------------
(* Close(), and what the holder depends on.                                *)

Close ==
    /\ ~closed
    /\ closed' = TRUE
    /\ Retire(current)
    /\ idle' = Idle(current)
    /\ ToEnd(Idle(current))
    /\ current' = None
    /\ closing' = "ending"
    /\ UNCHANGED <<age, flight, started, flightVars, users, endDone, callVars>>

CloseReturns ==
    /\ closing = "ending"
    /\ idle # None => endDone[idle]
    /\ closing' = "done"
    /\ UNCHANGED <<idle, holderVars, flightVars, credVars, callVars>>

(* end() is called, and returns; it never fails.                           *)
EndReturns(c) ==
    /\ ends[c] > 0
    /\ ~endDone[c]
    /\ endDone' = [endDone EXCEPT ![c] = TRUE]
    /\ UNCHANGED <<holderVars, flightVars, closeVars, users, retired, ends>>
    /\ UNCHANGED callVars

Tick ==
    /\ current # None
    /\ \/ age = "valid" /\ age' = "due"
       \/ age = "due" /\ age' = "expired"
    /\ UNCHANGED <<current, flight, started, closed, flightVars, closeVars>>
    /\ UNCHANGED <<credVars, callVars>>

----------------------------------------------------------------------------

LeaseStep(l) ==
    \/ LeaseRefused(l) \/ LeaseServed(l) \/ LeaseWaits(l)
    \/ WaitFails(l) \/ WaitRefused(l) \/ WaitServed(l) \/ GivesUp(l)
    \/ Release(l)

MintAnswered(f) ==
    (\E a \in Ages : MintLands(f, a)) \/ MintDiscarded(f) \/ MintFails(f)

Next ==
    \/ \E l \in Calls : LeaseStep(l)
    \/ \E f \in Creds : MintAnswered(f) \/ Settles(f) \/ EndReturns(f)
    \/ Close \/ CloseReturns \/ Tick

Spec == Init /\ [][Next]_vars

(* Goroutines that can run do; every RPC has a deadline, so a mint, an end *)
(* and a call come back.  Nothing obliges a caller to lease or close, nor  *)
(* a context to end.                                                       *)
Fairness ==
    /\ \A l \in Calls : /\ WF_vars(WaitFails(l) \/ WaitRefused(l) \/ WaitServed(l))
                        /\ WF_vars(Release(l))
    /\ \A f \in Creds : /\ WF_vars(MintAnswered(f))
                        /\ WF_vars(Settles(f))
                        /\ WF_vars(EndReturns(f))
    /\ WF_vars(CloseReturns)

FairSpec == Spec /\ Fairness

----------------------------------------------------------------------------
(* Properties.                                                             *)

Users(c) == {l \in Calls : phase[l] = "using" /\ held[l] = c}

(* "A credential it has replaced is ended once the last call carrying it   *)
(* has finished" (renewing.go:48): never while a call carries it, and      *)
(* never a credential still leased out.                                    *)
NoEndUnderUse == \A c \in Creds : ends[c] > 0 => Users(c) = {} /\ c # current

(* A renewal, a close and the last Release may meet over one credential:   *)
(* exactly one of them ends it (renewing.go:151, 175).                     *)
EndedOnce == \A c \in Creds : ends[c] <= 1

(* "The service may still issue the credential, and one nobody held could  *)
(* never be ended" (renewing.go:81): every credential minted is current,   *)
(* carried or given to end(), a close in the middle of its mint included.  *)
NothingLeftBehind ==
    /\ \A c \in minted : c = current \/ Users(c) # {} \/ ends[c] = 1
    /\ closed => current = None

(* Lease() reads r.current in a second critical section, whatever happened *)
(* since its flight was done (renewing.go:115): a lease whose flight did   *)
(* not fail finds a credential there, or the holder closed.                *)
NeverNil ==
    \A l \in Calls :
        Woken(l) /\ ~err[waits[l]] => closed \/ current # None

(* "One mint at a time" (renewing.go:49), though a flight leaves r.flight  *)
(* before those who wait for it know.                                      *)
OneMintAtATime ==
    \A f \in Creds : stage[f] = "minting" => flight = f

(* Every lease is answered, and Close() returns.                           *)
LeasesSettle ==
    \A l \in Calls : phase[l] \in {"waiting", "using"}
        ~> phase[l] \in {"returned", "failed", "gaveup", "refused"}
CloseCompletes == closed ~> closing = "done"

----------------------------------------------------------------------------
(* The inductive invariant behind them.                                    *)

(* What the use counts, the marks and the ends say about who carries what. *)
Books ==
    /\ \A c \in Creds : users[c] = Cardinality(Users(c))
    /\ \A c \in Creds :
          ends[c] = IF c \in minted /\ c # current /\ Users(c) = {}
                    THEN 1 ELSE 0
    /\ \A l \in Calls : phase[l] = "using" => held[l] \in minted
    /\ \A c \in Creds : retired[c] => c \in minted /\ c # current
    /\ \A c \in Creds : Users(c) # {} => c = current \/ retired[c]
    /\ current # None => current \in minted
    /\ closed => current = None

(* What the stage of each flight says of r.flight, of its credential and   *)
(* of the leases that wait for it.                                         *)
Flights ==
    /\ \A f \in Creds : f > started => stage[f] = "none"
    /\ \A f \in Creds : stage[f] = "minting" <=> f = flight
    /\ \A f \in minted : stage[f] \in {"settling", "done"}
    /\ \A f \in Creds : stage[f] \in {"settling", "done"} /\ ~err[f]
          => closed \/ current # None
    /\ \A l \in Calls : phase[l] = "waiting" => waits[l] \in Creds

IInv == TypeOK /\ Books /\ Flights

----------------------------------------------------------------------------
(* The promise of Custody.                                                 *)
custodyState ==
    [c \in Creds |-> IF c \notin minted THEN "unminted"
                     ELSE IF c = current THEN "held"
                     ELSE IF ends[c] = 0 THEN "given_up" ELSE "revoked"]

C == INSTANCE Custody
        WITH state <- custodyState, borrowers <- [c \in Creds |-> Users(c)]

KeepsCustody == C!CustodySpec
=============================================================================
