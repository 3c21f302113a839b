------------------------------ MODULE Renewing ------------------------------
(***************************************************************************)
(* The holder of one credential that is minted on first use, renewed at    *)
(* its renewal point and ended once replaced or closed: class Renewing of  *)
(* src/nodejs/src/internal/auth.ts.                                        *)
(*                                                                         *)
(* JavaScript runs one job at a time, so a step here is one job: the code  *)
(* from an entry or an await to the next await.  The continuations of      *)
(* promises settled by a job (microtasks) all run before an answer from    *)
(* the network or a timer can start another job, which is what Quiet says; *)
(* other code of the application may run between them.                     *)
(***************************************************************************)
EXTENDS Naturals, FiniteSets

CONSTANTS
    Calls,      \* the lease() calls made over the life of the holder
    MaxMints    \* bound: how many credentials are minted

ASSUME CallsAssumption == IsFiniteSet(Calls)
ASSUME MaxMintsAssumption == MaxMints \in Nat

Creds == 1 .. MaxMints      \* credentials, numbered as they are minted
None  == 0                  \* JavaScript's undefined

Ages == {"valid", "due", "expired"}

VARIABLES
    current,    \* this.current
    age,        \* where the clock stands against current's renewAt, expiresAt
    minting,    \* whether this.minting holds a promise
    minted,     \* how many credentials have been minted
    closed,     \* this.closed
    closing,    \* how far shut() has come
    idle,       \* shut()'s local: the credential it waits to see ended
    users,      \* Minted.users, of each credential
    retired,    \* Minted.retired, of each credential
    ends,       \* how many times end() was called, for each credential
    endDone,    \* whether a call of end() has settled, for each credential
    phase,      \* how far each lease() has come
    held        \* lease()'s local: the credential the call uses or was given

holderVars == <<current, age, minting, minted, closed, closing, idle>>
credVars   == <<users, retired, ends, endDone>>
callVars   == <<phase, held>>
vars       == <<holderVars, credVars, callVars>>

Phases == {"idle", "waiting", "resuming", "using",
           "returned", "failed", "timedout", "refused"}

TypeOK ==
    /\ current \in Creds \cup {None}
    /\ age \in Ages
    /\ minting \in BOOLEAN
    /\ minted \in 0 .. MaxMints
    /\ closed \in BOOLEAN
    /\ closing \in {"open", "minting", "ending", "done"}
    /\ idle \in Creds \cup {None}
    /\ users \in [Creds -> Nat]
    /\ retired \in [Creds -> BOOLEAN]
    /\ ends \in [Creds -> Nat]
    /\ endDone \in [Creds -> BOOLEAN]
    /\ phase \in [Calls -> Phases]
    /\ held \in [Calls -> Creds \cup {None}]

Init ==
    /\ current = None
    /\ age = "valid"
    /\ minting = FALSE
    /\ minted = 0
    /\ closed = FALSE
    /\ closing = "open"
    /\ idle = None
    /\ users = [c \in Creds |-> 0]
    /\ retired = [c \in Creds |-> FALSE]
    /\ ends = [c \in Creds |-> 0]
    /\ endDone = [c \in Creds |-> FALSE]
    /\ phase = [l \in Calls |-> "idle"]
    /\ held = [l \in Calls |-> None]

----------------------------------------------------------------------------
(* Helpers.                                                                *)

(* No continuation of a settled mint is still to run.                      *)
Quiet == \A l \in Calls : phase[l] # "resuming"

(* There is nothing to lease: none minted yet, or the current one expired. *)
MustWait == current = None \/ age = "expired"

(* this.minting ??= this.renew(): joins the mint in flight or starts one.  *)
StartOrJoinMint ==
    /\ minting \/ minted < MaxMints
    /\ minting' = TRUE

(* retire(): marks the credential, and says whether it is to be ended now. *)
Retire(c) ==
    retired' = IF c = None THEN retired ELSE [retired EXCEPT ![c] = TRUE]
IdleAtRetirement_Uncounted(c) == c # None
IdleAtRetirement(c) == c # None /\ users[c] = 0

(* lease()'s finally lets go of the last use of a retired credential.      *)
LastUse(c) == retired[c] /\ users[c] = 1

(* What a fresh credential replaces: renew() retires it first.             *)
Stale == current

(* What shut() waits for before it retires what is held.                   *)
MintToAwait == minting

(* The call of end(), for the credential if there is one.                  *)
CallEnd_Forgotten(c) == ends' = ends
CallEnd(c) == ends' = IF c = None THEN ends ELSE [ends EXCEPT ![c] = @ + 1]

(* The leases awaiting the mint, settled with what the mint settled with.  *)
SettleWaiters_Swallowed(to, cred) ==
    IF to = "failed" THEN UNCHANGED <<phase, held>>
    ELSE /\ phase' = [l \in Calls |->
                         IF phase[l] = "waiting" THEN to ELSE phase[l]]
         /\ held' = [l \in Calls |->
                         IF phase[l] = "waiting" THEN cred ELSE held[l]]
SettleWaiters(to, cred) ==
    /\ phase' = [l \in Calls |->
                    IF phase[l] = "waiting" THEN to ELSE phase[l]]
    /\ held' = [l \in Calls |->
                    IF phase[l] = "waiting" THEN cred ELSE held[l]]

(* The part of lease() that counts the call and starts it.                 *)
StartUse_Uncounted(l, c) ==
    /\ UNCHANGED users
    /\ phase' = [phase EXCEPT ![l] = "using"]
    /\ held' = [held EXCEPT ![l] = c]
StartUse(l, c) ==
    /\ users' = [users EXCEPT ![c] = @ + 1]
    /\ phase' = [phase EXCEPT ![l] = "using"]
    /\ held' = [held EXCEPT ![l] = c]

----------------------------------------------------------------------------
(* lease(), up to its first await: one disjunct per way through it.        *)

LeaseRefused(l) ==
    /\ phase[l] = "idle"
    /\ closed
    /\ phase' = [phase EXCEPT ![l] = "refused"]
    /\ UNCHANGED <<held, holderVars, credVars>>

LeaseValid(l) ==
    /\ phase[l] = "idle"
    /\ ~closed
    /\ current # None
    /\ age = "valid"
    /\ StartUse(l, current)
    /\ UNCHANGED <<holderVars, retired, ends, endDone>>

(* Due but not expired: the renewal runs beside the call.                  *)
LeaseDue(l) ==
    /\ phase[l] = "idle"
    /\ ~closed
    /\ current # None
    /\ age = "due"
    /\ StartOrJoinMint
    /\ StartUse(l, current)
    /\ UNCHANGED <<current, age, minted, closed, closing, idle>>
    /\ UNCHANGED <<retired, ends, endDone>>

LeaseWaits(l) ==
    /\ phase[l] = "idle"
    /\ ~closed
    /\ MustWait
    /\ StartOrJoinMint
    /\ phase' = [phase EXCEPT ![l] = "waiting"]
    /\ UNCHANGED <<current, age, minted, closed, closing, idle>>
    /\ UNCHANGED <<held, credVars>>

(* lease() resumed with the credential of the mint it waited on.           *)
Resume(l) ==
    /\ phase[l] = "resuming"
    /\ ~retired[held[l]]
    /\ StartUse(l, held[l])
    /\ UNCHANGED <<holderVars, retired, ends, endDone>>

ResumeRetired(l) ==
    /\ phase[l] = "resuming"
    /\ retired[held[l]]
    /\ phase' = [phase EXCEPT ![l] = "refused"]
    /\ held' = [held EXCEPT ![l] = None]
    /\ UNCHANGED <<holderVars, credVars>>

(* within(): the caller's deadline passed first; the mint goes on.         *)
TimesOut(l) ==
    /\ phase[l] = "waiting"
    /\ Quiet
    /\ phase' = [phase EXCEPT ![l] = "timedout"]
    /\ UNCHANGED <<held, holderVars, credVars>>

(* The call settled, and lease()'s finally: the last use of a retired      *)
(* credential ends it.                                                     *)
Finish(l) ==
    LET c == held[l] IN
    /\ phase[l] = "using"
    /\ users' = [users EXCEPT ![c] = @ - 1]
    /\ CallEnd(IF LastUse(c) THEN c ELSE None)
    /\ phase' = [phase EXCEPT ![l] = "returned"]
    /\ held' = [held EXCEPT ![l] = None]
    /\ UNCHANGED <<holderVars, retired, endDone>>

----------------------------------------------------------------------------
(* renew(), from the answer of mint() on.                                  *)

(* A fresh credential may arrive already due, or even expired: its         *)
(* lifetime counts from before it was asked for.                           *)
MintLands(a) ==
    LET fresh == minted + 1 IN
    /\ minting
    /\ Quiet
    /\ minted < MaxMints
    /\ Retire(Stale)
    /\ CallEnd(IF IdleAtRetirement(Stale) THEN Stale ELSE None)
    /\ current' = fresh
    /\ age' = a
    /\ minted' = fresh
    /\ minting' = FALSE
    /\ SettleWaiters("resuming", fresh)
    /\ UNCHANGED <<closed, closing, idle, users, endDone>>

(* Nothing to fall back on: every lease waiting on the mint fails with it. *)
MintFails ==
    /\ minting
    /\ current = None \/ age = "expired"
    /\ minting' = FALSE
    /\ SettleWaiters("failed", None)
    /\ UNCHANGED <<current, age, minted, closed, closing, idle, credVars>>

(* The current credential still works: it is what the mint settles with.   *)
MintFallsBack ==
    /\ minting
    /\ current # None
    /\ age # "expired"
    /\ minting' = FALSE
    /\ SettleWaiters("resuming", current)
    /\ UNCHANGED <<current, age, minted, closed, closing, idle, credVars>>

----------------------------------------------------------------------------
(* close() and shut().                                                     *)

(* shut() once no mint is in flight: retire what is held and end it.       *)
Shut ==
    LET out == IF IdleAtRetirement(current) THEN current ELSE None IN
    /\ Retire(current)
    /\ CallEnd(out)
    /\ idle' = out
    /\ current' = None
    /\ closing' = "ending"

Close ==
    /\ closing = "open"
    /\ closed' = TRUE
    /\ \/ /\ MintToAwait
          /\ closing' = "minting"
          /\ UNCHANGED <<current, idle, retired, ends>>
       \/ ~MintToAwait /\ Shut
    /\ UNCHANGED <<age, minting, minted, users, endDone, callVars>>

(* shut() resumed by the mint it waited on: behind the leases that waited  *)
(* on it, all of which began to wait before the holder was closed.         *)
ShutResumes ==
    /\ closing = "minting"
    /\ ~minting
    /\ Quiet
    /\ Shut
    /\ UNCHANGED <<age, minting, minted, closed, users, endDone, callVars>>

CloseReturns ==
    /\ closing = "ending"
    /\ idle # None => endDone[idle]
    /\ closing' = "done"
    /\ UNCHANGED <<current, age, minting, minted, closed, idle>>
    /\ UNCHANGED <<credVars, callVars>>

----------------------------------------------------------------------------
(* What the holder depends on.                                             *)

(* end() settles; it never rejects.                                        *)
EndSettles(c) ==
    /\ ends[c] > 0
    /\ ~endDone[c]
    /\ endDone' = [endDone EXCEPT ![c] = TRUE]
    /\ UNCHANGED <<holderVars, users, retired, ends, callVars>>

(* The monotonic clock passes the current credential's renewal point, then *)
(* its expiry.                                                             *)
Tick ==
    /\ current # None
    /\ \/ age = "valid" /\ age' = "due"
       \/ age = "due" /\ age' = "expired"
    /\ UNCHANGED <<current, minting, minted, closed, closing, idle>>
    /\ UNCHANGED <<credVars, callVars>>

----------------------------------------------------------------------------

LeaseStep(l) ==
    \/ LeaseRefused(l) \/ LeaseValid(l) \/ LeaseDue(l) \/ LeaseWaits(l)
    \/ Resume(l) \/ ResumeRetired(l) \/ TimesOut(l) \/ Finish(l)

MintSettles == (\E a \in Ages : MintLands(a)) \/ MintFails \/ MintFallsBack

Next ==
    \/ \E l \in Calls : LeaseStep(l)
    \/ MintSettles
    \/ Close \/ ShutResumes \/ CloseReturns
    \/ \E c \in Creds : EndSettles(c)
    \/ Tick

Spec == Init /\ [][Next]_vars

(* Microtasks always run; every RPC carries a deadline, so a mint, an end  *)
(* and a call settle.  Nothing obliges the application to lease or close,  *)
(* nor a deadline to pass before the mint settles.                         *)
Fairness ==
    /\ \A l \in Calls : /\ WF_vars(Resume(l) \/ ResumeRetired(l))
                        /\ WF_vars(Finish(l))
    /\ WF_vars(MintSettles)
    /\ WF_vars(ShutResumes)
    /\ WF_vars(CloseReturns)
    /\ \A c \in Creds : WF_vars(EndSettles(c))

FairSpec == Spec /\ Fairness

----------------------------------------------------------------------------
(* Properties.                                                             *)

Users(c) == {l \in Calls : phase[l] = "using" /\ held[l] = c}

(* "A renewal never revokes a key under a call still in flight" (auth.ts   *)
(* :257): once end() has been called for a credential, no call carries it  *)
(* or is about to.                                                         *)
NoEndUnderUse ==
    \A c \in Creds : ends[c] > 0 => Users(c) = {} /\ retired[c]

(* "Exactly one party ends each credential" (auth.ts:180): the retirer or  *)
(* the last lease, never both, however renewals, closes and calls meet.    *)
EndedOnce == \A c \in Creds : ends[c] <= 1

(* "No replaced key is left live once its calls are done" (auth.ts:258),   *)
(* and "the credential it produces is ended too rather than left live"     *)
(* (auth.ts:357): a credential not current is ended or still carried, and  *)
(* once close() has returned that is every credential ever minted.         *)
NothingLeftBehind ==
    /\ \A c \in 1 .. minted :
          c # current => ends[c] = 1 \/ Users(c) # {}
    /\ closing = "done" => current = None /\ ~minting

(* "Nothing else retires a credential that fresh" (auth.ts:336): a lease   *)
(* is told its session is closed only when close() was called.             *)
RefusedOnlyIfClosed == \A l \in Calls : phase[l] = "refused" => closed

(* A lease waits only while it has no credential to use, so the fallback   *)
(* of a failed renewal is never what it resumes with: "only a lease with   *)
(* no credential to use waits on the mint" (auth.ts:250).                  *)
WaitersHaveNothing ==
    \A l \in Calls : phase[l] = "waiting"
        => minting /\ (current = None \/ age = "expired")

(* Every lease is answered: no lease waits for ever on a mint another      *)
(* lease joined, a close overtook or a failure ended.                      *)
LeasesSettle ==
    \A l \in Calls : phase[l] \in {"waiting", "resuming", "using"}
        ~> phase[l] \in {"returned", "failed", "timedout", "refused"}

(* close() returns, a mint in flight or not: neither waits for the other.  *)
CloseCompletes == closed ~> closing = "done"

----------------------------------------------------------------------------
(* The inductive invariant behind the four: what each piece of the        *)
(* holder's bookkeeping says about the others.                             *)
Bookkeeping ==
    /\ \A c \in Creds : users[c] = Cardinality(Users(c))
    /\ \A c \in Creds : retired[c] <=> c <= minted /\ c # current
    /\ \A c \in Creds :
          ends[c] = IF retired[c] /\ Users(c) = {} THEN 1 ELSE 0
    /\ current <= minted
    /\ \A l \in Calls : phase[l] \in {"using", "resuming"}
          => held[l] \in 1 .. minted
    /\ \A l \in Calls : phase[l] = "resuming"
          => held[l] = current \/ closed
    /\ minting => minted < MaxMints
    /\ closed <=> closing # "open"
    /\ closing \in {"ending", "done"} => current = None /\ ~minting

IInv == TypeOK /\ Bookkeeping /\ WaitersHaveNothing /\ RefusedOnlyIfClosed

----------------------------------------------------------------------------
(* The promise of Custody, kept: a credential is held until retired, given *)
(* up until end() is called, revoked from then on.                         *)
custodyState ==
    [c \in Creds |-> IF c > minted THEN "unminted"
                     ELSE IF ~retired[c] THEN "held"
                     ELSE IF ends[c] = 0 THEN "given_up" ELSE "revoked"]

C == INSTANCE Custody
        WITH state <- custodyState, borrowers <- [c \in Creds |-> Users(c)]

KeepsCustody == C!CustodySpec
=============================================================================
