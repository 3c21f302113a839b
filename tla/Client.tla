------------------------------- MODULE Client -------------------------------
(***************************************************************************)
(* One client of src/nodejs/src/client.ts: the calls it counts as in       *)
(* flight, the impersonation keys of its sessions, the registry that       *)
(* remembers every key until it is ended, and close().                     *)
(*                                                                         *)
(* Each session's credential is a holder of the kind Renewing.tla models   *)
(* one job at a time; here a mint that lands serves its waiting calls in   *)
(* the same step.  An RPC under the client's own credential is one step to *)
(* send and one to answer: waiting for the client's token is part of being *)
(* in flight.                                                              *)
(***************************************************************************)
EXTENDS Naturals, FiniteSets

CONSTANTS
    Sessions,       \* the sessions opened with an externalId
    Calls,          \* the calls the application makes
    SessionOf,      \* the session each call is made for, or Own
    Own,            \* a call under the client's own credential
    UserOf,         \* the external user each session acts as
    Collectable,    \* the sessions the application may let be collected
    MaxKeys,        \* bound: how many keys the service mints
    ApiClient,      \* whether the client exchanges credentials for a token
    SkewedClock     \* whether a key may arrive expired by the local clock

ASSUME CallsAssumption == IsFiniteSet(Calls) /\ IsFiniteSet(Sessions)
ASSUME BoundAssumption == MaxKeys \in Nat
ASSUME ScopeAssumption == Own \notin Sessions /\
                          SessionOf \in [Calls -> Sessions \cup {Own}]
ASSUME CollectableAssumption == Collectable \subseteq Sessions
ASSUME KindAssumption == ApiClient \in BOOLEAN /\ SkewedClock \in BOOLEAN

Keys == 1 .. MaxKeys        \* keys, numbered as they are minted
None == 0
Ages == {"valid", "due", "expired"}

VARIABLES
    closed,     \* Memco.closed
    stage,      \* how far shutdown() has come
    inflight,   \* Memco.inflight; a counted call made inside another is one
    sweep,      \* endLive()'s keys still to end, the lowest being sent
    warned,     \* the keys close() gave up on, by its warning
    live,       \* Memco.live, by key id
    pending,    \* the live keys whose ending is defined
    failed,     \* the live keys whose endFailed is set
    dropped,    \* Memco.dropped
    token,      \* the client's own token
    issuing,    \* whether IssueToken is in flight
    minted,     \* how many keys the service has minted
    owner,      \* the session each key was minted for
    age,        \* each key against its renewal point and expiry, locally
    retired,    \* Minted.retired
    ending,     \* EndImpersonation calls of sendEnd() in flight, per key
    alive,      \* the keys the service would accept
    current,    \* each session's Renewing.current
    mint,       \* how far the mint of each session has come
    awaits,     \* the ends the mint of each session waits for
    fresh,      \* the key the mint of each session was answered with
    shut,       \* how far each session's close() has come
    gone,       \* the sessions collected, closed or not
    phase,      \* how far each call has come
    carries     \* the key each call was sent under

clientVars  == <<closed, stage, inflight, sweep, warned, dropped>>
regVars     == <<live, pending, failed>>
tokenVars   == <<token, issuing>>
keyVars     == <<minted, owner, age, retired, ending, alive>>
sessionVars == <<current, mint, awaits, fresh, shut, gone>>
callVars    == <<phase, carries>>
vars == <<clientVars, regVars, tokenVars, keyVars, sessionVars, callVars>>

TypeOK ==
    /\ closed \in BOOLEAN
    /\ stage \in {"open", "draining", "sweeping", "closed"}
    /\ inflight \in Nat
    /\ sweep \subseteq Keys /\ warned \subseteq Keys
    /\ live \subseteq Keys /\ pending \subseteq live /\ failed \subseteq live
    /\ dropped \subseteq Sessions
    /\ token \in {"none"} \cup Ages /\ issuing \in BOOLEAN
    /\ minted \in 0 .. MaxKeys
    /\ owner \in [Keys -> Sessions \cup {Own}]
    /\ age \in [Keys -> Ages]
    /\ retired \subseteq Keys
    /\ ending \in [Keys -> Nat]
    /\ alive \subseteq Keys
    /\ current \in [Sessions -> Keys \cup {None}]
    /\ mint \in [Sessions -> {"no", "ends", "sent", "landed", "refusing"}]
    /\ awaits \in [Sessions -> SUBSET Keys]
    /\ fresh \in [Sessions -> Keys \cup {None}]
    /\ shut \in [Sessions -> {"open", "minting", "done"}]
    /\ gone \subseteq Sessions
    /\ phase \in [Calls -> {"idle", "waiting", "sent",
                            "done", "rejected", "cutoff"}]
    /\ carries \in [Calls -> Keys \cup {None}]

Init ==
    /\ closed = FALSE /\ stage = "open" /\ inflight = 0
    /\ sweep = {} /\ warned = {}
    /\ live = {} /\ pending = {} /\ failed = {} /\ dropped = {}
    /\ token = IF ApiClient THEN "none" ELSE "valid"
    /\ issuing = FALSE
    /\ minted = 0
    /\ owner = [k \in Keys |-> Own]
    /\ age = [k \in Keys |-> "valid"]
    /\ retired = {}
    /\ ending = [k \in Keys |-> 0]
    /\ alive = {}
    /\ current = [s \in Sessions |-> None]
    /\ mint = [s \in Sessions |-> "no"]
    /\ awaits = [s \in Sessions |-> {}]
    /\ fresh = [s \in Sessions |-> None]
    /\ shut = [s \in Sessions |-> "open"]
    /\ gone = {}
    /\ phase = [m \in Calls |-> "idle"]
    /\ carries = [m \in Calls |-> None]

----------------------------------------------------------------------------
(* The holders, the registry and the in-flight count.                      *)

Carriers(k) == {m \in Calls : phase[m] = "sent" /\ carries[m] = k}
Waiters(s)  == {m \in Calls : phase[m] = "waiting" /\ SessionOf[m] = s}

(* A lease of the client's own credential: one that is missing, due or     *)
(* expired starts the exchange, or joins the one in flight.                *)
LeaseOwn(wanted) == issuing' = (issuing \/ (wanted /\ token # "valid"))

(* counted(): what opens a window and finish() closes one in this step.    *)
Count(opened, finished) == inflight' = (inflight + opened) - finished

(* endDropped(): the keys of the sessions collected since the last call.   *)
DroppedKeys == {k \in live : owner[k] \in dropped}

(* The first part of mintKey(): expired keys leave the registry, and the   *)
(* user's keys being ended, or whose end failed, are to be ended first.    *)
Unexpired == {k \in live : age[k] # "expired"}
ToEndFirst(s) ==
    {k \in Unexpired : /\ UserOf[owner[k]] = UserOf[s]
                       /\ k \in pending \cup failed \cup DroppedKeys}

(* endKey() of every key of E, where L is what the registry then holds and *)
(* sends says whether the step makes another RPC through call().  An end   *)
(* in flight is shared; a closing client refuses to send any; and any RPC, *)
(* an end among them, first ends the keys of dropped sessions.             *)
Sends(E, sends) == ~closed /\ (sends \/ E \ pending # {})
Started_Unshared(E, sends) ==
    IF Sends(E, sends) THEN E \cup DroppedKeys ELSE {}
Started(E, sends) ==
    IF Sends(E, sends) THEN (E \cup DroppedKeys) \ pending ELSE {}
EndKeys_Unpruned(E, L, sends) ==
    /\ ending' = [k \in Keys |-> IF k \in Started(E, sends)
                                 THEN ending[k] + 1 ELSE ending[k]]
    /\ pending' = pending \cup Started(E, sends)
    /\ dropped' = IF Sends(E, sends) THEN {} ELSE dropped
EndKeys(E, L, sends) ==
    /\ ending' = [k \in Keys |-> IF k \in Started(E, sends)
                                 THEN ending[k] + 1 ELSE ending[k]]
    /\ pending' = (pending \cup Started(E, sends)) \cap L
    /\ dropped' = IF Sends(E, sends) THEN {} ELSE dropped

(* What a retirement ends at once: the key, if nothing carries it.         *)
EndOnRetiring_InUse(k) == IF k # None THEN {k} ELSE {}
EndOnRetiring(k) == IF k # None /\ Carriers(k) = {} THEN {k} ELSE {}

(* What the end of a call ends: the retired key it was the last to carry.  *)
EndOnLastUse_Never(m) == {}
EndOnLastUse(m) ==
    {k \in retired : k = carries[m] /\ Carriers(k) = {m}}

----------------------------------------------------------------------------
(* call(): one disjunct for each way into it.                              *)

Idle(m) == phase[m] = "idle" /\ SessionOf[m] \notin gone

CallRejected(m) ==
    /\ Idle(m)
    /\ closed
    /\ phase' = [phase EXCEPT ![m] = "rejected"]
    /\ UNCHANGED <<carries, clientVars, regVars, tokenVars, keyVars, sessionVars>>

(* A call under the client's own credential.                               *)
OwnCall(m) ==
    /\ Idle(m)
    /\ ~closed
    /\ SessionOf[m] = Own
    /\ phase' = [phase EXCEPT ![m] = "sent"]
    /\ EndKeys({}, live, TRUE)
    /\ LeaseOwn(TRUE)
    /\ Count(1 + Cardinality(Started({}, TRUE)), 0)
    /\ UNCHANGED <<carries, closed, stage, sweep, warned, live, failed, token>>
    /\ UNCHANGED <<minted, owner, age, retired, alive, sessionVars>>

(* connect() with an API client's credentials: a counted lease, no RPC.    *)
Connect(m) ==
    /\ Idle(m)
    /\ ~closed
    /\ SessionOf[m] = Own /\ ApiClient
    /\ phase' = [phase EXCEPT ![m] = "sent"]
    /\ LeaseOwn(TRUE)
    /\ Count(1, 0)
    /\ UNCHANGED <<carries, closed, stage, sweep, warned, dropped, regVars, token>>
    /\ UNCHANGED <<keyVars, sessionVars>>

(* The session's holder is closed: only the dropped keys are seen to.      *)
CallOnClosed(m) ==
    /\ Idle(m)
    /\ ~closed
    /\ SessionOf[m] # Own /\ shut[SessionOf[m]] # "open"
    /\ phase' = [phase EXCEPT ![m] = "rejected"]
    /\ EndKeys({}, live, TRUE)
    /\ LeaseOwn(Started({}, TRUE) # {})
    /\ Count(Cardinality(Started({}, TRUE)), 0)
    /\ UNCHANGED <<carries, closed, stage, sweep, warned, live, failed, token>>
    /\ UNCHANGED <<minted, owner, age, retired, alive, sessionVars>>

Carry(m, k) ==
    /\ phase' = [phase EXCEPT ![m] = "sent"]
    /\ carries' = [carries EXCEPT ![m] = k]
Wait(m) == phase' = [phase EXCEPT ![m] = "waiting"] /\ UNCHANGED carries

HasKey(s, ages) == current[s] # None /\ age[current[s]] \in ages

(* The mint the call joins is running, or the call needs none.             *)
CallJoins(m) ==
    LET s == SessionOf[m] IN
    /\ Idle(m)
    /\ ~closed
    /\ s # Own /\ shut[s] = "open"
    /\ \/ HasKey(s, {"valid"}) /\ Carry(m, current[s])
       \/ mint[s] # "no" /\ HasKey(s, {"due"}) /\ Carry(m, current[s])
       \/ mint[s] # "no" /\ ~HasKey(s, {"valid", "due"}) /\ Wait(m)
    /\ EndKeys({}, live, TRUE)
    /\ LeaseOwn(Started({}, TRUE) # {})
    /\ Count(1 + Cardinality(Started({}, TRUE)), 0)
    /\ UNCHANGED <<closed, stage, sweep, warned, live, failed, token>>
    /\ UNCHANGED <<minted, owner, age, retired, alive, sessionVars>>

Minting == {s \in Sessions : mint[s] \in {"ends", "sent"}}

(* The call starts a mint, beside it or in front of it: mintKey(), up to   *)
(* its first await.                                                        *)
CallMints(m) ==
    LET s == SessionOf[m] IN
    /\ Idle(m)
    /\ ~closed
    /\ s # Own /\ shut[s] = "open"
    /\ mint[s] = "no"
    /\ minted + Cardinality(Minting) < MaxKeys
    /\ \/ HasKey(s, {"due"}) /\ Carry(m, current[s])
       \/ ~HasKey(s, {"valid", "due"}) /\ Wait(m)
    /\ live' = Unexpired
    /\ failed' = failed \cap Unexpired
    /\ EndKeys(ToEndFirst(s), Unexpired, TRUE)
    /\ LeaseOwn(Started(ToEndFirst(s), TRUE) # {})
    /\ Count(2 + Cardinality(Started(ToEndFirst(s), TRUE)), 0)
    /\ mint' = [mint EXCEPT ![s] = "ends"]
    /\ awaits' = [awaits EXCEPT ![s] = ToEndFirst(s)]
    /\ UNCHANGED <<closed, stage, sweep, warned, token>>
    /\ UNCHANGED <<minted, owner, age, retired, alive>>
    /\ UNCHANGED <<current, fresh, shut, gone>>

(* The call is answered, or failed: the last use of a retired key ends it  *)
(* before the call leaves the in-flight count.                             *)
CallSettles(m) ==
    LET E == EndOnLastUse(m) IN
    /\ phase[m] = "sent"
    /\ phase' = [phase EXCEPT ![m] = "done"]
    /\ carries' = [carries EXCEPT ![m] = None]
    /\ EndKeys(E, live, FALSE)
    /\ LeaseOwn(Started(E, FALSE) # {})
    /\ Count(Cardinality(Started(E, FALSE)), 1)
    /\ UNCHANGED <<closed, stage, sweep, warned, live, failed, token>>
    /\ UNCHANGED <<minted, owner, age, retired, alive, sessionVars>>

(* The call's deadline passed while it waited for a key.                   *)
CallTimesOut_NoFinally(m) ==
    /\ phase[m] = "waiting"
    /\ mint[SessionOf[m]] # "landed"
    /\ phase' = [phase EXCEPT ![m] = "done"]
    /\ UNCHANGED <<carries, clientVars, regVars, tokenVars, keyVars, sessionVars>>
CallTimesOut(m) ==
    /\ phase[m] = "waiting"
    /\ mint[SessionOf[m]] # "landed"
    /\ phase' = [phase EXCEPT ![m] = "done"]
    /\ Count(0, 1)
    /\ UNCHANGED <<carries, closed, stage, sweep, warned, dropped>>
    /\ UNCHANGED <<regVars, tokenVars, keyVars, sessionVars>>

----------------------------------------------------------------------------
(* mintKey(), from the ends it waits for to the holder's renew().          *)

(* The mint rejects; the calls waiting on it reject with it.               *)
MintOver(s, to) ==
    /\ mint' = [mint EXCEPT ![s] = "no"]
    /\ fresh' = [fresh EXCEPT ![s] = None]
    /\ phase' = [m \in Calls |-> IF m \in Waiters(s) THEN to ELSE phase[m]]
    /\ Count(0, 1 + Cardinality(Waiters(s)))
    /\ UNCHANGED <<carries, current, awaits, shut, gone>>

(* ImpersonateExternalUser, through call(): refused once the client is     *)
(* closed, although the mint and the calls waiting on it began before.     *)
MintAsks(s) ==
    /\ mint[s] = "ends"
    /\ awaits[s] = {}
    /\ ~closed
    /\ mint' = [mint EXCEPT ![s] = "sent"]
    /\ EndKeys({}, live, TRUE)
    /\ LeaseOwn(TRUE)
    /\ Count(Cardinality(Started({}, TRUE)), 0)
    /\ UNCHANGED <<closed, stage, sweep, warned, live, failed, token>>
    /\ UNCHANGED <<minted, owner, age, retired, alive, callVars>>
    /\ UNCHANGED <<current, awaits, fresh, shut, gone>>

MintCutOff(s) ==
    /\ mint[s] = "ends"
    /\ awaits[s] = {}
    /\ closed
    /\ MintOver(s, "cutoff")
    /\ UNCHANGED <<closed, stage, sweep, warned, dropped>>
    /\ UNCHANGED <<regVars, tokenVars, keyVars>>

(* Refused, failed or not answered in time: no key the client knows of.    *)
MintRefused(s) ==
    /\ mint[s] = "sent"
    /\ MintOver(s, "done")
    /\ UNCHANGED <<closed, stage, sweep, warned, dropped>>
    /\ UNCHANGED <<regVars, tokenVars, keyVars>>

(* The service mints a key and its answer arrives.                         *)
Minted(s, k, a) ==
    /\ token # "none"
    /\ k = minted + 1
    /\ k \in Keys
    /\ minted' = k
    /\ owner' = [owner EXCEPT ![k] = s]
    /\ age' = [age EXCEPT ![k] = a]
    /\ alive' = alive \cup {k}
    /\ UNCHANGED retired

(* register(), inside the window of the call that minted the key.          *)
MintAnswered(s, k, a) ==
    /\ mint[s] = "sent"
    /\ Minted(s, k, a)
    /\ live' = live \cup {k}
    /\ mint' = [mint EXCEPT ![s] = "landed"]
    /\ fresh' = [fresh EXCEPT ![s] = k]
    /\ Count(0, 1)
    /\ UNCHANGED <<closed, stage, sweep, warned, dropped, pending, failed>>
    /\ UNCHANGED <<tokenVars, ending, callVars, current, awaits, shut, gone>>

(* No expiresIn, and expired by the wall clock: ended without having been  *)
(* registered, unless the client is closing, which refuses the end.        *)
MintSkewed(s, k) ==
    /\ SkewedClock
    /\ mint[s] = "sent"
    /\ Minted(s, k, "expired")
    /\ \/ /\ closed
          /\ MintOver(s, "done")
          /\ UNCHANGED <<ending, regVars, dropped, tokenVars>>
       \/ /\ ~closed
          /\ EndKeys({k}, live, FALSE)
          /\ LeaseOwn(Started({k}, FALSE) # {})
          /\ Count(Cardinality(Started({k}, FALSE)), 0)
          /\ mint' = [mint EXCEPT ![s] = "refusing"]
          /\ fresh' = [fresh EXCEPT ![s] = k]
          /\ UNCHANGED <<live, failed, token, callVars>>
          /\ UNCHANGED <<current, awaits, shut, gone>>
    /\ UNCHANGED <<closed, stage, sweep, warned>>

MintRefusesKey(s) ==
    /\ mint[s] = "refusing"
    /\ ending[fresh[s]] = 0
    /\ MintOver(s, "done")
    /\ UNCHANGED <<closed, stage, sweep, warned, dropped>>
    /\ UNCHANGED <<regVars, tokenVars, keyVars>>

(* renew() goes on: the fresh key replaces the current one.                *)
MintLands(s) ==
    LET E == EndOnRetiring(current[s]) IN
    /\ mint[s] = "landed"
    /\ mint' = [mint EXCEPT ![s] = "no"]
    /\ fresh' = [fresh EXCEPT ![s] = None]
    /\ current' = [current EXCEPT ![s] = fresh[s]]
    /\ retired' = retired \cup ({current[s]} \ {None})
    /\ phase' = [m \in Calls |-> IF m \in Waiters(s) THEN "sent" ELSE phase[m]]
    /\ carries' = [m \in Calls |->
                      IF m \in Waiters(s) THEN fresh[s] ELSE carries[m]]
    /\ EndKeys(E, live, FALSE)
    /\ LeaseOwn(Started(E, FALSE) # {})
    /\ Count(Cardinality(Started(E, FALSE)), 0)
    /\ UNCHANGED <<closed, stage, sweep, warned, live, failed, token>>
    /\ UNCHANGED <<minted, owner, age, alive, awaits, shut, gone>>

----------------------------------------------------------------------------
(* sendEnd(), from its answer on.                                          *)

(* Whatever became of the end, the mints waiting for it go on.             *)
EndOver_Unsettled(k) ==
    /\ ending[k] > 0
    /\ ending' = [ending EXCEPT ![k] = @ - 1]
    /\ Count(0, 1)
    /\ UNCHANGED <<closed, stage, sweep, warned, dropped, tokenVars>>
    /\ UNCHANGED <<minted, owner, age, retired, callVars, sessionVars>>
EndOver(k) ==
    /\ ending[k] > 0
    /\ ending' = [ending EXCEPT ![k] = @ - 1]
    /\ awaits' = [s \in Sessions |-> awaits[s] \ {k}]
    /\ Count(0, 1)
    /\ UNCHANGED <<closed, stage, sweep, warned, dropped, tokenVars>>
    /\ UNCHANGED <<minted, owner, age, retired, callVars>>
    /\ UNCHANGED <<current, mint, fresh, shut, gone>>

(* Ended, or NOT_FOUND: the registry forgets the key.                      *)
EndSucceeds(k) ==
    /\ EndOver(k)
    /\ token # "none"
    /\ alive' = alive \ {k}
    /\ live' = live \ {k}
    /\ pending' = pending \ {k}
    /\ failed' = failed \ {k}

(* Failed, the service having ended the key or not.                        *)
EndFails_Forgets(k) ==
    /\ EndOver(k)
    /\ alive' \in {alive, alive \ {k}}
    /\ live' = live \ {k}
    /\ pending' = pending \ {k}
    /\ failed' = failed \ {k}
EndFails(k) ==
    /\ EndOver(k)
    /\ alive' \in {alive, alive \ {k}}
    /\ pending' = pending \ {k}
    /\ failed' = failed \cup ({k} \cap live)
    /\ UNCHANGED live

----------------------------------------------------------------------------
(* The sessions: close(), and loss without it.                             *)

Shut(s) ==
    LET E == EndOnRetiring(current[s]) IN
    /\ shut' = [shut EXCEPT ![s] = "done"]
    /\ current' = [current EXCEPT ![s] = None]
    /\ retired' = retired \cup ({current[s]} \ {None})
    /\ EndKeys(E, live, FALSE)
    /\ LeaseOwn(Started(E, FALSE) # {})
    /\ Count(Cardinality(Started(E, FALSE)), 0)
    /\ UNCHANGED <<live, failed, token>>

SessionCloses(s) ==
    /\ shut[s] = "open"
    /\ s \notin gone
    /\ \/ mint[s] = "no" /\ Shut(s)
       \/ /\ mint[s] # "no"
          /\ shut' = [shut EXCEPT ![s] = "minting"]
          /\ UNCHANGED <<current, retired, ending, inflight, dropped>>
          /\ UNCHANGED <<regVars, tokenVars>>
    /\ UNCHANGED <<closed, stage, sweep, warned, minted, owner, age, alive>>
    /\ UNCHANGED <<mint, awaits, fresh, gone, callVars>>

SessionShuts(s) ==
    /\ shut[s] = "minting"
    /\ mint[s] = "no"
    /\ Shut(s)
    /\ UNCHANGED <<closed, stage, sweep, warned, minted, owner, age, alive>>
    /\ UNCHANGED <<mint, awaits, fresh, gone, callVars>>

(* The holder is collected once nothing refers to it: no call, no mint, no *)
(* close() that waits for one.  It is reported whether it was closed or    *)
(* not; a closed one may have left a key whose end failed.  One that has   *)
(* left no key in the registry has nothing to be seen to, and is passed by.*)
SessionLost(s) ==
    /\ s \in Collectable \ gone
    /\ \E k \in live : owner[k] = s
    /\ shut[s] # "minting" /\ mint[s] = "no"
    /\ \A m \in Calls : SessionOf[m] = s => phase[m] \notin {"waiting", "sent"}
    /\ gone' = gone \cup {s}
    /\ dropped' = IF closed THEN dropped ELSE dropped \cup {s}
    /\ UNCHANGED <<closed, stage, inflight, sweep, warned, regVars, tokenVars>>
    /\ UNCHANGED <<keyVars, current, mint, awaits, fresh, shut, callVars>>

----------------------------------------------------------------------------
(* shutdown(): refuse, drain, sweep, release.                              *)

Close ==
    /\ ~closed
    /\ closed' = TRUE
    /\ stage' = "draining"
    /\ UNCHANGED <<inflight, sweep, warned, dropped, regVars, tokenVars>>
    /\ UNCHANGED <<keyVars, sessionVars, callVars>>

(* What drain() waits for.                                                 *)
DrainDone_NotAwaited == TRUE
DrainDone == inflight = 0

SweepOn(S) ==
    /\ sweep' = S
    /\ stage' = IF S = {} THEN "closed" ELSE "sweeping"
    /\ LeaseOwn(S # {})

Drained ==
    /\ stage = "draining"
    /\ DrainDone
    /\ SweepOn(Unexpired)
    /\ live' = {} /\ pending' = {} /\ failed' = {}
    /\ UNCHANGED <<closed, inflight, warned, dropped, token>>
    /\ UNCHANGED <<keyVars, sessionVars, callVars>>

Lowest(k) == k \in sweep /\ \A j \in sweep : k <= j

SweepEnds ==
    /\ stage = "sweeping"
    /\ token # "none"
    /\ \E k \in Keys : Lowest(k) /\ alive' = alive \ {k} /\ SweepOn(sweep \ {k})
    /\ UNCHANGED <<closed, inflight, warned, dropped, regVars, token>>
    /\ UNCHANGED <<minted, owner, age, retired, ending, sessionVars, callVars>>

(* The first failure ends the sweep, and the warning names what is left.   *)
SweepFails ==
    /\ stage = "sweeping"
    /\ \E k \in Keys : Lowest(k) /\ alive' \in {alive, alive \ {k}}
    /\ warned' = sweep
    /\ SweepOn({})
    /\ UNCHANGED <<closed, inflight, dropped, regVars, token>>
    /\ UNCHANGED <<minted, owner, age, retired, ending, sessionVars, callVars>>

----------------------------------------------------------------------------
(* The client's own token, and the clock.                                  *)

TokenIssued(to) ==
    /\ issuing
    /\ issuing' = FALSE
    /\ token' = to
    /\ UNCHANGED <<clientVars, regVars, keyVars, sessionVars, callVars>>

TokenAges ==
    /\ ApiClient
    /\ \/ token = "valid" /\ token' = "due"
       \/ token = "due" /\ token' = "expired"
    /\ UNCHANGED <<issuing, clientVars, regVars, keyVars, sessionVars, callVars>>

KeyAges(k) ==
    /\ k \in live
    /\ \/ age[k] = "valid" /\ age' = [age EXCEPT ![k] = "due"]
       \/ age[k] = "due" /\ age' = [age EXCEPT ![k] = "expired"]
    /\ UNCHANGED <<minted, owner, retired, ending, alive, clientVars, regVars>>
    /\ UNCHANGED <<tokenVars, sessionVars, callVars>>

----------------------------------------------------------------------------

CallStep(m) ==
    \/ CallRejected(m) \/ OwnCall(m) \/ Connect(m) \/ CallOnClosed(m)
    \/ CallJoins(m) \/ CallMints(m) \/ CallSettles(m) \/ CallTimesOut(m)

MintAnswer(s) ==
    \/ MintRefused(s)
    \/ \E k \in Keys, a \in Ages : MintAnswered(s, k, a)
    \/ \E k \in Keys : MintSkewed(s, k)

MintStep(s) == MintAsks(s) \/ MintCutOff(s) \/ MintRefusesKey(s) \/ MintLands(s)

EndAnswer(k) == EndSucceeds(k) \/ EndFails(k)

SessionStep(s) == SessionCloses(s) \/ SessionShuts(s) \/ SessionLost(s)

TokenAnswer == \E to \in {"valid", "due", token} : TokenIssued(to)

Next ==
    \/ \E m \in Calls : CallStep(m)
    \/ \E s \in Sessions : MintStep(s) \/ MintAnswer(s) \/ SessionStep(s)
    \/ \E k \in Keys : EndAnswer(k) \/ KeyAges(k)
    \/ Close \/ Drained \/ SweepEnds \/ SweepFails
    \/ TokenAnswer \/ TokenAges

Spec == Init /\ [][Next]_vars

(* Continuations run, and every RPC carries a deadline, so each is         *)
(* answered one way or another.                                            *)
Fairness ==
    /\ \A m \in Calls : WF_vars(CallSettles(m))
    /\ \A s \in Sessions : /\ WF_vars(MintStep(s))
                           /\ WF_vars(MintAnswer(s))
                           /\ WF_vars(SessionShuts(s))
    /\ \A k \in Keys : WF_vars(EndAnswer(k))
    /\ WF_vars(Drained)
    /\ WF_vars(SweepEnds \/ SweepFails)
    /\ WF_vars(TokenAnswer)

FairSpec == Spec /\ Fairness

----------------------------------------------------------------------------
(* Properties.                                                             *)

Swept == {k \in sweep : Lowest(k)}

(* "No key is ended under a call still using it" (client.ts:297): whoever  *)
(* ends it - a renewal, a session's close, a dropped session, a retry or   *)
(* the client's own close - no call in flight carries it.                  *)
NoEndUnderCall ==
    \A k \in Keys : ending[k] > 0 \/ k \in Swept => Carriers(k) = {}

(* "So a close can never find a key between being ended and being          *)
(* forgotten - and end it a second time" (client.ts:394), and an end in    *)
(* flight is shared (client.ts:631): one EndImpersonation at a time for a  *)
(* key, whichever of the five parties would send it.                       *)
EndedOneAtATime ==
    \A k \in Keys : ending[k] + Cardinality({k} \cap Swept) <= 1

(* close() ends "the keys of sessions ... still live" or names them in its *)
(* warning (client.ts:297-300), and a key is otherwise "ended later rather *)
(* than left live against the user's cap" (client.ts:93): at every moment  *)
(* a key the service would accept, and this machine does not think         *)
(* expired, is registered, being ended or named in the warning.            *)
KeysAccountedFor ==
    \A k \in alive : age[k] # "expired" =>
        \/ k \in live \/ ending[k] > 0
        \/ k \in sweep \/ k \in warned

(* "Nothing else can be in flight by now" (client.ts:731): from the drain  *)
(* on no call, mint or end is in flight, which is what lets the sweep send *)
(* directly and the channel be closed.                                     *)
Windows == {m \in Calls : phase[m] \in {"waiting", "sent"}}
MintWindows == {s \in Sessions : mint[s] \in {"ends", "sent", "refusing"}}
DrainIsComplete ==
    stage \in {"sweeping", "closed"} =>
        /\ Windows = {} /\ MintWindows = {}
        /\ \A k \in Keys : ending[k] = 0

(* close() always finishes, whatever was in flight, and every call and     *)
(* mint is answered: no end, mint or token waits on another in a circle.   *)
CloseCompletes == closed ~> stage = "closed"
CallsSettle ==
    \A m \in Calls : phase[m] = "sent" \/ phase[m] = "waiting"
        ~> phase[m] \in {"done", "cutoff"}

(* A key its holder has let go of does not stay live in silence: it is     *)
(* ended, or its failed end is remembered for the next mint or the close.  *)
RetiredIsSeenTo ==
    \A k \in Keys : k \in retired
        ~> k \notin alive \/ k \in failed \/ age[k] = "expired"
           \/ stage = "closed"

----------------------------------------------------------------------------
(* What the source says of the program and the code does not do.           *)

(* "A token renewal ... it sets off is waited for by Memco.close"          *)
(* (client.ts:762-764): the channel is not closed under an exchange.       *)
CloseWaitsForRenewal == stage = "closed" => ~issuing

(* close() "waits for calls already in flight rather than cancelling them" *)
(* (client.ts:296): no call that was in flight when it was called fails    *)
(* because the client is closed.                                           *)
CallsSurviveClose == \A m \in Calls : phase[m] # "cutoff"

(* A key that could not be ended "is tried again before the next session   *)
(* for its user, and when the client closes" (client.ts:692): a failed end *)
(* leaves the key in the registry, if the service still has it.            *)
FailedEndIsRemembered ==
    [][\A k \in Keys : EndFails(k) /\ k \in alive' => k \in failed']_vars

(* "The service's cap on live keys per user counts only keys still in use  *)
(* when the mint reaches it" (client.ts:505): no key of the user is being  *)
(* ended when the mint is sent.                                            *)
MintCountsOnlyKeysInUse ==
    [][\A s \in Sessions : mint[s] = "ends" /\ mint'[s] = "sent" =>
          \A k \in Keys : ending[k] > 0 => UserOf[owner[k]] # UserOf[s]]_vars

----------------------------------------------------------------------------
(* The inductive invariant behind the safety properties.                   *)

(* What is known of a key was learnt after it was minted.                  *)
Numbered ==
    /\ \A k \in live \cup retired \cup alive : k <= minted
    /\ \A s \in Sessions : current[s] <= minted /\ fresh[s] <= minted
    /\ \A m \in Calls : carries[m] <= minted

(* A key belongs to the session it was minted for, which alone lands it,   *)
(* holds it and lends it; what a call carries is held or was retired.      *)
Owned ==
    /\ \A s \in Sessions :
          /\ current[s] # None => owner[current[s]] = s
          /\ current[s] \notin retired
          /\ fresh[s] # None <=> mint[s] \in {"landed", "refusing"}
          /\ fresh[s] # None => /\ owner[fresh[s]] = s
                                /\ fresh[s] # current[s]
                                /\ fresh[s] \notin retired
                                /\ Carriers(fresh[s]) = {}
    /\ \A m \in Calls : carries[m] # None =>
          /\ phase[m] = "sent" /\ SessionOf[m] \in Sessions
          /\ owner[carries[m]] = SessionOf[m]
          /\ carries[m] \in retired \cup {current[SessionOf[m]]}

(* A collected session mints and closes no more, closed or not before, and *)
(* no call carries its keys.                                               *)
Lost ==
    /\ dropped \subseteq gone
    /\ \A s \in gone :
          /\ mint[s] = "no" /\ shut[s] # "minting"
          /\ \A k \in Keys : owner[k] # s \/ Carriers(k) = {}

(* A key that somebody ends, or may try to, is carried by no call and will *)
(* be by none.                                                             *)
Spent(k) ==
    /\ Carriers(k) = {}
    /\ \A s \in Sessions : fresh[s] = k => mint[s] = "refusing"
    /\ \A s \in Sessions : current[s] = k => s \in gone
OnlySpentEnd ==
    \A k \in Keys :
        ending[k] > 0 \/ k \in failed \/ owner[k] \in dropped => Spent(k)

(* LiveKey.ending is defined exactly while an end is in flight.            *)
EndsShared ==
    /\ \A k \in Keys : ending[k] > 0 => ending[k] = 1 /\ k <= minted
    /\ \A k \in live : k \in pending <=> ending[k] > 0

(* Memco.inflight is what runs.                                            *)
EndWindows == {k \in Keys : ending[k] > 0}
Counted ==
    Cardinality(Windows) + Cardinality(MintWindows) + Cardinality(EndWindows)
CountsWhatRuns == inflight = Counted

(* The sweep comes after the drain, with nothing in flight.                *)
Stages ==
    /\ stage # "open" <=> closed
    /\ stage \in {"sweeping", "closed"} => inflight = 0 /\ live = {}
    /\ sweep # {} => stage = "sweeping"
    /\ warned # {} => stage = "closed"

(* Until the sweep, a key that left the registry unexpired was ended, and  *)
(* nobody holds it; from the sweep on, one still live is swept or warned   *)
(* of.                                                                     *)
Registered ==
    \A k \in Keys : age[k] # "expired" =>
        IF stage \in {"open", "draining"}
        THEN k \in live \/ (Spent(k) /\ ending[k] = 0 /\ k \notin alive)
        ELSE k \notin alive \/ k \in sweep \/ k \in warned

IInv ==
    /\ TypeOK /\ Numbered /\ Owned /\ Lost /\ OnlySpentEnd
    /\ EndsShared /\ CountsWhatRuns /\ Stages /\ Registered

----------------------------------------------------------------------------
(* The promise of Keyring, and how the client's state is one of it.        *)

Fate(k) ==
    IF ~(k <= minted) THEN "unminted"
    ELSE IF k \in warned THEN "warned"
    ELSE IF ending[k] > 0 \/ k \in Swept THEN "ending"
    ELSE IF k \in live \cup sweep THEN "kept"
    ELSE "over"
Fates == [k \in Keys |-> Fate(k)]
Lent == {k \in Keys :
            k <= minted /\ ~Spent(k) /\ stage \in {"open", "draining"}}
Carried == [k \in Keys |-> Carriers(k)]
Lapsed == {k \in Keys : k <= minted /\ age[k] = "expired"}
Closing == CASE stage = "sweeping" -> "drained"
             [] stage = "closed" -> "released"
             [] OTHER -> "open"

K == INSTANCE Keyring WITH
        KeyIds <- Keys, Callers <- Calls, fate <- Fates, lent <- Lent,
        carriers <- Carried, accepted <- alive, expired <- Lapsed,
        closing <- Closing

(* However its calls, renewals, closes and failed ends interleave, the     *)
(* client lends a key only while it may be used, ends it only out of use,  *)
(* and forgets none the service would still accept.                        *)
KeepsKeyring == K!KeyringSpec
=============================================================================
