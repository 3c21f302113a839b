------------------------------ MODULE GoClient ------------------------------
(***************************************************************************)
(* One Go client: the calls it counts and Close() of                       *)
(* src/go/memcoai/client.go, over the registry of impersonation keys of    *)
(* src/go/internal/transport/keys.go.                                      *)
(*                                                                         *)
(* Every step is one critical section of Client.mu or Keys.mu, one answer  *)
(* of the service, or one critical section of a session's holder, which    *)
(* GoRenewing.tla models goroutine by goroutine: here the calls a mint     *)
(* serves are served as it lands.  Nothing waits here for the client's own *)
(* token: getting one is part of an RPC under it being in flight.          *)
(***************************************************************************)
EXTENDS Naturals, FiniteSets

CONSTANTS
    Sessions,       \* the sessions opened with an ExternalID
    Calls,          \* the calls the application makes
    Closers,        \* the calls it makes of Close
    SessionOf,      \* the session each call is made for, or Own
    Own,            \* a call under the client's own credential
    UserOf,         \* the external user each session acts as
    MaxKeys,        \* bound: how many keys the service mints
    SkewedClock,    \* whether a key may arrive expired by the local clock
    Unclosed        \* the sessions that may be dropped without being closed

ASSUME CallsAssumption == IsFiniteSet(Calls) /\ IsFiniteSet(Sessions)
ASSUME BoundAssumption == MaxKeys \in Nat
ASSUME ScopeAssumption == Own \notin Sessions /\
                          SessionOf \in [Calls -> Sessions \cup {Own}]
ASSUME ClockAssumption == SkewedClock \in BOOLEAN
ASSUME UnclosedAssumption == Unclosed \subseteq Sessions

Keys == 1 .. MaxKeys        \* keys, numbered as they are minted
None == 0
Ages == {"valid", "due", "expired"}

VARIABLES
    closed,     \* Client.closed
    inflight,   \* Client.inflight
    drained,    \* how often Client.drained has been closed
    closer,     \* how far each Close() has come
    stage,      \* Client.shutdown: not yet, under way or done
    stopped,    \* whether the Close() under shutdown saw its ctx end first
    sweep,      \* endLive()'s keys still to end, the lowest being sent
    warned,     \* the keys a warning gave up on
    live,       \* Keys.live, by key id
    claimed,    \* the live keys whose ending is not nil
    abandoned,  \* the live keys whose abandoned is set
    dropped,    \* Keys.dropped
    toEnd,      \* the keys a holder's goroutine is about to call endKey() for
    ender,      \* how far the endClaimed() of each key has come
    minted,     \* how many keys the service has minted
    owner,      \* the session each key was minted for
    age,        \* each key against its renewal point and expiry, locally
    retired,    \* Minted.retired
    alive,      \* the keys the service would accept
    current,    \* each session's Renewing.current
    mint,       \* how far the mint of each session has come
    ends,       \* the ends each mint makes first: its endKeys()
    waits,      \* the ends of others it waits for
    fresh,      \* the key each mint was answered with
    shut,       \* the sessions whose Renewing is closed
    gone,       \* the sessions whose Renewing was collected
    phase,      \* how far each call has come
    carries     \* the key each call was sent under

clientVars  == <<closed, inflight, drained>>
closeVars   == <<closer, stage, stopped, sweep>>
regVars     == <<live, claimed, abandoned, dropped>>
endVars     == <<toEnd, ender>>
keyVars     == <<minted, owner, age, retired>>
mintVars    == <<mint, ends, waits, fresh>>
sessionVars == <<current, shut, gone>>
callVars    == <<phase, carries>>
vars == <<clientVars, closeVars, warned, regVars, endVars, keyVars, alive,
          mintVars, sessionVars, callVars>>

TypeOK ==
    /\ closed \in BOOLEAN
    /\ inflight \in Nat /\ drained \in Nat
    /\ closer \in [Closers -> {"idle", "waiting", "done"}]
    /\ stage \in {"open", "sweeping", "closed"}
    /\ stopped \in BOOLEAN
    /\ sweep \subseteq Keys /\ warned \subseteq Keys
    /\ live \subseteq Keys
    /\ claimed \subseteq live /\ abandoned \subseteq live
    /\ dropped \subseteq Sessions
    /\ toEnd \subseteq Keys
    /\ ender \in [Keys -> {"no", "claimed", "begun", "sent",
                           "ended", "failed", "refused"}]
    /\ minted \in 0 .. MaxKeys
    /\ owner \in [Keys -> Sessions \cup {Own}]
    /\ age \in [Keys -> Ages]
    /\ retired \subseteq Keys /\ alive \subseteq Keys
    /\ current \in [Sessions -> Keys \cup {None}]
    /\ mint \in [Sessions -> {"no", "before", "ends", "begun", "sent",
                              "inline", "landed", "out"}]
    /\ ends \in [Sessions -> SUBSET Keys]
    /\ waits \in [Sessions -> SUBSET Keys]
    /\ fresh \in [Sessions -> Keys \cup {None}]
    /\ shut \subseteq Sessions /\ gone \subseteq Sessions
    /\ phase \in [Calls -> {"idle", "begun", "waiting", "sent",
                            "failing", "cutoff", "over"}]
    /\ carries \in [Calls -> Keys \cup {None}]

Init ==
    /\ closed = FALSE /\ inflight = 0 /\ drained = 0
    /\ closer = [c \in Closers |-> "idle"]
    /\ stage = "open" /\ stopped = FALSE /\ sweep = {} /\ warned = {}
    /\ live = {} /\ claimed = {} /\ abandoned = {} /\ dropped = {}
    /\ toEnd = {} /\ ender = [k \in Keys |-> "no"]
    /\ minted = 0
    /\ owner = [k \in Keys |-> Own]
    /\ age = [k \in Keys |-> "valid"]
    /\ retired = {} /\ alive = {}
    /\ current = [s \in Sessions |-> None]
    /\ mint = [s \in Sessions |-> "no"]
    /\ ends = [s \in Sessions |-> {}]
    /\ waits = [s \in Sessions |-> {}]
    /\ fresh = [s \in Sessions |-> None]
    /\ shut = {} /\ gone = {}
    /\ phase = [m \in Calls |-> "idle"]
    /\ carries = [m \in Calls |-> None]

----------------------------------------------------------------------------
(* The count of calls in flight, the registry and the holders.             *)

(* begin() and end().                                                      *)
CountIn == inflight' = inflight + 1 /\ UNCHANGED <<closed, drained>>

CountOut_Reopened ==
    /\ inflight' = inflight - 1
    /\ drained' = IF closed /\ inflight <= 2 THEN drained + 1 ELSE drained
    /\ UNCHANGED closed
CountOut ==
    /\ inflight' = inflight - 1
    /\ drained' = IF closed /\ inflight = 1 THEN drained + 1 ELSE drained
    /\ UNCHANGED closed

(* The keys of T are claimed, and a goroutine begins to end each.          *)
Claim(T, C) ==
    /\ claimed' = C \cup T
    /\ ender' = [k \in Keys |-> IF k \in T THEN "claimed" ELSE ender[k]]

(* Dropped(), at the start of every call.                                  *)
DroppedKeys_Again == {k \in live : owner[k] \in dropped}
DroppedKeys == {k \in live \ claimed : owner[k] \in dropped}
TakeDropped ==
    /\ Claim(DroppedKeys, claimed)
    /\ dropped' = {}
    /\ UNCHANGED <<live, abandoned>>

(* finish(): whoever waits for the end of a key of K goes on.              *)
Finish_Unclosed(K) == waits' = waits
Finish(K) == waits' = [s \in Sessions |-> waits[s] \ K]

Carriers(k) == {m \in Calls : phase[m] = "sent" /\ carries[m] = k}
Waiters(s)  == {m \in Calls : phase[m] = "waiting" /\ SessionOf[m] = s}

HasKey(s, ages) == current[s] # None /\ age[current[s]] \in ages

(* retire(): what nothing carries is to be ended at once.                  *)
Idle_InUse(k) == {k} \ {None}
Idle(k) == {k} \ ({None} \cup {j \in Keys : Carriers(j) # {}})

(* The keys of which a call was the last lease, once retired.              *)
LastLease(m) == {k \in retired : k = carries[m] /\ Carriers(k) = {m}}

----------------------------------------------------------------------------
(* call(): counted in, past Dropped() and its lease, answered, counted     *)
(* out.                                                                    *)

CallRefused(m) ==
    /\ phase[m] = "idle" /\ SessionOf[m] \notin gone
    /\ closed
    /\ phase' = [phase EXCEPT ![m] = "over"]
    /\ UNCHANGED <<carries, clientVars, closeVars, warned, regVars, endVars>>
    /\ UNCHANGED <<keyVars, alive, mintVars, sessionVars>>

CallBegins(m) ==
    /\ phase[m] = "idle" /\ SessionOf[m] \notin gone
    /\ ~closed
    /\ CountIn
    /\ phase' = [phase EXCEPT ![m] = "begun"]
    /\ UNCHANGED <<carries, closeVars, warned, regVars, endVars, keyVars>>
    /\ UNCHANGED <<alive, mintVars, sessionVars>>

(* Sent under the client's own credential; or failed before any lease, by  *)
(* a session that is closed or a context that has ended.                   *)
CallTakesNoKey(m) ==
    /\ phase[m] = "begun"
    /\ \/ SessionOf[m] = Own /\ phase' = [phase EXCEPT ![m] = "sent"]
       \/ phase' = [phase EXCEPT ![m] = "failing"]
    /\ TakeDropped
    /\ UNCHANGED <<carries, clientVars, closeVars, warned, toEnd, keyVars>>
    /\ UNCHANGED <<alive, mintVars, sessionVars>>

(* Sent under the session's key, or waiting for one; a key that is due or  *)
(* missing has a mint started unless one runs.                             *)
CallLeases(m) ==
    LET s == SessionOf[m] IN
    /\ phase[m] = "begun"
    /\ s # Own /\ s \notin shut
    /\ IF HasKey(s, {"valid", "due"})
       THEN /\ phase' = [phase EXCEPT ![m] = "sent"]
            /\ carries' = [carries EXCEPT ![m] = current[s]]
       ELSE phase' = [phase EXCEPT ![m] = "waiting"] /\ UNCHANGED carries
    /\ mint' = IF HasKey(s, {"valid"}) \/ mint[s] # "no" THEN mint
               ELSE [mint EXCEPT ![s] = "before"]
    /\ TakeDropped
    /\ UNCHANGED <<clientVars, closeVars, warned, toEnd, keyVars, alive>>
    /\ UNCHANGED <<ends, waits, fresh, sessionVars>>

(* Answered or failed: Release(), then end().                              *)
CallSettles(m) ==
    /\ phase[m] = "sent"
    /\ phase' = [phase EXCEPT ![m] = "over"]
    /\ carries' = [carries EXCEPT ![m] = None]
    /\ toEnd' = toEnd \cup LastLease(m)
    /\ CountOut
    /\ UNCHANGED <<closeVars, warned, regVars, ender, keyVars, alive>>
    /\ UNCHANGED <<mintVars, sessionVars>>

(* Its context ended while it waited for a key.                            *)
CallTimesOut(m) ==
    /\ phase[m] = "waiting"
    /\ phase' = [phase EXCEPT ![m] = "failing"]
    /\ UNCHANGED <<carries, clientVars, closeVars, warned, regVars, endVars>>
    /\ UNCHANGED <<keyVars, alive, mintVars, sessionVars>>

CallFails(m) ==
    /\ phase[m] \in {"failing", "cutoff"}
    /\ phase' = [phase EXCEPT ![m] = "over"]
    /\ CountOut
    /\ UNCHANGED <<carries, closeVars, warned, regVars, endVars, keyVars>>
    /\ UNCHANGED <<alive, mintVars, sessionVars>>

----------------------------------------------------------------------------
(* endKey() and endClaimed().                                              *)

(* Nothing to claim: being ended, or no longer registered.                 *)
Claimable_Unregistered(k) == k \notin claimed
Claimable(k) == k \in live \ claimed

EndClaims(k) ==
    /\ k \in toEnd
    /\ toEnd' = toEnd \ {k}
    /\ Claim(IF Claimable(k) THEN {k} ELSE {}, claimed)
    /\ UNCHANGED <<clientVars, closeVars, warned, live, abandoned, dropped>>
    /\ UNCHANGED <<keyVars, alive, mintVars, sessionVars, callVars>>

EndBegins(k) ==
    /\ ender[k] = "claimed"
    /\ \/ ~closed /\ CountIn /\ ender' = [ender EXCEPT ![k] = "begun"]
       \/ /\ closed
          /\ ender' = [ender EXCEPT ![k] = "refused"]
          /\ UNCHANGED clientVars
    /\ UNCHANGED <<closeVars, warned, regVars, toEnd, keyVars, alive>>
    /\ UNCHANGED <<mintVars, sessionVars, callVars>>

EndSends(k) ==
    /\ ender[k] = "begun"
    /\ dropped' = {}
    /\ claimed' = claimed \cup DroppedKeys
    /\ ender' = [j \in Keys |-> IF j = k THEN "sent"
                                ELSE IF j \in DroppedKeys THEN "claimed"
                                ELSE ender[j]]
    /\ UNCHANGED <<clientVars, closeVars, warned, live, abandoned, toEnd>>
    /\ UNCHANGED <<keyVars, alive, mintVars, sessionVars, callVars>>

(* Ended, or NOT_FOUND: forgotten before the call is counted out.          *)
EndSucceeds(k) ==
    /\ ender[k] = "sent"
    /\ stage # "closed"
    /\ alive' = alive \ {k}
    /\ live' = live \ {k}
    /\ claimed' = claimed \ {k}
    /\ abandoned' = abandoned \ {k}
    /\ Finish({k})
    /\ ender' = [ender EXCEPT ![k] = "ended"]
    /\ UNCHANGED <<clientVars, closeVars, warned, dropped, toEnd, keyVars>>
    /\ UNCHANGED <<mint, ends, fresh, sessionVars, callVars>>

(* The end is over for the mint whose endKeys() waits for it.              *)
Ended(k) ==
    /\ ender' = [ender EXCEPT ![k] = "no"]
    /\ ends' = [s \in Sessions |-> ends[s] \ {k}]

EndCountsOut(k) ==
    /\ ender[k] = "ended"
    /\ Ended(k)
    /\ CountOut
    /\ UNCHANGED <<closeVars, warned, regVars, toEnd, keyVars, alive>>
    /\ UNCHANGED <<mint, waits, fresh, sessionVars, callVars>>

(* Failed, the service having ended the key or not.                        *)
EndFails(k) ==
    /\ ender[k] = "sent"
    /\ alive' \in {alive, alive \ {k}}
    /\ CountOut
    /\ ender' = [ender EXCEPT ![k] = "failed"]
    /\ UNCHANGED <<closeVars, warned, regVars, toEnd, keyVars>>
    /\ UNCHANGED <<mintVars, sessionVars, callVars>>

(* Unclaimed(): a key whose end failed is to be tried again; one a closed  *)
(* client refused to end is left to its close.                             *)
Unclaimed_Kept(k) ==
    /\ ender[k] \in {"failed", "refused"}
    /\ Ended(k)
    /\ Finish({k})
    /\ abandoned' = abandoned \cup
                       (IF ender[k] = "failed" THEN {k} \cap live ELSE {})
    /\ UNCHANGED <<clientVars, closeVars, warned, live, claimed, dropped>>
    /\ UNCHANGED <<toEnd, keyVars, alive, mint, fresh, sessionVars, callVars>>
Unclaimed(k) ==
    /\ ender[k] \in {"failed", "refused"}
    /\ Ended(k)
    /\ Finish({k})
    /\ claimed' = claimed \ {k}
    /\ abandoned' = abandoned \cup
                       (IF ender[k] = "failed" THEN {k} \cap live ELSE {})
    /\ UNCHANGED <<clientVars, closeVars, warned, live, dropped, toEnd>>
    /\ UNCHANGED <<keyVars, alive, mint, fresh, sessionVars, callVars>>

----------------------------------------------------------------------------
(* mint(), up to its answer.                                               *)

(* Before(): expired keys are forgotten, those of dropped sessions and the *)
(* user's abandoned ones claimed, and the user's being ended waited for.   *)
Expired == {k \in live : age[k] = "expired"}
OfUser(s) == {k \in Keys : owner[k] # Own /\ UserOf[owner[k]] = UserOf[s]}

MintBefore(s) ==
    LET L == live \ Expired
        T == (L \ claimed) \cap (DroppedKeys \cup (abandoned \cap OfUser(s)))
    IN
    /\ mint[s] = "before"
    /\ mint' = [mint EXCEPT ![s] = "ends"]
    /\ live' = L
    /\ Claim(T, claimed \cap L)
    /\ abandoned' = abandoned \cap L
    /\ dropped' = {}
    /\ ends' = [ends EXCEPT ![s] = T]
    /\ waits' = [t \in Sessions |->
                    IF t = s THEN claimed \cap L \cap OfUser(s)
                    ELSE waits[t] \ Expired]
    /\ UNCHANGED <<clientVars, closeVars, warned, toEnd, keyVars, alive>>
    /\ UNCHANGED <<fresh, sessionVars, callVars>>

(* The mint fails, and every lease waiting for it.                         *)
MintOver(s, to) ==
    /\ mint' = [mint EXCEPT ![s] = "no"]
    /\ fresh' = [fresh EXCEPT ![s] = None]
    /\ phase' = [m \in Calls |-> IF m \in Waiters(s) THEN to ELSE phase[m]]
    /\ UNCHANGED <<ends, waits, carries>>

Ready(s) == mint[s] = "ends" /\ ends[s] = {} /\ waits[s] = {}

MintBegins(s) ==
    /\ Ready(s)
    /\ ~closed
    /\ CountIn
    /\ mint' = [mint EXCEPT ![s] = "begun"]
    /\ UNCHANGED <<closeVars, warned, regVars, endVars, keyVars, alive>>
    /\ UNCHANGED <<ends, waits, fresh, sessionVars, callVars>>

(* The client was closed meanwhile, the calls waiting being counted.       *)
MintCutOff(s) ==
    /\ Ready(s)
    /\ closed
    /\ MintOver(s, "cutoff")
    /\ UNCHANGED <<clientVars, closeVars, warned, regVars, endVars, keyVars>>
    /\ UNCHANGED <<alive, sessionVars>>

MintSends(s) ==
    /\ mint[s] = "begun"
    /\ mint' = [mint EXCEPT ![s] = "sent"]
    /\ TakeDropped
    /\ UNCHANGED <<clientVars, closeVars, warned, toEnd, keyVars, alive>>
    /\ UNCHANGED <<ends, waits, fresh, sessionVars, callVars>>

(* No answer, or no key in it.                                             *)
MintFails(s) ==
    /\ mint[s] = "sent"
    /\ MintOver(s, "failing")
    /\ CountOut
    /\ UNCHANGED <<closeVars, warned, regVars, endVars, keyVars, alive>>
    /\ UNCHANGED sessionVars

Answered(s, k, a) ==
    /\ mint[s] = "sent"
    /\ stage # "closed"
    /\ k = minted + 1 /\ k \in Keys
    /\ minted' = k
    /\ owner' = [owner EXCEPT ![k] = s]
    /\ age' = [age EXCEPT ![k] = a]
    /\ alive' = alive \cup {k}
    /\ fresh' = [fresh EXCEPT ![s] = k]
    /\ UNCHANGED <<retired, ends, waits>>

(* Add(), refused once the registry has been swept.                        *)
Registers_Anyway(a) == a # "expired"
Registers(a) == a # "expired" /\ stage = "open"

MintAnswered(s, k, a) ==
    /\ Answered(s, k, a)
    /\ a = "expired" => SkewedClock
    /\ IF Registers(a)
       THEN live' = live \cup {k} /\ mint' = [mint EXCEPT ![s] = "landed"]
       ELSE live' = live /\ mint' = [mint EXCEPT ![s] = "inline"]
    /\ UNCHANGED <<clientVars, closeVars, warned, claimed, abandoned, dropped>>
    /\ UNCHANGED <<endVars, sessionVars, callVars>>

(* A key nobody will hold is ended inside the call that minted it.         *)
InlineOver(s) ==
    /\ mint[s] = "inline"
    /\ MintOver(s, "failing")
    /\ CountOut
    /\ UNCHANGED <<closeVars, regVars, endVars, keyVars, sessionVars>>

InlineEnds(s) ==
    /\ InlineOver(s)
    /\ stage # "closed"
    /\ alive' = alive \ {fresh[s]}
    /\ UNCHANGED warned

InlineFails(s) ==
    /\ InlineOver(s)
    /\ alive' \in {alive, alive \ {fresh[s]}}
    /\ warned' = warned \cup {fresh[s]}

MintCountsOut(s) ==
    /\ mint[s] = "landed"
    /\ mint' = [mint EXCEPT ![s] = "out"]
    /\ CountOut
    /\ UNCHANGED <<closeVars, warned, regVars, endVars, keyVars, alive>>
    /\ UNCHANGED <<ends, waits, fresh, sessionVars, callVars>>

(* renew()'s critical section: the key is held, or ended if the session    *)
(* closed meanwhile.                                                       *)
MintLands(s) ==
    /\ mint[s] = "out"
    /\ s \notin shut
    /\ mint' = [mint EXCEPT ![s] = "no"]
    /\ fresh' = [fresh EXCEPT ![s] = None]
    /\ current' = [current EXCEPT ![s] = fresh[s]]
    /\ retired' = retired \cup ({current[s]} \ {None})
    /\ toEnd' = toEnd \cup Idle(current[s])
    /\ phase' = [m \in Calls |-> IF m \in Waiters(s) THEN "sent" ELSE phase[m]]
    /\ carries' = [m \in Calls |->
                      IF m \in Waiters(s) THEN fresh[s] ELSE carries[m]]
    /\ UNCHANGED <<clientVars, closeVars, warned, regVars, ender, alive>>
    /\ UNCHANGED <<minted, owner, age, ends, waits, shut, gone>>

MintDiscarded(s) ==
    /\ mint[s] = "out"
    /\ s \in shut
    /\ MintOver(s, "failing")
    /\ toEnd' = toEnd \cup {fresh[s]}
    /\ UNCHANGED <<clientVars, closeVars, warned, regVars, ender, keyVars>>
    /\ UNCHANGED <<alive, sessionVars>>

----------------------------------------------------------------------------
(* The sessions: Close(), and collection with or without it.               *)

SessionCloses(s) ==
    /\ s \notin shut \cup gone
    /\ shut' = shut \cup {s}
    /\ current' = [current EXCEPT ![s] = None]
    /\ retired' = retired \cup ({current[s]} \ {None})
    /\ toEnd' = toEnd \cup Idle(current[s])
    /\ UNCHANGED <<clientVars, closeVars, warned, regVars, ender, alive>>
    /\ UNCHANGED <<minted, owner, age, mintVars, gone, callVars>>

(* Nothing refers to the holder: no call, no mint.  Drop() only queues.    *)
SessionLost(s) ==
    /\ s \in Unclosed \ gone
    /\ mint[s] = "no"
    /\ \A m \in Calls : SessionOf[m] = s => phase[m] \in {"idle", "over"}
    /\ gone' = gone \cup {s}
    /\ dropped' = dropped \cup {s}
    /\ UNCHANGED <<clientVars, closeVars, warned, live, claimed, abandoned>>
    /\ UNCHANGED <<endVars, keyVars, alive, mintVars, current, shut, callVars>>

----------------------------------------------------------------------------
(* Close(): refuse, wait, sweep, release.                                  *)

CloseCalled(c) ==
    /\ closer[c] = "idle"
    /\ closer' = [closer EXCEPT ![c] = "waiting"]
    /\ closed' = TRUE
    /\ drained' = IF ~closed /\ inflight = 0 THEN drained + 1 ELSE drained
    /\ UNCHANGED <<inflight, stage, stopped, sweep, warned, regVars, endVars>>
    /\ UNCHANGED <<keyVars, alive, mintVars, sessionVars, callVars>>

(* The first to come through, drained or with its ctx ended: Sweep().      *)
Swept == live \ Expired

SweepBegins(c) ==
    /\ closer[c] = "waiting"
    /\ stage = "open"
    /\ stage' = "sweeping"
    /\ stopped' = (drained = 0)
    /\ sweep' = Swept
    /\ live' = {} /\ claimed' = {} /\ abandoned' = {} /\ dropped' = {}
    /\ Finish(claimed)
    /\ UNCHANGED <<clientVars, closer, warned, endVars, keyVars, alive>>
    /\ UNCHANGED <<mint, ends, fresh, sessionVars, callVars>>

Lowest(k) == k \in sweep /\ \A j \in sweep : k <= j

SweepEnds ==
    /\ stage = "sweeping"
    /\ \E k \in Keys : /\ Lowest(k)
                       /\ alive' = alive \ {k}
                       /\ sweep' = sweep \ {k}
    /\ UNCHANGED <<clientVars, closer, stage, stopped, warned, regVars>>
    /\ UNCHANGED <<endVars, keyVars, mintVars, sessionVars, callVars>>

(* The first failure ends the sweep, and the warning names what is left.   *)
SweepFails ==
    /\ stage = "sweeping" /\ sweep # {}
    /\ \E k \in Keys : Lowest(k) /\ alive' \in {alive, alive \ {k}}
    /\ warned' = warned \cup sweep
    /\ sweep' = {}
    /\ UNCHANGED <<clientVars, closer, stage, stopped, regVars, endVars>>
    /\ UNCHANGED <<keyVars, mintVars, sessionVars, callVars>>

ConnCloses ==
    /\ stage = "sweeping" /\ sweep = {}
    /\ stage' = "closed"
    /\ UNCHANGED <<clientVars, closer, stopped, sweep, warned, regVars>>
    /\ UNCHANGED <<endVars, keyVars, alive, mintVars, sessionVars, callVars>>

CloseReturns(c) ==
    /\ closer[c] = "waiting"
    /\ stage = "closed"
    /\ closer' = [closer EXCEPT ![c] = "done"]
    /\ UNCHANGED <<clientVars, stage, stopped, sweep, warned, regVars>>
    /\ UNCHANGED <<endVars, keyVars, alive, mintVars, sessionVars, callVars>>

KeyAges(k) ==
    /\ k \in live \cup {current[s] : s \in Sessions}
    /\ \/ age[k] = "valid" /\ age' = [age EXCEPT ![k] = "due"]
       \/ age[k] = "due" /\ age' = [age EXCEPT ![k] = "expired"]
    /\ UNCHANGED <<minted, owner, retired, alive, clientVars, closeVars>>
    /\ UNCHANGED <<warned, regVars, endVars, mintVars, sessionVars, callVars>>

----------------------------------------------------------------------------

CallStep(m) ==
    \/ CallBegins(m) \/ CallRefused(m) \/ CallTimesOut(m)
CallRuns(m) ==
    CallTakesNoKey(m) \/ CallLeases(m) \/ CallSettles(m) \/ CallFails(m)

MintRuns(s) ==
    \/ MintBefore(s) \/ MintBegins(s) \/ MintCutOff(s) \/ MintSends(s)
    \/ MintFails(s) \/ (\E k \in Keys, a \in Ages : MintAnswered(s, k, a))
    \/ InlineEnds(s) \/ InlineFails(s)
    \/ MintCountsOut(s) \/ MintLands(s) \/ MintDiscarded(s)

EndRuns(k) ==
    \/ EndBegins(k) \/ EndSends(k) \/ EndSucceeds(k) \/ EndCountsOut(k)
    \/ EndFails(k) \/ Unclaimed(k)

Next ==
    \/ \E m \in Calls : CallStep(m) \/ CallRuns(m)
    \/ \E s \in Sessions : MintRuns(s) \/ SessionCloses(s) \/ SessionLost(s)
    \/ \E k \in Keys : EndClaims(k) \/ EndRuns(k) \/ KeyAges(k)
    \/ \E c \in Closers : CloseCalled(c) \/ SweepBegins(c) \/ CloseReturns(c)
    \/ SweepEnds \/ SweepFails \/ ConnCloses

Spec == Init /\ [][Next]_vars

(* Goroutines run, and every RPC has a deadline.  A Close() goes on once   *)
(* the client is drained; nothing obliges its ctx to end.                  *)
Fairness ==
    /\ \A m \in Calls : WF_vars(CallRuns(m))
    /\ \A s \in Sessions : WF_vars(MintRuns(s))
    /\ \A k \in Keys : WF_vars(EndClaims(k)) /\ WF_vars(EndRuns(k))
    /\ \A c \in Closers :
          WF_vars(drained > 0 /\ (SweepBegins(c) \/ CloseReturns(c)))
    /\ WF_vars(SweepEnds \/ SweepFails \/ ConnCloses)

FairSpec == Spec /\ Fairness

----------------------------------------------------------------------------
(* Properties.                                                             *)

(* An end is sent for a key only when no call carries it; only a Close()   *)
(* whose ctx ended first ends keys under "the calls still in flight"       *)
(* (client.go:306).                                                        *)
Ending(k) == ender[k] \in {"begun", "sent"}
NoEndUnderCall ==
    \A k \in Keys : Carriers(k) # {} =>
        ~Ending(k) /\ (k \in sweep => stopped)

(* "Forgotten inside the call, so a close waiting on it never ends the key *)
(* again" (client.go:615), and an end under way is not joined by another   *)
(* (keys.go:28): a sweep that waited has no key in common with any end.    *)
NeverEndedAgain ==
    \A k \in sweep : ender[k] \notin {"begun", "sent", "ended"} \/ stopped

(* A claim is always somebody's to give back (keys.go:28), so nobody waits *)
(* for good on a channel nobody closes; and a key that is being ended and  *)
(* still registered is claimed, so nobody begins to end it again.          *)
ClaimsAreHeld ==
    /\ \A k \in live : k \in claimed <=> ender[k] \notin {"no", "ended"}
    /\ \A s \in Sessions :
          /\ \A k \in ends[s] : ender[k] # "no"
          /\ waits[s] \subseteq claimed

(* "The keys nobody else will end are ended by the client" (keys.go:10): a *)
(* key the service would accept, and this machine does not think expired,  *)
(* is registered until the sweep, left to the sweep, named in a warning or *)
(* ended by the mint that brought it: none is registered once nobody will  *)
(* look, and none is forgotten while its end may still fail.               *)
KeysAccountedFor ==
    \A k \in alive : age[k] # "expired" =>
        \/ stage = "open" /\ k \in live
        \/ k \in sweep \/ k \in warned
        \/ \E s \in Sessions : mint[s] = "inline" /\ fresh[s] = k

(* Client.drained is closed once, when a closed client has no call in      *)
(* flight (client.go:395), and what is counted is what runs: closing it    *)
(* again would panic, closing it early would let the connection go under a *)
(* call, and a key ended twice at once would be counted in for good.       *)
CallsIn == {m \in Calls : phase[m] \in {"begun", "waiting", "sent",
                                        "failing", "cutoff"}}
MintsIn == {s \in Sessions : mint[s] \in {"begun", "sent", "inline", "landed"}}
EndsIn  == {k \in Keys : ender[k] \in {"begun", "sent", "ended"}}
Counted == Cardinality(CallsIn) + Cardinality(MintsIn) + Cardinality(EndsIn)
DrainedOnce ==
    /\ inflight = Counted
    /\ drained <= 1
    /\ drained > 0 => closed /\ inflight = 0

(* Every Close() returns though its ctx never ends ("each end has a        *)
(* timeout of its own", client.go:529): the calls, the ends, the mints and *)
(* the closes that wait for one another never do so in a circle.           *)
CloseCompletes ==
    \A c \in Closers : closer[c] = "waiting" ~> closer[c] = "done"

----------------------------------------------------------------------------
(* The inductive invariant behind the safety properties.                   *)

(* What is known of a key was learnt after it was minted.                  *)
Numbered ==
    /\ \A k \in live \cup retired \cup toEnd : k <= minted
    /\ \A k \in Keys : ender[k] # "no" => k <= minted
    /\ \A s \in Sessions : current[s] <= minted /\ fresh[s] <= minted
    /\ \A m \in Calls : carries[m] <= minted

(* A key belongs to the session it was minted for, which alone lands it,   *)
(* holds it and lends it; nobody is lent one that was retired or never     *)
(* held.                                                                   *)
Owned ==
    /\ \A s \in Sessions :
          /\ current[s] # None => owner[current[s]] = s
          /\ current[s] \notin retired
          /\ fresh[s] # None <=> mint[s] \in {"inline", "landed", "out"}
          /\ fresh[s] # None => /\ owner[fresh[s]] = s
                                /\ fresh[s] # current[s]
                                /\ fresh[s] \notin retired
                                /\ Carriers(fresh[s]) = {}
    /\ \A m \in Calls : carries[m] # None =>
          phase[m] = "sent" /\ owner[carries[m]] = SessionOf[m]

(* A session is collected with no call or mint of its own, and begins none.*)
Lost ==
    /\ dropped \subseteq gone
    /\ \A s \in gone :
          /\ mint[s] = "no"
          /\ \A m \in Calls : SessionOf[m] = s => phase[m] \in {"idle", "over"}

(* A key that somebody may end is carried by no call and will be by none.  *)
Condemned ==
    toEnd \cup abandoned
          \cup {k \in Keys : ender[k] # "no" \/ owner[k] \in dropped}
Spent(k) ==
    /\ Carriers(k) = {}
    /\ \A s \in Sessions : fresh[s] # k /\ (current[s] = k => s \in gone)
OnlySpentEnd == \A k \in Condemned : Spent(k)

(* A key whose end is answered is not registered.                          *)
EndedForgotten == \A k \in Keys : ender[k] = "ended" => k \notin live

(* A sweep comes after the close, and after the drain unless it was not    *)
(* waited for; it leaves nothing registered.                               *)
SweptOnce ==
    /\ \A c \in Closers : closer[c] = "waiting" => closed
    /\ stage # "open" => closed /\ live = {} /\ (drained > 0 \/ stopped)
    /\ sweep # {} => stage = "sweeping"

(* What the service accepts, a sweep ends or a warning names was minted.   *)
MintedFirst == \A k \in alive \cup sweep \cup warned : k <= minted

(* Until the sweep, a key that is ended though nobody remembers it has     *)
(* expired: the registry forgot it, or never took it in.                   *)
Inline == {k \in Keys : \E s \in Sessions : fresh[s] = k /\ mint[s] = "inline"}
ForgottenOnExpiry ==
    stage = "open" =>
        \A k \in Keys : \/ ender[k] = "claimed" /\ k \notin live
                       \/ k \in Inline
                       => age[k] = "expired"

IInv ==
    /\ TypeOK /\ Numbered /\ Owned /\ Lost /\ OnlySpentEnd
    /\ EndedForgotten /\ ClaimsAreHeld /\ SweptOnce /\ DrainedOnce
    /\ KeysAccountedFor /\ MintedFirst /\ ForgottenOnExpiry

----------------------------------------------------------------------------
(* The promise of Keyring, and how the client's state is one of it.        *)

BeingEnded == {k \in Keys : Ending(k) \/ Lowest(k)} \cup Inline
Fate(k) ==
    IF ~(k <= minted) THEN "unminted"
    ELSE IF k \in warned THEN "warned"
    ELSE IF k \in BeingEnded THEN "ending"
    ELSE IF k \in live \cup sweep THEN "kept"
    ELSE "over"
Fates == [k \in Keys |-> Fate(k)]

(* What a call carries, a session holds or a mint is about to hand it.     *)
Landed == {k \in Keys : \E s \in Sessions :
                           fresh[s] = k /\ mint[s] \in {"landed", "out"}}
InUse(k) ==
    \/ Carriers(k) # {} \/ k \in Landed
    \/ \E s \in Sessions \ gone : current[s] = k
Lent == {k \in Keys : InUse(k) /\ (stage = "open" \/ stopped)}
Carried == [k \in Keys |-> Carriers(k)]
Lapsed == {k \in Keys : k <= minted /\ age[k] = "expired"}
Closing == IF stage = "open" THEN "open"
           ELSE IF stopped THEN "abandoned"
           ELSE IF stage = "sweeping" THEN "drained" ELSE "released"

K == INSTANCE Keyring WITH
        KeyIds <- Keys, Callers <- Calls, fate <- Fates, lent <- Lent,
        carriers <- Carried, accepted <- alive, expired <- Lapsed,
        closing <- Closing

(* However its goroutines, renewals, closes and failed ends interleave,    *)
(* the client lends a key only while it may be used, ends it only out of   *)
(* use unless its Close() stopped waiting, and forgets none the service    *)
(* would still accept.                                                     *)
KeepsKeyring == K!KeyringSpec
=============================================================================
