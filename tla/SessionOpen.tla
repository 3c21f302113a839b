---------------------------- MODULE SessionOpen ----------------------------
(***************************************************************************)
(* Opening a session that acts as one of the caller's users, and awaiting  *)
(* its opener: MemoryOperations.open() and openSession(), Session.close()  *)
(* and class SessionOpener of src/nodejs/src/operations.ts, over the       *)
(* holder of the key each open() makes for itself (Renewing).              *)
(*                                                                         *)
(* open() makes three calls under the key: List, and once it is answered   *)
(* Tools and Start together (Start is GetSession when resuming).  Uses are *)
(* the calls of the open session.  The Calls and the holder of a failed    *)
(* open() leave the model once they have nothing left to do: a later       *)
(* open() shares only the opener with them.                                *)
(***************************************************************************)
EXTENDS Renewing

CONSTANTS
    List, Tools, Start,     \* the calls of open()
    Uses,                   \* the calls of the session it opens
    Awaiters,               \* those that await the opener
    MaxAttempts             \* bound: how many times the opener opens

ASSUME OpenAssumption ==
    /\ Calls = {List, Tools, Start} \cup Uses
    /\ List # Tools /\ Tools # Start /\ List # Start
    /\ Uses \cap {List, Tools, Start} = {}
ASSUME MaxAttemptsAssumption == MaxAttempts \in Nat

VARIABLES
    clientOpen, \* ~Memco.closed
    answer,     \* what each call settled with
    open,       \* how far the last open() has come
    error,      \* what it failed with
    attempt,    \* how many times the opener has called startSession()
    opened,     \* whether SessionOpener.opened holds a promise
    awaiting,   \* the attempt each awaiter has chained itself on
    failedTo,   \* the last attempt each awaiter was told had failed
    given       \* the attempt whose session each awaiter was given

openerVars == <<attempt, opened, awaiting, failedTo, given>>
openVars == <<clientOpen, open, error>>
allVars == <<vars, answer, openVars, openerVars>>

Errors == {"api", "timeout", "config"}
Answers == {"none", "ok"} \cup Errors
Attempts == 0 .. MaxAttempts

OpenTypeOK ==
    /\ clientOpen \in BOOLEAN
    /\ answer \in [Calls -> Answers]
    /\ open \in {"idle", "listing", "starting", "both", "open",
                 "closing", "failed"}
    /\ error \in {"none"} \cup Errors
    /\ attempt \in Attempts
    /\ opened \in BOOLEAN
    /\ awaiting \in [Awaiters -> Attempts]
    /\ failedTo \in [Awaiters -> Attempts]
    /\ given \in [Awaiters -> Attempts]

OpenInit ==
    /\ Init
    /\ clientOpen = TRUE
    /\ answer = [l \in Calls |-> "none"]
    /\ open = "idle"
    /\ error = "none"
    /\ attempt = 0
    /\ opened = FALSE
    /\ awaiting = [w \in Awaiters |-> 0]
    /\ failedTo = [w \in Awaiters |-> 0]
    /\ given = [w \in Awaiters |-> 0]

----------------------------------------------------------------------------
(* The calls.                                                              *)

(* Leases that settle now, with what the caller sees.                      *)
Settled(l) == phase'[l] # phase[l]
                 /\ phase'[l] \in {"returned", "failed", "timedout", "refused"}
Answer(outcome) ==
    answer' = [l \in Calls |->
                  IF ~Settled(l) THEN answer[l]
                  ELSE IF phase'[l] = "timedout" THEN "timeout"
                  ELSE IF phase'[l] = "refused" THEN "config"
                  ELSE outcome]

(* A call: refused by the client once closed, leased under the key if not. *)
Call(l) ==
    /\ answer[l] = "none"
    /\ \/ /\ clientOpen
          /\ LeaseRefused(l) \/ LeaseValid(l) \/ LeaseDue(l) \/ LeaseWaits(l)
          /\ Answer("config")
       \/ /\ ~clientOpen
          /\ phase[l] = "idle"
          /\ answer' = [answer EXCEPT ![l] = "config"]
          /\ UNCHANGED vars

(* Tools and Start are leased in one job: only the clock may move between. *)
Between == open = "starting"

HolderStep(A) == ~Between /\ A /\ UNCHANGED <<openVars, openerVars>>

(* A mint may fail for the client having been closed meanwhile.            *)
MintErrors == {"api", "timeout"} \cup IF clientOpen THEN {} ELSE {"config"}

MintStep ==
    \/ /\ (\E a \in Ages : MintLands(a)) \/ MintFallsBack
       /\ Answer("ok")
    \/ \E e \in MintErrors : MintFails /\ Answer(e)

WaitStep(l) == (Resume(l) \/ ResumeRetired(l) \/ TimesOut(l)) /\ Answer("ok")
Answered(l) == \E a \in {"ok", "api", "timeout"} : Finish(l) /\ Answer(a)

----------------------------------------------------------------------------
(* open() and openSession().                                               *)

CallTools ==
    /\ open = "listing"
    /\ answer[List] = "ok"
    /\ Call(Tools)
    /\ open' = "starting"
    /\ UNCHANGED <<clientOpen, error, openerVars>>

CallStart ==
    /\ open = "starting"
    /\ Call(Start)
    /\ open' = "both"
    /\ UNCHANGED <<clientOpen, error, openerVars>>

(* The catalog is best effort: no failure of the service fails the open.   *)
Opens ==
    /\ open = "both"
    /\ answer[Start] = "ok"
    /\ answer[Tools] \in {"ok", "api", "timeout"}
    /\ open' = "open"
    /\ UNCHANGED <<vars, answer, clientOpen, error, openerVars>>

(* A failed Start waits for the catalog, which carries the key, to settle. *)
StartFailed_AtOnce == answer[Start] \in Errors
StartFailed_CatalogOk == answer[Start] \in Errors /\ answer[Tools] = "ok"
StartFailed == answer[Start] \in Errors /\ answer[Tools] # "none"

(* What openSession() rejects with, if it does.                            *)
Failures ==
    IF open = "listing" THEN {answer[List]} \ {"none", "ok"}
    ELSE IF open # "both" THEN {}
    ELSE (IF answer[Tools] = "config" THEN {"config"} ELSE {})
           \cup (IF StartFailed THEN {answer[Start]} ELSE {})

(* open()'s catch: key.close(), whose end is not waited for when it is the *)
(* caller's deadline that has passed.                                      *)
ClosesKey_UnlessTimeout(e) ==
    IF e = "timeout" THEN UNCHANGED vars ELSE Close
ClosesKey(e) == Close
OpenFails ==
    \E e \in Failures :
        /\ ClosesKey(e)
        /\ error' = e
        /\ open' = IF e = "timeout" THEN "failed" ELSE "closing"
        /\ UNCHANGED <<answer, clientOpen, openerVars>>

Rejects ==
    /\ open = "closing"
    /\ closing = "done"
    /\ open' = "failed"
    /\ UNCHANGED <<vars, answer, clientOpen, error, openerVars>>

SessionCall(l) ==
    /\ open = "open"
    /\ Call(l)
    /\ UNCHANGED <<openVars, openerVars>>

SessionClose ==
    /\ open = "open"
    /\ Close
    /\ UNCHANGED <<answer, openVars, openerVars>>

ClientCloses ==
    /\ clientOpen /\ ~Between
    /\ clientOpen' = FALSE
    /\ UNCHANGED <<vars, answer, open, error, openerVars>>

----------------------------------------------------------------------------
(* SessionOpener: then() and open().                                       *)

(* The last open() has nothing left to do.                                 *)
AtRest ==
    /\ open \in {"idle", "open", "failed"}
    /\ ~minting
    /\ \A c \in 1 .. minted : endDone[c]

(* A holder of its own, and calls of its own.                              *)
FreshOpen ==
    /\ current' = None /\ age' = "valid" /\ minted' = 0
    /\ closed' = FALSE /\ closing' = "open" /\ idle' = None
    /\ users' = [c \in Creds |-> 0]
    /\ retired' = [c \in Creds |-> FALSE]
    /\ ends' = [c \in Creds |-> 0]
    /\ endDone' = [c \in Creds |-> FALSE]
    /\ held' = [l \in Calls |-> None]
    /\ answer' = [l \in Calls |-> "none"]

(* startSession() with List's lease waiting on the key's first mint, or    *)
(* refused before a key is made: a blank argument, a closed client.        *)
StartSession ==
    /\ FreshOpen
    /\ \/ /\ clientOpen
          /\ MaxMints > 0
          /\ minting' = TRUE
          /\ phase' = [l \in Calls |-> IF l = List THEN "waiting" ELSE "idle"]
          /\ open' = "listing"
          /\ error' = "none"
       \/ /\ minting' = FALSE
          /\ phase' = [l \in Calls |-> "idle"]
          /\ open' = "failed"
          /\ error' = IF clientOpen THEN "api" ELSE "config"

Awaits(w) ==
    /\ awaiting[w] = 0 /\ given[w] = 0 /\ ~Between
    /\ \/ /\ opened
          /\ awaiting' = [awaiting EXCEPT ![w] = attempt]
          /\ UNCHANGED <<vars, answer, open, error, attempt, opened>>
       \/ /\ ~opened
          /\ attempt < MaxAttempts
          /\ AtRest
          /\ StartSession
          /\ attempt' = attempt + 1
          /\ opened' = TRUE
          /\ awaiting' = [awaiting EXCEPT ![w] = attempt + 1]
    /\ UNCHANGED <<clientOpen, failedTo, given>>

(* The handler registered first on the attempt's promise: a rejection is   *)
(* not kept.                                                               *)
Forgets_OnSettling == open \in {"failed", "open"}
Forgets == open = "failed"
Forget ==
    /\ opened
    /\ Forgets
    /\ opened' = FALSE
    /\ UNCHANGED <<vars, answer, openVars, attempt, awaiting, failedTo, given>>

(* The awaiters of a rejection are told after it is forgotten.             *)
Forgotten_AnyTime(w) == TRUE
Forgotten(w) == awaiting[w] < attempt \/ ~opened
Told(w) ==
    /\ awaiting[w] # 0
    /\ \/ /\ awaiting[w] < attempt \/ open = "failed"
          /\ Forgotten(w)
          /\ failedTo' = [failedTo EXCEPT ![w] = awaiting[w]]
          /\ UNCHANGED given
       \/ /\ awaiting[w] = attempt /\ open = "open"
          /\ given' = [given EXCEPT ![w] = attempt]
          /\ UNCHANGED failedTo
    /\ awaiting' = [awaiting EXCEPT ![w] = 0]
    /\ UNCHANGED <<vars, answer, openVars, attempt, opened>>

----------------------------------------------------------------------------

OpenStep == CallTools \/ CallStart \/ Opens \/ OpenFails \/ Rejects

OpenNext ==
    \/ OpenStep \/ ClientCloses
    \/ \E l \in Uses : SessionCall(l)
    \/ SessionClose
    \/ \E l \in Calls : HolderStep(WaitStep(l)) \/ HolderStep(Answered(l))
    \/ HolderStep(MintStep)
    \/ HolderStep((ShutResumes \/ CloseReturns) /\ UNCHANGED answer)
    \/ \E c \in Creds : HolderStep(EndSettles(c) /\ UNCHANGED answer)
    \/ Tick /\ UNCHANGED <<answer, openVars, openerVars>>
    \/ Forget
    \/ \E w \in Awaiters : Awaits(w) \/ Told(w)

OpenSpec == OpenInit /\ [][OpenNext]_allVars

(* Microtasks run, and every call, mint and end settles (Renewing).        *)
OpenFairness ==
    /\ WF_allVars(OpenStep)
    /\ \A l \in Calls :
          /\ WF_allVars(HolderStep(WaitStep(l)) /\ phase[l] = "resuming")
          /\ WF_allVars(HolderStep(Answered(l)))
    /\ WF_allVars(HolderStep(MintStep))
    /\ WF_allVars(HolderStep((ShutResumes \/ CloseReturns)
                                /\ UNCHANGED answer))
    /\ \A c \in Creds :
          WF_allVars(HolderStep(EndSettles(c) /\ UNCHANGED answer))
    /\ WF_allVars(Forget)
    /\ \A w \in Awaiters : WF_allVars(Told(w))

OpenFairSpec == OpenSpec /\ OpenFairness

----------------------------------------------------------------------------
(* Properties.                                                             *)

(* "rejecting at once would let the caller see the open fail while the key *)
(* it minted was still live" (operations.ts:679): when open() has failed   *)
(* short of its deadline, no call carries the key, every credential it was *)
(* is being ended and the last has been.                                   *)
FailedOpenHoldsNothing ==
    open = "failed" /\ error # "timeout" =>
        /\ ~minting
        /\ \A c \in 1 .. minted : Users(c) = {} /\ ends[c] = 1
        /\ idle # None => endDone[idle]

(* "With an externalId, the key is ended once its mint lands, without this *)
(* waiting for it" (operations.ts:520): whatever a failed open leaves, it  *)
(* does not leave live.                                                    *)
KeyGoesAfterFailure == open = "failed" ~> AtRest

(* "A rejection must not be cached" (operations.ts:1298): an awaiter told  *)
(* that an attempt failed never waits on that attempt again.               *)
NoStaleRejection ==
    \A w \in Awaiters : awaiting[w] # 0 => awaiting[w] > failedTo[w]

(* "awaiting it again, concurrently or later, yields the same session      *)
(* rather than opening a second one" (operations.ts:1254).                 *)
OneSession ==
    \A v, w \in Awaiters : given[v] # 0 /\ given[w] # 0 => given[v] = given[w]

(* Whatever meets an open, every await of the opener is answered.          *)
AwaitersSettle == \A w \in Awaiters : awaiting[w] # 0 ~> awaiting[w] = 0
=============================================================================
