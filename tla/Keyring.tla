------------------------------ MODULE Keyring ------------------------------
(***************************************************************************)
(* What a client of any of the SDKs promises of the impersonation keys it  *)
(* mints, whichever sessions hold them and whichever of its parties end    *)
(* them: a key is lent to calls only while it may be used, ended only once *)
(* nothing can carry it, remembered until its end is answered or it has    *)
(* expired, and named in a warning if the client closes without having     *)
(* ended it.                                                               *)
(*                                                                         *)
(* The promise is stated by Memco.close and LiveKey of                     *)
(* src/nodejs/src/client.ts, and by Client.Close of                        *)
(* src/go/memcoai/client.go and Keys of src/go/internal/transport/keys.go; *)
(* Client.tla and GoClient.tla are shown to keep it.  Custody is what the  *)
(* holder of one session promises; this is about all of them together.     *)
(***************************************************************************)
CONSTANTS
    KeyIds,     \* the keys that may come to exist
    Callers     \* the calls that carry them

VARIABLES
    fate,       \* what the client has done about each key
    lent,       \* the keys that calls carry, or may yet
    carriers,   \* the calls carrying each key
    accepted,   \* the keys the service accepts
    expired,    \* those past their expiry by the local clock
    closing     \* how the client's close() has come along

keyringVars == <<fate, lent, carriers, accepted, expired, closing>>

KeyringTypeOK ==
    /\ fate \in [KeyIds -> {"unminted", "kept", "ending", "over", "warned"}]
    /\ carriers \in [KeyIds -> SUBSET Callers]
    /\ lent \subseteq KeyIds /\ accepted \subseteq KeyIds
    /\ expired \subseteq KeyIds
    /\ closing \in {"open", "drained", "released", "abandoned"}

KeyringInit ==
    /\ fate = [k \in KeyIds |-> "unminted"]
    /\ carriers = [k \in KeyIds |-> {}]
    /\ lent = {} /\ accepted = {} /\ expired = {}
    /\ closing = "open"

(* One step may move several keys: a call that settles ends the key it     *)
(* was the last to carry and those of the sessions dropped meanwhile.      *)
Moves(k, from, to) == fate[k] \in from /\ fate'[k] = to

(* A key is ended once nothing may carry it, and nothing will, unless the  *)
(* caller stopped waiting for the calls.                                   *)
OutOfUse(k) == k \notin lent' \/ closing' = "abandoned"

Kept(k) == Moves(k, {"unminted"}, "kept")

(* An end is sent, of a key that was forgotten only if it had expired.     *)
EndBegins(k) ==
    /\ OutOfUse(k)
    /\ \/ Moves(k, {"unminted", "kept"}, "ending")
       \/ Moves(k, {"over"}, "ending") /\ k \in expired

(* It failed, and will be tried again.                                     *)
EndFailed(k) == Moves(k, {"ending"}, "kept")

(* The client forgets a key that was ended, or that has expired.           *)
Forgotten(k) ==
    /\ Moves(k, {"unminted", "kept", "ending"}, "over")
    /\ k \notin accepted' \/ k \in expired'

(* A key that could not be ended is left to its expiry, with a warning.    *)
Warned(k) ==
    /\ Moves(k, {"kept", "ending"}, "warned")
    /\ OutOfUse(k)
    /\ closing' # "open" \/ k \in expired'

(* A key is lent from when it is minted, and once it is not, never again.  *)
Lending ==
    /\ \A k \in lent' \ lent : fate[k] = "unminted" /\ k \in accepted'
    /\ \A k \in lent \ lent' : carriers'[k] = {}
    /\ \A k \in KeyIds : carriers'[k] \subseteq carriers[k] \/ k \in lent'

(* The service stops accepting what it was asked to end.                   *)
Service ==
    /\ \A k \in accepted' \ accepted : Moves(k, {"unminted"}, fate'[k])
                                       /\ fate'[k] # "unminted"
    /\ \A k \in accepted \ accepted' : fate[k] \in {"ending", "warned"}
    /\ expired \subseteq expired'

(* close() waits for the calls and releases the connection once nothing is *)
(* left to end, or the caller stops waiting.                               *)
Closing ==
    \/ UNCHANGED closing
    \/ closing = "open" /\ closing' = "abandoned"
    \/ /\ closing = "open" /\ closing' \in {"drained", "released"}
       /\ lent' = {}
    \/ closing = "drained" /\ closing' = "released"

Released ==
    closing # "released" /\ closing' = "released" =>
        \A k \in KeyIds : fate'[k] \notin {"kept", "ending"}

KeyringNext ==
    /\ KeyringTypeOK'
    /\ \A k \in KeyIds :
          \/ fate'[k] = fate[k]
          \/ Kept(k) \/ EndBegins(k) \/ EndFailed(k)
          \/ Forgotten(k) \/ Warned(k)
    /\ Lending /\ Service /\ Closing /\ Released
    /\ closing \in {"drained", "released"} => UNCHANGED <<lent, carriers>>
    /\ closing = "released" => UNCHANGED <<fate, accepted>>

KeyringSpec == KeyringInit /\ [][KeyringNext]_keyringVars

----------------------------------------------------------------------------
(* What follows from the promise.                                          *)

(* A call is never made under a key the client has begun to end, so the    *)
(* service accepts the key of every call in flight; only a close whose     *)
(* caller stopped waiting does otherwise.                                  *)
CarriedIsAccepted ==
    closing # "abandoned" =>
        \A k \in KeyIds : carriers[k] # {} =>
            k \in accepted /\ fate[k] \notin {"ending", "warned"}

(* A key that the service accepts, and that has not expired, is kept, is   *)
(* being ended or was named in a warning, and only named in a warning once *)
(* the client has released its connection.                                 *)
NoneLostSight ==
    \A k \in accepted \ expired :
        /\ fate[k] \in {"kept", "ending", "warned"}
        /\ closing = "released" => fate[k] = "warned"
=============================================================================
