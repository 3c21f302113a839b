--------------------------- MODULE CustodyProofs ---------------------------
(* What the promises of Custody and of Keyring amount to, for any number   *)
(* of credentials, of keys and of calls.                                   *)
EXTENDS Custody, Keyring, TLAPS

(* The three parts of the promise are inductive together: the last to let  *)
(* go is whoever finds nobody else carrying the credential.                *)
CustodyInv == CustodyTypeOK /\ CustodySafe /\ OneHeld

LEMMA CustodyHoldsAtFirst == CustodyInit => CustodyInv
  BY DEF CustodyInit, CustodyInv, CustodyTypeOK, CustodySafe, OneHeld

(* Minting with nothing held, discarding or giving up disturbs no          *)
(* borrower.                                                               *)
LEMMA CustodyOfHeld ==
    ASSUME CustodyInv, NEW c \in Creds, Mint(c) \/ Discard(c) \/ GiveUp(c)
    PROVE  CustodyInv'
<1>1. CASE Mint(c)
  BY <1>1 DEF Mint, CustodyInv, CustodyTypeOK, CustodySafe, OneHeld
<1>2. CASE GiveUp(c)
  BY <1>2 DEF GiveUp, LetGo, CustodyInv, CustodyTypeOK, CustodySafe, OneHeld
<1>3. CASE Discard(c)
  BY <1>3 DEF Discard, CustodyInv, CustodyTypeOK, CustodySafe, OneHeld
<1>4. QED BY <1>1, <1>2, <1>3

(* A renewal keeps one credential held: the fresh one.                     *)
LEMMA CustodyOfReplaced ==
    ASSUME CustodyInv, NEW c \in Creds, NEW old \in Creds, Replace(c, old)
    PROVE  CustodyInv'
<1>1. c # old
  BY DEF Replace
<1>2. state' = [state EXCEPT ![c] = "held", ![old] = LetGo(old)]
  BY DEF Replace
<1>3. CustodyTypeOK'
  BY <1>2 DEF Replace, LetGo, CustodyInv, CustodyTypeOK
<1>4. CustodySafe'
  BY <1>1, <1>2
  DEF Replace, LetGo, CustodyInv, CustodyTypeOK, CustodySafe
<1>5. OneHeld'
  BY <1>1, <1>2 DEF Replace, LetGo, CustodyInv, CustodyTypeOK, OneHeld
<1>6. QED BY <1>3, <1>4, <1>5 DEF CustodyInv

(* A borrower leaves a credential given up to the borrowers that remain,   *)
(* or revokes it.                                                          *)
LEMMA CustodyOfBorrowed ==
    ASSUME CustodyInv, NEW c \in Creds, NEW l \in Calls,
           Borrow(c, l) \/ Return(c, l)
    PROVE  CustodyInv'
<1>1. CASE Borrow(c, l)
  BY <1>1 DEF Borrow, CustodyInv, CustodyTypeOK, CustodySafe, OneHeld
<1>2. CASE Return(c, l)
  <2>1. CASE state[c] = "given_up" /\ borrowers[c] = {l}
    BY <1>2, <2>1
    DEF Return, CustodyInv, CustodyTypeOK, CustodySafe, OneHeld
  <2>2. CASE ~(state[c] = "given_up" /\ borrowers[c] = {l})
    <3>1. state' = state
      BY <1>2, <2>2 DEF Return
    <3>2. state[c] = "given_up" => borrowers[c] \ {l} # {}
      BY <1>2, <2>2 DEF Return
    <3>3. QED
      BY <1>2, <3>1, <3>2
      DEF Return, CustodyInv, CustodyTypeOK, CustodySafe, OneHeld
  <2>3. QED BY <2>1, <2>2
<1>3. QED BY <1>1, <1>2

(* Whoever keeps the promise never revokes a credential that is still      *)
(* carried, never leaves one live with nobody to end it, and never holds   *)
(* two.                                                                    *)
THEOREM CustodyInvariant == CustodySpec => []CustodyInv
<1>1. CustodyInit => CustodyInv
  BY CustodyHoldsAtFirst
<1>2. CustodyInv /\ [CustodyNext]_custodyVars => CustodyInv'
  <2>1. CASE UNCHANGED custodyVars
    BY <2>1
    DEF custodyVars, CustodyInv, CustodyTypeOK, CustodySafe, OneHeld
  <2>2. CASE CustodyInv /\ CustodyNext
    BY <2>2, CustodyOfHeld, CustodyOfReplaced, CustodyOfBorrowed
    DEF CustodyNext
  <2>3. QED BY <2>1, <2>2
<1>3. QED BY <1>1, <1>2, PTL DEF CustodySpec

(* No credential is revoked while a call carries it, and one given up is   *)
(* either carried or revoked.                                              *)
THEOREM CustodyIsSafe == CustodySpec => []CustodySafe
<1>1. CustodyInv => CustodySafe
  BY DEF CustodyInv
<1>2. QED BY <1>1, CustodyInvariant, PTL

(* A holder never has two credentials it has not given up.                 *)
THEOREM OneAtATime == CustodySpec => []OneHeld
<1>1. CustodyInv => OneHeld
  BY DEF CustodyInv
<1>2. QED BY <1>1, CustodyInvariant, PTL

----------------------------------------------------------------------------
(* Keyring: what a client promises of all its keys.                        *)

(* A key that is carried is lent, one that is lent is accepted and not     *)
(* being ended, and none is lent once the calls are over.                  *)
LentOut ==
    /\ \A k \in KeyIds : fate[k] = "unminted" => k \notin lent \cup accepted
    /\ \A k \in KeyIds : carriers[k] # {} => k \in lent
    /\ closing # "abandoned" =>
          \A k \in lent : k \in accepted /\ fate[k] \notin {"ending", "warned"}

Accounts ==
    /\ \A k \in accepted \ expired : fate[k] \in {"kept", "ending", "warned"}
    /\ closing = "released" =>
          \A k \in KeyIds : fate[k] \notin {"kept", "ending"}

KeyringInv == KeyringTypeOK /\ LentOut /\ Accounts

(* A key lent to calls is not ended and stays accepted.                    *)
LEMMA LendingGoesOn ==
    ASSUME KeyringInv, KeyringNext
    PROVE  LentOut'
<1>1. KeyringTypeOK /\ KeyringTypeOK' /\ Lending /\ Service /\ Closing
  BY DEF KeyringInv, KeyringNext
<1>2. ASSUME NEW k \in KeyIds, fate'[k] = "unminted"
      PROVE  fate[k] = "unminted" /\ k \notin lent' \cup accepted'
  <2>1. fate[k] = "unminted"
    BY <1>2 DEF KeyringNext, Kept, EndBegins, EndFailed, Forgotten, Warned,
        Moves
  <2>2. k \notin lent \cup accepted
    BY <2>1 DEF KeyringInv, LentOut
  <2>3. k \notin accepted'
    BY <1>1, <1>2, <2>2 DEF Service
  <2>. QED
    BY <1>1, <2>1, <2>2, <2>3 DEF Lending
<1>3. ASSUME NEW k \in KeyIds, carriers'[k] # {}
      PROVE  k \in lent'
  BY <1>1, <1>3 DEF KeyringInv, LentOut, Lending
<1>4. ASSUME closing' # "abandoned", NEW k \in lent'
      PROVE  k \in accepted' /\ fate'[k] \notin {"ending", "warned"}
  <2>1. closing # "abandoned" /\ k \in KeyIds
    BY <1>1, <1>4 DEF Closing, KeyringTypeOK
  <2>2. k \in lent => k \in accepted /\ fate[k] \notin {"ending", "warned"}
    BY <2>1 DEF KeyringInv, LentOut
  <2>3. k \in accepted'
    BY <1>1, <1>4, <2>2 DEF Lending, Service
  <2>4. fate[k] \notin {"ending", "warned"}
    BY <1>1, <1>4, <2>2 DEF Lending
  <2>5. ~OutOfUse(k)
    BY <1>4 DEF OutOfUse
  <2>6. fate'[k] = fate[k] \/ Kept(k) \/ EndFailed(k) \/ Forgotten(k)
    BY <2>1, <2>5 DEF KeyringNext, EndBegins, Warned
  <2>. QED
    BY <2>3, <2>4, <2>6 DEF Kept, EndFailed, Forgotten, Moves
<1>. QED
  BY <1>2, <1>3, <1>4 DEF LentOut

(* A key is forgotten only when ended or expired, and none is left to end  *)
(* when the connection is released.                                        *)
LEMMA AccountsGoOn ==
    ASSUME KeyringInv, KeyringNext
    PROVE  Accounts'
<1>1. KeyringTypeOK /\ KeyringTypeOK' /\ Service /\ Closing /\ Released
  BY DEF KeyringInv, KeyringNext
<1>2. ASSUME NEW k \in accepted' \ expired'
      PROVE  fate'[k] \in {"kept", "ending", "warned"}
  <2>1. k \in KeyIds
    BY <1>1, <1>2 DEF KeyringTypeOK
  <2>2. ~Forgotten(k)
    BY <1>2 DEF Forgotten
  <2>3. k \in accepted => fate[k] \in {"kept", "ending", "warned"}
    BY <1>1, <1>2 DEF Service, KeyringInv, Accounts
  <2>4. k \notin accepted => fate[k] = "unminted" /\ fate'[k] # "unminted"
    BY <1>1, <1>2 DEF Service, Moves
  <2>5. fate'[k] = fate[k] \/ Kept(k) \/ EndBegins(k) \/ EndFailed(k) \/ Warned(k)
    BY <2>1, <2>2 DEF KeyringNext
  <2>. QED
    BY <2>3, <2>4, <2>5 DEF Kept, EndBegins, EndFailed, Warned, Moves
<1>3. ASSUME closing' = "released", NEW k \in KeyIds
      PROVE  fate'[k] \notin {"kept", "ending"}
  <2>1. CASE closing = "released"
    BY <2>1 DEF KeyringNext, KeyringInv, Accounts
  <2>2. CASE closing # "released"
    BY <1>1, <1>3, <2>2 DEF Released
  <2>. QED
    BY <2>1, <2>2
<1>. QED
  BY <1>2, <1>3 DEF Accounts

(* Whoever keeps the promise lends only keys that are accepted, and knows  *)
(* of every key that is.                                                   *)
THEOREM KeyringInvariant == KeyringSpec => []KeyringInv
<1>1. KeyringInit => KeyringInv
  BY DEF KeyringInit, KeyringInv, KeyringTypeOK, LentOut, Accounts
<1>2. KeyringInv /\ [KeyringNext]_keyringVars => KeyringInv'
  <2>1. CASE KeyringInv /\ UNCHANGED keyringVars
    BY <2>1 DEF keyringVars, KeyringInv, KeyringTypeOK, LentOut, Accounts
  <2>2. CASE KeyringInv /\ KeyringNext
    BY <2>2, LendingGoesOn, AccountsGoOn DEF KeyringInv, KeyringNext
  <2>. QED
    BY <2>1, <2>2
<1>. QED
  BY <1>1, <1>2, PTL DEF KeyringSpec

(* The service accepts the key of every call in flight, unless a close did *)
(* not wait for the calls.                                                 *)
THEOREM KeyringIsSafe == KeyringSpec => []CarriedIsAccepted
<1>1. KeyringInv => CarriedIsAccepted
  BY DEF KeyringInv, LentOut, CarriedIsAccepted
<1>. QED
  BY <1>1, KeyringInvariant, PTL

(* A key the service accepts is expired or accounted for, and only         *)
(* warnings are left once the connection is released.                      *)
THEOREM KeyringAccounts == KeyringSpec => []NoneLostSight
<1>1. KeyringInv => NoneLostSight
  BY DEF KeyringInv, KeyringTypeOK, Accounts, NoneLostSight
<1>. QED
  BY <1>1, KeyringInvariant, PTL
=============================================================================
