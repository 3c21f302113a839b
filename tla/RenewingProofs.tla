--------------------------- MODULE RenewingProofs ---------------------------
(***************************************************************************)
(* What TLAPS proves of Renewing, for any number of mints, and then of     *)
(* SessionOpen, which runs the holder under open(), for any calls,         *)
(* credentials, awaiters and attempts: the holder's inductive invariant    *)
(* and the properties that follow; the holder keeps it under open(), a     *)
(* failed open() holds nothing, and an opener yields one session and no    *)
(* stale rejection.                                                        *)
(***************************************************************************)
EXTENDS SessionOpen, FiniteSetTheorems, TLAPS

(* The calls carrying a credential are finitely many, so their number is a *)
(* natural, zero only when there are none (Minted.users, auth.ts:124).     *)
LEMMA UsersFinite ==
    ASSUME NEW c
    PROVE  /\ IsFiniteSet(Users(c))
           /\ Cardinality(Users(c)) \in Nat
           /\ Cardinality(Users(c)) = 0 <=> Users(c) = {}
<1>1. Users(c) \subseteq Calls
  BY DEF Users
<1>2. IsFiniteSet(Users(c))
  BY <1>1, CallsAssumption, FS_Subset
<1>. QED
  BY <1>2, FS_CardinalityType, FS_EmptySet

(* Counting a call in: held.users += 1 (auth.ts:340) keeps the count exact *)
(* when the call was not carrying a credential before.                     *)
LEMMA StartUseCounts ==
    ASSUME TypeOK, Bookkeeping, NEW l \in Calls, NEW h \in 1 .. minted,
           phase[l] # "using", StartUse(l, h)
    PROVE  /\ Users(h)' = Users(h) \cup {l}
           /\ \A c \in Creds : c # h => Users(c)' = Users(c)
           /\ \A c \in Creds : users'[c] = Cardinality(Users(c)')
           /\ users' \in [Creds -> Nat]
<1>. h \in Creds
  BY MaxMintsAssumption DEF TypeOK, Creds
<1>1. Users(h)' = Users(h) \cup {l}
  BY DEF StartUse, Users, TypeOK
<1>2. ASSUME NEW c \in Creds, c # h
      PROVE  Users(c)' = Users(c)
  BY <1>2 DEF StartUse, Users, TypeOK
<1>3. Cardinality(Users(h)') = Cardinality(Users(h)) + 1
  BY <1>1, l \notin Users(h), UsersFinite, FS_AddElement DEF Users
<1>4. ASSUME NEW c \in Creds
      PROVE  users'[c] = Cardinality(Users(c)')
  <2>1. CASE c = h
    BY <2>1, <1>3 DEF StartUse, TypeOK, Bookkeeping
  <2>2. CASE c # h
    BY <2>2, <1>2 DEF StartUse, TypeOK, Bookkeeping
  <2>. QED
    BY <2>1, <2>2
<1>5. users' \in [Creds -> Nat]
  BY DEF StartUse, TypeOK
<1>. QED
  BY <1>1, <1>2, <1>4, <1>5

(* Nothing that leaves the calls in use alone changes who carries what.    *)
LEMMA UsersUnchanged ==
    ASSUME NEW c,
           \A l \in Calls : phase'[l] = "using" <=> phase[l] = "using",
           \A l \in Calls : phase[l] = "using" => held'[l] = held[l]
    PROVE  Users(c)' = Users(c)
BY DEF Users

(* A holder that was just built has nothing to account for                 *)
(* (auth.ts:264-287).                                                      *)
THEOREM InitIInv == Init => IInv
<1>. SUFFICES ASSUME Init PROVE IInv
  OBVIOUS
<1>1. TypeOK
  <2>. /\ current \in {None} /\ idle \in {None} /\ age \in Ages
       /\ minted \in 0 .. MaxMints
    BY MaxMintsAssumption DEF Init, Ages
  <2>. /\ phase \in [Calls -> Phases]
       /\ held \in [Calls -> Creds \cup {None}]
    BY DEF Init, Phases
  <2>. QED
    BY DEF Init, TypeOK
<1>2. \A c \in Creds : Users(c) = {}
  BY DEF Init, Users
<1>3. \A c \in Creds : users[c] = Cardinality(Users(c))
  BY <1>2, FS_EmptySet DEF Init
<1>4. Bookkeeping
  BY <1>2, <1>3, MaxMintsAssumption DEF Init, Bookkeeping, Creds, None
<1>. QED
  BY <1>1, <1>4 DEF IInv, Init, WaitersHaveNothing, RefusedOnlyIfClosed

----------------------------------------------------------------------------
(* The steps of lease().                                                   *)

(* A lease that starts to use a credential its holder still holds keeps    *)
(* the books: the one fact lease() must never get wrong.                   *)
LEMMA StartUseBooks ==
    ASSUME IInv, NEW l \in Calls, NEW h \in 1 .. minted,
           phase[l] # "using", ~retired[h], StartUse(l, h),
           UNCHANGED <<current, minted, closed, closing, retired, ends>>,
           minting' \in BOOLEAN, minting' => minted < MaxMints,
           minting' # minting => ~closed
    PROVE  Bookkeeping'
<1>. USE DEF IInv
<1>. h \in Creds
  BY MaxMintsAssumption DEF TypeOK, Creds
<1>1. /\ Users(h)' = Users(h) \cup {l}
      /\ \A c \in Creds : c # h => Users(c)' = Users(c)
      /\ \A c \in Creds : users'[c] = Cardinality(Users(c)')
  BY StartUseCounts
<1>2. \A c \in Creds : retired[c] => Users(c)' = Users(c)
  BY <1>1
<1>3. \A c \in Creds :
         ends'[c] = IF retired'[c] /\ Users(c)' = {} THEN 1 ELSE 0
  BY <1>2 DEF Bookkeeping
<1>4. \A k \in Calls : k # l => phase'[k] = phase[k] /\ held'[k] = held[k]
  BY DEF StartUse, TypeOK
<1>5. phase'[l] = "using" /\ held'[l] = h
  BY DEF StartUse, TypeOK
<1>6. \A k \in Calls : phase'[k] \in {"using", "resuming"}
         => held'[k] \in 1 .. minted'
  BY <1>4, <1>5 DEF Bookkeeping
<1>7. \A k \in Calls : phase'[k] = "resuming"
         => held'[k] = current' \/ closed'
  BY <1>4, <1>5 DEF Bookkeeping
<1>. QED
  BY <1>1, <1>3, <1>6, <1>7 DEF Bookkeeping

(* A step that carries no credential and takes none away keeps the books.  *)
LEMMA QuietBooks ==
    ASSUME IInv,
           UNCHANGED <<current, minted, closed, closing, users, retired, ends>>,
           minting' \in BOOLEAN, minting' => minted < MaxMints,
           minting' # minting => ~closed \/ ~minting',
           \A k \in Calls : phase'[k] = "using" <=> phase[k] = "using",
           \A k \in Calls : phase[k] = "using" => held'[k] = held[k],
           \A k \in Calls : phase'[k] = "resuming"
              => /\ held'[k] \in 1 .. minted
                 /\ held'[k] = current \/ closed
    PROVE  Bookkeeping'
<1>. USE DEF IInv
<1>1. \A c \in Creds : Users(c)' = Users(c)
  BY UsersUnchanged
<1>2. \A k \in Calls : phase'[k] \in {"using", "resuming"}
         => held'[k] \in 1 .. minted'
  BY DEF Bookkeeping
<1>. QED
  BY <1>1, <1>2 DEF Bookkeeping

(* Each step of lease(), its waits and its finally included                *)
(* (auth.ts:309-350), keeps the books.                                     *)
LEMMA LeaseStepIInv ==
    ASSUME IInv, NEW l \in Calls, LeaseStep(l)
    PROVE  IInv'
<1>. USE DEF IInv
<1>. phase \in [Calls -> Phases] /\ held \in [Calls -> Creds \cup {None}]
  BY DEF TypeOK
<1>1. CASE LeaseRefused(l)
  <2>. USE <1>1 DEF LeaseRefused, holderVars, credVars
  <2>1. TypeOK'
    BY DEF TypeOK, Phases
  <2>2. Bookkeeping'
    BY QuietBooks DEF TypeOK, Bookkeeping
  <2>3. WaitersHaveNothing' /\ RefusedOnlyIfClosed'
    BY DEF WaitersHaveNothing, RefusedOnlyIfClosed
  <2>. QED
    BY <2>1, <2>2, <2>3
<1>2. CASE LeaseValid(l)
  <2>. USE <1>2 DEF LeaseValid, holderVars
  <2>1. current \in 1 .. minted /\ ~retired[current] /\ current \in Creds
    BY MaxMintsAssumption DEF TypeOK, Bookkeeping, Creds, None
  <2>2. TypeOK'
    BY <2>1, StartUseCounts DEF TypeOK, StartUse, Phases
  <2>3. Bookkeeping'
    BY <2>1, StartUseBooks DEF TypeOK, Bookkeeping
  <2>4. WaitersHaveNothing' /\ RefusedOnlyIfClosed'
    BY DEF StartUse, WaitersHaveNothing, RefusedOnlyIfClosed
  <2>. QED
    BY <2>2, <2>3, <2>4
<1>3. CASE LeaseDue(l)
  <2>. USE <1>3 DEF LeaseDue
  <2>1. current \in 1 .. minted /\ ~retired[current] /\ current \in Creds
    BY MaxMintsAssumption DEF TypeOK, Bookkeeping, Creds, None
  <2>2. minting' \in BOOLEAN /\ (minting' => minted < MaxMints)
    BY DEF StartOrJoinMint, Bookkeeping
  <2>3. TypeOK'
    BY <2>1, <2>2, StartUseCounts DEF TypeOK, StartUse, Phases
  <2>4. Bookkeeping'
    BY <2>1, <2>2, StartUseBooks
  <2>5. WaitersHaveNothing' /\ RefusedOnlyIfClosed'
    BY DEF StartUse, StartOrJoinMint, WaitersHaveNothing, RefusedOnlyIfClosed
  <2>. QED
    BY <2>3, <2>4, <2>5
<1>4. CASE LeaseWaits(l)
  <2>. USE <1>4 DEF LeaseWaits, credVars
  <2>1. minting' \in BOOLEAN /\ (minting' => minted < MaxMints)
    BY DEF StartOrJoinMint, Bookkeeping
  <2>2. TypeOK'
    BY <2>1 DEF TypeOK, Phases
  <2>3. Bookkeeping'
    BY <2>1, QuietBooks DEF Bookkeeping
  <2>4. WaitersHaveNothing' /\ RefusedOnlyIfClosed'
    BY DEF StartOrJoinMint, MustWait, WaitersHaveNothing, RefusedOnlyIfClosed
  <2>. QED
    BY <2>2, <2>3, <2>4
<1>5. CASE Resume(l)
  <2>. USE <1>5 DEF Resume, holderVars
  <2>1. held[l] \in 1 .. minted /\ held[l] \in Creds
    BY MaxMintsAssumption DEF TypeOK, Bookkeeping, Creds
  <2>2. TypeOK'
    BY <2>1, StartUseCounts DEF TypeOK, StartUse, Phases
  <2>3. Bookkeeping'
    BY <2>1, StartUseBooks DEF TypeOK, Bookkeeping
  <2>4. WaitersHaveNothing' /\ RefusedOnlyIfClosed'
    BY DEF StartUse, WaitersHaveNothing, RefusedOnlyIfClosed
  <2>. QED
    BY <2>2, <2>3, <2>4
<1>6. CASE ResumeRetired(l)
  <2>. USE <1>6 DEF ResumeRetired, holderVars, credVars
  <2>1. TypeOK'
    BY DEF TypeOK, Phases
  <2>2. Bookkeeping'
    BY QuietBooks DEF TypeOK, Bookkeeping
  <2>3. closed
    <3>1. held[l] \in Creds /\ held[l] # current
      BY MaxMintsAssumption DEF TypeOK, Bookkeeping, Creds
    <3>. QED
      BY <3>1 DEF Bookkeeping
  <2>4. WaitersHaveNothing' /\ RefusedOnlyIfClosed'
    BY <2>3 DEF WaitersHaveNothing, RefusedOnlyIfClosed
  <2>. QED
    BY <2>1, <2>2, <2>4
<1>7. CASE TimesOut(l)
  <2>. USE <1>7 DEF TimesOut, holderVars, credVars
  <2>1. TypeOK'
    BY DEF TypeOK, Phases
  <2>2. Bookkeeping'
    BY QuietBooks DEF TypeOK, Bookkeeping
  <2>3. WaitersHaveNothing' /\ RefusedOnlyIfClosed'
    BY DEF WaitersHaveNothing, RefusedOnlyIfClosed
  <2>. QED
    BY <2>1, <2>2, <2>3
<1>8. CASE Finish(l)
  <2>. USE <1>8 DEF Finish, holderVars
  <2>. held[l] \in 1 .. minted /\ held[l] \in Creds
    BY MaxMintsAssumption DEF TypeOK, Bookkeeping, Creds
  <2>1. PICK h \in Creds : h = held[l] /\ h \in 1 .. minted
    OBVIOUS
  <2>2. /\ Users(h)' = Users(h) \ {l}
        /\ l \in Users(h)
        /\ \A c \in Creds : c # h => Users(c)' = Users(c)
    BY <2>1 DEF Users, TypeOK
  <2>3. /\ users' = [users EXCEPT ![h] = users[h] - 1]
         /\ ends' = IF LastUse(h) THEN [ends EXCEPT ![h] = ends[h] + 1]
                    ELSE ends
    <3>1. h # None
      BY DEF Creds, None
    <3>. QED
      BY <2>1, <3>1 DEF CallEnd, LastUse
  <2>4. /\ Cardinality(Users(h)') = Cardinality(Users(h)) - 1
        /\ Cardinality(Users(h)) = users[h]
        /\ users[h] \in Nat \ {0}
    <3>1. Cardinality(Users(h)) = users[h]
      BY DEF Bookkeeping
    <3>2. Cardinality(Users(h)) # 0 /\ users[h] \in Nat
      BY <2>2, UsersFinite DEF TypeOK
    <3>3. Cardinality(Users(h)') = Cardinality(Users(h)) - 1
      BY <2>2, UsersFinite, FS_RemoveElement
    <3>. QED
      BY <3>1, <3>2, <3>3
  <2>5. Users(h)' = {} <=> users[h] = 1
    <3>1. IsFiniteSet(Users(h)')
      BY <2>2, UsersFinite, FS_RemoveElement
    <3>2. Users(h)' = {} <=> Cardinality(Users(h)') = 0
      BY <3>1, FS_EmptySet
    <3>3. users[h] = 1 <=> Cardinality(Users(h)') = 0
      BY <2>4
    <3>. QED
      BY <3>2, <3>3
  <2>6. \A c \in Creds : users'[c] = Cardinality(Users(c)')
    <3>. SUFFICES ASSUME NEW c \in Creds
                  PROVE  users'[c] = Cardinality(Users(c)')
      OBVIOUS
    <3>1. CASE c = h
      <4>1. users'[h] = Cardinality(Users(h)')
        BY <2>4, <2>3 DEF TypeOK
      <4>. QED
        BY <3>1, <4>1
    <3>2. CASE c # h
      <4>1. users'[c] = users[c] /\ Users(c)' = Users(c)
        BY <3>2, <2>2, <2>3 DEF TypeOK
      <4>. QED
        BY <4>1 DEF Bookkeeping
    <3>. QED
      BY <3>1, <3>2
  <2>7. \A c \in Creds :
           ends'[c] = IF retired'[c] /\ Users(c)' = {} THEN 1 ELSE 0
    <3>. SUFFICES ASSUME NEW c \in Creds
                  PROVE  ends'[c] = IF retired'[c] /\ Users(c)' = {}
                                    THEN 1 ELSE 0
      OBVIOUS
    <3>. retired' = retired /\ c # None
      BY DEF Creds, None
    <3>1. CASE c = h
      <4>1. ends[h] = 0
        BY <2>1, <2>2 DEF Bookkeeping
      <4>. QED
        <5>1. CASE LastUse(h)
          <6>1. ends'[h] = 1 /\ retired[h] /\ Users(h)' = {}
            BY <4>1, <5>1, <2>5, <2>3 DEF LastUse, TypeOK
          <6>. QED
            BY <3>1, <6>1
        <5>2. CASE ~LastUse(h)
          <6>1. ends' = ends /\ ~(retired[h] /\ Users(h)' = {})
            BY <5>2, <2>5, <2>3 DEF LastUse
          <6>. QED
            BY <3>1, <4>1, <6>1
        <5>. QED
          BY <5>1, <5>2
    <3>2. CASE c # h
      <4>1. ends'[c] = ends[c]
        BY <3>2, <2>3 DEF TypeOK
      <4>. QED
        BY <3>2, <4>1, <2>2 DEF Bookkeeping
    <3>. QED
      BY <3>1, <3>2
  <2>8. \A k \in Calls : k # l => phase'[k] = phase[k] /\ held'[k] = held[k]
    OBVIOUS
  <2>9. phase'[l] = "returned"
    OBVIOUS
  <2>10. Bookkeeping'
    BY <2>6, <2>7, <2>8, <2>9 DEF Bookkeeping
  <2>11. TypeOK'
    <3>1. users' \in [Creds -> Nat]
      BY <2>1, <2>4 DEF TypeOK
    <3>2. ends' \in [Creds -> Nat]
      BY <2>1 DEF TypeOK, CallEnd
    <3>. QED
      BY <3>1, <3>2 DEF TypeOK, Phases
  <2>12. WaitersHaveNothing' /\ RefusedOnlyIfClosed'
    BY <2>8, <2>9 DEF WaitersHaveNothing, RefusedOnlyIfClosed
  <2>. QED
    BY <2>10, <2>11, <2>12
<1>. QED
  BY <1>1, <1>2, <1>3, <1>4, <1>5, <1>6, <1>7, <1>8 DEF LeaseStep

----------------------------------------------------------------------------
(* The steps of renew(), close() and shut(), and the world's.              *)

(* retire() and end() of what is held (auth.ts:186-192), as a renewal that *)
(* landed and shut() both do it: the credential is marked, and ended at    *)
(* once exactly when nothing carries it.                                   *)
LEMMA RetireBooks ==
    ASSUME IInv, Retire(current),
           CallEnd(IF IdleAtRetirement(current) THEN current ELSE None),
           users' = users,
           \/ minted' = minted /\ current' = None
           \/ minted' = minted + 1 /\ current' = minted + 1,
           \A k \in Calls : phase'[k] = "using" <=> phase[k] = "using",
           \A k \in Calls : phase[k] = "using" => held'[k] = held[k]
    PROVE  /\ \A c \in Creds : users'[c] = Cardinality(Users(c)')
           /\ \A c \in Creds : retired'[c] <=> c <= minted' /\ c # current'
           /\ \A c \in Creds :
                 ends'[c] = IF retired'[c] /\ Users(c)' = {} THEN 1 ELSE 0
           /\ retired' \in [Creds -> BOOLEAN]
           /\ ends' \in [Creds -> Nat]
<1>. USE DEF IInv
<1>1. \A c \in Creds : Users(c)' = Users(c)
  BY UsersUnchanged
<1>2. \A c \in Creds : users'[c] = Cardinality(Users(c)')
  BY <1>1 DEF Bookkeeping
<1>3. retired' \in [Creds -> BOOLEAN] /\ ends' \in [Creds -> Nat]
  BY DEF TypeOK, Retire, CallEnd
<1>4. current \in Int /\ minted \in Int /\ MaxMints \in Int
  BY MaxMintsAssumption DEF TypeOK, Creds, None
<1>5. \A c \in Creds : retired'[c] <=> retired[c] \/ c = current
  BY DEF TypeOK, Retire, Creds, None
<1>6. \A c \in Creds : retired'[c] <=> c <= minted' /\ c # current'
  <2>. SUFFICES ASSUME NEW c \in Creds
                PROVE  retired'[c] <=> c <= minted' /\ c # current'
    OBVIOUS
  <2>1. retired[c] <=> c <= minted /\ c # current
    BY DEF Bookkeeping
  <2>2. c \in Int /\ c > 0 /\ current <= minted
    BY <1>4 DEF Creds, Bookkeeping
  <2>. QED
    BY <1>4, <1>5, <2>1, <2>2 DEF None
<1>7. \A c \in Creds :
         ends'[c] = IF retired'[c] /\ Users(c)' = {} THEN 1 ELSE 0
  <2>. SUFFICES ASSUME NEW c \in Creds
                PROVE  ends'[c] = IF retired'[c] /\ Users(c)' = {}
                                  THEN 1 ELSE 0
    OBVIOUS
  <2>1. Users(c)' = Users(c) /\ (users[c] = 0 <=> Users(c) = {})
    BY <1>1, UsersFinite DEF Bookkeeping
  <2>2. c # None
    BY DEF Creds, None
  <2>3. ends[c] = IF retired[c] /\ Users(c) = {} THEN 1 ELSE 0
    BY DEF Bookkeeping
  <2>4. CASE c = current
    <3>1. ~retired[c] /\ retired'[c]
      BY <1>5, <2>4 DEF Bookkeeping
    <3>2. ends'[c] = IF users[c] = 0 THEN 1 ELSE 0
      BY <2>2, <2>3, <2>4, <3>1 DEF CallEnd, IdleAtRetirement, TypeOK
    <3>. QED
      BY <2>1, <3>1, <3>2
  <2>5. CASE c # current
    <3>1. ends'[c] = ends[c]
      BY <2>2, <2>5 DEF CallEnd, TypeOK
    <3>. QED
      BY <1>5, <2>1, <2>3, <2>5, <3>1
  <2>. QED
    BY <2>4, <2>5
<1>. QED
  BY <1>2, <1>3, <1>6, <1>7

(* Each way renew() can go on from its mint keeps the books                *)
(* (auth.ts:390-424).                                                      *)
LEMMA MintSettlesIInv ==
    ASSUME IInv, MintSettles
    PROVE  IInv'
<1>. USE DEF IInv
<1>. phase \in [Calls -> Phases] /\ held \in [Calls -> Creds \cup {None}]
  BY DEF TypeOK
<1>1. ASSUME NEW a \in Ages, MintLands(a)
      PROVE  IInv'
  <2>. USE <1>1 DEF MintLands
  <2>1. minted \in Nat /\ MaxMints \in Nat /\ minted < MaxMints
        /\ minted + 1 \in Creds /\ current \in Int /\ current <= minted
    BY MaxMintsAssumption DEF TypeOK, Bookkeeping, Creds, None
  <2>2. \A k \in Calls :
           /\ phase'[k] = IF phase[k] = "waiting" THEN "resuming" ELSE phase[k]
           /\ held'[k] = IF phase[k] = "waiting" THEN minted + 1 ELSE held[k]
    BY DEF SettleWaiters
  <2>3. /\ \A c \in Creds : users'[c] = Cardinality(Users(c)')
        /\ \A c \in Creds : retired'[c] <=> c <= minted' /\ c # current'
        /\ \A c \in Creds :
              ends'[c] = IF retired'[c] /\ Users(c)' = {} THEN 1 ELSE 0
        /\ retired' \in [Creds -> BOOLEAN]
        /\ ends' \in [Creds -> Nat]
    BY <2>1, <2>2, RetireBooks DEF Stale
  <2>4. \A k \in Calls : phase'[k] \in {"using", "resuming"}
           => held'[k] \in 1 .. minted'
    BY <2>1, <2>2 DEF Quiet, Bookkeeping
  <2>5. \A k \in Calls : phase'[k] = "resuming" => held'[k] = current'
    BY <2>1, <2>2 DEF Quiet
  <2>6. closing \notin {"ending", "done"}
    BY DEF Bookkeeping
  <2>7. Bookkeeping'
    BY <2>1, <2>3, <2>4, <2>5, <2>6 DEF Bookkeeping
  <2>8. /\ phase' \in [Calls -> Phases]
        /\ held' \in [Calls -> Creds \cup {None}]
    BY <2>1 DEF SettleWaiters, Phases
  <2>9. TypeOK'
    <3>1. current' \in Creds \cup {None} /\ minted' \in 0 .. MaxMints
      BY <2>1
    <3>2. age' \in Ages /\ minting' \in BOOLEAN
      OBVIOUS
    <3>. QED
      BY <2>3, <2>8, <3>1, <3>2 DEF TypeOK
  <2>10. WaitersHaveNothing' /\ RefusedOnlyIfClosed'
    BY <2>2 DEF WaitersHaveNothing, RefusedOnlyIfClosed
  <2>. QED
    BY <2>7, <2>9, <2>10
<1>2. CASE MintFails
  <2>. USE <1>2 DEF MintFails, credVars
  <2>1. \A k \in Calls :
           /\ phase'[k] = IF phase[k] = "waiting" THEN "failed" ELSE phase[k]
           /\ held'[k] = IF phase[k] = "waiting" THEN None ELSE held[k]
    BY DEF SettleWaiters
  <2>2. Bookkeeping'
    BY <2>1, QuietBooks DEF Bookkeeping
  <2>3. /\ phase' \in [Calls -> Phases]
        /\ held' \in [Calls -> Creds \cup {None}]
    BY DEF SettleWaiters, Phases
  <2>4. TypeOK'
    BY <2>3 DEF TypeOK
  <2>5. WaitersHaveNothing' /\ RefusedOnlyIfClosed'
    BY <2>1 DEF WaitersHaveNothing, RefusedOnlyIfClosed
  <2>. QED
    BY <2>2, <2>4, <2>5
<1>3. CASE MintFallsBack
  <2>. USE <1>3 DEF MintFallsBack, credVars
  <2>1. \A k \in Calls : phase[k] # "waiting"
    BY DEF WaitersHaveNothing
  <2>2. \A k \in Calls : phase'[k] = phase[k] /\ held'[k] = held[k]
    BY <2>1 DEF SettleWaiters
  <2>3. Bookkeeping'
    BY <2>2, QuietBooks DEF Bookkeeping
  <2>4. /\ phase' \in [Calls -> Phases]
        /\ held' \in [Calls -> Creds \cup {None}]
    BY <2>1 DEF SettleWaiters, Phases, TypeOK
  <2>5. TypeOK'
    BY <2>4 DEF TypeOK
  <2>6. WaitersHaveNothing' /\ RefusedOnlyIfClosed'
    BY <2>1, <2>2 DEF WaitersHaveNothing, RefusedOnlyIfClosed
  <2>. QED
    BY <2>3, <2>5, <2>6
<1>. QED
  BY <1>1, <1>2, <1>3 DEF MintSettles

(* shut(), called in close() or resumed by the mint it waited on.          *)
LEMMA ShutIInv ==
    ASSUME IInv, ~minting, closed', Shut,
           UNCHANGED <<age, minting, minted, users, endDone, callVars>>
    PROVE  IInv'
<1>. USE DEF IInv, Shut, callVars
<1>1. CASE current # None
  <2>1. /\ \A c \in Creds : users'[c] = Cardinality(Users(c)')
        /\ \A c \in Creds : retired'[c] <=> c <= minted' /\ c # current'
        /\ \A c \in Creds :
              ends'[c] = IF retired'[c] /\ Users(c)' = {} THEN 1 ELSE 0
        /\ retired' \in [Creds -> BOOLEAN]
        /\ ends' \in [Creds -> Nat]
    BY <1>1, RetireBooks DEF TypeOK
  <2>2. Bookkeeping'
    BY <2>1 DEF Bookkeeping, TypeOK, None
  <2>3. TypeOK'
    BY <2>1 DEF TypeOK, IdleAtRetirement
  <2>. QED
    BY <2>2, <2>3 DEF WaitersHaveNothing, RefusedOnlyIfClosed
<1>2. CASE current = None
  <2>1. /\ current' = current /\ idle' = None
        /\ retired' = retired /\ ends' = ends
    BY <1>2 DEF Retire, CallEnd, IdleAtRetirement
  <2>2. \A c \in Creds : Users(c)' = Users(c)
    BY UsersUnchanged
  <2>3. Bookkeeping'
    BY <1>2, <2>1, <2>2 DEF Bookkeeping
  <2>4. TypeOK'
    BY <1>2, <2>1 DEF TypeOK
  <2>. QED
    BY <1>2, <2>3, <2>4 DEF WaitersHaveNothing, RefusedOnlyIfClosed
<1>. QED
  BY <1>1, <1>2

(* The steps of close() and of shut() keep the books (auth.ts:352-379).    *)
LEMMA CloseIInv ==
    ASSUME IInv, Close \/ ShutResumes \/ CloseReturns
    PROVE  IInv'
<1>. USE DEF IInv
<1>1. CASE Close /\ ~MintToAwait
  BY <1>1, ShutIInv DEF Close, MintToAwait, Shut
<1>2. CASE Close /\ MintToAwait
  <2>. USE <1>2 DEF Close, MintToAwait, callVars, Shut
  <2>1. \A c \in Creds : Users(c)' = Users(c)
    BY UsersUnchanged
  <2>2. Bookkeeping'
    BY <2>1 DEF Bookkeeping
  <2>3. TypeOK'
    BY DEF TypeOK
  <2>. QED
    BY <2>2, <2>3 DEF WaitersHaveNothing, RefusedOnlyIfClosed
<1>3. CASE ShutResumes
  BY <1>3, ShutIInv DEF ShutResumes, Bookkeeping
<1>4. CASE CloseReturns
  <2>. USE <1>4 DEF CloseReturns, callVars, credVars
  <2>1. \A c \in Creds : Users(c)' = Users(c)
    BY UsersUnchanged
  <2>2. Bookkeeping'
    BY <2>1 DEF Bookkeeping
  <2>3. TypeOK'
    BY DEF TypeOK
  <2>. QED
    BY <2>2, <2>3 DEF WaitersHaveNothing, RefusedOnlyIfClosed
<1>. QED
  BY <1>1, <1>2, <1>3, <1>4

(* So do the clock and the answers to the ends sent.                       *)
LEMMA WorldIInv ==
    ASSUME IInv, Tick \/ \E c \in Creds : EndSettles(c)
    PROVE  IInv'
<1>. USE DEF IInv
<1>1. CASE Tick
  <2>. USE <1>1 DEF Tick, credVars, callVars
  <2>1. \A c \in Creds : Users(c)' = Users(c)
    BY UsersUnchanged
  <2>2. Bookkeeping'
    BY <2>1 DEF Bookkeeping
  <2>3. TypeOK'
    BY DEF TypeOK, Ages
  <2>. QED
    BY <2>2, <2>3 DEF WaitersHaveNothing, RefusedOnlyIfClosed
<1>2. ASSUME NEW c \in Creds, EndSettles(c)
      PROVE  IInv'
  <2>. USE <1>2 DEF EndSettles, holderVars, callVars
  <2>1. \A d \in Creds : Users(d)' = Users(d)
    BY UsersUnchanged
  <2>2. Bookkeeping'
    BY <2>1 DEF Bookkeeping
  <2>3. TypeOK'
    BY DEF TypeOK
  <2>. QED
    BY <2>2, <2>3 DEF WaitersHaveNothing, RefusedOnlyIfClosed
<1>. QED
  BY <1>1, <1>2

(* And so does a step of something else.                                   *)
LEMMA StutterIInv ==
    ASSUME IInv, UNCHANGED vars
    PROVE  IInv'
<1>. USE DEF IInv, vars, holderVars, credVars, callVars
<1>1. \A c \in Creds : Users(c)' = Users(c)
  BY UsersUnchanged
<1>2. Bookkeeping'
  BY <1>1 DEF Bookkeeping
<1>3. TypeOK'
  BY DEF TypeOK
<1>. QED
  BY <1>2, <1>3 DEF WaitersHaveNothing, RefusedOnlyIfClosed

(* The books are right in every state of every behaviour: IInv is an       *)
(* invariant of class Renewing (auth.ts:264-424).                          *)
THEOREM RenewingInvariant == Spec => []IInv
<1>1. Init => IInv
  BY InitIInv
<1>2. IInv /\ [Next]_vars => IInv'
  BY LeaseStepIInv, MintSettlesIInv, CloseIInv, WorldIInv, StutterIInv
     DEF Next
<1>. QED
  BY <1>1, <1>2, PTL DEF Spec

----------------------------------------------------------------------------
(* What follows from the books.                                            *)

(* Every variable stays in its type (the fields of auth.ts:104-287).       *)
THEOREM TypeCorrect == Spec => []TypeOK
BY RenewingInvariant, PTL DEF IInv

(* A renewal or a close never ends a credential under a call that still    *)
(* carries it (auth.ts:257).                                               *)
THEOREM NeverEndedUnderUse == Spec => []NoEndUnderUse
<1>1. IInv => NoEndUnderUse
  BY DEF IInv, Bookkeeping, NoEndUnderUse
<1>. QED
  BY <1>1, RenewingInvariant, PTL

(* The retirer and the last lease never both end one (auth.ts:180).        *)
THEOREM EndedAtMostOnce == Spec => []EndedOnce
<1>1. IInv => EndedOnce
  BY DEF IInv, Bookkeeping, EndedOnce
<1>. QED
  BY <1>1, RenewingInvariant, PTL

(* What is no longer current is ended or still carried, and a holder whose *)
(* close() returned keeps nothing (auth.ts:258, 357).                      *)
THEOREM NothingIsLeftBehind == Spec => []NothingLeftBehind
<1>1. IInv => NothingLeftBehind
  <2>. SUFFICES ASSUME IInv PROVE NothingLeftBehind
    OBVIOUS
  <2>1. ASSUME NEW c \in 1 .. minted, c # current
        PROVE  ends[c] = 1 \/ Users(c) # {}
    <3>1. c \in Creds
      BY MaxMintsAssumption DEF IInv, TypeOK, Creds
    <3>2. retired[c]
      BY <2>1, <3>1 DEF IInv, Bookkeeping
    <3>. QED
      BY <3>1, <3>2 DEF IInv, Bookkeeping
  <2>2. closing = "done" => current = None /\ ~minting
    BY DEF IInv, Bookkeeping
  <2>. QED
    BY <2>1, <2>2 DEF NothingLeftBehind
<1>. QED
  BY <1>1, RenewingInvariant, PTL

(* Only a close() makes a lease fail as closed: no renewal retires a       *)
(* credential a lease is about to resume with (auth.ts:336).               *)
THEOREM OnlyCloseRefuses == Spec => []RefusedOnlyIfClosed
BY RenewingInvariant, PTL DEF IInv

(* A lease waits only when it has no credential to use (auth.ts:250).      *)
THEOREM OnlyTheDestituteWait == Spec => []WaitersHaveNothing
BY RenewingInvariant, PTL DEF IInv

----------------------------------------------------------------------------
(* The refinement of Custody.                                              *)

(* A step that leaves the marks and the calls' uses alone is a stutter.    *)
LEMMA CustodyStutter ==
    ASSUME UNCHANGED <<minted, retired, ends>>,
           \A l \in Calls : phase'[l] = "using" <=> phase[l] = "using",
           \A l \in Calls : phase[l] = "using" => held'[l] = held[l]
    PROVE  UNCHANGED C!custodyVars
<1>1. \A c \in Creds : Users(c)' = Users(c)
  BY UsersUnchanged
<1>2. [c \in Creds |-> Users(c)]' = [c \in Creds |-> Users(c)]
  BY <1>1
<1>3. custodyState' = custodyState
  BY DEF custodyState
<1>. QED
  BY <1>2, <1>3 DEF C!custodyVars

(* A lease that starts to use what its holder holds is a Borrow.           *)
LEMMA StartUseBorrows ==
    ASSUME IInv, NEW l \in Calls, NEW h \in 1 .. minted,
           phase[l] # "using", ~retired[h], StartUse(l, h),
           UNCHANGED <<minted, retired, ends>>
    PROVE  C!CustodyNext
<1>. USE DEF IInv
<1>. h \in Creds
  BY MaxMintsAssumption DEF TypeOK, Creds
<1>1. /\ Users(h)' = Users(h) \cup {l}
      /\ \A c \in Creds : c # h => Users(c)' = Users(c)
  BY StartUseCounts
<1>2. custodyState[h] = "held"
  BY MaxMintsAssumption DEF custodyState, TypeOK, Creds
<1>3. custodyState' = custodyState
  BY DEF custodyState
<1>4. \A d \in Creds : l \notin Users(d)
  BY DEF Users
<1>5. [c \in Creds |-> Users(c)]'
        = [[c \in Creds |-> Users(c)] EXCEPT ![h] = @ \cup {l}]
  BY <1>1
<1>6. C!Borrow(h, l)
  BY <1>2, <1>3, <1>4, <1>5 DEF C!Borrow
<1>. QED
  BY <1>6 DEF C!CustodyNext

(* The end of a call is a Return, which revokes what it was last to carry. *)
LEMMA FinishReturns ==
    ASSUME IInv, NEW l \in Calls, Finish(l)
    PROVE  C!CustodyNext
<1>. USE DEF IInv, Finish, holderVars
<1>. held[l] \in 1 .. minted /\ held[l] \in Creds
  BY MaxMintsAssumption DEF TypeOK, Bookkeeping, Creds
<1>1. PICK h \in Creds : h = held[l] /\ h \in 1 .. minted
  OBVIOUS
<1>2. /\ Users(h)' = Users(h) \ {l}
      /\ l \in Users(h)
      /\ \A c \in Creds : c # h => Users(c)' = Users(c)
  BY <1>1 DEF Users, TypeOK
<1>3. users[h] = 1 <=> Users(h) = {l}
  <2>1. users[h] = Cardinality(Users(h)) /\ users[h] \in Nat
    BY DEF Bookkeeping, TypeOK
  <2>2. /\ IsFiniteSet(Users(h) \ {l})
        /\ Cardinality(Users(h) \ {l}) = Cardinality(Users(h)) - 1
    BY <1>2, UsersFinite, FS_RemoveElement
  <2>3. Users(h) \ {l} = {} <=> Cardinality(Users(h) \ {l}) = 0
    BY <2>2, FS_EmptySet
  <2>4. users[h] = 1 <=> Users(h) \ {l} = {}
    BY <2>1, <2>2, <2>3
  <2>. QED
    BY <1>2, <2>4
<1>4. [c \in Creds |-> Users(c)]'
        = [[c \in Creds |-> Users(c)] EXCEPT ![h] = @ \ {l}]
  BY <1>2
<1>5. ends[h] = 0
  BY <1>2 DEF Bookkeeping
<1>6. custodyState[h] = "given_up" <=> retired[h]
  BY <1>1, <1>5, MaxMintsAssumption DEF custodyState, TypeOK
<1>7. h # None
  BY DEF Creds, None
<1>8. CASE LastUse(h)
  <2>1. ends' = [ends EXCEPT ![h] = 1]
    BY <1>1, <1>5, <1>7, <1>8 DEF CallEnd, TypeOK
  <2>2. custodyState' = [custodyState EXCEPT ![h] = "revoked"]
    <3>1. ends'[h] = 1 /\ \A c \in Creds : c # h => ends'[c] = ends[c]
      BY <2>1 DEF TypeOK
    <3>2. h \in Int /\ minted \in Int /\ ~(h > minted) /\ retired[h]
      BY <1>1, <1>8, MaxMintsAssumption DEF TypeOK, LastUse
    <3>3. \A c \in Creds :
             custodyState'[c] = IF c = h THEN "revoked" ELSE custodyState[c]
      BY <3>1, <3>2 DEF custodyState
    <3>4. custodyState' = [c \in Creds |-> custodyState'[c]]
      BY DEF custodyState
    <3>5. [custodyState EXCEPT ![h] = "revoked"]
             = [c \in Creds |->
                   IF c = h THEN "revoked" ELSE custodyState[c]]
      BY DEF custodyState
    <3>. QED
      BY <3>3, <3>4, <3>5
  <2>3. C!Return(h, l)
    BY <1>2, <1>3, <1>4, <1>6, <1>8, <2>2 DEF C!Return, LastUse
  <2>. QED
    BY <2>3 DEF C!CustodyNext
<1>9. CASE ~LastUse(h)
  <2>1. ends' = ends
    BY <1>1, <1>9 DEF CallEnd
  <2>2. custodyState' = custodyState
    BY <2>1 DEF custodyState
  <2>3. C!Return(h, l)
    BY <1>2, <1>3, <1>4, <1>6, <1>9, <2>2 DEF C!Return, LastUse
  <2>. QED
    BY <2>3 DEF C!CustodyNext
<1>. QED
  BY <1>8, <1>9

(* What retiring the current credential does to its abstract state.        *)
LEMMA RetireLetsGo ==
    ASSUME IInv, current # None, Retire(current),
           CallEnd(IF IdleAtRetirement(current) THEN current ELSE None),
           minted' \in {minted, minted + 1}
    PROVE  /\ custodyState[current] = "held"
           /\ custodyState'[current] = C!LetGo(current)
           /\ \A c \in Creds : c # current => ends'[c] = ends[c]
           /\ \A c \in Creds : c # current => retired'[c] = retired[c]
<1>. USE DEF IInv
<1>1. current \in Creds /\ current \in Nat /\ minted \in Nat
      /\ current <= minted /\ current # 0
  BY MaxMintsAssumption DEF TypeOK, Bookkeeping, Creds, None
<1>2. ~retired[current] /\ ends[current] = 0
  BY <1>1 DEF Bookkeeping
<1>3. custodyState[current] = "held"
  BY <1>1, <1>2 DEF custodyState
<1>4. users[current] = 0 <=> Users(current) = {}
  BY <1>1, UsersFinite DEF Bookkeeping
<1>5. /\ retired' = [retired EXCEPT ![current] = TRUE]
      /\ ends' = IF users[current] = 0
                 THEN [ends EXCEPT ![current] = @ + 1] ELSE ends
  BY DEF Retire, CallEnd, IdleAtRetirement
<1>6. retired'[current] /\ (ends'[current] = 0 <=> users[current] # 0)
  BY <1>1, <1>2, <1>5 DEF TypeOK
<1>7. PICK h \in Creds : h = current
  BY <1>1
<1>8. custodyState'[h] = IF users[h] = 0 THEN "revoked" ELSE "given_up"
  BY <1>1, <1>6, <1>7 DEF custodyState
<1>9. C!LetGo(h) = IF users[h] = 0 THEN "revoked" ELSE "given_up"
  BY <1>4, <1>7 DEF C!LetGo
<1>10. /\ \A c \in Creds : c # current => ends'[c] = ends[c]
       /\ \A c \in Creds : c # current => retired'[c] = retired[c]
  BY <1>1, <1>5 DEF TypeOK
<1>. QED
  BY <1>3, <1>7, <1>8, <1>9, <1>10

(* A mint that lands is a Mint, or a Replace of the credential it retires. *)
LEMMA MintLandsMints ==
    ASSUME IInv, NEW a \in Ages, MintLands(a)
    PROVE  C!CustodyNext
<1>. USE DEF IInv
<1>1. /\ minted \in Nat /\ MaxMints \in Nat /\ minted + 1 \in Creds
      /\ minted' = minted + 1 /\ current \in Nat /\ current <= minted
  BY MaxMintsAssumption
     DEF MintLands, TypeOK, Bookkeeping, Creds, None
<1>2. PICK n \in Creds : n = minted + 1
  BY <1>1
<1>3. \A k \in Calls :
         /\ phase'[k] = "using" <=> phase[k] = "using"
         /\ phase[k] = "using" => held'[k] = held[k]
  BY DEF MintLands, SettleWaiters
<1>4. [c \in Creds |-> Users(c)]' = [c \in Creds |-> Users(c)]
  <2>1. \A c \in Creds : Users(c)' = Users(c)
    BY <1>3, UsersUnchanged
  <2>. QED
    BY <2>1
<1>5. custodyState[n] = "unminted"
  BY <1>1, <1>2 DEF custodyState
<1>6. /\ Retire(current)
      /\ CallEnd(IF IdleAtRetirement(current) THEN current ELSE None)
  BY DEF MintLands, Stale
<1>7. \A c \in Creds : c # current => retired'[c] = retired[c]
  BY <1>6 DEF Retire, TypeOK
<1>8. ~retired[n]
  BY <1>1, <1>2 DEF Bookkeeping
<1>9. custodyState'[n] = "held"
  BY <1>1, <1>2, <1>7, <1>8 DEF custodyState
<1>10. custodyState' = [c \in Creds |-> custodyState'[c]]
  BY DEF custodyState
<1>11. CASE current = None
  <2>1. retired' = retired /\ ends' = ends
    BY <1>6, <1>11 DEF Retire, CallEnd, IdleAtRetirement
  <2>2. \A c \in Creds : custodyState[c] # "held"
    BY <1>1, <1>11 DEF custodyState, Bookkeeping, Creds, None
  <2>3. \A c \in Creds : c # n => custodyState'[c] = custodyState[c]
    BY <1>1, <1>2, <2>1 DEF custodyState, Creds
  <2>4. [custodyState EXCEPT ![n] = "held"]
          = [c \in Creds |-> IF c = n THEN "held" ELSE custodyState[c]]
    BY DEF custodyState
  <2>5. custodyState' = [custodyState EXCEPT ![n] = "held"]
    BY <1>9, <1>10, <2>3, <2>4
  <2>6. C!Mint(n)
    BY <1>4, <1>5, <2>2, <2>5 DEF C!Mint
  <2>. QED
    BY <2>6 DEF C!CustodyNext
<1>12. CASE current # None
  <2>1. /\ custodyState[current] = "held"
        /\ custodyState'[current] = C!LetGo(current)
        /\ \A c \in Creds : c # current => ends'[c] = ends[c]
    BY <1>1, <1>6, <1>12, RetireLetsGo
  <2>2. PICK old \in Creds : old = current
    BY <1>12 DEF TypeOK
  <2>3. custodyState'[old] = C!LetGo(old) /\ n # old
    BY <1>1, <1>2, <2>1, <2>2
  <2>4. \A c \in Creds : c # n /\ c # old
           => custodyState'[c] = custodyState[c]
    BY <1>1, <1>2, <1>7, <2>1, <2>2 DEF custodyState, Creds
  <2>5. [custodyState EXCEPT ![n] = "held", ![old] = C!LetGo(old)]
          = [c \in Creds |-> IF c = old THEN C!LetGo(old)
                             ELSE IF c = n THEN "held" ELSE custodyState[c]]
    BY <2>3 DEF custodyState
  <2>6. custodyState'
          = [custodyState EXCEPT ![n] = "held", ![old] = C!LetGo(old)]
    BY <1>9, <1>10, <2>3, <2>4, <2>5
  <2>7. C!Replace(n, old)
    BY <1>4, <1>5, <2>1, <2>2, <2>6 DEF C!Replace
  <2>. QED
    BY <2>7 DEF C!CustodyNext
<1>. QED
  BY <1>11, <1>12

(* shut() gives up what is held, if anything is.                           *)
LEMMA ShutGivesUp ==
    ASSUME IInv, Shut, UNCHANGED <<minted, callVars>>
    PROVE  C!CustodyNext \/ UNCHANGED C!custodyVars
<1>. USE DEF IInv, Shut, callVars
<1>1. CASE current = None
  <2>1. retired' = retired /\ ends' = ends
    BY <1>1 DEF Retire, CallEnd, IdleAtRetirement
  <2>. QED
    BY <2>1, CustodyStutter
<1>2. CASE current # None
  <2>1. /\ custodyState[current] = "held"
        /\ custodyState'[current] = C!LetGo(current)
        /\ \A c \in Creds : c # current => ends'[c] = ends[c]
        /\ \A c \in Creds : c # current => retired'[c] = retired[c]
    BY <1>2, RetireLetsGo
  <2>2. PICK old \in Creds : old = current
    BY <1>2 DEF TypeOK
  <2>3. \A c \in Creds : c # old => custodyState'[c] = custodyState[c]
    BY <2>1, <2>2 DEF custodyState
  <2>4. custodyState' = [c \in Creds |-> custodyState'[c]]
    BY DEF custodyState
  <2>5. [custodyState EXCEPT ![old] = C!LetGo(old)]
          = [c \in Creds |-> IF c = old THEN C!LetGo(old)
                             ELSE custodyState[c]]
    BY DEF custodyState
  <2>6. custodyState' = [custodyState EXCEPT ![old] = C!LetGo(old)]
    BY <2>1, <2>2, <2>3, <2>4, <2>5
  <2>7. [c \in Creds |-> Users(c)]' = [c \in Creds |-> Users(c)]
    <3>1. \A c \in Creds : Users(c)' = Users(c)
      BY UsersUnchanged
    <3>. QED
      BY <3>1
  <2>8. C!GiveUp(old)
    BY <2>1, <2>2, <2>6, <2>7 DEF C!GiveUp
  <2>. QED
    BY <2>8 DEF C!CustodyNext
<1>. QED
  BY <1>1, <1>2

(* Class Renewing keeps the promise of Custody: every step of it is a step *)
(* of the abstract holder or leaves the abstract state alone.              *)
THEOREM RenewingKeepsCustody == Spec => KeepsCustody
<1>1. Init => C!CustodyInit
  <2>. SUFFICES ASSUME Init PROVE C!CustodyInit
    OBVIOUS
  <2>1. custodyState = [c \in Creds |-> "unminted"]
    BY DEF Init, custodyState, Creds
  <2>2. [c \in Creds |-> Users(c)] = [c \in Creds |-> {}]
    BY DEF Init, Users
  <2>. QED
    BY <2>1, <2>2 DEF C!CustodyInit
<1>2. IInv /\ [Next]_vars => [C!CustodyNext]_(C!custodyVars)
  <2>. SUFFICES ASSUME IInv, [Next]_vars
                PROVE  C!CustodyNext \/ UNCHANGED C!custodyVars
    OBVIOUS
  <2>. USE DEF holderVars, credVars, callVars
  <2>1. ASSUME NEW l \in Calls, LeaseStep(l)
        PROVE  C!CustodyNext \/ UNCHANGED C!custodyVars
    <3>1. CASE LeaseRefused(l) \/ ResumeRetired(l) \/ TimesOut(l)
               \/ LeaseWaits(l)
      <4>. phase \in [Calls -> Phases]
           /\ held \in [Calls -> Creds \cup {None}]
        BY DEF IInv, TypeOK
      <4>1. /\ UNCHANGED <<minted, retired, ends>>
            /\ \A k \in Calls : phase'[k] = "using" <=> phase[k] = "using"
            /\ \A k \in Calls : phase[k] = "using" => held'[k] = held[k]
        BY <3>1 DEF LeaseRefused, ResumeRetired, TimesOut, LeaseWaits
      <4>. QED
        BY <4>1, CustodyStutter
    <3>2. CASE LeaseValid(l) \/ LeaseDue(l)
      <4>1. current \in 1 .. minted /\ ~retired[current]
        BY <3>2, MaxMintsAssumption
           DEF LeaseValid, LeaseDue, IInv, TypeOK, Bookkeeping, Creds, None
      <4>. QED
        BY <3>2, <4>1, StartUseBorrows DEF LeaseValid, LeaseDue
    <3>3. CASE Resume(l)
      <4>1. held[l] \in 1 .. minted
        BY <3>3 DEF Resume, IInv, Bookkeeping
      <4>. QED
        BY <3>3, <4>1, StartUseBorrows DEF Resume
    <3>4. CASE Finish(l)
      BY <3>4, FinishReturns
    <3>. QED
      BY <2>1, <3>1, <3>2, <3>3, <3>4 DEF LeaseStep
  <2>2. CASE MintSettles
    <3>1. ASSUME NEW a \in Ages, MintLands(a)
          PROVE  C!CustodyNext
      BY <3>1, MintLandsMints
    <3>2. CASE MintFails \/ MintFallsBack
      <4>1. /\ UNCHANGED <<minted, retired, ends>>
            /\ \A k \in Calls : phase'[k] = "using" <=> phase[k] = "using"
            /\ \A k \in Calls : phase[k] = "using" => held'[k] = held[k]
        BY <3>2 DEF MintFails, MintFallsBack, SettleWaiters
      <4>. QED
        BY <4>1, CustodyStutter
    <3>. QED
      BY <2>2, <3>1, <3>2 DEF MintSettles
  <2>3. CASE Close \/ ShutResumes
    <3>1. CASE Shut
      BY <2>3, <3>1, ShutGivesUp DEF Close, ShutResumes
    <3>2. CASE ~Shut
      <4>1. UNCHANGED <<minted, retired, ends, phase, held>>
        BY <2>3, <3>2 DEF Close, ShutResumes
      <4>. QED
        BY <4>1, CustodyStutter
    <3>. QED
      BY <3>1, <3>2
  <2>4. CASE CloseReturns \/ Tick \/ UNCHANGED vars
    <3>1. UNCHANGED <<minted, retired, ends, phase, held>>
      BY <2>4 DEF CloseReturns, Tick, vars
    <3>. QED
      BY <3>1, CustodyStutter
  <2>5. ASSUME NEW c \in Creds, EndSettles(c)
        PROVE  UNCHANGED C!custodyVars
    <3>1. UNCHANGED <<minted, retired, ends, phase, held>>
      BY <2>5 DEF EndSettles
    <3>. QED
      BY <3>1, CustodyStutter
  <2>. QED
    BY <2>1, <2>2, <2>3, <2>4, <2>5 DEF Next
<1>. QED
  BY <1>1, <1>2, RenewingInvariant, PTL DEF Spec, KeepsCustody, C!CustodySpec

----------------------------------------------------------------------------
(* open() and the opener.                                                  *)

Live == {"waiting", "resuming", "using"}

(* Where the calls stand at each stage of open().                          *)
Stages ==
    /\ \A l \in Calls : answer[l] # "none" => phase[l] \notin Live
    /\ open \in {"listing", "starting", "both"} => ~closed
    /\ open = "listing"
          => \A l \in Calls \ {List} : phase[l] = "idle" /\ answer[l] = "none"
    /\ open \in {"starting", "both"} =>
          /\ answer[List] # "none"
          /\ \A l \in Uses : phase[l] = "idle"
    /\ open = "starting" => phase[Start] = "idle" /\ answer[Start] = "none"
    /\ open \in {"closing", "failed"} => \A l \in Calls : phase[l] \notin Live

(* Why a catalog the client refused never leaves Start under way: the two  *)
(* are leased in one job, so what refuses the one refuses the other.       *)
Together ==
    /\ open = "starting" /\ answer[Tools] = "config" => ~clientOpen
    /\ open = "both" /\ answer[Tools] = "config" => answer[Start] # "none"
    /\ open = "both" /\ phase[Tools] = "waiting"
          => phase[Start] = "waiting" \/ answer[Start] # "none"

(* What the holder has come to when open() rejects.                        *)
Rejected ==
    /\ closing = "done" /\ idle # None => endDone[idle]
    /\ open = "closing" => closed
    /\ open = "failed" /\ error # "timeout" =>
          /\ ~minting /\ current = None
          /\ closing \in {"open", "done"}
          /\ idle # None => endDone[idle]

(* What the opener's one promise says of the attempts and the awaiters.    *)
Opener ==
    /\ open \in {"listing", "starting", "both", "closing", "open"} => opened
    /\ \A w \in Awaiters :
          /\ awaiting[w] <= attempt
          /\ failedTo[w] <= attempt
          /\ opened => failedTo[w] < attempt
          /\ awaiting[w] # 0 => awaiting[w] > failedTo[w]
          /\ given[w] # 0 => given[w] = attempt /\ open = "open"

OpenInv == IInv /\ OpenTypeOK /\ Stages /\ Together /\ Rejected /\ Opener

----------------------------------------------------------------------------
(* A lease that begins is a lease of Renewing, whatever settles it.        *)
LEMMA CallIInv ==
    ASSUME IInv, NEW l \in Calls, Call(l)
    PROVE  IInv'
<1>1. CASE LeaseRefused(l) \/ LeaseValid(l) \/ LeaseDue(l) \/ LeaseWaits(l)
  BY <1>1, LeaseStepIInv DEF LeaseStep
<1>2. CASE UNCHANGED vars
  BY <1>2, StutterIInv
<1>. QED
  BY <1>1, <1>2 DEF Call

(* A holder made afresh, with or without List waiting on its first mint.   *)
LEMMA FreshIInv ==
    ASSUME StartSession
    PROVE  IInv'
<1>. USE DEF FreshOpen, StartSession
<1>1. \A c \in Creds : Users(c)' = {}
  BY DEF Users
<1>2. TypeOK'
  <2>1. /\ current' \in {None} /\ idle' \in {None}
        /\ age' \in Ages
        /\ closing' \in {"open", "minting", "ending", "done"}
    BY DEF Ages
  <2>4. minted' \in 0 .. MaxMints
    BY MaxMintsAssumption
  <2>5. minting' \in BOOLEAN /\ closed' \in BOOLEAN
    BY Zenon
  <2>2. /\ users' \in [Creds -> Nat] /\ retired' \in [Creds -> BOOLEAN]
        /\ ends' \in [Creds -> Nat] /\ endDone' \in [Creds -> BOOLEAN]
    OBVIOUS
  <2>3. phase' \in [Calls -> Phases] /\ held' \in [Calls -> Creds \cup {None}]
    BY DEF Phases
  <2>. QED
    BY <2>1, <2>2, <2>3, <2>4, <2>5 DEF TypeOK
<1>3. Bookkeeping'
  <2>1. \A c \in Creds : c \notin 1 .. minted' /\ ~(c <= minted')
    BY MaxMintsAssumption DEF Creds
  <2>2. \A c \in Creds : users'[c] = Cardinality(Users(c)')
    BY <1>1, FS_EmptySet
  <2>3. \A c \in Creds : /\ retired'[c] <=> c <= minted' /\ c # current'
                         /\ ends'[c] = IF retired'[c] /\ Users(c)' = {}
                                       THEN 1 ELSE 0
    BY <2>1
  <2>4. \A l \in Calls : phase'[l] \notin {"using", "resuming"}
    OBVIOUS
  <2>5. /\ current' <= minted'
        /\ minting' => minted' < MaxMints
        /\ closed' <=> closing' # "open"
        /\ closing' \notin {"ending", "done"}
    BY MaxMintsAssumption DEF None
  <2>. QED
    BY <2>2, <2>3, <2>4, <2>5 DEF Bookkeeping
<1>4. WaitersHaveNothing' /\ RefusedOnlyIfClosed'
  BY DEF WaitersHaveNothing, RefusedOnlyIfClosed
<1>. QED
  BY <1>2, <1>3, <1>4 DEF IInv

(* The holder's invariant is kept by everything open() and its opener do.  *)
LEMMA OpenNextIInv ==
    ASSUME IInv, [OpenNext]_allVars
    PROVE  IInv'
<1>1. CASE OpenStep
  <2>1. CASE CallTools \/ CallStart
    BY <2>1, CallIInv, OpenAssumption DEF CallTools, CallStart
  <2>2. CASE Opens \/ Rejects
    BY <2>2, StutterIInv DEF Opens, Rejects
  <2>3. CASE OpenFails
    BY <2>3, CloseIInv DEF OpenFails, ClosesKey
  <2>. QED
    BY <1>1, <2>1, <2>2, <2>3 DEF OpenStep
<1>2. CASE ClientCloses \/ Forget \/ UNCHANGED allVars
  BY <1>2, StutterIInv DEF ClientCloses, Forget, allVars
<1>3. ASSUME NEW l \in Uses, SessionCall(l)
      PROVE  IInv'
  BY <1>3, CallIInv, OpenAssumption DEF SessionCall
<1>4. CASE SessionClose
  BY <1>4, CloseIInv DEF SessionClose
<1>5. ASSUME NEW l \in Calls,
             HolderStep(WaitStep(l)) \/ HolderStep(Answered(l))
      PROVE  IInv'
  BY <1>5, LeaseStepIInv DEF HolderStep, WaitStep, Answered, LeaseStep
<1>6. CASE HolderStep(MintStep)
  BY <1>6, MintSettlesIInv DEF HolderStep, MintStep, MintSettles
<1>7. CASE HolderStep((ShutResumes \/ CloseReturns) /\ UNCHANGED answer)
  BY <1>7, CloseIInv DEF HolderStep
<1>8. ASSUME NEW c \in Creds, HolderStep(EndSettles(c) /\ UNCHANGED answer)
      PROVE  IInv'
  BY <1>8, WorldIInv DEF HolderStep
<1>9. CASE Tick /\ UNCHANGED <<answer, openVars, openerVars>>
  BY <1>9, WorldIInv
<1>10. ASSUME NEW w \in Awaiters, Awaits(w) \/ Told(w)
       PROVE  IInv'
  BY <1>10, StutterIInv, FreshIInv DEF Awaits, Told
<1>. QED
  BY <1>1, <1>2, <1>3, <1>4, <1>5, <1>6, <1>7, <1>8, <1>9, <1>10
     DEF OpenNext

----------------------------------------------------------------------------
(* What a call settles with is written once, when it settles.              *)
LEMMA AnswerFacts ==
    ASSUME OpenTypeOK, NEW outcome \in {"ok"} \cup Errors, Answer(outcome)
    PROVE  /\ answer' \in [Calls -> Answers]
           /\ \A l \in Calls : ~Settled(l) => answer'[l] = answer[l]
           /\ \A l \in Calls : Settled(l) => answer'[l] # "none"
           /\ \A l \in Calls : Settled(l) /\ answer'[l] = "config"
                 => phase'[l] = "refused" \/ outcome = "config"
<1>. USE DEF Errors
<1>1. answer \in [Calls -> Answers]
  BY DEF OpenTypeOK
<1>2. ASSUME NEW l \in Calls
      PROVE  answer'[l] \in {answer[l], "timeout", "config", outcome}
  BY DEF Answer
<1>. QED
  BY <1>1, <1>2 DEF Answer, Answers

(* Steps of the holder that move only leases under way, and neither close  *)
(* it nor touch open() or its opener.                                      *)
Moves ==
    /\ \A l \in Calls : phase'[l] # phase[l]
          => phase[l] \in Live /\ (phase'[l] \in Live \/ Settled(l))
    /\ \A l \in Calls : ~Settled(l) => answer'[l] = answer[l]
    /\ \A l \in Calls : Settled(l) => answer'[l] # "none"
    /\ answer' \in [Calls -> Answers]
    /\ closed' = closed
    /\ UNCHANGED <<openVars, openerVars>>

LEMMA WaitMoves ==
    ASSUME OpenInv, NEW k \in Calls, HolderStep(WaitStep(k))
    PROVE  /\ Moves
           /\ open = "both" => answer'[k] # "config"
           /\ \A l \in Calls \ {k} : phase'[l] = phase[l]
           /\ phase'[k] # "waiting"
           /\ UNCHANGED <<current, minting, closing, idle, endDone>>
<1>. USE DEF OpenInv, HolderStep, WaitStep
<1>1. /\ phase \in [Calls -> Phases] /\ phase[k] \in {"waiting", "resuming"}
      /\ \E to \in {"using", "refused", "timedout"} :
            /\ phase' = [phase EXCEPT ![k] = to]
            /\ to = "refused" => phase[k] = "resuming" /\ retired[held[k]]
  BY DEF IInv, TypeOK, Resume, ResumeRetired, TimesOut, StartUse
<1>2. UNCHANGED <<closed, current, minting, closing, idle, endDone>>
  BY DEF Resume, ResumeRetired, TimesOut, holderVars, credVars
<1>3. /\ answer' \in [Calls -> Answers]
      /\ \A l \in Calls : ~Settled(l) => answer'[l] = answer[l]
      /\ \A l \in Calls : Settled(l) => answer'[l] # "none"
      /\ \A l \in Calls : Settled(l) /\ answer'[l] = "config"
            => phase'[l] = "refused"
  BY AnswerFacts
<1>4. Moves
  BY <1>1, <1>2, <1>3 DEF Moves, Settled, Live
<1>5. open = "both" => ~(phase[k] = "resuming" /\ retired[held[k]])
  <2>. SUFFICES ASSUME open = "both", phase[k] = "resuming", retired[held[k]]
                PROVE  FALSE
    OBVIOUS
  <2>1. ~closed
    BY DEF Stages
  <2>2. held[k] = current /\ held[k] \in 1 .. minted /\ minted \in 0 .. MaxMints
    BY <2>1 DEF IInv, Bookkeeping, TypeOK
  <2>3. held[k] \in Creds
    BY <2>2, MaxMintsAssumption DEF Creds
  <2>. QED
    BY <2>2, <2>3 DEF IInv, Bookkeeping
<1>6. open = "both" => answer'[k] # "config"
  BY <1>1, <1>3, <1>5 DEF Stages, Settled, Live
<1>. QED
  BY <1>1, <1>2, <1>4, <1>6

LEMMA AnsweredMoves ==
    ASSUME OpenInv, NEW k \in Calls, HolderStep(Answered(k))
    PROVE  /\ Moves
           /\ answer'[k] # "config"
           /\ \A l \in Calls \ {k} : phase'[l] = phase[l]
           /\ phase'[k] # "waiting"
           /\ UNCHANGED <<current, minting, closing, idle, endDone>>
<1>. USE DEF OpenInv, HolderStep, Answered
<1>1. PICK a \in {"ok", "api", "timeout"} : Finish(k) /\ Answer(a)
  OBVIOUS
<1>2. /\ phase \in [Calls -> Phases] /\ phase[k] = "using"
      /\ phase' = [phase EXCEPT ![k] = "returned"]
      /\ UNCHANGED <<closed, current, minting, closing, idle, endDone>>
  BY <1>1 DEF IInv, TypeOK, Finish, holderVars
<1>3. /\ answer' \in [Calls -> Answers]
      /\ \A l \in Calls : ~Settled(l) => answer'[l] = answer[l]
      /\ \A l \in Calls : Settled(l) => answer'[l] # "none"
      /\ \A l \in Calls : Settled(l) /\ answer'[l] = "config"
            => phase'[l] = "refused"
  BY <1>1, AnswerFacts DEF Errors
<1>4. Moves
  BY <1>2, <1>3 DEF Moves, Settled, Live
<1>. QED
  BY <1>2, <1>3, <1>4 DEF Settled

LEMMA MintMoves ==
    ASSUME OpenInv, HolderStep(MintStep)
    PROVE  /\ Moves
           /\ minting
           /\ closing' = closing /\ idle' = idle /\ endDone' = endDone
           /\ \A l \in Calls : phase'[l] # "waiting"
           /\ \A l \in Calls : phase[l] # "waiting" => phase'[l] = phase[l]
           /\ phase[Tools] = "waiting" /\ answer'[Tools] = "config"
                 => \A l \in Calls : phase[l] = "waiting" => Settled(l)
<1>. USE DEF OpenInv, HolderStep
<1>1. /\ phase \in [Calls -> Phases]
      /\ minting
      /\ UNCHANGED <<closed, closing, idle, endDone>>
  BY DEF IInv, TypeOK, MintStep, MintLands, MintFallsBack, MintFails, credVars
<1>2. \E to \in {"resuming", "failed"}, outcome \in {"ok"} \cup Errors :
         /\ phase' = [l \in Calls |-> IF phase[l] = "waiting" THEN to
                                       ELSE phase[l]]
         /\ Answer(outcome)
         /\ to = "resuming" => outcome = "ok"
  <2>1. CASE (\E a \in Ages : MintLands(a)) \/ MintFallsBack
    <3>1. Answer("ok") \/ \E e \in MintErrors : MintFails /\ Answer(e)
      BY DEF MintStep
    <3>. QED
      BY <2>1 DEF MintStep, MintLands, MintFallsBack, MintFails, MintErrors,
                  SettleWaiters, Errors
  <2>2. CASE \E e \in MintErrors : MintFails /\ Answer(e)
    BY <2>2 DEF MintFails, MintErrors, SettleWaiters, Errors
  <2>. QED
    BY <2>1, <2>2 DEF MintStep
<1>3. PICK to \in {"resuming", "failed"}, outcome \in {"ok"} \cup Errors :
         /\ phase' = [l \in Calls |-> IF phase[l] = "waiting" THEN to
                                       ELSE phase[l]]
         /\ Answer(outcome)
         /\ to = "resuming" => outcome = "ok"
  BY <1>2
<1>4. /\ answer' \in [Calls -> Answers]
      /\ \A l \in Calls : ~Settled(l) => answer'[l] = answer[l]
      /\ \A l \in Calls : Settled(l) => answer'[l] # "none"
  BY <1>3, AnswerFacts
<1>5. Moves
  BY <1>1, <1>3, <1>4 DEF Moves, Settled, Live
<1>6. phase[Tools] = "waiting" /\ answer'[Tools] = "config"
         => \A l \in Calls : phase[l] = "waiting" => Settled(l)
  <2>. SUFFICES ASSUME phase[Tools] = "waiting", answer'[Tools] = "config"
                PROVE  to = "failed"
    BY <1>3 DEF Settled
  <2>1. answer[Tools] = "none"
    BY OpenAssumption DEF Stages, Live
  <2>. QED
    BY <1>3, <1>4, <2>1, OpenAssumption DEF Settled
<1>. QED
  BY <1>1, <1>3, <1>5, <1>6

----------------------------------------------------------------------------
(* What the steps of the holder keep.                                      *)
LEMMA MovesKeep ==
    ASSUME OpenInv, Moves, ~Between
    PROVE  OpenTypeOK' /\ Stages' /\ Opener'
<1>. USE DEF OpenInv, Moves, openVars, openerVars
<1>1. OpenTypeOK'
  BY DEF OpenTypeOK
<1>2. \A l \in Calls : answer'[l] # "none" => phase'[l] \notin Live
  BY DEF Stages, Settled, Live
<1>3. Stages'
  BY <1>2, OpenAssumption DEF Stages, Settled, Live, Between
<1>4. Opener'
  BY DEF Opener
<1>. QED
  BY <1>1, <1>3, <1>4

LEMMA LeaseMovesKeep ==
    ASSUME OpenInv, NEW k \in Calls,
           HolderStep(WaitStep(k)) \/ HolderStep(Answered(k))
    PROVE  Together' /\ Rejected'
<1>1. /\ Moves
      /\ open = "both" => answer'[k] # "config"
      /\ \A l \in Calls \ {k} : phase'[l] = phase[l]
      /\ phase'[k] # "waiting"
      /\ UNCHANGED <<current, minting, closing, idle, endDone>>
  BY WaitMoves, AnsweredMoves
<1>2. ~Between
  BY DEF HolderStep
<1>3. Rejected'
  BY <1>1 DEF OpenInv, Rejected, Moves, openVars
<1>4. \A l \in Calls \ {k} : answer'[l] = answer[l]
  BY <1>1 DEF Moves, Settled
<1>5. \A l \in Calls : answer[l] # "none" => answer'[l] # "none"
  BY <1>1, <1>4 DEF Moves, Settled
<1>7. Together'
  <2>1. open' = open /\ open # "starting"
    BY <1>1, <1>2 DEF Moves, openVars, Between
  <2>2. ASSUME open = "both", answer'[Tools] = "config"
        PROVE  answer'[Start] # "none"
    BY <1>1, <1>4, <1>5, <2>2, OpenAssumption DEF OpenInv, Together
  <2>3. ASSUME open = "both", phase'[Tools] = "waiting"
        PROVE  phase'[Start] = "waiting" \/ answer'[Start] # "none"
    <3>1. Tools # k /\ phase[Tools] = "waiting"
      BY <1>1, <2>3, OpenAssumption
    <3>2. CASE answer[Start] # "none"
      BY <1>5, <3>2, OpenAssumption
    <3>3. CASE phase[Start] = "waiting"
      <4>1. CASE Start # k
        BY <1>1, <3>3, <4>1, OpenAssumption
      <4>2. CASE Start = k
        <5>1. ~HolderStep(Answered(k))
          BY <3>3, <4>2 DEF HolderStep, Answered, Finish
        <5>2. phase' = [phase EXCEPT ![k] = "timedout"]
          BY <3>3, <4>2, <5>1
             DEF HolderStep, WaitStep, Resume, ResumeRetired, TimesOut
        <5>3. Settled(k)
          BY <3>3, <4>2, <5>2 DEF Settled, OpenInv, IInv, TypeOK
        <5>. QED
          BY <1>1, <4>2, <5>3 DEF Moves
      <4>. QED
        BY <4>1, <4>2
    <3>. QED
      BY <2>3, <3>1, <3>2, <3>3 DEF OpenInv, Together
  <2>. QED
    BY <2>1, <2>2, <2>3 DEF Together
<1>. QED
  BY <1>3, <1>7

LEMMA MintMovesKeep ==
    ASSUME OpenInv, HolderStep(MintStep)
    PROVE  Together' /\ Rejected'
<1>1. /\ Moves
      /\ minting
      /\ closing' = closing /\ idle' = idle /\ endDone' = endDone
      /\ \A l \in Calls : phase'[l] # "waiting"
      /\ \A l \in Calls : phase[l] # "waiting" => phase'[l] = phase[l]
      /\ phase[Tools] = "waiting" /\ answer'[Tools] = "config"
            => \A l \in Calls : phase[l] = "waiting" => Settled(l)
  BY MintMoves
<1>2. ~Between
  BY DEF HolderStep
<1>3. Rejected'
  BY <1>1 DEF OpenInv, Rejected, Moves, openVars
<1>4. \A l \in Calls : answer[l] # "none" => answer'[l] # "none"
  BY <1>1 DEF Moves
<1>5. ASSUME open = "both", answer'[Tools] = "config"
      PROVE  answer'[Start] # "none"
  <2>1. CASE phase[Tools] = "waiting"
    BY <1>1, <1>4, <1>5, <2>1, OpenAssumption DEF OpenInv, Together, Moves
  <2>2. CASE phase[Tools] # "waiting"
    <3>1. answer[Tools] = "config"
      BY <1>1, <1>5, <2>2, OpenAssumption DEF Moves, Settled
    <3>. QED
      BY <1>4, <1>5, <3>1, OpenAssumption DEF OpenInv, Together
  <2>. QED
    BY <2>1, <2>2
<1>6. Together'
  BY <1>1, <1>2, <1>5, OpenAssumption DEF Together, Moves, openVars, Between
<1>. QED
  BY <1>3, <1>6

(* Steps of the holder and of the clock that move no call.                 *)
LEMMA WorldKeeps ==
    ASSUME OpenInv,
           \/ HolderStep((ShutResumes \/ CloseReturns) /\ UNCHANGED answer)
           \/ \E c \in Creds : HolderStep(EndSettles(c) /\ UNCHANGED answer)
           \/ Tick /\ UNCHANGED <<answer, openVars, openerVars>>
           \/ UNCHANGED allVars
    PROVE  OpenTypeOK' /\ Stages' /\ Together' /\ Rejected' /\ Opener'
<1>. USE DEF OpenInv, HolderStep, openVars, openerVars
<1>1. UNCHANGED <<phase, answer, closed, clientOpen, open, error,
                  attempt, opened, awaiting, failedTo, given>>
  BY DEF ShutResumes, CloseReturns, EndSettles, Tick, callVars, holderVars,
         allVars, vars
<1>2. OpenTypeOK' /\ Stages' /\ Together' /\ Opener'
  BY <1>1 DEF OpenTypeOK, Stages, Together, Opener
<1>3. Rejected'
  <2>1. CASE ShutResumes
    <3>1. closing = "minting" /\ closing' = "ending"
      BY <2>1 DEF ShutResumes, Shut
    <3>. QED
      BY <1>1, <3>1 DEF Rejected
  <2>2. CASE CloseReturns
    BY <1>1, <2>2 DEF CloseReturns, Rejected, credVars
  <2>3. ASSUME NEW c \in Creds, EndSettles(c)
        PROVE  Rejected'
    <3>1. endDone \in [Creds -> BOOLEAN] /\ idle \in Creds \cup {None}
      BY DEF IInv, TypeOK
    <3>2. /\ endDone' = [endDone EXCEPT ![c] = TRUE]
          /\ UNCHANGED <<closing, idle, minting, current>>
      BY <2>3 DEF EndSettles, holderVars
    <3>3. idle # None /\ endDone[idle] => endDone'[idle]
      BY <3>1, <3>2
    <3>. QED
      BY <1>1, <3>2, <3>3 DEF Rejected
  <2>4. CASE Tick \/ UNCHANGED allVars
    BY <1>1, <2>4 DEF Tick, Rejected, credVars, allVars, vars, holderVars
  <2>. QED
    BY <2>1, <2>2, <2>3, <2>4
<1>. QED
  BY <1>2, <1>3

----------------------------------------------------------------------------
(* A call that begins: leased at once, refused, or waiting on the mint.    *)
LEMMA CallMoves ==
    ASSUME OpenInv, NEW k \in Calls, Call(k)
    PROVE  /\ phase[k] = "idle" /\ answer[k] = "none"
           /\ \A l \in Calls \ {k} : phase'[l] = phase[l] /\ answer'[l] = answer[l]
           /\ answer' \in [Calls -> Answers]
           /\ UNCHANGED <<current, closed, closing, idle, endDone>>
           /\ \/ ~clientOpen /\ phase' = phase /\ answer'[k] = "config"
              \/ clientOpen /\ closed /\ phase'[k] = "refused"
                    /\ answer'[k] # "none"
              \/ clientOpen /\ phase'[k] \in {"using", "waiting"}
                    /\ answer'[k] = "none"
                    /\ ((\E l \in Calls : phase[l] = "waiting")
                           => phase'[k] = "waiting")
<1>. USE DEF OpenInv
<1>1. /\ phase \in [Calls -> Phases] /\ answer \in [Calls -> Answers]
      /\ answer[k] = "none"
  BY DEF Call, OpenTypeOK, IInv, TypeOK
<1>2. CASE ~clientOpen
  BY <1>1, <1>2 DEF Call, Answers, Errors, vars, holderVars, credVars, callVars
<1>3. CASE clientOpen
  <2>1. PICK to \in {"refused", "using", "waiting"} :
           /\ phase[k] = "idle" /\ phase' = [phase EXCEPT ![k] = to]
           /\ to = "refused" => closed
           /\ to = "using" => current # None /\ age # "expired"
    BY <1>3 DEF Call, LeaseRefused, LeaseValid, LeaseDue, LeaseWaits, StartUse
  <2>2. UNCHANGED <<current, closed, closing, idle, endDone>>
    BY <1>3 DEF Call, LeaseRefused, LeaseValid, LeaseDue, LeaseWaits, StartUse,
                holderVars, credVars
  <2>3. Answer("config")
    BY <1>3 DEF Call
  <2>4. /\ answer' \in [Calls -> Answers]
        /\ \A l \in Calls : ~Settled(l) => answer'[l] = answer[l]
        /\ \A l \in Calls : Settled(l) => answer'[l] # "none"
    BY <2>3, AnswerFacts DEF Errors
  <2>5. (\E l \in Calls : phase[l] = "waiting") => to # "using"
    BY <2>1 DEF IInv, WaitersHaveNothing
  <2>. QED
    BY <1>1, <1>3, <2>1, <2>2, <2>4, <2>5 DEF Settled
<1>. QED
  BY <1>2, <1>3

LEMMA CallsKeep ==
    ASSUME OpenInv, CallTools \/ CallStart \/ \E l \in Uses : SessionCall(l)
    PROVE  OpenTypeOK' /\ Stages' /\ Together' /\ Rejected' /\ Opener'
<1>. USE DEF OpenInv, openVars, openerVars
<1>1. PICK k \in Calls :
         /\ Call(k)
         /\ UNCHANGED <<clientOpen, error, openerVars>>
         /\ \/ k = Tools /\ open = "listing" /\ open' = "starting"
                  /\ answer[List] = "ok"
            \/ k = Start /\ open = "starting" /\ open' = "both"
            \/ k \in Uses /\ open = "open" /\ open' = "open"
  BY OpenAssumption DEF CallTools, CallStart, SessionCall
<1>2. /\ phase[k] = "idle" /\ answer[k] = "none"
      /\ \A l \in Calls \ {k} : phase'[l] = phase[l] /\ answer'[l] = answer[l]
      /\ answer' \in [Calls -> Answers]
      /\ UNCHANGED <<current, closed, closing, idle, endDone>>
      /\ \/ ~clientOpen /\ phase' = phase /\ answer'[k] = "config"
         \/ clientOpen /\ closed /\ phase'[k] = "refused"
               /\ answer'[k] # "none"
         \/ clientOpen /\ phase'[k] \in {"using", "waiting"}
               /\ answer'[k] = "none"
               /\ ((\E l \in Calls : phase[l] = "waiting")
                      => phase'[k] = "waiting")
  BY <1>1, CallMoves
<1>3. OpenTypeOK' /\ Opener'
  BY <1>1, <1>2 DEF OpenTypeOK, Opener
<1>4. Rejected'
  BY <1>1, <1>2 DEF Rejected
<1>5. \A l \in Calls : answer'[l] # "none" => phase'[l] \notin Live
  BY <1>2 DEF Stages, Live
<1>6. Stages'
  BY <1>1, <1>2, <1>5, OpenAssumption DEF Stages
<1>7. Together'
  <2>1. CASE k = Tools /\ open = "listing" /\ open' = "starting"
    BY <1>1, <1>2, <2>1, OpenAssumption DEF Together, Stages
  <2>2. CASE k = Start /\ open = "starting" /\ open' = "both"
    <3>1. answer'[Tools] = answer[Tools] /\ phase'[Tools] = phase[Tools]
      BY <1>2, <2>2, OpenAssumption
    <3>. QED
      BY <1>2, <2>2, <3>1, OpenAssumption DEF Together, Stages
  <2>3. CASE open' = "open"
    BY <2>3 DEF Together
  <2>. QED
    BY <1>1, <2>1, <2>2, <2>3
<1>. QED
  BY <1>3, <1>4, <1>6, <1>7

(* What open() rejects with leaves none of its calls under way.            *)
LEMMA NothingUnderWay ==
    ASSUME OpenInv, Failures # {}
    PROVE  \A l \in Calls : phase[l] \notin Live
<1>. USE DEF OpenInv
<1>1. CASE open = "listing"
  <2>1. answer[List] # "none"
    BY <1>1 DEF Failures
  <2>. QED
    BY <1>1, <2>1, OpenAssumption DEF Stages, Live
<1>2. CASE open = "both"
  <2>1. answer[Tools] # "none" /\ answer[Start] # "none"
    BY <1>2 DEF Failures, StartFailed, Together, Errors
  <2>. QED
    BY <1>2, <2>1, OpenAssumption DEF Stages, Live
<1>. QED
  BY <1>1, <1>2 DEF Failures

LEMMA OpensKeep ==
    ASSUME OpenInv, Opens \/ OpenFails \/ Rejects \/ SessionClose
                       \/ ClientCloses
    PROVE  OpenTypeOK' /\ Stages' /\ Together' /\ Rejected' /\ Opener'
<1>. USE DEF OpenInv, openVars, openerVars
<1>1. CASE Opens
  BY <1>1 DEF Opens, OpenTypeOK, Stages, Together, Rejected, Opener,
              vars, holderVars, credVars, callVars
<1>2. CASE OpenFails
  <2>1. PICK e \in Failures :
           /\ Close
           /\ error' = e
           /\ open' = IF e = "timeout" THEN "failed" ELSE "closing"
           /\ UNCHANGED <<answer, clientOpen, openerVars>>
    BY <1>2 DEF OpenFails, ClosesKey
  <2>2. \A l \in Calls : phase[l] \notin Live
    BY NothingUnderWay
  <2>3. e \in Errors /\ open \in {"listing", "both"}
    BY OpenAssumption DEF Failures, OpenTypeOK, StartFailed, Answers, Errors
  <2>4. /\ UNCHANGED <<phase, held, endDone>> /\ closed' = TRUE
        /\ closing' # "done"
    BY <2>1 DEF Close, Shut, callVars
  <2>5. OpenTypeOK'
    BY <2>1, <2>3 DEF OpenTypeOK
  <2>6. Stages' /\ Together'
    BY <2>1, <2>2, <2>4 DEF Stages, Together
  <2>7. Rejected' /\ Opener'
    BY <2>1, <2>3, <2>4 DEF Rejected, Opener
  <2>. QED
    BY <2>5, <2>6, <2>7
<1>3. CASE Rejects
  <2>1. UNCHANGED <<vars, answer, clientOpen, error, openerVars>>
    BY <1>3 DEF Rejects
  <2>2. open = "closing" /\ closing = "done" /\ open' = "failed"
    BY <1>3 DEF Rejects
  <2>3. current = None /\ ~minting
    BY <2>2 DEF IInv, Bookkeeping
  <2>. QED
    BY <2>1, <2>2, <2>3 DEF OpenTypeOK, Stages, Together, Rejected, Opener,
       vars, holderVars, credVars, callVars
<1>4. CASE SessionClose
  <2>1. /\ open = "open" /\ UNCHANGED <<answer, openVars, openerVars>>
        /\ UNCHANGED <<phase, endDone>> /\ closing' # "done"
    BY <1>4 DEF SessionClose, Close, Shut, callVars
  <2>. QED
    BY <2>1 DEF OpenTypeOK, Stages, Together, Rejected, Opener
<1>5. CASE ClientCloses
  BY <1>5 DEF ClientCloses, OpenTypeOK, Stages, Together, Rejected, Opener,
     vars, holderVars, credVars, callVars
<1>. QED
  BY <1>1, <1>2, <1>3, <1>4, <1>5

LEMMA OpenerKeeps ==
    ASSUME OpenInv, Forget \/ \E w \in Awaiters : Awaits(w) \/ Told(w)
    PROVE  OpenTypeOK' /\ Stages' /\ Together' /\ Rejected' /\ Opener'
<1>. USE DEF OpenInv
<1>1. CASE Forget
  <2>1. /\ open = "failed" /\ opened' = FALSE
        /\ UNCHANGED <<vars, answer, openVars, attempt, awaiting, failedTo, given>>
    BY <1>1 DEF Forget, Forgets
  <2>. QED
    BY <2>1 DEF OpenTypeOK, Stages, Together, Rejected, Opener,
       vars, holderVars, credVars, callVars, openVars
<1>2. ASSUME NEW w \in Awaiters, Awaits(w), opened
      PROVE  OpenTypeOK' /\ Stages' /\ Together' /\ Rejected' /\ Opener'
  <2>1. /\ awaiting' = [awaiting EXCEPT ![w] = attempt]
        /\ UNCHANGED <<vars, answer, openVars, attempt, opened, failedTo, given>>
    BY <1>2 DEF Awaits, openVars
  <2>2. OpenTypeOK' /\ Opener'
    BY <1>2, <2>1 DEF OpenTypeOK, Opener, openVars, Attempts
  <2>. QED
    BY <2>1, <2>2 DEF Stages, Together, Rejected,
       vars, holderVars, credVars, callVars, openVars
<1>3. ASSUME NEW w \in Awaiters, Awaits(w), ~opened
      PROVE  OpenTypeOK' /\ Stages' /\ Together' /\ Rejected' /\ Opener'
  <2>1. /\ StartSession
        /\ attempt < MaxAttempts /\ attempt' = attempt + 1
        /\ opened' = TRUE
        /\ awaiting' = [awaiting EXCEPT ![w] = attempt + 1]
        /\ UNCHANGED <<clientOpen, failedTo, given>>
    BY <1>3 DEF Awaits
  <2>2. /\ answer' = [l \in Calls |-> "none"]
        /\ current' = None /\ idle' = None
        /\ closed' = FALSE /\ closing' = "open"
    BY <2>1 DEF StartSession, FreshOpen
  <2>3. /\ open' \in {"listing", "failed"}
        /\ error' \in {"none", "api", "config"}
        /\ open' = "listing"
              => \A l \in Calls \ {List} : phase'[l] = "idle"
        /\ open' = "failed"
              => minting' = FALSE /\ \A l \in Calls : phase'[l] = "idle"
    BY <2>1 DEF StartSession
  <2>4. /\ attempt \in Nat /\ MaxAttempts \in Nat
        /\ awaiting \in [Awaiters -> Attempts]
        /\ failedTo \in [Awaiters -> Attempts]
    BY MaxAttemptsAssumption DEF OpenTypeOK, Attempts
  <2>5. OpenTypeOK'
    BY <2>1, <2>2, <2>3, <2>4 DEF OpenTypeOK, Attempts, Answers, Errors
  <2>6. Opener'
    BY <1>3, <2>1, <2>4 DEF Opener, Attempts
  <2>7. Stages' /\ Together' /\ Rejected'
    BY <2>2, <2>3 DEF Stages, Together, Rejected, Live
  <2>. QED
    BY <2>5, <2>6, <2>7
<1>4. ASSUME NEW w \in Awaiters, Told(w)
      PROVE  OpenTypeOK' /\ Stages' /\ Together' /\ Rejected' /\ Opener'
  <2>1. /\ awaiting[w] # 0
        /\ \/ /\ awaiting[w] < attempt \/ ~opened
              /\ failedTo' = [failedTo EXCEPT ![w] = awaiting[w]]
              /\ UNCHANGED given
           \/ /\ awaiting[w] = attempt /\ open = "open"
              /\ given' = [given EXCEPT ![w] = attempt]
              /\ UNCHANGED failedTo
        /\ awaiting' = [awaiting EXCEPT ![w] = 0]
        /\ UNCHANGED <<vars, answer, openVars, attempt, opened>>
    BY <1>4 DEF Told, Forgotten
  <2>2. /\ attempt \in Nat
        /\ awaiting \in [Awaiters -> Attempts]
        /\ failedTo \in [Awaiters -> Attempts]
        /\ given \in [Awaiters -> Attempts]
        /\ 0 \in Attempts /\ Attempts \subseteq Nat
    BY MaxAttemptsAssumption DEF OpenTypeOK, Attempts
  <2>3. OpenTypeOK'
    BY <2>1, <2>2 DEF OpenTypeOK, openVars
  <2>4. Opener'
    BY <2>1, <2>2 DEF Opener, openVars
  <2>. QED
    BY <2>1, <2>3, <2>4 DEF Stages, Together, Rejected,
       vars, holderVars, credVars, callVars, openVars
<1>. QED
  BY <1>1, <1>2, <1>3, <1>4

----------------------------------------------------------------------------
LEMMA OpenInitInv == OpenInit => OpenInv
<1>. SUFFICES ASSUME OpenInit PROVE OpenInv
  OBVIOUS
<1>1. IInv
  BY InitIInv DEF OpenInit
<1>2. 0 \in Attempts
  BY MaxAttemptsAssumption DEF Attempts
<1>3. OpenTypeOK
  BY <1>2 DEF OpenInit, OpenTypeOK, Answers
<1>4. Stages /\ Together /\ Rejected
  BY DEF OpenInit, Init, Stages, Together, Rejected, Live
<1>5. Opener
  BY DEF OpenInit, Opener
<1>. QED
  BY <1>1, <1>3, <1>4, <1>5 DEF OpenInv

(* The inductive invariant of open(), its opener and the key's holder.     *)
THEOREM SessionOpenInvariant == OpenSpec => []OpenInv
<1>1. OpenInit => OpenInv
  BY OpenInitInv
<1>2. OpenInv /\ [OpenNext]_allVars => OpenInv'
  <2>. SUFFICES ASSUME OpenInv, [OpenNext]_allVars PROVE OpenInv'
    OBVIOUS
  <2>1. IInv'
    BY OpenNextIInv DEF OpenInv
  <2>2. OpenTypeOK' /\ Stages' /\ Together' /\ Rejected' /\ Opener'
    <3>1. ASSUME NEW l \in Calls,
                 HolderStep(WaitStep(l)) \/ HolderStep(Answered(l))
          PROVE  OpenTypeOK' /\ Stages' /\ Together' /\ Rejected' /\ Opener'
      <4>1. Moves /\ ~Between
        BY <3>1, WaitMoves, AnsweredMoves DEF HolderStep
      <4>. QED
        BY <3>1, <4>1, MovesKeep, LeaseMovesKeep
    <3>2. CASE HolderStep(MintStep)
      <4>1. Moves /\ ~Between
        BY <3>2, MintMoves DEF HolderStep
      <4>. QED
        BY <3>2, <4>1, MovesKeep, MintMovesKeep
    <3>3. CASE \/ HolderStep((ShutResumes \/ CloseReturns) /\ UNCHANGED answer)
               \/ \E c \in Creds :
                     HolderStep(EndSettles(c) /\ UNCHANGED answer)
               \/ Tick /\ UNCHANGED <<answer, openVars, openerVars>>
               \/ UNCHANGED allVars
      BY <3>3, WorldKeeps
    <3>4. CASE OpenStep \/ ClientCloses \/ SessionClose
                 \/ \E l \in Uses : SessionCall(l)
      BY <3>4, CallsKeep, OpensKeep DEF OpenStep
    <3>5. CASE Forget \/ \E w \in Awaiters : Awaits(w) \/ Told(w)
      BY <3>5, OpenerKeeps
    <3>. QED
      BY <3>1, <3>2, <3>3, <3>4, <3>5 DEF OpenNext
  <2>. QED
    BY <2>1, <2>2 DEF OpenInv
<1>. QED
  BY <1>1, <1>2, PTL DEF OpenSpec

(* An open() that failed short of its deadline has no call carrying its    *)
(* key, every credential being ended and the last one ended                *)
(* (operations.ts:679).                                                    *)
THEOREM FailedOpenIsClean == OpenSpec => []FailedOpenHoldsNothing
<1>1. OpenInv => FailedOpenHoldsNothing
  <2>. SUFFICES ASSUME OpenInv, open = "failed", error # "timeout"
                PROVE  /\ ~minting
                       /\ \A c \in 1 .. minted : Users(c) = {} /\ ends[c] = 1
                       /\ idle # None => endDone[idle]
    BY DEF FailedOpenHoldsNothing
  <2>. USE DEF OpenInv
  <2>1. ~minting /\ current = None /\ (idle # None => endDone[idle])
    BY DEF Rejected
  <2>2. ASSUME NEW c \in 1 .. minted
        PROVE  Users(c) = {} /\ ends[c] = 1
    <3>1. Users(c) = {}
      BY DEF Stages, Live, Users
    <3>2. c \in Creds /\ c # None /\ c <= minted
      BY MaxMintsAssumption DEF IInv, TypeOK, Creds, None
    <3>3. retired[c]
      BY <2>1, <3>2 DEF IInv, Bookkeeping
    <3>. QED
      BY <3>1, <3>2, <3>3 DEF IInv, Bookkeeping
  <2>. QED
    BY <2>1, <2>2
<1>. QED
  BY <1>1, SessionOpenInvariant, PTL

(* A rejection is not kept for those who await again (operations.ts:1298). *)
THEOREM RejectionsAreNotCached == OpenSpec => []NoStaleRejection
<1>1. OpenInv => NoStaleRejection
  BY DEF OpenInv, Opener, NoStaleRejection
<1>. QED
  BY <1>1, SessionOpenInvariant, PTL

(* One opener yields one session, whoever awaits it (operations.ts:1254).  *)
THEOREM OpenerYieldsOneSession == OpenSpec => []OneSession
<1>1. OpenInv => OneSession
  BY DEF OpenInv, Opener, OneSession
<1>. QED
  BY <1>1, SessionOpenInvariant, PTL

(* No renewal, end or close within an open ends a key under its calls.     *)
THEOREM OpenNeverEndsUnderUse == OpenSpec => []NoEndUnderUse
<1>1. OpenInv => NoEndUnderUse
  BY DEF OpenInv, IInv, Bookkeeping, NoEndUnderUse
<1>. QED
  BY <1>1, SessionOpenInvariant, PTL
=============================================================================
