-------------------------- MODULE PyRenewingProofs --------------------------
(***************************************************************************)
(* Theorems about PyRenewing, for any finite set of leases and any number  *)
(* of mints.                                                               *)
(***************************************************************************)
EXTENDS PyRenewing, FiniteSetTheorems, TLAPS

(* The leases of a credential are finitely many, so Minted.users counts    *)
(* them, and is zero only when there are none.                             *)
LEMMA UsersFinite ==
    ASSUME NEW c
    PROVE  /\ IsFiniteSet(Users(c))
           /\ Cardinality(Users(c)) \in Nat
           /\ Cardinality(Users(c)) = 0 <=> Users(c) = {}
<1>1. Users(c) \subseteq Calls
  BY DEF Users
<1>2. IsFiniteSet(Users(c))
  BY <1>1, CallsAssumption, FS_Subset
<1>. QED
  BY <1>2, FS_CardinalityType, FS_EmptySet

(* What neither leases nor releases leaves every credential's users alone. *)
LEMMA UsersUnchanged ==
    ASSUME NEW c,
           \A l \in Calls : phase'[l] = "using" <=> phase[l] = "using",
           \A l \in Calls : phase[l] = "using" => held'[l] = held[l]
    PROVE  Users(c)' = Users(c)
BY DEF Users

(* A holder that was just built satisfies the invariant.                   *)
LEMMA InitIInv == Init => IInv
<1>. SUFFICES ASSUME Init PROVE IInv
  OBVIOUS
<1>. USE DEF Init
<1>1. TypeOK
  <2>1. attempts \in 0 .. MaxMints /\ seen \in [Calls -> 0 .. MaxMints]
    BY MaxMintsAssumption
  <2>2. phase \in [Calls -> {"idle", "waiting", "using"} \cup Over]
    OBVIOUS
  <2>. QED
    BY <2>1, <2>2 DEF TypeOK, Ages
<1>2. \A c \in Creds : Users(c) = {} /\ Cardinality(Users(c)) = 0
  BY UsersFinite DEF Users
<1>3. Books
  BY <1>2 DEF Books, None
<1>4. Outcomes
  BY DEF Outcomes
<1>. QED
  BY <1>1, <1>3, <1>4 DEF IInv

(* The next mint brings the credential of its number.                      *)
LEMMA NextCred ==
    ASSUME IInv, minting
    PROVE  /\ attempts + 1 \in Creds /\ attempts + 1 # None
           /\ attempts + 1 \notin minted /\ attempts \in Nat
           /\ attempts + 1 \in 0 .. MaxMints
BY MaxMintsAssumption DEF IInv, TypeOK, Outcomes, Creds, None

----------------------------------------------------------------------------
(* Every step keeps the types.                                             *)

(* _retire() and the call of _end that follows it.                         *)
LEMMA RetireType ==
    ASSUME TypeOK, NEW c, NEW d \in Creds \cup {None}
    PROVE  /\ Retire(c) => retired' \in [Creds -> BOOLEAN]
           /\ ToEnd(d) => ends' \in [Creds -> Nat]
<1>1. Retire(c) => retired' \in [Creds -> BOOLEAN]
  BY DEF TypeOK, Retire
<1>2. ASSUME ToEnd(d) PROVE ends' \in [Creds -> Nat]
  <2>1. CASE d = None
    BY <1>2, <2>1 DEF TypeOK, ToEnd
  <2>2. CASE d # None
    BY <1>2, <2>2 DEF TypeOK, ToEnd
  <2>. QED
    BY <2>1, <2>2
<1>. QED
  BY <1>1, <1>2

(* Each step of a lease.                                                   *)
LEMMA LeaseStepType ==
    ASSUME IInv, NEW l \in Calls, LeaseStep(l)
    PROVE  TypeOK'
<1>. USE DEF IInv, TypeOK, Over, mintVars, credVars
<1>1. ASSUME NEW outcome \in Over, Settles(l, outcome)
      PROVE  TypeOK'
  BY <1>1 DEF Settles
<1>2. CASE LeaseRefused(l) \/ LeaseFails(l) \/ WakesRefused(l) \/ GivesUp(l)
           \/ WakesFailed(l)
  <2>1. \E outcome \in Over : Settles(l, outcome)
    BY <1>2 DEF LeaseRefused, LeaseFails, WakesRefused, GivesUp, WakesFailed
  <2>. QED
    BY <1>1, <2>1
<1>3. CASE LeaseServed(l) \/ WakesServed(l)
  <2>1. current \in Creds /\ Uses(l)
    BY <1>3 DEF LeaseServed, WakesServed, Honoured
  <2>2. /\ minting' \in BOOLEAN /\ (minting' => attempts < MaxMints)
        /\ UNCHANGED <<attempts, failed, minted, current, age, closed,
                       retired, ends, seen>>
    <3>1. CASE LeaseServed(l)
      <4>1. UNCHANGED mintVars \/ (Renews /\ UNCHANGED <<failed, minted>>)
        BY <3>1 DEF LeaseServed, Renews
      <4>2. /\ minting' \in BOOLEAN /\ (minting' => attempts < MaxMints)
            /\ UNCHANGED <<attempts, failed, minted>>
        <5>1. CASE UNCHANGED mintVars
          BY <5>1
        <5>2. CASE Renews
          BY <5>2 DEF Renews
        <5>. QED
          BY <4>1, <5>1, <5>2
      <4>. QED
        BY <3>1, <4>2 DEF LeaseServed
    <3>2. CASE WakesServed(l)
      BY <3>2 DEF WakesServed
    <3>. QED
      BY <1>3, <3>1, <3>2
  <2>3. users' \in [Creds -> Nat]
    BY <2>1 DEF Uses
  <2>4. /\ phase' \in [Calls -> {"idle", "waiting", "using"} \cup Over]
        /\ held' \in [Calls -> Creds \cup {None}]
    BY <2>1 DEF Uses
  <2>. QED
    BY <2>2, <2>3, <2>4
<1>4. CASE LeaseWaits(l)
  <2>1. minting' = TRUE /\ attempts < MaxMints
        /\ UNCHANGED <<attempts, failed, minted>>
    BY <1>4 DEF LeaseWaits, Renews
  <2>2. seen' \in [Calls -> 0 .. MaxMints]
    BY <1>4 DEF LeaseWaits
  <2>3. phase' \in [Calls -> {"idle", "waiting", "using"} \cup Over]
    BY <1>4 DEF LeaseWaits
  <2>. QED
    BY <1>4, <2>1, <2>2, <2>3 DEF LeaseWaits
<1>5. CASE Finish(l)
  <2>1. held[l] \in Creds \cup {None} /\ l \in Users(held[l])
    BY <1>5 DEF Finish, Users
  <2>2. users' \in [Creds -> Nat]
    <3>1. ASSUME NEW c \in Creds PROVE users'[c] \in Nat
      <4>1. CASE c = held[l]
        <5>1. users[c] \in Nat /\ users[c] # 0
          BY <2>1, <4>1, UsersFinite DEF Books
        <5>. QED
          BY <1>5, <4>1, <5>1 DEF Finish
      <4>2. CASE c # held[l]
        BY <1>5, <4>2 DEF Finish
      <4>. QED
        BY <4>1, <4>2
    <3>. QED
      BY <1>5, <3>1 DEF Finish
  <2>3. ends' \in [Creds -> Nat]
    BY <1>5 DEF Finish, ToEnd
  <2>. QED
    BY <1>5, <2>2, <2>3 DEF Finish
<1>. QED
  BY <1>2, <1>3, <1>4, <1>5 DEF LeaseStep, Wakes

(* Each other step.                                                        *)
LEMMA OtherStepType ==
    ASSUME IInv, MintSettles \/ Close \/ Tick \/ UNCHANGED vars
    PROVE  TypeOK'
<1>. USE DEF IInv, TypeOK
<1>1. ASSUME NEW a \in Ages, MintLands(a)
      PROVE  TypeOK'
  <2>1. /\ retired' \in [Creds -> BOOLEAN]
        /\ ends' \in [Creds -> Nat]
    BY <1>1, RetireType DEF MintLands, Idle
  <2>2. attempts + 1 \in Creds /\ attempts + 1 \in 0 .. MaxMints
    BY <1>1, NextCred DEF MintLands, Landing
  <2>. QED
    BY <1>1, <2>1, <2>2 DEF MintLands, Landing, callVars
<1>2. CASE MintDiscarded
  <2>1. attempts + 1 \in Creds /\ attempts + 1 \in 0 .. MaxMints
    BY <1>2, NextCred DEF MintDiscarded, Landing
  <2>2. ends' \in [Creds -> Nat]
    BY <1>2, <2>1, RetireType DEF MintDiscarded
  <2>. QED
    BY <1>2, <2>1, <2>2 DEF MintDiscarded, Landing, callVars
<1>3. CASE MintFails
  <2>1. attempts + 1 \in 0 .. MaxMints
    BY <1>3, NextCred DEF MintFails, Landing
  <2>. QED
    BY <1>3, <2>1 DEF MintFails, Landing, callVars
<1>4. CASE Close
  <2>1. /\ retired' \in [Creds -> BOOLEAN]
        /\ ends' \in [Creds -> Nat]
    BY <1>4, RetireType DEF Close, Idle
  <2>. QED
    BY <1>4, <2>1 DEF Close, mintVars, callVars
<1>5. CASE Tick
  BY <1>5 DEF Tick, Ages, mintVars, credVars, callVars
<1>6. CASE UNCHANGED vars
  BY <1>6 DEF vars, mintVars, credVars, callVars
<1>. QED
  BY <1>1, <1>2, <1>3, <1>4, <1>5, <1>6 DEF MintSettles

----------------------------------------------------------------------------
(* Every step keeps the books.                                             *)

(* A step that leases nothing and ends nothing.                            *)
LEMMA QuietBooks ==
    ASSUME IInv,
           UNCHANGED <<current, minted, closed, users, retired, ends>>,
           \A k \in Calls : phase'[k] = "using" <=> phase[k] = "using",
           \A k \in Calls : phase[k] = "using" => held'[k] = held[k]
    PROVE  Books'
<1>1. \A c \in Creds : Users(c)' = Users(c)
  BY UsersUnchanged
<1>. QED
  BY <1>1 DEF IInv, Books

(* held.users++, always for what is current.                               *)
LEMMA UseBooks ==
    ASSUME IInv, NEW l \in Calls, phase[l] # "using",
           current # None, Uses(l),
           UNCHANGED <<current, minted, closed, retired, ends>>
    PROVE  Books'
<1>. USE DEF IInv
<1>. current \in Creds
  BY DEF TypeOK
<1>1. Users(current)' = Users(current) \cup {l}
  BY DEF Uses, Users, TypeOK
<1>2. \A c \in Creds : c # current => Users(c)' = Users(c)
  BY DEF Uses, Users, TypeOK
<1>3. Cardinality(Users(current)') = Cardinality(Users(current)) + 1
  BY <1>1, l \notin Users(current), UsersFinite, FS_AddElement DEF Users
<1>4. \A c \in Creds : users'[c] = Cardinality(Users(c)')
  <2>. SUFFICES ASSUME NEW c \in Creds
                PROVE  users'[c] = Cardinality(Users(c)')
    OBVIOUS
  <2>1. CASE c = current
    BY <2>1, <1>3 DEF Uses, TypeOK, Books
  <2>2. CASE c # current
    BY <2>2, <1>2 DEF Uses, TypeOK, Books
  <2>. QED
    BY <2>1, <2>2
<1>5. \A k \in Calls : phase'[k] = "using" => held'[k] \in minted'
  BY DEF Uses, TypeOK, Books
<1>6. \A c \in Creds :
         c = current \/ (Users(c)' = Users(c) /\ c # current)
  BY <1>2
<1>. QED
  BY <1>4, <1>5, <1>6 DEF Books

(* The last lease of a retired credential to finish is the one that ends   *)
(* it.                                                                     *)
LEMMA FinishBooks ==
    ASSUME IInv, NEW l \in Calls, Finish(l)
    PROVE  Books'
<1>. USE DEF IInv
<1>1. PICK h \in Creds \cup {None} : h = held[l]
  BY DEF TypeOK
<1>2. l \in Users(h) /\ phase[l] = "using"
  BY <1>1 DEF Finish, Users
<1>3. \A k \in Calls : k # l => phase'[k] = phase[k] /\ held'[k] = held[k]
  BY DEF Finish, TypeOK
<1>4. phase'[l] # "using"
  BY DEF Finish, TypeOK
<1>5. Users(h)' = Users(h) \ {l}
  BY <1>1, <1>2, <1>3, <1>4 DEF Users
<1>6. \A c \in Creds : c # h => Users(c)' = Users(c)
  BY <1>1, <1>2, <1>3, <1>4 DEF Users
<1>7. Cardinality(Users(h)') = Cardinality(Users(h)) - 1
  BY <1>2, <1>5, UsersFinite, FS_RemoveElement
<1>8. \A c \in Creds : users'[c] = Cardinality(Users(c)')
  <2>. SUFFICES ASSUME NEW c \in Creds
                PROVE  users'[c] = Cardinality(Users(c)')
    OBVIOUS
  <2>1. CASE c = h
    BY <2>1, <1>1, <1>7 DEF Finish, TypeOK, Books
  <2>2. CASE c # h
    BY <2>2, <1>1, <1>6 DEF Finish, TypeOK, Books
  <2>. QED
    BY <2>1, <2>2
<1>9. \A c \in Creds :
         ends'[c] = IF c \in minted /\ c # current /\ Users(c)' = {}
                    THEN 1 ELSE 0
  <2>. SUFFICES ASSUME NEW c \in Creds
                PROVE  ends'[c] = IF c \in minted /\ c # current
                                     /\ Users(c)' = {}
                                  THEN 1 ELSE 0
    OBVIOUS
  <2>1. CASE c # h
    <3>1. ends'[c] = ends[c]
      BY <1>1, <2>1 DEF Finish, ToEnd, TypeOK
    <3>. QED
      BY <1>6, <2>1, <3>1 DEF Books
  <2>2. CASE c = h
    <3>1. ends[c] = 0 /\ c \in minted /\ c # None
      BY <1>2, <2>2 DEF Books, Creds, None
    <3>2. users[c] = 1 <=> Users(c)' = {}
      <4>1. /\ Cardinality(Users(c)') \in Nat
            /\ Cardinality(Users(c)') = 0 <=> Users(c)' = {}
        <5>1. IsFiniteSet(Users(c)')
          BY <1>5, <2>2, UsersFinite, FS_Subset
        <5>. QED
          BY <5>1, FS_CardinalityType, FS_EmptySet
      <4>2. users[c] = Cardinality(Users(c)') + 1
        BY <1>7, <2>2, UsersFinite DEF Books
      <4>. QED
        BY <4>1, <4>2
    <3>3. retired[c] <=> c # current
      BY <1>2, <2>2 DEF Books
    <3>4. ends'[c] = IF LastUse(c) THEN 1 ELSE 0
      BY <1>1, <2>2, <3>1 DEF Finish, ToEnd, TypeOK
    <3>. QED
      BY <3>1, <3>2, <3>3, <3>4 DEF LastUse
  <2>. QED
    BY <2>1, <2>2
<1>10. \A c \in Creds : Users(c)' \subseteq Users(c)
  BY <1>5, <1>6
<1>11. UNCHANGED <<current, minted, closed, retired>>
  BY DEF Finish, mintVars
<1>12. \A k \in Calls : phase'[k] = "using" => held'[k] \in minted'
  BY <1>3, <1>4, <1>11 DEF Books
<1>. QED
  BY <1>8, <1>9, <1>10, <1>11, <1>12 DEF Books

(* _retire() of what is current, as a mint that landed and close() both do *)
(* it: what nobody carries is ended at once.                               *)
LEMMA RetireBooks ==
    ASSUME IInv, Retire(current), ToEnd(Idle(current)),
           NEW S \in SUBSET Creds, minted' = minted \cup S,
           (S = {} /\ current' = None) \/ S = {current'},
           S \cap minted = {},
           closed' => current' = None,
           UNCHANGED <<users, phase, held>>
    PROVE  Books'
<1>. USE DEF IInv
<1>1. \A c \in Creds : Users(c)' = Users(c)
  BY UsersUnchanged
<1>2. \A c \in Creds : users'[c] = Cardinality(Users(c)')
  BY <1>1 DEF Books
<1>3. \A c \in Creds : retired'[c] <=> retired[c] \/ c = current
  BY DEF TypeOK, Retire, Creds, None
<1>4. current \in minted => current' # current
  BY DEF TypeOK, Creds, None
<1>5. \A c \in Creds : retired'[c] => c \in minted' /\ c # current'
  <2>. SUFFICES ASSUME NEW c \in Creds, retired'[c]
                PROVE  c \in minted' /\ c # current'
    OBVIOUS
  <2>1. c \in minted
    BY <1>3 DEF Books, Creds, None
  <2>. QED
    BY <2>1 DEF Creds, None
<1>6. \A c \in Creds : Users(c)' # {} => c = current' \/ retired'[c]
  BY <1>1, <1>3 DEF Books
<1>7. \A c \in Creds :
         ends'[c] = IF c \in minted' /\ c # current' /\ Users(c)' = {}
                    THEN 1 ELSE 0
  <2>. SUFFICES ASSUME NEW c \in Creds
                PROVE  ends'[c] = IF c \in minted' /\ c # current'
                                     /\ Users(c)' = {}
                                  THEN 1 ELSE 0
    OBVIOUS
  <2>1. c # None /\ (users[c] = 0 <=> Users(c) = {})
    BY UsersFinite DEF Books, Creds, None
  <2>2. ends[c] = IF c \in minted /\ c # current /\ Users(c) = {}
                  THEN 1 ELSE 0
    BY DEF Books
  <2>3. CASE c = current
    <3>1. c \in minted /\ c # current'
      BY <1>4, <2>1, <2>3 DEF Books
    <3>2. ends'[c] = IF users[c] = 0 THEN 1 ELSE 0
      BY <2>1, <2>2, <2>3 DEF ToEnd, Idle, TypeOK
    <3>. QED
      BY <1>1, <2>1, <3>1, <3>2
  <2>4. CASE c # current
    <3>1. ends'[c] = ends[c]
      BY <2>1, <2>4 DEF ToEnd, Idle, TypeOK
    <3>2. c \in minted /\ c # current <=> c \in minted' /\ c # current'
      BY <2>1, <2>4
    <3>. QED
      BY <1>1, <2>2, <3>1, <3>2
  <2>. QED
    BY <2>3, <2>4
<1>. QED
  BY <1>1, <1>2, <1>5, <1>6, <1>7 DEF Books

(* Each step of a lease keeps the books.                                   *)
LEMMA LeaseStepBooks ==
    ASSUME IInv, NEW l \in Calls, LeaseStep(l)
    PROVE  Books'
<1>. /\ phase \in [Calls -> {"idle", "waiting", "using"} \cup Over]
     /\ held \in [Calls -> Creds \cup {None}]
  BY DEF IInv, TypeOK
<1>1. ASSUME NEW outcome \in Over, phase[l] # "using", Settles(l, outcome)
      PROVE  Books'
  BY <1>1, QuietBooks DEF Settles, mintVars, credVars, Over
<1>2. CASE LeaseRefused(l) \/ LeaseFails(l) \/ WakesRefused(l) \/ GivesUp(l)
           \/ WakesFailed(l)
  <2>1. \E outcome \in Over : phase[l] # "using" /\ Settles(l, outcome)
    BY <1>2 DEF LeaseRefused, LeaseFails, WakesRefused, GivesUp, WakesFailed,
                Woken, Over
  <2>. QED
    BY <1>1, <2>1
<1>3. CASE LeaseServed(l) \/ WakesServed(l)
  <2>1. /\ phase[l] # "using" /\ current # None /\ Uses(l)
        /\ UNCHANGED <<current, minted, closed, retired, ends>>
    BY <1>3 DEF LeaseServed, WakesServed, Woken, Honoured, Renews, mintVars
  <2>. QED
    BY <2>1, UseBooks
<1>4. CASE LeaseWaits(l)
  BY <1>4, QuietBooks DEF LeaseWaits, Renews, credVars
<1>5. CASE Finish(l)
  BY <1>5, FinishBooks
<1>. QED
  BY <1>2, <1>3, <1>4, <1>5 DEF LeaseStep, Wakes

(* A mint that lands after close() is ended without having been held.      *)
LEMMA DiscardBooks ==
    ASSUME IInv, MintDiscarded
    PROVE  Books'
<1>. USE DEF IInv
<1>0. PICK f \in Creds : f = attempts + 1 /\ f \notin minted /\ f # None
  BY NextCred DEF MintDiscarded, Landing
<1>1. \A c \in Creds : Users(c)' = Users(c)
  BY UsersUnchanged DEF MintDiscarded, Landing, callVars
<1>3. Users(f) = {} /\ ends[f] = 0
  BY <1>0 DEF Books
<1>4. \A c \in Creds : ends'[c] = IF c = f THEN 1 ELSE ends[c]
  BY <1>0, <1>3 DEF MintDiscarded, ToEnd, TypeOK
<1>5. current = None /\ f # current
  BY <1>0 DEF MintDiscarded, Books
<1>6. /\ UNCHANGED <<current, closed, users, retired>>
      /\ minted' = minted \cup {f}
  BY <1>0 DEF MintDiscarded, Landing
<1>7. \A c \in Creds :
         ends'[c] = IF c \in minted' /\ c # current' /\ Users(c)' = {}
                    THEN 1 ELSE 0
  BY <1>1, <1>3, <1>4, <1>5, <1>6 DEF Books
<1>8. \A k \in Calls : phase'[k] = "using" => held'[k] \in minted'
  BY <1>6 DEF MintDiscarded, Landing, callVars, Books
<1>. QED
  BY <1>1, <1>6, <1>7, <1>8 DEF Books

(* Each other step keeps the books.                                        *)
LEMMA OtherStepBooks ==
    ASSUME IInv, MintSettles \/ Close \/ Tick \/ UNCHANGED vars
    PROVE  Books'
<1>1. ASSUME NEW a \in Ages, MintLands(a)
      PROVE  Books'
  <2>1. PICK f \in Creds : f = attempts + 1 /\ f \notin minted
    BY <1>1, NextCred DEF MintLands, Landing
  <2>2. /\ Retire(current) /\ ToEnd(Idle(current))
        /\ minted' = minted \cup {f} /\ {f} = {current'}
        /\ ~closed' /\ UNCHANGED <<users, phase, held>>
    BY <1>1, <2>1 DEF MintLands, Landing, callVars
  <2>3. {f} \in SUBSET Creds /\ {f} \cap minted = {}
    BY <2>1
  <2>. QED
    BY <2>2, <2>3, RetireBooks
<1>2. CASE MintDiscarded
  BY <1>2, DiscardBooks
<1>3. CASE MintFails
  BY <1>3, QuietBooks DEF MintFails, Landing, callVars
<1>4. CASE Close
  <2>1. /\ Retire(current) /\ ToEnd(Idle(current))
        /\ minted' = minted \cup {} /\ current' = None
        /\ UNCHANGED <<users, phase, held>>
    BY <1>4 DEF Close, mintVars, callVars
  <2>2. {} \in SUBSET Creds /\ {} \cap minted = {}
    OBVIOUS
  <2>. QED
    BY <2>1, <2>2, RetireBooks
<1>5. CASE Tick
  BY <1>5, QuietBooks DEF Tick, mintVars, credVars, callVars
<1>6. CASE UNCHANGED vars
  BY <1>6, QuietBooks DEF vars, mintVars, credVars, callVars
<1>. QED
  BY <1>1, <1>2, <1>3, <1>4, <1>5, <1>6 DEF MintSettles

----------------------------------------------------------------------------
(* Every step keeps what the last mint says of what is held.               *)

(* A step that ends no mint, and lets go of a credential only to close.    *)
LEMMA QuietOutcomes ==
    ASSUME IInv, UNCHANGED <<attempts, failed, minted>>,
           current # None => current' # None \/ closed',
           closed => closed',
           \A k \in Calls : seen'[k] = seen[k] \/ seen'[k] = attempts
    PROVE  Outcomes'
<1>1. attempts \in Nat /\ \A k \in Calls : seen[k] <= attempts
  BY MaxMintsAssumption DEF IInv, TypeOK, Outcomes
<1>2. \A k \in Calls : seen'[k] <= attempts'
  BY <1>1
<1>. QED
  BY <1>2 DEF IInv, Outcomes

LEMMA LeaseStepOutcomes ==
    ASSUME IInv, NEW l \in Calls, LeaseStep(l)
    PROVE  Outcomes'
<1>1. /\ UNCHANGED <<attempts, failed, minted, current, closed>>
      /\ \/ seen' = seen
         \/ seen' = [seen EXCEPT ![l] = attempts]
  BY DEF LeaseStep, Wakes, LeaseRefused, LeaseFails, LeaseServed, LeaseWaits,
         WakesRefused, WakesServed, WakesFailed, GivesUp, Finish, Settles,
         Renews, mintVars
<1>2. \A k \in Calls : seen'[k] = seen[k] \/ seen'[k] = attempts
  BY <1>1 DEF IInv, TypeOK
<1>. QED
  BY <1>1, <1>2, QuietOutcomes

(* A mint that is over: it failed, it left a credential, or the holder     *)
(* had closed.                                                             *)
LEMMA LandingOutcomes ==
    ASSUME IInv, Landing, minted' \in SUBSET (minted \cup {attempts + 1}),
           failed' \/ closed \/ current' # None
    PROVE  Outcomes'
<1>1. /\ attempts \in Nat /\ minted \subseteq Creds
      /\ \A c \in minted : c <= attempts
      /\ \A k \in Calls : seen[k] \in Nat /\ seen[k] <= attempts
  BY MaxMintsAssumption DEF IInv, TypeOK, Outcomes
<1>2. attempts' = attempts + 1 /\ UNCHANGED <<closed, seen>>
  BY DEF Landing, callVars
<1>3. \A c \in minted' : c <= attempts'
  <2>1. \A c \in minted : c \in Nat /\ c <= attempts + 1
    BY <1>1 DEF Creds
  <2>. QED
    BY <1>1, <1>2, <2>1
<1>4. \A k \in Calls : seen'[k] <= attempts'
  BY <1>1, <1>2
<1>. QED
  BY <1>2, <1>3, <1>4 DEF Outcomes

LEMMA OtherStepOutcomes ==
    ASSUME IInv, MintSettles \/ Close \/ Tick \/ UNCHANGED vars
    PROVE  Outcomes'
<1>1. ASSUME NEW a \in Ages, MintLands(a)
      PROVE  Outcomes'
  <2>1. current' # None
    BY <1>1, NextCred DEF MintLands, Landing
  <2>. QED
    BY <1>1, <2>1, LandingOutcomes DEF MintLands
<1>2. CASE MintDiscarded
  BY <1>2, LandingOutcomes DEF MintDiscarded
<1>3. CASE MintFails
  BY <1>3, LandingOutcomes DEF MintFails
<1>4. CASE Close
  BY <1>4, QuietOutcomes DEF Close, mintVars, callVars
<1>5. CASE Tick
  BY <1>5, QuietOutcomes DEF Tick, mintVars, callVars
<1>6. CASE UNCHANGED vars
  BY <1>6, QuietOutcomes DEF vars, mintVars, callVars
<1>. QED
  BY <1>1, <1>2, <1>3, <1>4, <1>5, <1>6 DEF MintSettles

----------------------------------------------------------------------------
(* The invariant, and what follows from it.                                *)

(* The use counts, the marks, the ends and the outcomes of the mints agree *)
(* in every state the Python holder can reach.                             *)
THEOREM PyRenewingInvariant == Spec => []IInv
<1>1. Init => IInv
  BY InitIInv
<1>2. IInv /\ [Next]_vars => IInv'
  <2>. SUFFICES ASSUME IInv, [Next]_vars PROVE IInv'
    OBVIOUS
  <2>1. ASSUME NEW l \in Calls, LeaseStep(l)
        PROVE  IInv'
    BY <2>1, LeaseStepType, LeaseStepBooks, LeaseStepOutcomes DEF IInv
  <2>2. CASE MintSettles \/ Close \/ Tick \/ UNCHANGED vars
    BY <2>2, OtherStepType, OtherStepBooks, OtherStepOutcomes DEF IInv
  <2>. QED
    BY <2>1, <2>2 DEF Next
<1>. QED
  BY <1>1, <1>2, PTL DEF Spec

(* A lease that waited never finds neither a credential nor an exception,  *)
(* however many mints finished before it woke (_auth.py:270).              *)
THEOREM PySkewIsTheClock == Spec => []SkewIsTheClock
<1>1. IInv => SkewIsTheClock
  <2>. SUFFICES ASSUME IInv, NEW l \in Calls, Woken(l), ~closed, ~failed
                PROVE  current # None
    BY DEF SkewIsTheClock
  <2>1. seen[l] <= attempts /\ attempts # seen[l] /\ seen[l] \in Nat
        /\ attempts \in Nat
    BY MaxMintsAssumption DEF Woken, IInv, TypeOK, Outcomes
  <2>2. attempts > 0
    BY <2>1
  <2>. QED
    BY <2>2 DEF IInv, Outcomes
<1>. QED
  BY <1>1, PyRenewingInvariant, PTL

----------------------------------------------------------------------------
(* The refinement of Custody.                                              *)

(* Where a credential stands, told by who carries it rather than by ends.  *)
Standing(c) == IF c \notin minted THEN "unminted"
               ELSE IF c = current THEN "held"
               ELSE IF Users(c) # {} THEN "given_up" ELSE "revoked"

(* The books make the two agree: what is neither current nor carried is    *)
(* what _end was called for.                                               *)
LEMMA StandingIsState ==
    ASSUME IInv, IInv'
    PROVE  /\ custodyState = [c \in Creds |-> Standing(c)]
           /\ custodyState' = [c \in Creds |-> Standing(c)']
<1>1. \A c \in Creds : custodyState[c] = Standing(c)
  BY DEF custodyState, Standing, IInv, Books
<1>2. \A c \in Creds : custodyState'[c] = Standing(c)'
  BY DEF custodyState, Standing, IInv, Books
<1>3. /\ custodyState = [c \in Creds |-> custodyState[c]]
      /\ custodyState' = [c \in Creds |-> custodyState'[c]]
  BY DEF custodyState
<1>. QED
  BY <1>1, <1>2, <1>3

(* A step that mints nothing, leaves _current and every lease alone is a   *)
(* stutter.                                                                *)
LEMMA PyCustodyStutter ==
    ASSUME IInv, IInv', UNCHANGED <<minted, current>>,
           \A l \in Calls : phase'[l] = "using" <=> phase[l] = "using",
           \A l \in Calls : phase[l] = "using" => held'[l] = held[l]
    PROVE  UNCHANGED C!custodyVars
<1>1. \A c \in Creds : Users(c)' = Users(c)
  BY UsersUnchanged
<1>2. [c \in Creds |-> Users(c)]' = [c \in Creds |-> Users(c)]
  BY <1>1
<1>3. \A c \in Creds : Standing(c)' = Standing(c)
  BY <1>1 DEF Standing
<1>4. custodyState' = custodyState
  BY <1>3, StandingIsState
<1>. QED
  BY <1>2, <1>4 DEF C!custodyVars

(* held.users++ is a Borrow of what is held.                               *)
LEMMA UseBorrows ==
    ASSUME IInv, IInv', NEW l \in Calls, phase[l] # "using",
           current # None, Uses(l), UNCHANGED <<minted, current>>
    PROVE  C!CustodyNext
<1>1. PICK h \in Creds : h = current
  BY DEF IInv, TypeOK
<1>2. /\ Users(h)' = Users(h) \cup {l}
      /\ \A c \in Creds : c # h => Users(c)' = Users(c)
  BY <1>1 DEF Uses, Users, IInv, TypeOK
<1>3. Standing(h) = "held"
  BY <1>1 DEF Standing, IInv, Books
<1>4. custodyState[h] = "held"
  BY <1>3, StandingIsState
<1>5. \A c \in Creds : Standing(c)' = Standing(c)
  BY <1>1, <1>2 DEF Standing
<1>6. custodyState' = custodyState
  BY <1>5, StandingIsState
<1>7. \A d \in Creds : l \notin Users(d)
  BY DEF Users
<1>8. [c \in Creds |-> Users(c)]'
        = [[c \in Creds |-> Users(c)] EXCEPT ![h] = @ \cup {l}]
  BY <1>2
<1>9. C!Borrow(h, l)
  BY <1>4, <1>6, <1>7, <1>8 DEF C!Borrow
<1>. QED
  BY <1>9 DEF C!CustodyNext

(* A lease that finishes is a Return.                                      *)
LEMMA FinishReturns ==
    ASSUME IInv, IInv', NEW l \in Calls, Finish(l)
    PROVE  C!CustodyNext
<1>. USE DEF IInv
<1>1. PICK h \in Creds : h = held[l] /\ h \in minted
  <2>1. l \in Users(held[l])
    BY DEF Finish, Users
  <2>2. held[l] \in minted /\ minted \subseteq Creds
    BY DEF Finish, TypeOK, Books
  <2>. QED
    BY <2>1, <2>2 DEF Books
<1>2. /\ Users(h)' = Users(h) \ {l}
      /\ l \in Users(h)
      /\ \A c \in Creds : c # h => Users(c)' = Users(c)
  BY <1>1 DEF Finish, Users, TypeOK
<1>3. UNCHANGED <<minted, current>>
  BY DEF Finish, mintVars
<1>4. [c \in Creds |-> Users(c)]'
        = [[c \in Creds |-> Users(c)] EXCEPT ![h] = @ \ {l}]
  BY <1>2
<1>5. \A c \in Creds : c # h => Standing(c)' = Standing(c)
  BY <1>2, <1>3 DEF Standing
<1>6. custodyState[h] = "given_up" <=> h # current
  BY <1>1, <1>2, StandingIsState DEF Standing
<1>7. CASE h # current /\ Users(h) = {l}
  <2>1. Standing(h)' = "revoked"
    BY <1>1, <1>2, <1>3, <1>7 DEF Standing
  <2>2. [custodyState EXCEPT ![h] = "revoked"]
          = [c \in Creds |-> IF c = h THEN "revoked" ELSE Standing(c)]
    BY StandingIsState
  <2>3. custodyState' = [custodyState EXCEPT ![h] = "revoked"]
    BY <1>5, <2>1, <2>2, StandingIsState
  <2>4. C!Return(h, l)
    BY <1>2, <1>4, <1>6, <1>7, <2>3 DEF C!Return
  <2>. QED
    BY <2>4 DEF C!CustodyNext
<1>8. CASE ~(h # current /\ Users(h) = {l})
  <2>1. Standing(h)' = Standing(h)
    BY <1>1, <1>2, <1>3, <1>8 DEF Standing
  <2>2. custodyState' = custodyState
    BY <1>5, <2>1, StandingIsState
  <2>3. C!Return(h, l)
    BY <1>2, <1>4, <1>6, <1>8, <2>2 DEF C!Return
  <2>. QED
    BY <2>3 DEF C!CustodyNext
<1>. QED
  BY <1>7, <1>8

(* A mint that lands on an open holder is a Mint, or a Replace of the      *)
(* credential it retires.                                                  *)
LEMMA LandedIsMinted ==
    ASSUME IInv, IInv', NEW a \in Ages, MintLands(a)
    PROVE  C!CustodyNext
<1>. USE DEF IInv
<1>0. PICK f \in Creds : f = attempts + 1 /\ f \notin minted /\ f # None
  BY NextCred DEF MintLands, Landing
<1>1. /\ f \notin minted /\ minted' = minted \cup {f}
      /\ current' = f /\ f # None
  BY <1>0 DEF MintLands, Landing
<1>2. \A c \in Creds : Users(c)' = Users(c)
  BY UsersUnchanged DEF MintLands, Landing, callVars
<1>3. [c \in Creds |-> Users(c)]' = [c \in Creds |-> Users(c)]
  BY <1>2
<1>4. custodyState[f] = "unminted" /\ Standing(f)' = "held"
  BY <1>1, StandingIsState DEF Standing
<1>5. CASE current = None
  <2>1. \A c \in Creds : custodyState[c] # "held"
    BY <1>5, StandingIsState DEF Standing, Creds, None
  <2>2. \A c \in Creds : c # f => Standing(c)' = Standing(c)
    BY <1>1, <1>2, <1>5 DEF Standing, Creds, None
  <2>3. [custodyState EXCEPT ![f] = "held"]
          = [c \in Creds |-> IF c = f THEN "held" ELSE Standing(c)]
    BY StandingIsState
  <2>4. custodyState' = [custodyState EXCEPT ![f] = "held"]
    BY <1>4, <2>2, <2>3, StandingIsState
  <2>5. C!Mint(f)
    BY <1>3, <1>4, <2>1, <2>4 DEF C!Mint
  <2>. QED
    BY <2>5 DEF C!CustodyNext
<1>6. CASE current # None
  <2>1. PICK old \in Creds : old = current
    BY <1>6 DEF TypeOK
  <2>2. custodyState[old] = "held" /\ old # f
    BY <1>1, <1>6, <2>1, StandingIsState DEF Standing, Books
  <2>3. Standing(old)' = C!LetGo(old)
    BY <1>1, <1>2, <1>6, <2>1, <2>2 DEF Standing, Books, C!LetGo
  <2>4. \A c \in Creds : c # f /\ c # old => Standing(c)' = Standing(c)
    BY <1>1, <1>2, <2>1 DEF Standing
  <2>5. [custodyState EXCEPT ![f] = "held", ![old] = C!LetGo(old)]
          = [c \in Creds |-> IF c = old THEN C!LetGo(old)
                             ELSE IF c = f THEN "held" ELSE Standing(c)]
    BY <2>2, StandingIsState
  <2>6. custodyState'
          = [custodyState EXCEPT ![f] = "held", ![old] = C!LetGo(old)]
    BY <1>4, <2>3, <2>4, <2>5, StandingIsState
  <2>7. C!Replace(f, old)
    BY <1>3, <1>4, <2>2, <2>6 DEF C!Replace
  <2>. QED
    BY <2>7 DEF C!CustodyNext
<1>. QED
  BY <1>5, <1>6

(* One that lands on a closed holder is a Discard.                         *)
LEMMA LateIsDiscarded ==
    ASSUME IInv, IInv', MintDiscarded
    PROVE  C!CustodyNext
<1>. USE DEF IInv
<1>0. PICK f \in Creds : f = attempts + 1 /\ f \notin minted /\ f # None
  BY NextCred DEF MintDiscarded, Landing
<1>1. /\ f \notin minted /\ minted' = minted \cup {f}
      /\ current = None /\ current' = current /\ f # None
  BY <1>0 DEF MintDiscarded, Landing, Books
<1>2. \A c \in Creds : Users(c)' = Users(c)
  BY UsersUnchanged DEF MintDiscarded, Landing, callVars
<1>3. [c \in Creds |-> Users(c)]' = [c \in Creds |-> Users(c)]
  BY <1>2
<1>4. custodyState[f] = "unminted"
  BY <1>1, StandingIsState DEF Standing
<1>5. Users(f) = {}
  BY <1>1 DEF Books, Users
<1>6. Standing(f)' = "revoked"
  BY <1>1, <1>2, <1>5 DEF Standing
<1>7. \A c \in Creds : c # f => Standing(c)' = Standing(c)
  BY <1>1, <1>2 DEF Standing
<1>8. [custodyState EXCEPT ![f] = "revoked"]
        = [c \in Creds |-> IF c = f THEN "revoked" ELSE Standing(c)]
  BY StandingIsState
<1>9. custodyState' = [custodyState EXCEPT ![f] = "revoked"]
  BY <1>6, <1>7, <1>8, StandingIsState
<1>10. C!Discard(f)
  BY <1>3, <1>4, <1>9 DEF C!Discard
<1>. QED
  BY <1>10 DEF C!CustodyNext

(* close() gives up what is held, if anything is.                          *)
LEMMA CloseGivesUp ==
    ASSUME IInv, IInv', Close
    PROVE  C!CustodyNext \/ UNCHANGED C!custodyVars
<1>. USE DEF IInv
<1>1. /\ current' = None /\ minted' = minted
      /\ UNCHANGED <<phase, held>>
  BY DEF Close, mintVars, callVars
<1>2. \A c \in Creds : Users(c)' = Users(c)
  BY <1>1, UsersUnchanged
<1>3. [c \in Creds |-> Users(c)]' = [c \in Creds |-> Users(c)]
  BY <1>2
<1>4. CASE current = None
  BY <1>1, <1>4, PyCustodyStutter
<1>5. CASE current # None
  <2>1. PICK old \in Creds : old = current
    BY <1>5 DEF TypeOK
  <2>2. custodyState[old] = "held"
    BY <1>5, <2>1, StandingIsState DEF Standing, Books
  <2>3. Standing(old)' = C!LetGo(old)
    BY <1>1, <1>2, <1>5, <2>1 DEF Standing, Books, C!LetGo
  <2>4. \A c \in Creds : c # old => Standing(c)' = Standing(c)
    BY <1>1, <1>2, <2>1 DEF Standing, Creds, None
  <2>5. [custodyState EXCEPT ![old] = C!LetGo(old)]
          = [c \in Creds |-> IF c = old THEN C!LetGo(old)
                             ELSE Standing(c)]
    BY StandingIsState
  <2>6. custodyState' = [custodyState EXCEPT ![old] = C!LetGo(old)]
    BY <2>3, <2>4, <2>5, StandingIsState
  <2>7. C!GiveUp(old)
    BY <1>3, <2>2, <2>6 DEF C!GiveUp
  <2>. QED
    BY <2>7 DEF C!CustodyNext
<1>. QED
  BY <1>4, <1>5

(* Every step of a lease but its start and its finish is a stutter.        *)
LEMMA LeaseStepKeepsCustody ==
    ASSUME IInv, IInv', NEW l \in Calls, LeaseStep(l)
    PROVE  C!CustodyNext \/ UNCHANGED C!custodyVars
<1>. /\ phase \in [Calls -> {"idle", "waiting", "using"} \cup Over]
     /\ held \in [Calls -> Creds \cup {None}]
  BY DEF IInv, TypeOK
<1>1. ASSUME NEW outcome \in Over, phase[l] # "using", Settles(l, outcome)
      PROVE  UNCHANGED C!custodyVars
  BY <1>1, PyCustodyStutter DEF Settles, mintVars, credVars, Over
<1>2. CASE LeaseRefused(l) \/ LeaseFails(l) \/ WakesRefused(l) \/ GivesUp(l)
           \/ WakesFailed(l)
  <2>1. \E outcome \in Over : phase[l] # "using" /\ Settles(l, outcome)
    BY <1>2 DEF LeaseRefused, LeaseFails, WakesRefused, GivesUp, WakesFailed,
                Woken, Over
  <2>. QED
    BY <1>1, <2>1
<1>3. CASE LeaseServed(l) \/ WakesServed(l)
  <2>1. /\ phase[l] # "using" /\ current # None /\ Uses(l)
        /\ UNCHANGED <<current, minted>>
    BY <1>3 DEF LeaseServed, WakesServed, Woken, Honoured, Renews, mintVars
  <2>. QED
    BY <2>1, UseBorrows
<1>4. CASE LeaseWaits(l)
  <2>1. /\ UNCHANGED <<minted, current>>
        /\ \A k \in Calls : phase'[k] = "using" <=> phase[k] = "using"
        /\ \A k \in Calls : phase[k] = "using" => held'[k] = held[k]
    BY <1>4 DEF LeaseWaits, Renews
  <2>. QED
    BY <2>1, PyCustodyStutter
<1>5. CASE Finish(l)
  BY <1>5, FinishReturns
<1>. QED
  BY <1>2, <1>3, <1>4, <1>5 DEF LeaseStep, Wakes

(* The Python holder keeps the promise of Custody: every step of it is a   *)
(* step of the abstract holder or leaves the abstract state alone.         *)
THEOREM PyRenewingKeepsCustody == Spec => KeepsCustody
<1>1. Init => C!CustodyInit
  <2>. SUFFICES ASSUME Init PROVE C!CustodyInit
    OBVIOUS
  <2>1. custodyState = [c \in Creds |-> "unminted"]
    BY DEF Init, custodyState
  <2>2. [c \in Creds |-> Users(c)] = [c \in Creds |-> {}]
    BY DEF Init, Users
  <2>. QED
    BY <2>1, <2>2 DEF C!CustodyInit
<1>2. IInv /\ IInv' /\ [Next]_vars => [C!CustodyNext]_(C!custodyVars)
  <2>. SUFFICES ASSUME IInv, IInv', [Next]_vars
                PROVE  C!CustodyNext \/ UNCHANGED C!custodyVars
    OBVIOUS
  <2>1. ASSUME NEW l \in Calls, LeaseStep(l)
        PROVE  C!CustodyNext \/ UNCHANGED C!custodyVars
    BY <2>1, LeaseStepKeepsCustody
  <2>2. ASSUME NEW a \in Ages, MintLands(a)
        PROVE  C!CustodyNext
    BY <2>2, LandedIsMinted
  <2>3. CASE MintDiscarded
    BY <2>3, LateIsDiscarded
  <2>4. CASE Close
    BY <2>4, CloseGivesUp
  <2>5. CASE MintFails \/ Tick \/ UNCHANGED vars
    <3>1. UNCHANGED <<minted, current, phase, held>>
      BY <2>5 DEF MintFails, Landing, Tick, vars, mintVars, callVars
    <3>. QED
      BY <3>1, PyCustodyStutter
  <2>. QED
    BY <2>1, <2>2, <2>3, <2>4, <2>5 DEF Next, MintSettles
<1>. QED
  BY <1>1, <1>2, PyRenewingInvariant, PTL DEF Spec, KeepsCustody, C!CustodySpec
=============================================================================
