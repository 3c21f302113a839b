-------------------------- MODULE GoRenewingProofs --------------------------
(***************************************************************************)
(* Theorems about GoRenewing, for any finite set of leases and any number  *)
(* of mints.                                                               *)
(***************************************************************************)
EXTENDS GoRenewing, FiniteSetTheorems, TLAPS

(* The leases of a credential are finitely many, so Minted.users can count *)
(* them, and is zero only when there are none (renewing.go:36).            *)
LEMMA UsersFinite ==
    ASSUME NEW c
    PROVE  /\ IsFiniteSet(Users(c))
           /\ Cardinality(Users(c)) \in Nat
           /\ Cardinality(Users(c)) = 0 <=> Users(c) = {}
<1>1. Users(c) \subseteq Calls
  BY DEF Users
<1>2. IsFiniteSet(Users(c))
  BY <1>1, CallsAssumption, FS_Subset
<1>. QED
  BY <1>2, FS_CardinalityType, FS_EmptySet

(* What neither leases nor releases leaves every credential's users alone. *)
LEMMA UsersUnchanged ==
    ASSUME NEW c,
           \A l \in Calls : phase'[l] = "using" <=> phase[l] = "using",
           \A l \in Calls : phase[l] = "using" => held'[l] = held[l]
    PROVE  Users(c)' = Users(c)
BY DEF Users

(* A holder that was just built satisfies the invariant (renewing.go:65).  *)
LEMMA InitIInv == Init => IInv
<1>. SUFFICES ASSUME Init PROVE IInv
  OBVIOUS
<1>. USE DEF Init
<1>1. TypeOK
  <2>1. started \in 0 .. MaxFlights
    BY MaxFlightsAssumption
  <2>2. current \in Creds \cup {None} /\ age \in Ages
    BY DEF Ages
  <2>3. /\ phase \in [Calls -> Phases]
        /\ waits \in [Calls -> Creds \cup {None}]
        /\ held \in [Calls -> Creds \cup {None}]
    BY DEF Phases
  <2>. QED
    BY <2>1, <2>2, <2>3 DEF TypeOK
<1>2. \A c \in Creds : Users(c) = {} /\ Cardinality(Users(c)) = 0
  BY UsersFinite DEF Users
<1>3. Books
  BY <1>2 DEF Books, None
<1>4. Flights
  BY DEF Flights, Creds, None
<1>. QED
  BY <1>1, <1>3, <1>4 DEF IInv

----------------------------------------------------------------------------
(* Every step keeps the types.                                             *)

(* Starting or joining a flight leaves r.flight a flight (renewing.go:91). *)
LEMMA StartOrJoinType ==
    ASSUME TypeOK, StartOrJoin
    PROVE  /\ flight' \in Creds
           /\ started' \in 0 .. MaxFlights
           /\ stage' \in [Creds -> {"none", "minting", "settling", "done"}]
<1>1. CASE flight # None /\ UNCHANGED <<flight, started, stage>>
  BY <1>1 DEF TypeOK
<1>2. CASE flight = None /\ started < MaxFlights /\ started' = started + 1
           /\ flight' = started + 1
           /\ stage' = [stage EXCEPT ![started + 1] = "minting"]
  <2>1. started + 1 \in Creds /\ started + 1 \in 0 .. MaxFlights
    BY <1>2, MaxFlightsAssumption DEF TypeOK, Creds
  <2>. QED
    BY <1>2, <2>1 DEF TypeOK
<1>. QED
  BY <1>1, <1>2 DEF StartOrJoin

(* Each step of a lease (renewing.go:84-117)                               *)
LEMMA LeaseStepType ==
    ASSUME IInv, NEW l \in Calls, LeaseStep(l)
    PROVE  TypeOK'
<1>. USE DEF IInv, TypeOK, Phases, Creds, None
<1>1. CASE LeaseRefused(l)
  BY <1>1 DEF LeaseRefused, holderVars, flightVars, closeVars, credVars
<1>2. CASE LeaseServed(l)
  <2>1. current \in Creds
    BY <1>2 DEF LeaseServed
  <2>2. /\ flight' \in Creds \cup {None}
        /\ started' \in 0 .. MaxFlights
        /\ stage' \in [Creds -> {"none", "minting", "settling", "done"}]
    BY <1>2, StartOrJoinType DEF LeaseServed
  <2>. QED
    BY <1>2, <2>1, <2>2 DEF LeaseServed, Use, closeVars
<1>3. CASE LeaseWaits(l)
  <2>1. /\ flight' \in Creds
        /\ started' \in 0 .. MaxFlights
        /\ stage' \in [Creds -> {"none", "minting", "settling", "done"}]
    BY <1>3, StartOrJoinType DEF LeaseWaits
  <2>. QED
    BY <1>3, <2>1 DEF LeaseWaits, closeVars, credVars
<1>4. CASE WaitFails(l)
  BY <1>4 DEF WaitFails, holderVars, flightVars, closeVars, credVars
<1>5. CASE WaitRefused(l)
  BY <1>5 DEF WaitRefused, holderVars, flightVars, closeVars, credVars
<1>6. CASE WaitServed(l)
  <2>1. current \in Creds
    BY <1>6 DEF WaitServed, Woken, Flights
  <2>. QED
    BY <1>6, <2>1 DEF WaitServed, Use, holderVars, flightVars, closeVars
<1>7. CASE GivesUp(l)
  BY <1>7 DEF GivesUp, holderVars, flightVars, closeVars, credVars
<1>8. CASE Release(l)
  <2>1. held[l] \in Creds \cup {None} /\ l \in Users(held[l])
    BY <1>8 DEF Release, Users
  <2>2. \A c \in Creds : users'[c] \in Nat
    <3>. SUFFICES ASSUME NEW c \in Creds PROVE users'[c] \in Nat
      OBVIOUS
    <3>1. CASE c = held[l]
      <4>1. users[c] \in Nat /\ users[c] # 0
        BY <2>1, <3>1, UsersFinite DEF Books
      <4>. QED
        BY <1>8, <3>1, <4>1 DEF Release
    <3>2. CASE c # held[l]
      BY <1>8, <3>2 DEF Release
    <3>. QED
      BY <3>1, <3>2
  <2>3. users' \in [Creds -> Nat]
    BY <1>8, <2>2 DEF Release
  <2>4. ends' \in [Creds -> Nat]
    BY <1>8 DEF Release, ToEnd
  <2>. QED
    BY <1>8, <2>3, <2>4 DEF Release, holderVars, flightVars, closeVars
<1>. QED
  BY <1>1, <1>2, <1>3, <1>4, <1>5, <1>6, <1>7, <1>8 DEF LeaseStep

(* retire() and the call of end() that follows it (renewing.go:158-166).   *)
LEMMA RetireType ==
    ASSUME TypeOK, NEW c, NEW d \in Creds \cup {None}
    PROVE  /\ Retire(c) => retired' \in [Creds -> BOOLEAN]
           /\ ToEnd(d) => ends' \in [Creds -> Nat]
<1>1. Retire(c) => retired' \in [Creds -> BOOLEAN]
  BY DEF TypeOK, Retire
<1>2. ASSUME ToEnd(d) PROVE ends' \in [Creds -> Nat]
  <2>1. CASE d = None
    BY <1>2, <2>1 DEF TypeOK, ToEnd
  <2>2. CASE d # None
    BY <1>2, <2>2 DEF TypeOK, ToEnd
  <2>. QED
    BY <2>1, <2>2
<1>. QED
  BY <1>1, <1>2

(* Each other step.                                                        *)
LEMMA OtherStepType ==
    ASSUME IInv,
           \/ \E f \in Creds : MintAnswered(f) \/ Settles(f) \/ EndReturns(f)
           \/ Close \/ CloseReturns \/ Tick
           \/ UNCHANGED vars
    PROVE  TypeOK'
<1>. USE DEF IInv, TypeOK
<1>1. ASSUME NEW f \in Creds, NEW a \in Ages, MintLands(f, a)
      PROVE  TypeOK'
  <2>1. /\ retired' \in [Creds -> BOOLEAN]
        /\ ends' \in [Creds -> Nat]
    BY <1>1, RetireType DEF MintLands, Idle
  <2>. QED
    BY <1>1, <2>1 DEF MintLands, Landing, closeVars, callVars
<1>2. ASSUME NEW f \in Creds, MintDiscarded(f)
      PROVE  TypeOK'
  BY <1>2 DEF MintDiscarded, Landing, ToEnd, closeVars, callVars
<1>3. ASSUME NEW f \in Creds, MintFails(f)
      PROVE  TypeOK'
  BY <1>3 DEF MintFails, Landing, Serving, closeVars, callVars
<1>4. ASSUME NEW f \in Creds, Settles(f)
      PROVE  TypeOK'
  BY <1>4 DEF Settles, holderVars, closeVars, credVars, callVars
<1>5. ASSUME NEW f \in Creds, EndReturns(f)
      PROVE  TypeOK'
  BY <1>5 DEF EndReturns, holderVars, flightVars, closeVars, callVars
<1>6. CASE Close
  <2>1. /\ retired' \in [Creds -> BOOLEAN]
        /\ ends' \in [Creds -> Nat]
    BY <1>6, RetireType DEF Close, Idle
  <2>. QED
    BY <1>6, <2>1 DEF Close, Idle, flightVars, callVars
<1>7. CASE CloseReturns
  BY <1>7 DEF CloseReturns, holderVars, flightVars, credVars, callVars
<1>8. CASE Tick
  BY <1>8 DEF Tick, Ages, flightVars, closeVars, credVars, callVars
<1>9. CASE UNCHANGED vars
  BY <1>9
  DEF vars, holderVars, flightVars, closeVars, credVars, callVars
<1>. QED
  BY <1>1, <1>2, <1>3, <1>4, <1>5, <1>6, <1>7, <1>8, <1>9 DEF MintAnswered

----------------------------------------------------------------------------
(* Every step keeps the books.                                             *)

(* A step that leases nothing and ends nothing.                            *)
LEMMA QuietBooks ==
    ASSUME IInv,
           UNCHANGED <<current, minted, closed, users, retired, ends>>,
           \A k \in Calls : phase'[k] = "using" <=> phase[k] = "using",
           \A k \in Calls : phase[k] = "using" => held'[k] = held[k]
    PROVE  Books'
<1>1. \A c \in Creds : Users(c)' = Users(c)
  BY UsersUnchanged
<1>. QED
  BY <1>1 DEF IInv, Books

(* held.users++ (renewing.go:96, 115), always for what is current.         *)
LEMMA UseBooks ==
    ASSUME IInv, NEW l \in Calls, phase[l] # "using",
           current # None, Use(l),
           UNCHANGED <<current, minted, closed, retired, ends>>
    PROVE  Books'
<1>. USE DEF IInv
<1>. current \in Creds
  BY DEF TypeOK
<1>1. Users(current)' = Users(current) \cup {l}
  BY DEF Use, Users, TypeOK
<1>2. \A c \in Creds : c # current => Users(c)' = Users(c)
  BY DEF Use, Users, TypeOK
<1>3. Cardinality(Users(current)') = Cardinality(Users(current)) + 1
  BY <1>1, l \notin Users(current), UsersFinite, FS_AddElement DEF Users
<1>4. \A c \in Creds : users'[c] = Cardinality(Users(c)')
  <2>. SUFFICES ASSUME NEW c \in Creds
                PROVE  users'[c] = Cardinality(Users(c)')
    OBVIOUS
  <2>1. CASE c = current
    BY <2>1, <1>3 DEF Use, TypeOK, Books
  <2>2. CASE c # current
    BY <2>2, <1>2 DEF Use, TypeOK, Books
  <2>. QED
    BY <2>1, <2>2
<1>5. \A k \in Calls : phase'[k] = "using" => held'[k] \in minted'
  BY DEF Use, TypeOK, Books
<1>6. \A c \in Creds :
         c = current \/ (Users(c)' = Users(c) /\ c # current)
  BY <1>2
<1>. QED
  BY <1>4, <1>5, <1>6 DEF Books

(* Release() (renewing.go:172): the last lease of a retired credential is  *)
(* the one that ends it.                                                   *)
LEMMA ReleaseBooks ==
    ASSUME IInv, NEW l \in Calls, Release(l)
    PROVE  Books'
<1>. USE DEF IInv
<1>1. PICK h \in Creds \cup {None} : h = held[l]
  BY DEF TypeOK
<1>2. l \in Users(h) /\ phase[l] = "using"
  BY <1>1 DEF Release, Users
<1>3. \A k \in Calls : k # l => phase'[k] = phase[k] /\ held'[k] = held[k]
  BY DEF Release, TypeOK
<1>4. phase'[l] # "using"
  BY DEF Release, TypeOK
<1>5. Users(h)' = Users(h) \ {l}
  BY <1>1, <1>2, <1>3, <1>4 DEF Users
<1>6. \A c \in Creds : c # h => Users(c)' = Users(c)
  BY <1>1, <1>2, <1>3, <1>4 DEF Users
<1>7. Cardinality(Users(h)') = Cardinality(Users(h)) - 1
  BY <1>2, <1>5, UsersFinite, FS_RemoveElement
<1>8. \A c \in Creds : users'[c] = Cardinality(Users(c)')
  <2>. SUFFICES ASSUME NEW c \in Creds
                PROVE  users'[c] = Cardinality(Users(c)')
    OBVIOUS
  <2>1. CASE c = h
    BY <2>1, <1>1, <1>7 DEF Release, TypeOK, Books
  <2>2. CASE c # h
    BY <2>2, <1>1, <1>6 DEF Release, TypeOK, Books
  <2>. QED
    BY <2>1, <2>2
<1>9. \A c \in Creds :
         ends'[c] = IF c \in minted /\ c # current /\ Users(c)' = {}
                    THEN 1 ELSE 0
  <2>. SUFFICES ASSUME NEW c \in Creds
                PROVE  ends'[c] = IF c \in minted /\ c # current
                                     /\ Users(c)' = {}
                                  THEN 1 ELSE 0
    OBVIOUS
  <2>1. CASE c # h
    <3>1. ends'[c] = ends[c]
      BY <1>1, <2>1 DEF Release, ToEnd, TypeOK
    <3>. QED
      BY <1>6, <2>1, <3>1 DEF Books
  <2>2. CASE c = h
    <3>1. ends[c] = 0 /\ c \in minted /\ c # None
      BY <1>2, <2>2 DEF Books, Creds, None
    <3>2. users[c] = 1 <=> Users(c)' = {}
      <4>1. /\ Cardinality(Users(c)') \in Nat
            /\ Cardinality(Users(c)') = 0 <=> Users(c)' = {}
        <5>1. IsFiniteSet(Users(c)')
          BY <1>5, <2>2, UsersFinite, FS_Subset
        <5>. QED
          BY <5>1, FS_CardinalityType, FS_EmptySet
      <4>2. users[c] = Cardinality(Users(c)') + 1
        BY <1>7, <2>2, UsersFinite DEF Books
      <4>. QED
        BY <4>1, <4>2
    <3>3. retired[c] <=> c # current
      BY <1>2, <2>2 DEF Books
    <3>4. ends'[c] = IF LastUse(c) THEN 1 ELSE 0
      BY <1>1, <2>2, <3>1 DEF Release, ToEnd, TypeOK
    <3>. QED
      BY <3>1, <3>2, <3>3, <3>4 DEF LastUse
  <2>. QED
    BY <2>1, <2>2
<1>10. \A c \in Creds : Users(c)' \subseteq Users(c)
  BY <1>5, <1>6
<1>11. UNCHANGED <<current, minted, closed, retired>>
  BY DEF Release, holderVars, flightVars
<1>12. \A k \in Calls : phase'[k] = "using" => held'[k] \in minted'
  BY <1>3, <1>4, <1>11 DEF Books
<1>. QED
  BY <1>8, <1>9, <1>10, <1>11, <1>12 DEF Books

(* retire() of what is current (renewing.go:158), as a mint that landed    *)
(* and Close() both do it: what nobody carries is ended at once.           *)
LEMMA RetireBooks ==
    ASSUME IInv, Retire(current), ToEnd(Idle(current)),
           NEW S \in SUBSET Creds, minted' = minted \cup S,
           (S = {} /\ current' = None) \/ S = {current'},
           S \cap minted = {},
           closed' => current' = None,
           UNCHANGED <<users, phase, held>>
    PROVE  Books'
<1>. USE DEF IInv
<1>1. \A c \in Creds : Users(c)' = Users(c)
  BY UsersUnchanged
<1>2. \A c \in Creds : users'[c] = Cardinality(Users(c)')
  BY <1>1 DEF Books
<1>3. \A c \in Creds : retired'[c] <=> retired[c] \/ c = current
  BY DEF TypeOK, Retire, Creds, None
<1>4. current \in minted => current' # current
  BY DEF TypeOK, Creds, None
<1>5. \A c \in Creds : retired'[c] => c \in minted' /\ c # current'
  <2>. SUFFICES ASSUME NEW c \in Creds, retired'[c]
                PROVE  c \in minted' /\ c # current'
    OBVIOUS
  <2>1. c \in minted
    BY <1>3 DEF Books, Creds, None
  <2>. QED
    BY <2>1 DEF Creds, None
<1>6. \A c \in Creds : Users(c)' # {} => c = current' \/ retired'[c]
  BY <1>1, <1>3 DEF Books
<1>7. \A c \in Creds :
         ends'[c] = IF c \in minted' /\ c # current' /\ Users(c)' = {}
                    THEN 1 ELSE 0
  <2>. SUFFICES ASSUME NEW c \in Creds
                PROVE  ends'[c] = IF c \in minted' /\ c # current'
                                     /\ Users(c)' = {}
                                  THEN 1 ELSE 0
    OBVIOUS
  <2>1. c # None /\ (users[c] = 0 <=> Users(c) = {})
    BY UsersFinite DEF Books, Creds, None
  <2>2. ends[c] = IF c \in minted /\ c # current /\ Users(c) = {}
                  THEN 1 ELSE 0
    BY DEF Books
  <2>3. CASE c = current
    <3>1. c \in minted /\ c # current'
      BY <1>4, <2>1, <2>3 DEF Books
    <3>2. ends'[c] = IF users[c] = 0 THEN 1 ELSE 0
      BY <2>1, <2>2, <2>3 DEF ToEnd, Idle, TypeOK
    <3>. QED
      BY <1>1, <2>1, <3>1, <3>2
  <2>4. CASE c # current
    <3>1. ends'[c] = ends[c]
      BY <2>1, <2>4 DEF ToEnd, Idle, TypeOK
    <3>2. c \in minted /\ c # current <=> c \in minted' /\ c # current'
      BY <2>1, <2>4
    <3>. QED
      BY <1>1, <2>2, <3>1, <3>2
  <2>. QED
    BY <2>3, <2>4
<1>. QED
  BY <1>1, <1>2, <1>5, <1>6, <1>7 DEF Books

(* Each step of a lease keeps the books.                                   *)
LEMMA LeaseStepBooks ==
    ASSUME IInv, NEW l \in Calls, LeaseStep(l)
    PROVE  Books'
<1>. phase \in [Calls -> Phases] /\ held \in [Calls -> Creds \cup {None}]
  BY DEF IInv, TypeOK
<1>1. CASE LeaseRefused(l)
  BY <1>1, QuietBooks
  DEF LeaseRefused, holderVars, flightVars, credVars
<1>2. CASE LeaseServed(l)
  BY <1>2, UseBooks DEF LeaseServed
<1>3. CASE LeaseWaits(l)
  BY <1>3, QuietBooks DEF LeaseWaits, credVars
<1>4. CASE WaitFails(l)
  BY <1>4, QuietBooks
  DEF WaitFails, Woken, holderVars, flightVars, credVars
<1>5. CASE WaitRefused(l)
  BY <1>5, QuietBooks
  DEF WaitRefused, Woken, holderVars, flightVars, credVars
<1>6. CASE WaitServed(l)
  <2>1. current # None
    BY <1>6 DEF WaitServed, Woken, IInv, Flights
  <2>. QED
    BY <1>6, <2>1, UseBooks DEF WaitServed, Woken, holderVars, flightVars
<1>7. CASE GivesUp(l)
  BY <1>7, QuietBooks DEF GivesUp, holderVars, flightVars, credVars
<1>8. CASE Release(l)
  BY <1>8, ReleaseBooks
<1>. QED
  BY <1>1, <1>2, <1>3, <1>4, <1>5, <1>6, <1>7, <1>8 DEF LeaseStep

(* A mint that lands after Close() is ended without having been held       *)
(* (renewing.go:135).                                                      *)
LEMMA DiscardBooks ==
    ASSUME IInv, NEW f \in Creds, MintDiscarded(f)
    PROVE  Books'
<1>. USE DEF IInv
<1>1. \A c \in Creds : Users(c)' = Users(c)
  BY UsersUnchanged DEF MintDiscarded, Landing, callVars
<1>2. f \notin minted /\ f # None
  BY DEF MintDiscarded, Landing, Flights, Creds, None
<1>3. Users(f) = {} /\ ends[f] = 0
  BY <1>2 DEF Books
<1>4. \A c \in Creds : ends'[c] = IF c = f THEN 1 ELSE ends[c]
  BY <1>2, <1>3 DEF MintDiscarded, ToEnd, TypeOK
<1>5. current = None /\ f # current
  BY <1>2 DEF MintDiscarded, Books
<1>6. /\ UNCHANGED <<current, closed, users, retired>>
      /\ minted' = minted \cup {f}
  BY DEF MintDiscarded, Landing
<1>7. \A c \in Creds :
         ends'[c] = IF c \in minted' /\ c # current' /\ Users(c)' = {}
                    THEN 1 ELSE 0
  BY <1>1, <1>3, <1>4, <1>5, <1>6 DEF Books
<1>8. \A k \in Calls : phase'[k] = "using" => held'[k] \in minted'
  BY <1>6 DEF MintDiscarded, Landing, callVars, Books
<1>. QED
  BY <1>1, <1>6, <1>7, <1>8 DEF Books

(* Each other step keeps the books.                                        *)
LEMMA OtherStepBooks ==
    ASSUME IInv,
           \/ \E f \in Creds : MintAnswered(f) \/ Settles(f) \/ EndReturns(f)
           \/ Close \/ CloseReturns \/ Tick
           \/ UNCHANGED vars
    PROVE  Books'
<1>1. ASSUME NEW f \in Creds, NEW a \in Ages, MintLands(f, a)
      PROVE  Books'
  <2>1. f \notin minted
    BY <1>1 DEF MintLands, Landing, IInv, Flights
  <2>2. /\ Retire(current) /\ ToEnd(Idle(current))
        /\ minted' = minted \cup {f} /\ {f} = {current'}
        /\ ~closed' /\ UNCHANGED <<users, phase, held>>
    BY <1>1 DEF MintLands, Landing, callVars
  <2>3. {f} \in SUBSET Creds /\ {f} \cap minted = {}
    BY <2>1
  <2>. QED
    BY <2>2, <2>3, RetireBooks
<1>2. ASSUME NEW f \in Creds, MintDiscarded(f)
      PROVE  Books'
  BY <1>2, DiscardBooks
<1>3. ASSUME NEW f \in Creds, MintFails(f)
      PROVE  Books'
  BY <1>3, QuietBooks DEF MintFails, Landing, callVars
<1>4. ASSUME NEW f \in Creds, Settles(f)
      PROVE  Books'
  BY <1>4, QuietBooks DEF Settles, holderVars, credVars, callVars
<1>5. ASSUME NEW f \in Creds, EndReturns(f)
      PROVE  Books'
  BY <1>5, QuietBooks DEF EndReturns, holderVars, flightVars, callVars
<1>6. CASE Close
  <2>1. /\ Retire(current) /\ ToEnd(Idle(current))
        /\ minted' = minted \cup {} /\ current' = None
        /\ UNCHANGED <<users, phase, held>>
    BY <1>6 DEF Close, flightVars, callVars
  <2>2. {} \in SUBSET Creds /\ {} \cap minted = {}
    OBVIOUS
  <2>. QED
    BY <2>1, <2>2, RetireBooks
<1>7. CASE CloseReturns
  BY <1>7, QuietBooks
  DEF CloseReturns, holderVars, flightVars, credVars, callVars
<1>8. CASE Tick
  BY <1>8, QuietBooks DEF Tick, flightVars, credVars, callVars
<1>9. CASE UNCHANGED vars
  BY <1>9, QuietBooks
  DEF vars, holderVars, flightVars, credVars, callVars
<1>. QED
  BY <1>1, <1>2, <1>3, <1>4, <1>5, <1>6, <1>7, <1>8, <1>9 DEF MintAnswered

----------------------------------------------------------------------------
(* Every step keeps what is known of the flights.                          *)

(* A step that starts, lands and settles no flight, and does not make a    *)
(* lease wait.                                                             *)
LEMMA QuietFlights ==
    ASSUME IInv, UNCHANGED <<started, stage, flight, minted, err>>,
           current # None => current' # None \/ closed',
           closed => closed',
           \A k \in Calls : phase'[k] = "waiting"
              => phase[k] = "waiting" /\ waits'[k] = waits[k]
    PROVE  Flights'
  BY DEF IInv, Flights

(* r.flight is replaced only once it is nil, and then by one that never    *)
(* ran (renewing.go:91).                                                   *)
LEMMA StartOrJoinFlights ==
    ASSUME IInv, StartOrJoin, UNCHANGED <<minted, err, current, closed>>,
           \A k \in Calls : phase'[k] = "waiting"
              => \/ phase[k] = "waiting" /\ waits'[k] = waits[k]
                 \/ waits'[k] = flight'
    PROVE  Flights'
<1>. USE DEF IInv
<1>0. flight' \in Creds
  BY StartOrJoinType
<1>1. CASE flight # None /\ UNCHANGED <<flight, started, stage>>
  BY <1>0, <1>1 DEF Flights
<1>2. CASE flight = None /\ started < MaxFlights /\ started' = started + 1
           /\ flight' = started + 1
           /\ stage' = [stage EXCEPT ![started + 1] = "minting"]
  <2>1. started + 1 \in Creds /\ started \in Int
    BY <1>2, MaxFlightsAssumption DEF TypeOK, Creds
  <2>2. \A f \in Creds : stage'[f] = IF f = started + 1 THEN "minting"
                                                          ELSE stage[f]
    BY <1>2 DEF TypeOK
  <2>3. \A f \in Creds : f # None
    BY DEF Creds, None
  <2>4. \A f \in Creds : f > started' => stage'[f] = "none"
    BY <1>2, <2>1, <2>2 DEF Flights, Creds
  <2>5. \A f \in Creds : stage'[f] = "minting" <=> f = flight'
    BY <1>2, <2>2, <2>3 DEF Flights
  <2>6. stage[started + 1] = "none" /\ started + 1 \notin minted
    BY <2>1 DEF Flights
  <2>7. \A f \in minted' : stage'[f] \in {"settling", "done"}
    BY <2>2, <2>6 DEF Flights, TypeOK
  <2>8. \A f \in Creds : stage'[f] \in {"settling", "done"} /\ ~err'[f]
           => closed' \/ current' # None
    BY <2>2 DEF Flights
  <2>9. \A k \in Calls : phase'[k] = "waiting" => waits'[k] \in Creds
    BY <1>0 DEF Flights
  <2>. QED
    BY <2>4, <2>5, <2>7, <2>8, <2>9 DEF Flights
<1>. QED
  BY <1>1, <1>2 DEF StartOrJoin

(* A flight that landed leaves a credential to lease, a closed holder or   *)
(* an error (renewing.go:129-149).                                         *)
LEMMA LandingFlights ==
    ASSUME IInv, NEW f \in Creds, Landing(f),
           minted' = minted \/ minted' = minted \cup {f},
           current # None => current' # None,
           err' \in [Creds -> BOOLEAN],
           \A g \in Creds : g # f => err'[g] = err[g],
           ~err'[f] => closed \/ current' # None
    PROVE  Flights'
<1>. USE DEF IInv
<1>1. \A g \in Creds : stage'[g] = IF g = f THEN "settling" ELSE stage[g]
  BY DEF Landing, TypeOK
<1>2. f = flight /\ flight' = None /\ f <= started
  <2>1. stage[f] = "minting" /\ flight' = None
    BY DEF Landing
  <2>2. f \in Int /\ started \in Int
    BY DEF TypeOK, Creds
  <2>. QED
    BY <2>1, <2>2 DEF Flights
<1>3. started' = started /\ closed' = closed /\ UNCHANGED <<phase, waits>>
  BY DEF Landing, callVars
<1>4. \A g \in Creds : g > started' => stage'[g] = "none"
  BY <1>1, <1>2, <1>3 DEF Flights, TypeOK, Creds
<1>5. \A g \in Creds : stage'[g] = "minting" <=> g = flight'
  BY <1>1, <1>2 DEF Flights, Creds, None
<1>6. \A g \in minted' : stage'[g] \in {"settling", "done"}
  BY <1>1 DEF Flights, TypeOK
<1>7. \A g \in Creds : stage'[g] \in {"settling", "done"} /\ ~err'[g]
         => closed' \/ current' # None
  BY <1>1, <1>3 DEF Flights
<1>8. \A k \in Calls : phase'[k] = "waiting" => waits'[k] \in Creds
  BY <1>3 DEF Flights
<1>. QED
  BY <1>4, <1>5, <1>6, <1>7, <1>8 DEF Flights

(* Each step of a lease keeps what is known of the flights.                *)
LEMMA LeaseStepFlights ==
    ASSUME IInv, NEW l \in Calls, LeaseStep(l)
    PROVE  Flights'
<1>. phase \in [Calls -> Phases] /\ waits \in [Calls -> Creds \cup {None}]
  BY DEF IInv, TypeOK
<1>1. CASE LeaseRefused(l) \/ WaitFails(l) \/ WaitRefused(l) \/ WaitServed(l)
           \/ GivesUp(l) \/ Release(l)
  <2>1. \A k \in Calls : phase'[k] = "waiting"
           => phase[k] = "waiting" /\ waits'[k] = waits[k]
    BY <1>1 DEF LeaseRefused, WaitFails, WaitRefused, WaitServed, Use,
                GivesUp, Release
  <2>2. UNCHANGED <<current, closed, started, stage, flight, minted, err>>
    BY <1>1 DEF LeaseRefused, WaitFails, WaitRefused, WaitServed, GivesUp,
                Release, holderVars, flightVars
  <2>. QED
    BY <2>1, <2>2, QuietFlights
<1>2. CASE LeaseServed(l)
  <2>1. \A k \in Calls : phase'[k] = "waiting"
           => phase[k] = "waiting" /\ waits'[k] = waits[k]
    BY <1>2 DEF LeaseServed, Use
  <2>2. UNCHANGED <<current, closed, minted, err>>
    BY <1>2 DEF LeaseServed
  <2>3. CASE UNCHANGED <<flight, started, stage>>
    BY <2>1, <2>2, <2>3, QuietFlights
  <2>4. CASE StartOrJoin
    BY <2>1, <2>2, <2>4, StartOrJoinFlights
  <2>. QED
    BY <1>2, <2>3, <2>4 DEF LeaseServed
<1>3. CASE LeaseWaits(l)
  <2>1. \A k \in Calls : phase'[k] = "waiting"
           => \/ phase[k] = "waiting" /\ waits'[k] = waits[k]
              \/ waits'[k] = flight'
    BY <1>3 DEF LeaseWaits
  <2>. QED
    BY <1>3, <2>1, StartOrJoinFlights DEF LeaseWaits
<1>. QED
  BY <1>1, <1>2, <1>3 DEF LeaseStep

(* Each other step does.                                                   *)
LEMMA OtherStepFlights ==
    ASSUME IInv,
           \/ \E f \in Creds : MintAnswered(f) \/ Settles(f) \/ EndReturns(f)
           \/ Close \/ CloseReturns \/ Tick
           \/ UNCHANGED vars
    PROVE  Flights'
<1>. err \in [Creds -> BOOLEAN]
  BY DEF IInv, TypeOK
<1>1. ASSUME NEW f \in Creds, NEW a \in Ages, MintLands(f, a)
      PROVE  Flights'
  <2>1. current' # None
    BY <1>1 DEF MintLands, Creds, None
  <2>2. Landing(f) /\ minted' = minted \cup {f} /\ err' = err
    BY <1>1 DEF MintLands
  <2>. QED
    BY <2>1, <2>2, LandingFlights
<1>2. ASSUME NEW f \in Creds, MintDiscarded(f)
      PROVE  Flights'
  BY <1>2, LandingFlights DEF MintDiscarded
<1>3. ASSUME NEW f \in Creds, MintFails(f)
      PROVE  Flights'
  <2>1. Landing(f) /\ minted' = minted /\ current' = current
    BY <1>3 DEF MintFails
  <2>2. err' = [err EXCEPT ![f] = ~Serving] /\ Serving \in BOOLEAN
    BY <1>3 DEF MintFails, Serving
  <2>3. \A g \in Creds : g # f => err'[g] = err[g]
    BY <2>2
  <2>4. err' \in [Creds -> BOOLEAN]
    BY <2>2
  <2>5. ~err'[f] => current' # None
    BY <2>1, <2>2 DEF Serving
  <2>. QED
    BY <2>1, <2>3, <2>4, <2>5, LandingFlights
<1>4. ASSUME NEW f \in Creds, Settles(f)
      PROVE  Flights'
  <2>1. \A g \in Creds : stage'[g] = IF g = f THEN "done" ELSE stage[g]
    BY <1>4 DEF Settles, IInv, TypeOK
  <2>2. stage[f] = "settling"
    BY <1>4 DEF Settles
  <2>3. UNCHANGED <<current, flight, started, closed, minted, err,
                    phase, waits>>
    BY <1>4 DEF Settles, holderVars, callVars
  <2>. QED
    BY <2>1, <2>2, <2>3 DEF IInv, TypeOK, Flights
<1>5. ASSUME NEW f \in Creds, EndReturns(f)
      PROVE  Flights'
  BY <1>5, QuietFlights DEF EndReturns, holderVars, flightVars, callVars
<1>6. CASE Close
  BY <1>6, QuietFlights DEF Close, flightVars, callVars
<1>7. CASE CloseReturns
  BY <1>7, QuietFlights DEF CloseReturns, holderVars, flightVars, callVars
<1>8. CASE Tick
  BY <1>8, QuietFlights DEF Tick, flightVars, callVars
<1>9. CASE UNCHANGED vars
  BY <1>9, QuietFlights DEF vars, holderVars, flightVars, callVars
<1>. QED
  BY <1>1, <1>2, <1>3, <1>4, <1>5, <1>6, <1>7, <1>8, <1>9 DEF MintAnswered

----------------------------------------------------------------------------
(* The invariant, and what follows from it.                                *)

(* The use counts, the retirements, the ends and the flights of a Go       *)
(* holder agree in every state it can reach.                               *)
THEOREM GoRenewingInvariant == Spec => []IInv
<1>1. Init => IInv
  BY InitIInv
<1>2. IInv /\ [Next]_vars => IInv'
  <2>. SUFFICES ASSUME IInv, [Next]_vars PROVE IInv'
    OBVIOUS
  <2>1. ASSUME NEW l \in Calls, LeaseStep(l)
        PROVE  IInv'
    BY <2>1, LeaseStepType, LeaseStepBooks, LeaseStepFlights DEF IInv
  <2>2. CASE \/ \E f \in Creds : MintAnswered(f) \/ Settles(f) \/ EndReturns(f)
             \/ Close \/ CloseReturns \/ Tick
             \/ UNCHANGED vars
    BY <2>2, OtherStepType, OtherStepBooks, OtherStepFlights DEF IInv
  <2>. QED
    BY <2>1, <2>2 DEF Next
<1>. QED
  BY <1>1, <1>2, PTL DEF Spec

(* Every variable of the holder keeps its type.                            *)
THEOREM GoTypeCorrect == Spec => []TypeOK
BY GoRenewingInvariant, PTL DEF IInv

(* No renewal, close or last Release ends a credential that a call still   *)
(* carries or may still lease (renewing.go:48).                            *)
THEOREM GoNeverEndedUnderUse == Spec => []NoEndUnderUse
<1>1. IInv => NoEndUnderUse
  BY DEF IInv, Books, NoEndUnderUse
<1>. QED
  BY <1>1, GoRenewingInvariant, PTL

(* Of the renewal, the close and the last Release that may meet over one   *)
(* credential, exactly one ends it (renewing.go:151, 175).                 *)
THEOREM GoEndedAtMostOnce == Spec => []EndedOnce
<1>1. IInv => EndedOnce
  BY DEF IInv, Books, EndedOnce
<1>. QED
  BY <1>1, GoRenewingInvariant, PTL

(* Every credential ever minted is current, carried or given to end(),     *)
(* one whose mint a close overtook included (renewing.go:81).              *)
THEOREM GoNothingIsLeftBehind == Spec => []NothingLeftBehind
<1>1. IInv => NothingLeftBehind
  <2>. SUFFICES ASSUME IInv PROVE NothingLeftBehind
    OBVIOUS
  <2>1. minted \subseteq Creds
    BY DEF IInv, TypeOK
  <2>. QED
    BY <2>1 DEF IInv, Books, NothingLeftBehind
<1>. QED
  BY <1>1, GoRenewingInvariant, PTL

(* A lease that waited never dereferences a nil r.current                  *)
(* (renewing.go:115).                                                      *)
THEOREM GoNeverNil == Spec => []NeverNil
<1>1. IInv => NeverNil
  BY DEF IInv, Flights, NeverNil, Woken
<1>. QED
  BY <1>1, GoRenewingInvariant, PTL

(* Two mints never run at once (renewing.go:49).                           *)
THEOREM GoOneMintAtATime == Spec => []OneMintAtATime
<1>1. IInv => OneMintAtATime
  BY DEF IInv, Flights, OneMintAtATime
<1>. QED
  BY <1>1, GoRenewingInvariant, PTL

----------------------------------------------------------------------------
(* The refinement of Custody.                                              *)

(* Where a credential stands, told by who carries it rather than by ends.  *)
Standing(c) == IF c \notin minted THEN "unminted"
               ELSE IF c = current THEN "held"
               ELSE IF Users(c) # {} THEN "given_up" ELSE "revoked"

(* The books make the two agree: what is neither current nor carried is    *)
(* what end() was called for (renewing.go:158).                            *)
LEMMA StandingIsState ==
    ASSUME IInv, IInv'
    PROVE  /\ custodyState = [c \in Creds |-> Standing(c)]
           /\ custodyState' = [c \in Creds |-> Standing(c)']
<1>1. \A c \in Creds : custodyState[c] = Standing(c)
  BY DEF custodyState, Standing, IInv, Books
<1>2. \A c \in Creds : custodyState'[c] = Standing(c)'
  BY DEF custodyState, Standing, IInv, Books
<1>3. /\ custodyState = [c \in Creds |-> custodyState[c]]
      /\ custodyState' = [c \in Creds |-> custodyState'[c]]
  BY DEF custodyState
<1>. QED
  BY <1>1, <1>2, <1>3

(* A step that mints nothing, leaves r.current and every lease alone is a  *)
(* stutter.                                                                *)
LEMMA GoCustodyStutter ==
    ASSUME IInv, IInv', UNCHANGED <<minted, current>>,
           \A l \in Calls : phase'[l] = "using" <=> phase[l] = "using",
           \A l \in Calls : phase[l] = "using" => held'[l] = held[l]
    PROVE  UNCHANGED C!custodyVars
<1>1. \A c \in Creds : Users(c)' = Users(c)
  BY UsersUnchanged
<1>2. [c \in Creds |-> Users(c)]' = [c \in Creds |-> Users(c)]
  BY <1>1
<1>3. \A c \in Creds : Standing(c)' = Standing(c)
  BY <1>1 DEF Standing
<1>4. custodyState' = custodyState
  BY <1>3, StandingIsState
<1>. QED
  BY <1>2, <1>4 DEF C!custodyVars

(* held.users++ is a Borrow of what is held (renewing.go:96, 115).         *)
LEMMA UseBorrows ==
    ASSUME IInv, IInv', NEW l \in Calls, phase[l] # "using",
           current # None, Use(l), UNCHANGED <<minted, current>>
    PROVE  C!CustodyNext
<1>1. PICK h \in Creds : h = current
  BY DEF IInv, TypeOK
<1>2. /\ Users(h)' = Users(h) \cup {l}
      /\ \A c \in Creds : c # h => Users(c)' = Users(c)
  BY <1>1 DEF Use, Users, IInv, TypeOK
<1>3. Standing(h) = "held"
  BY <1>1 DEF Standing, IInv, Books
<1>4. custodyState[h] = "held"
  BY <1>3, StandingIsState
<1>5. \A c \in Creds : Standing(c)' = Standing(c)
  BY <1>1, <1>2 DEF Standing
<1>6. custodyState' = custodyState
  BY <1>5, StandingIsState
<1>7. \A d \in Creds : l \notin Users(d)
  BY DEF Users
<1>8. [c \in Creds |-> Users(c)]'
        = [[c \in Creds |-> Users(c)] EXCEPT ![h] = @ \cup {l}]
  BY <1>2
<1>9. C!Borrow(h, l)
  BY <1>4, <1>6, <1>7, <1>8 DEF C!Borrow
<1>. QED
  BY <1>9 DEF C!CustodyNext

(* Release() is a Return (renewing.go:172).                                *)
LEMMA ReleaseReturns ==
    ASSUME IInv, IInv', NEW l \in Calls, Release(l)
    PROVE  C!CustodyNext
<1>. USE DEF IInv
<1>1. PICK h \in Creds : h = held[l] /\ h \in minted
  <2>1. l \in Users(held[l])
    BY DEF Release, Users
  <2>2. held[l] \in minted /\ minted \subseteq Creds
    BY DEF Release, TypeOK, Books
  <2>. QED
    BY <2>1, <2>2 DEF Books
<1>2. /\ Users(h)' = Users(h) \ {l}
      /\ l \in Users(h)
      /\ \A c \in Creds : c # h => Users(c)' = Users(c)
  BY <1>1 DEF Release, Users, TypeOK
<1>3. UNCHANGED <<minted, current>>
  BY DEF Release, holderVars, flightVars
<1>4. [c \in Creds |-> Users(c)]'
        = [[c \in Creds |-> Users(c)] EXCEPT ![h] = @ \ {l}]
  BY <1>2
<1>5. \A c \in Creds : c # h => Standing(c)' = Standing(c)
  BY <1>2, <1>3 DEF Standing
<1>6. custodyState[h] = "given_up" <=> h # current
  BY <1>1, <1>2, StandingIsState DEF Standing
<1>7. CASE h # current /\ Users(h) = {l}
  <2>1. Standing(h)' = "revoked"
    BY <1>1, <1>2, <1>3, <1>7 DEF Standing
  <2>2. [custodyState EXCEPT ![h] = "revoked"]
          = [c \in Creds |-> IF c = h THEN "revoked" ELSE Standing(c)]
    BY StandingIsState
  <2>3. custodyState' = [custodyState EXCEPT ![h] = "revoked"]
    BY <1>5, <2>1, <2>2, StandingIsState
  <2>4. C!Return(h, l)
    BY <1>2, <1>4, <1>6, <1>7, <2>3 DEF C!Return
  <2>. QED
    BY <2>4 DEF C!CustodyNext
<1>8. CASE ~(h # current /\ Users(h) = {l})
  <2>1. Standing(h)' = Standing(h)
    BY <1>1, <1>2, <1>3, <1>8 DEF Standing
  <2>2. custodyState' = custodyState
    BY <1>5, <2>1, StandingIsState
  <2>3. C!Return(h, l)
    BY <1>2, <1>4, <1>6, <1>8, <2>2 DEF C!Return
  <2>. QED
    BY <2>3 DEF C!CustodyNext
<1>. QED
  BY <1>7, <1>8

(* A mint that lands on an open holder is a Mint, or a Replace of the      *)
(* credential it retires (renewing.go:137).                                *)
LEMMA LandedIsMinted ==
    ASSUME IInv, IInv', NEW f \in Creds, NEW a \in Ages, MintLands(f, a)
    PROVE  C!CustodyNext
<1>. USE DEF IInv
<1>1. /\ f \notin minted /\ minted' = minted \cup {f}
      /\ current' = f /\ f # None
  BY DEF MintLands, Landing, Flights, Creds, None
<1>2. \A c \in Creds : Users(c)' = Users(c)
  BY UsersUnchanged DEF MintLands, Landing, callVars
<1>3. [c \in Creds |-> Users(c)]' = [c \in Creds |-> Users(c)]
  BY <1>2
<1>4. custodyState[f] = "unminted" /\ Standing(f)' = "held"
  BY <1>1, StandingIsState DEF Standing
<1>5. CASE current = None
  <2>1. \A c \in Creds : custodyState[c] # "held"
    BY <1>5, StandingIsState DEF Standing, Creds, None
  <2>2. \A c \in Creds : c # f => Standing(c)' = Standing(c)
    BY <1>1, <1>2, <1>5 DEF Standing, Creds, None
  <2>3. [custodyState EXCEPT ![f] = "held"]
          = [c \in Creds |-> IF c = f THEN "held" ELSE Standing(c)]
    BY StandingIsState
  <2>4. custodyState' = [custodyState EXCEPT ![f] = "held"]
    BY <1>4, <2>2, <2>3, StandingIsState
  <2>5. C!Mint(f)
    BY <1>3, <1>4, <2>1, <2>4 DEF C!Mint
  <2>. QED
    BY <2>5 DEF C!CustodyNext
<1>6. CASE current # None
  <2>1. PICK old \in Creds : old = current
    BY <1>6 DEF TypeOK
  <2>2. custodyState[old] = "held" /\ old # f
    BY <1>1, <1>6, <2>1, StandingIsState DEF Standing, Books
  <2>3. Standing(old)' = C!LetGo(old)
    BY <1>1, <1>2, <1>6, <2>1, <2>2 DEF Standing, Books, C!LetGo
  <2>4. \A c \in Creds : c # f /\ c # old => Standing(c)' = Standing(c)
    BY <1>1, <1>2, <2>1 DEF Standing
  <2>5. [custodyState EXCEPT ![f] = "held", ![old] = C!LetGo(old)]
          = [c \in Creds |-> IF c = old THEN C!LetGo(old)
                             ELSE IF c = f THEN "held" ELSE Standing(c)]
    BY <2>2, StandingIsState
  <2>6. custodyState'
          = [custodyState EXCEPT ![f] = "held", ![old] = C!LetGo(old)]
    BY <1>4, <2>3, <2>4, <2>5, StandingIsState
  <2>7. C!Replace(f, old)
    BY <1>3, <1>4, <2>2, <2>6 DEF C!Replace
  <2>. QED
    BY <2>7 DEF C!CustodyNext
<1>. QED
  BY <1>5, <1>6

(* One that lands on a closed holder is a Discard (renewing.go:135).       *)
LEMMA LateIsDiscarded ==
    ASSUME IInv, IInv', NEW f \in Creds, MintDiscarded(f)
    PROVE  C!CustodyNext
<1>. USE DEF IInv
<1>1. /\ f \notin minted /\ minted' = minted \cup {f}
      /\ current = None /\ current' = current /\ f # None
  BY DEF MintDiscarded, Landing, Flights, Books, Creds, None
<1>2. \A c \in Creds : Users(c)' = Users(c)
  BY UsersUnchanged DEF MintDiscarded, Landing, callVars
<1>3. [c \in Creds |-> Users(c)]' = [c \in Creds |-> Users(c)]
  BY <1>2
<1>4. custodyState[f] = "unminted"
  BY <1>1, StandingIsState DEF Standing
<1>5. Users(f) = {}
  BY <1>1 DEF Books, Users
<1>6. Standing(f)' = "revoked"
  BY <1>1, <1>2, <1>5 DEF Standing
<1>7. \A c \in Creds : c # f => Standing(c)' = Standing(c)
  BY <1>1, <1>2 DEF Standing
<1>8. [custodyState EXCEPT ![f] = "revoked"]
        = [c \in Creds |-> IF c = f THEN "revoked" ELSE Standing(c)]
  BY StandingIsState
<1>9. custodyState' = [custodyState EXCEPT ![f] = "revoked"]
  BY <1>6, <1>7, <1>8, StandingIsState
<1>10. C!Discard(f)
  BY <1>3, <1>4, <1>9 DEF C!Discard
<1>. QED
  BY <1>10 DEF C!CustodyNext

(* Close() gives up what is held, if anything is (renewing.go:191).        *)
LEMMA CloseGivesUp ==
    ASSUME IInv, IInv', Close
    PROVE  C!CustodyNext \/ UNCHANGED C!custodyVars
<1>. USE DEF IInv
<1>1. /\ current' = None /\ minted' = minted
      /\ UNCHANGED <<phase, held>>
  BY DEF Close, flightVars, callVars
<1>2. \A c \in Creds : Users(c)' = Users(c)
  BY <1>1, UsersUnchanged
<1>3. [c \in Creds |-> Users(c)]' = [c \in Creds |-> Users(c)]
  BY <1>2
<1>4. CASE current = None
  BY <1>1, <1>4, GoCustodyStutter
<1>5. CASE current # None
  <2>1. PICK old \in Creds : old = current
    BY <1>5 DEF TypeOK
  <2>2. custodyState[old] = "held"
    BY <1>5, <2>1, StandingIsState DEF Standing, Books
  <2>3. Standing(old)' = C!LetGo(old)
    BY <1>1, <1>2, <1>5, <2>1 DEF Standing, Books, C!LetGo
  <2>4. \A c \in Creds : c # old => Standing(c)' = Standing(c)
    BY <1>1, <1>2, <2>1 DEF Standing, Creds, None
  <2>5. [custodyState EXCEPT ![old] = C!LetGo(old)]
          = [c \in Creds |-> IF c = old THEN C!LetGo(old)
                             ELSE Standing(c)]
    BY StandingIsState
  <2>6. custodyState' = [custodyState EXCEPT ![old] = C!LetGo(old)]
    BY <2>3, <2>4, <2>5, StandingIsState
  <2>7. C!GiveUp(old)
    BY <1>3, <2>2, <2>6 DEF C!GiveUp
  <2>. QED
    BY <2>7 DEF C!CustodyNext
<1>. QED
  BY <1>4, <1>5

(* Every step of a lease but its start and its release is a stutter.       *)
LEMMA LeaseStepKeepsCustody ==
    ASSUME IInv, IInv', NEW l \in Calls, LeaseStep(l)
    PROVE  C!CustodyNext \/ UNCHANGED C!custodyVars
<1>. phase \in [Calls -> Phases] /\ held \in [Calls -> Creds \cup {None}]
  BY DEF IInv, TypeOK
<1>1. CASE LeaseRefused(l) \/ LeaseWaits(l) \/ WaitFails(l) \/ WaitRefused(l)
           \/ GivesUp(l)
  <2>1. /\ UNCHANGED <<minted, current>>
        /\ \A k \in Calls : phase'[k] = "using" <=> phase[k] = "using"
        /\ \A k \in Calls : phase[k] = "using" => held'[k] = held[k]
    BY <1>1 DEF LeaseRefused, LeaseWaits, WaitFails, WaitRefused, Woken,
                GivesUp, holderVars, flightVars
  <2>. QED
    BY <2>1, GoCustodyStutter
<1>2. CASE LeaseServed(l)
  BY <1>2, UseBorrows DEF LeaseServed
<1>3. CASE WaitServed(l)
  <2>1. current # None
    BY <1>3 DEF WaitServed, Woken, IInv, Flights
  <2>. QED
    BY <1>3, <2>1, UseBorrows DEF WaitServed, Woken, holderVars, flightVars
<1>4. CASE Release(l)
  BY <1>4, ReleaseReturns
<1>. QED
  BY <1>1, <1>2, <1>3, <1>4 DEF LeaseStep

(* Each other step is one of the promise, or a stutter.                    *)
LEMMA OtherStepKeepsCustody ==
    ASSUME IInv, IInv',
           \/ \E f \in Creds : MintAnswered(f) \/ Settles(f) \/ EndReturns(f)
           \/ Close \/ CloseReturns \/ Tick
           \/ UNCHANGED vars
    PROVE  C!CustodyNext \/ UNCHANGED C!custodyVars
<1>1. ASSUME NEW f \in Creds, NEW a \in Ages, MintLands(f, a)
      PROVE  C!CustodyNext
  BY <1>1, LandedIsMinted
<1>2. ASSUME NEW f \in Creds, MintDiscarded(f)
      PROVE  C!CustodyNext
  BY <1>2, LateIsDiscarded
<1>3. CASE Close
  BY <1>3, CloseGivesUp
<1>4. ASSUME NEW f \in Creds, MintFails(f) \/ Settles(f) \/ EndReturns(f)
      PROVE  UNCHANGED <<minted, current, phase, held>>
  BY <1>4 DEF MintFails, Landing, Settles, EndReturns, holderVars,
              flightVars, callVars
<1>5. CASE CloseReturns \/ Tick \/ UNCHANGED vars
  <2>1. UNCHANGED <<minted, current, phase, held>>
    BY <1>5 DEF CloseReturns, Tick, vars, holderVars, flightVars, callVars
  <2>. QED
    BY <2>1, GoCustodyStutter
<1>6. ASSUME NEW f \in Creds, MintFails(f) \/ Settles(f) \/ EndReturns(f)
      PROVE  UNCHANGED C!custodyVars
  BY <1>4, <1>6, GoCustodyStutter
<1>. QED
  BY <1>1, <1>2, <1>3, <1>5, <1>6 DEF MintAnswered

(* The Go holder keeps the promise of Custody: every step of it is a step  *)
(* of the abstract holder or leaves the abstract state alone.              *)
THEOREM GoRenewingKeepsCustody == Spec => KeepsCustody
<1>1. Init => C!CustodyInit
  <2>. SUFFICES ASSUME Init PROVE C!CustodyInit
    OBVIOUS
  <2>1. custodyState = [c \in Creds |-> "unminted"]
    BY DEF Init, custodyState
  <2>2. [c \in Creds |-> Users(c)] = [c \in Creds |-> {}]
    BY DEF Init, Users
  <2>. QED
    BY <2>1, <2>2 DEF C!CustodyInit
<1>2. IInv /\ IInv' /\ [Next]_vars => [C!CustodyNext]_(C!custodyVars)
  <2>. SUFFICES ASSUME IInv, IInv', [Next]_vars
                PROVE  C!CustodyNext \/ UNCHANGED C!custodyVars
    OBVIOUS
  <2>1. ASSUME NEW l \in Calls, LeaseStep(l)
        PROVE  C!CustodyNext \/ UNCHANGED C!custodyVars
    BY <2>1, LeaseStepKeepsCustody
  <2>2. CASE \/ \E f \in Creds : MintAnswered(f) \/ Settles(f) \/ EndReturns(f)
             \/ Close \/ CloseReturns \/ Tick
             \/ UNCHANGED vars
    BY <2>2, OtherStepKeepsCustody
  <2>. QED
    BY <2>1, <2>2 DEF Next
<1>. QED
  BY <1>1, <1>2, GoRenewingInvariant, PTL DEF Spec, KeepsCustody, C!CustodySpec
=============================================================================
