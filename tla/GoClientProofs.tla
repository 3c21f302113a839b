---------------------------- MODULE GoClientProofs --------------------------
(***************************************************************************)
(* The safety properties of GoClient.tla, for every number of calls,       *)
(* sessions, closes and keys, from one inductive invariant.                *)
(*                                                                         *)
(* IInv adds to the properties what makes them inductive: keys are         *)
(* numbered as they are minted (Numbered), belong to one session (Owned),  *)
(* are carried by nobody once anybody may end them (OnlySpentEnd), and are *)
(* forgotten as their end is answered (EndedForgotten); a collected        *)
(* session is never heard of again (Lost); a sweep comes after the close,  *)
(* and after the drain unless its ctx ended first (SweptOnce).  What a     *)
(* mint ends itself it minted earlier, and forgets only as expired         *)
(* (MintedFirst, ForgottenOnExpiry).  One lemma per part shows that no     *)
(* step breaks it; the last part shows that the client implements Keyring. *)
(***************************************************************************)
EXTENDS GoClient, FiniteSetTheorems, TLAPS

(* What is in flight is finite, and can be counted (client.go:395).        *)
LEMMA CountsFinite ==
    /\ IsFiniteSet(CallsIn) /\ Cardinality(CallsIn) \in Nat
    /\ IsFiniteSet(MintsIn) /\ Cardinality(MintsIn) \in Nat
    /\ IsFiniteSet(EndsIn) /\ Cardinality(EndsIn) \in Nat
<1>1. /\ CallsIn \subseteq Calls /\ MintsIn \subseteq Sessions
      /\ EndsIn \subseteq 1 .. MaxKeys
  BY DEF CallsIn, MintsIn, EndsIn, Keys
<1>2. IsFiniteSet(1 .. MaxKeys)
  BY BoundAssumption, FS_Interval
<1>3. IsFiniteSet(CallsIn) /\ IsFiniteSet(MintsIn) /\ IsFiniteSet(EndsIn)
  BY <1>1, <1>2, CallsAssumption, FS_Subset
<1>. QED
  BY <1>3, FS_CardinalityType

(* Client.inflight is zero only when nothing is counted (client.go:400).   *)
LEMMA InFlight ==
    ASSUME DrainedOnce
    PROVE  /\ CallsIn \cup MintsIn \cup EndsIn # {} =>
                 inflight \in Nat \ {0}
           /\ inflight \in Nat
           /\ inflight = 0 => CallsIn \cup MintsIn \cup EndsIn = {}
<1>1. /\ CallsIn # {} => Cardinality(CallsIn) # 0
      /\ MintsIn # {} => Cardinality(MintsIn) # 0
      /\ EndsIn # {} => Cardinality(EndsIn) # 0
  BY CountsFinite, FS_EmptySet
<1>. QED
  BY <1>1, CountsFinite DEF DrainedOnce, Counted

(* A key that a mint was answered with is a key (client.go:545).           *)
LEMMA FreshIsKey ==
    ASSUME IInv, NEW s \in Sessions, mint[s] \in {"inline", "landed", "out"}
    PROVE  fresh[s] \in Keys
BY DEF IInv, TypeOK, Owned

(* The service numbers a new key past those known (client.go:545).         *)
LEMMA NextKey ==
    ASSUME TypeOK, NEW s \in Sessions, NEW k \in Keys, NEW a \in Ages,
           Answered(s, k, a)
    PROVE  /\ ~(k <= minted) /\ minted <= k
           /\ minted' = k /\ minted' \in 0 .. MaxKeys
BY BoundAssumption DEF Answered, TypeOK, Keys

(* An end counts itself in, or is refused, and touches nothing else        *)
(* (client.go:611).                                                        *)
LEMMA EndBeginsAlone ==
    ASSUME TypeOK, NEW k \in Keys, EndBegins(k)
    PROVE  /\ ender[k] = "claimed"
           /\ \E to \in {"begun", "refused"} :
                 ender' = [ender EXCEPT ![k] = to]
           /\ UNCHANGED <<regVars, toEnd, keyVars, mintVars, sessionVars,
                          callVars>>
BY DEF EndBegins, TypeOK

(* Keys are claimed only while nobody ends them (keys.go:153).             *)
LEMMA ClaimsStartNew ==
    ASSUME IInv, NEW T, T \subseteq live \ claimed, NEW D, Claim(T, D)
    PROVE  /\ EndsIn' = EndsIn
           /\ \A k \in Keys : ender'[k] # "no" => ender[k] # "no" \/ k \in T
<1>1. \A k \in T : k \in Keys /\ ender[k] = "no"
  BY DEF IInv, TypeOK, ClaimsAreHeld, EndedForgotten
<1>. QED
  BY <1>1 DEF Claim, EndsIn, IInv, TypeOK

----------------------------------------------------------------------------
(* The count.                                                              *)

(* One more, or one less.                                                  *)
LEMMA CountOne ==
    ASSUME NEW S, IsFiniteSet(S), NEW x
    PROVE  /\ x \notin S => Cardinality(S \cup {x}) = Cardinality(S) + 1
           /\ x \in S => /\ Cardinality(S) # 0
                         /\ Cardinality(S \ {x}) = Cardinality(S) - 1
<1>1. CASE x \notin S
  BY <1>1, FS_AddElement
<1>2. CASE x \in S
  <2>1. Cardinality(S \ {x}) = Cardinality(S) - 1
    BY <1>2, FS_RemoveElement
  <2>2. Cardinality(S) # 0
    BY <1>2, FS_EmptySet
  <2>. QED
    BY <1>2, <2>1, <2>2
<1>. QED
  BY <1>1, <1>2

(* A call is counted in or out (client.go:384, :395).                      *)
LEMMA CallCounted ==
    ASSUME NEW m, MintsIn' = MintsIn, EndsIn' = EndsIn
    PROVE  /\ m \notin CallsIn /\ CallsIn' = CallsIn \cup {m} =>
                 Counted' = Counted + 1
           /\ m \in CallsIn /\ CallsIn' = CallsIn \ {m} =>
                 Counted \in Nat \ {0} /\ Counted' = Counted - 1
<1>1. Counted' =
         Cardinality(CallsIn') + Cardinality(MintsIn) + Cardinality(EndsIn)
  BY CountsFinite DEF Counted
<1>2. ASSUME m \notin CallsIn, CallsIn' = CallsIn \cup {m}
      PROVE  Counted' = Counted + 1
  <2>1. Cardinality(CallsIn') = Cardinality(CallsIn) + 1
    BY <1>2, CountsFinite, CountOne
  <2>. QED
    BY <1>1, <2>1, CountsFinite DEF Counted
<1>3. ASSUME m \in CallsIn, CallsIn' = CallsIn \ {m}
      PROVE  Counted \in Nat \ {0} /\ Counted' = Counted - 1
  <2>1. /\ Cardinality(CallsIn) # 0
        /\ Cardinality(CallsIn') = Cardinality(CallsIn) - 1
    BY <1>3, CountsFinite, CountOne
  <2>. QED
    BY <1>1, <2>1, CountsFinite DEF Counted
<1>. QED
  BY <1>2, <1>3

(* So is the call of a mint (client.go:544),                               *)
LEMMA MintCounted ==
    ASSUME NEW s, CallsIn' = CallsIn, EndsIn' = EndsIn
    PROVE  /\ s \notin MintsIn /\ MintsIn' = MintsIn \cup {s} =>
                 Counted' = Counted + 1
           /\ s \in MintsIn /\ MintsIn' = MintsIn \ {s} =>
                 Counted \in Nat \ {0} /\ Counted' = Counted - 1
<1>1. Counted' =
         Cardinality(CallsIn) + Cardinality(MintsIn') + Cardinality(EndsIn)
  BY CountsFinite DEF Counted
<1>2. ASSUME s \notin MintsIn, MintsIn' = MintsIn \cup {s}
      PROVE  Counted' = Counted + 1
  <2>1. Cardinality(MintsIn') = Cardinality(MintsIn) + 1
    BY <1>2, CountsFinite, CountOne
  <2>. QED
    BY <1>1, <2>1, CountsFinite DEF Counted
<1>3. ASSUME s \in MintsIn, MintsIn' = MintsIn \ {s}
      PROVE  Counted \in Nat \ {0} /\ Counted' = Counted - 1
  <2>1. /\ Cardinality(MintsIn) # 0
        /\ Cardinality(MintsIn') = Cardinality(MintsIn) - 1
    BY <1>3, CountsFinite, CountOne
  <2>. QED
    BY <1>1, <2>1, CountsFinite DEF Counted
<1>. QED
  BY <1>2, <1>3

(* and the call that ends a key (client.go:611).                           *)
LEMMA EndCounted ==
    ASSUME NEW k, CallsIn' = CallsIn, MintsIn' = MintsIn
    PROVE  /\ k \notin EndsIn /\ EndsIn' = EndsIn \cup {k} =>
                 Counted' = Counted + 1
           /\ k \in EndsIn /\ EndsIn' = EndsIn \ {k} =>
                 Counted \in Nat \ {0} /\ Counted' = Counted - 1
<1>1. Counted' =
         Cardinality(CallsIn) + Cardinality(MintsIn) + Cardinality(EndsIn')
  BY CountsFinite DEF Counted
<1>2. ASSUME k \notin EndsIn, EndsIn' = EndsIn \cup {k}
      PROVE  Counted' = Counted + 1
  <2>1. Cardinality(EndsIn') = Cardinality(EndsIn) + 1
    BY <1>2, CountsFinite, CountOne
  <2>. QED
    BY <1>1, <2>1, CountsFinite DEF Counted
<1>3. ASSUME k \in EndsIn, EndsIn' = EndsIn \ {k}
      PROVE  Counted \in Nat \ {0} /\ Counted' = Counted - 1
  <2>1. /\ Cardinality(EndsIn) # 0
        /\ Cardinality(EndsIn') = Cardinality(EndsIn) - 1
    BY <1>3, CountsFinite, CountOne
  <2>. QED
    BY <1>1, <2>1, CountsFinite DEF Counted
<1>. QED
  BY <1>2, <1>3

(* begin(), on an open client (client.go:384).                             *)
LEMMA OneMore ==
    ASSUME DrainedOnce, ~closed, CountIn, Counted' = Counted + 1
    PROVE  DrainedOnce'
BY DEF DrainedOnce, CountIn

(* end(), whatever the client is (client.go:395).                          *)
LEMMA OneLess ==
    ASSUME DrainedOnce, CountOut, Counted \in Nat \ {0},
           drained \in Nat, Counted' = Counted - 1
    PROVE  DrainedOnce'
BY DEF DrainedOnce, CountOut

(* Anything else.                                                          *)
LEMMA SameCount ==
    ASSUME DrainedOnce, UNCHANGED <<closed, inflight, drained>>,
           CallsIn' = CallsIn, MintsIn' = MintsIn, EndsIn' = EndsIn
    PROVE  DrainedOnce'
BY DEF DrainedOnce, Counted

(* A key the service answers with is of the model's types (client.go:545). *)
LEMMA AnswerTyped ==
    ASSUME TypeOK, NEW s \in Sessions, NEW k \in Keys, NEW a \in Ages,
           MintAnswered(s, k, a)
    PROVE  TypeOK'
<1>1. minted' \in 0 .. MaxKeys
  BY NextKey DEF MintAnswered
<1>2. /\ alive' \subseteq Keys
      /\ owner' \in [Keys -> Sessions \cup {Own}]
      /\ age' \in [Keys -> Ages]
      /\ fresh' \in [Sessions -> Keys \cup {None}]
  BY DEF MintAnswered, Answered, TypeOK
<1>3. /\ live' \subseteq Keys /\ live \subseteq live'
      /\ mint' \in [Sessions -> {"no", "before", "ends", "begun", "sent",
                                 "inline", "landed", "out"}]
  <2>1. \/ live' = live \cup {k} /\ mint' = [mint EXCEPT ![s] = "landed"]
        \/ live' = live /\ mint' = [mint EXCEPT ![s] = "inline"]
    BY DEF MintAnswered
  <2>. QED
    BY <2>1 DEF TypeOK
<1>4. /\ UNCHANGED <<closed, inflight, drained, closer, stage, stopped>>
      /\ UNCHANGED <<sweep, warned, claimed, abandoned, dropped, toEnd>>
      /\ UNCHANGED <<ender, retired, ends, waits, current, shut, gone>>
      /\ UNCHANGED <<phase, carries>>
  BY DEF MintAnswered, Answered, clientVars, closeVars, endVars,
         sessionVars, callVars
<1>. QED
  BY <1>1, <1>2, <1>3, <1>4 DEF TypeOK

(* It is numbered after every key that is known of (client.go:545).        *)
LEMMA AnswerNumbered ==
    ASSUME IInv, NEW s \in Sessions, NEW k \in Keys, NEW a \in Ages,
           MintAnswered(s, k, a)
    PROVE  Numbered'
<1>1. minted <= k /\ minted' = k
  BY NextKey DEF MintAnswered, IInv
<1>2. /\ live' \subseteq live \cup {k}
      /\ \A t \in Sessions : fresh'[t] \in {fresh[t], k}
      /\ UNCHANGED <<ender, retired, toEnd, current, carries>>
  BY DEF MintAnswered, Answered, endVars, sessionVars, callVars, IInv, TypeOK
<1>3. \A j \in Nat : j <= minted => j <= minted'
  BY <1>1 DEF IInv, TypeOK, Keys
<1>4. TypeOK /\ Numbered
  BY DEF IInv
<1>5. \A j \in (live \cup retired \cup toEnd)' : j <= minted'
  <2>1. \A j \in live \cup retired \cup toEnd : j \in Nat /\ j <= minted
    BY <1>4 DEF Numbered, TypeOK, Keys
  <2>. QED
    BY ONLY <1>1, <1>2, <1>3, <2>1, k \in Keys DEF Keys
<1>6. \A j \in Keys : ender'[j] # "no" => j <= minted'
  BY <1>2, <1>3, <1>4 DEF Numbered, Keys
<1>7. \A t \in Sessions : current'[t] <= minted' /\ fresh'[t] <= minted'
  <2>1. \A t \in Sessions : /\ current[t] \in Nat /\ current[t] <= minted
                            /\ fresh[t] \in Nat /\ fresh[t] <= minted
    BY <1>4 DEF Numbered, TypeOK, Keys, None
  <2>. QED
    BY ONLY <1>1, <1>2, <1>3, <2>1, k \in Keys DEF Keys
<1>8. \A m \in Calls : carries'[m] <= minted'
  <2>1. \A m \in Calls : carries[m] \in Nat /\ carries[m] <= minted
    BY <1>4 DEF Numbered, TypeOK, Keys, None
  <2>. QED
    BY ONLY <1>2, <1>3, <2>1
<1>. QED
  BY <1>5, <1>6, <1>7, <1>8 DEF Numbered

(* An end that begins is of a key already condemned (client.go:611).       *)
LEMMA BegunIsSpent ==
    ASSUME IInv, NEW k \in Keys, EndBegins(k)
    PROVE  OnlySpentEnd'
<1>1. /\ ender[k] = "claimed"
      /\ UNCHANGED <<toEnd, abandoned, owner, dropped, phase, carries>>
      /\ UNCHANGED <<fresh, current, gone>>
  BY EndBeginsAlone
     DEF IInv, regVars, mintVars, keyVars, sessionVars, callVars
<1>2. \A j \in Keys : ender'[j] # "no" => ender[j] # "no"
  BY EndBeginsAlone DEF IInv, TypeOK
<1>3. Condemned' \subseteq Condemned
  BY <1>1, <1>2 DEF Condemned
<1>. QED
  BY <1>1, <1>3 DEF IInv, OnlySpentEnd, Spent, Carriers

(* A key registered, or ended inside the call that minted it, is accounted *)
(* for (keys.go:60, client.go:557).                                        *)
LEMMA AnswerAccounted ==
    ASSUME IInv, NEW s \in Sessions, NEW k \in Keys, NEW a \in Ages,
           MintAnswered(s, k, a)
    PROVE  KeysAccountedFor'
<1>1. /\ alive' = alive \cup {k} /\ live \subseteq live'
      /\ UNCHANGED <<stage, sweep, warned>>
      /\ mint[s] = "sent" /\ fresh'[s] = k /\ age'[k] = a
  BY DEF MintAnswered, Answered, closeVars, IInv, TypeOK
<1>2. \A j \in Keys \ {k} : age'[j] = age[j]
  BY DEF MintAnswered, Answered, IInv, TypeOK
<1>3. \A t \in Sessions \ {s} : mint'[t] = mint[t] /\ fresh'[t] = fresh[t]
  BY DEF MintAnswered, Answered, IInv, TypeOK
<1>4. \/ stage' = "open" /\ k \in live'
      \/ mint'[s] = "inline"
  BY DEF MintAnswered, Registers, closeVars, IInv, TypeOK
<1>5. ASSUME NEW j \in alive, j # k, age'[j] # "expired"
      PROVE  \/ stage' = "open" /\ j \in live'
             \/ j \in sweep' \/ j \in warned'
             \/ \E t \in Sessions : mint'[t] = "inline" /\ fresh'[t] = j
  BY <1>1, <1>2, <1>3, <1>5 DEF IInv, TypeOK, KeysAccountedFor
<1>. QED
  BY <1>1, <1>4, <1>5 DEF KeysAccountedFor

(* A key only grows older (keys.go:118).                                   *)
LEMMA OlderAccounted ==
    ASSUME IInv, NEW k \in Keys, KeyAges(k)
    PROVE  KeysAccountedFor'
<1>1. UNCHANGED <<alive, stage, live, sweep, warned, mint, fresh>>
  BY DEF KeyAges, closeVars, regVars, mintVars
<1>2. \A j \in Keys : age[j] = "expired" => age'[j] = "expired"
  BY DEF KeyAges, IInv, TypeOK
<1>. QED
  BY <1>1, <1>2 DEF IInv, KeysAccountedFor, TypeOK

----------------------------------------------------------------------------
(* One lemma for each part of the invariant.                               *)

(* Every step keeps the types, the count in flight among them              *)
(* (client.go:384).                                                        *)
LEMMA TypeOKKept ==
    ASSUME IInv, [Next]_vars PROVE TypeOK'
<1>. USE DEF clientVars, closeVars, regVars, endVars, keyVars, mintVars,
              sessionVars, callVars,
              IInv, TypeOK, Keys, Ages, None, CallsIn, MintsIn, EndsIn
<1>1. ASSUME NEW m \in Calls, CallRefused(m)
      PROVE  TypeOK'
  BY <1>1 DEF CallRefused
<1>2. ASSUME NEW m \in Calls, CallBegins(m)
      PROVE  TypeOK'
  BY <1>2 DEF CallBegins, CountIn
<1>3. ASSUME NEW m \in Calls, CallTimesOut(m)
      PROVE  TypeOK'
  BY <1>3 DEF CallTimesOut
<1>4. ASSUME NEW m \in Calls, CallTakesNoKey(m)
      PROVE  TypeOK'
  BY <1>4 DEF CallTakesNoKey, TakeDropped, Claim, DroppedKeys
<1>5. ASSUME NEW m \in Calls, CallLeases(m)
      PROVE  TypeOK'
  <2>1. /\ claimed' \subseteq live /\ dropped' = {}
        /\ ender' \in [Keys -> {"no", "claimed", "begun", "sent", "ended",
                                "failed", "refused"}]
        /\ UNCHANGED <<live, abandoned>>
    BY <1>5 DEF CallLeases, TakeDropped, Claim, DroppedKeys
  <2>2. /\ phase' \in [Calls -> {"idle", "begun", "waiting", "sent",
                                 "failing", "cutoff", "over"}]
        /\ carries' \in [Calls -> Keys \cup {None}]
        /\ mint' \in [Sessions -> {"no", "before", "ends", "begun", "sent",
                                   "inline", "landed", "out"}]
    <3>1. SessionOf[m] \in Sessions
      BY <1>5, ScopeAssumption DEF CallLeases
    <3>2. /\ phase' \in {[phase EXCEPT ![m] = "sent"],
                         [phase EXCEPT ![m] = "waiting"]}
          /\ carries' \in {carries,
                           [carries EXCEPT ![m] = current[SessionOf[m]]]}
          /\ mint' \in {mint, [mint EXCEPT ![SessionOf[m]] = "before"]}
      BY ONLY <1>5 DEF CallLeases
    <3>3. TypeOK
      BY DEF IInv
    <3>. QED
      BY ONLY <3>1, <3>2, <3>3, m \in Calls DEF TypeOK
  <2>3. UNCHANGED <<closed, inflight, drained, closer, stage, stopped, sweep,
                    warned, toEnd, minted, owner, age, retired, alive, ends,
                    waits, fresh, current, shut, gone>>
    BY <1>5 DEF CallLeases
  <2>4. TypeOK
    BY DEF IInv
  <2>. QED
    BY ONLY <2>1, <2>2, <2>3, <2>4 DEF TypeOK
<1>6. ASSUME NEW m \in Calls, CallSettles(m)
      PROVE  TypeOK'
  <2>1. inflight' \in Nat /\ drained' \in Nat
    BY <1>6, InFlight DEF CallSettles, CountOut
  <2>2. LastLease(m) \subseteq Keys
    BY DEF LastLease
  <2>. QED
    BY <1>6, <2>1, <2>2 DEF CallSettles, CountOut
<1>7. ASSUME NEW m \in Calls, CallFails(m)
      PROVE  TypeOK'
  BY <1>7, InFlight DEF CallFails, CountOut
<1>8. ASSUME NEW s \in Sessions, MintBefore(s)
      PROVE  TypeOK'
  BY <1>8 DEF MintBefore, Claim, DroppedKeys, Expired, OfUser
<1>9. ASSUME NEW s \in Sessions, MintBegins(s)
      PROVE  TypeOK'
  BY <1>9 DEF MintBegins, Ready, CountIn
<1>10. ASSUME NEW s \in Sessions, MintCutOff(s)
      PROVE  TypeOK'
  BY <1>10 DEF MintCutOff, Ready, MintOver, Waiters
<1>11. ASSUME NEW s \in Sessions, MintSends(s)
      PROVE  TypeOK'
  BY <1>11 DEF MintSends, TakeDropped, Claim, DroppedKeys
<1>12. ASSUME NEW s \in Sessions, MintFails(s)
      PROVE  TypeOK'
  BY <1>12, InFlight DEF MintFails, MintOver, Waiters, CountOut
<1>13. ASSUME NEW s \in Sessions, NEW k \in Keys, NEW a \in Ages,
             MintAnswered(s, k, a)
      PROVE  TypeOK'
  BY <1>13, AnswerTyped
<1>14. ASSUME NEW s \in Sessions, InlineEnds(s)
      PROVE  TypeOK'
  <2>1. fresh[s] \in Keys
    BY <1>14, FreshIsKey DEF InlineEnds, InlineOver
  <2>2. inflight' \in Nat /\ drained' \in Nat
    BY <1>14, InFlight DEF InlineEnds, InlineOver, CountOut
  <2>. QED
    BY <1>14, <2>1, <2>2 DEF InlineEnds, InlineOver, MintOver, CountOut
<1>15. ASSUME NEW s \in Sessions, InlineFails(s)
      PROVE  TypeOK'
  <2>1. fresh[s] \in Keys
    BY <1>15, FreshIsKey DEF InlineFails, InlineOver
  <2>2. inflight' \in Nat /\ drained' \in Nat
    BY <1>15, InFlight DEF InlineFails, InlineOver, CountOut
  <2>. QED
    BY <1>15, <2>1, <2>2 DEF InlineFails, InlineOver, MintOver, CountOut
<1>16. ASSUME NEW s \in Sessions, MintCountsOut(s)
      PROVE  TypeOK'
  BY <1>16, InFlight DEF MintCountsOut, CountOut
<1>17. ASSUME NEW s \in Sessions, MintLands(s)
      PROVE  TypeOK'
  BY <1>17 DEF MintLands, Waiters, Idle
<1>18. ASSUME NEW s \in Sessions, MintDiscarded(s)
      PROVE  TypeOK'
  <2>1. fresh[s] \in Keys
    BY <1>18, FreshIsKey DEF MintDiscarded
  <2>. QED
    BY <1>18, <2>1 DEF MintDiscarded, MintOver
<1>19. ASSUME NEW s \in Sessions, SessionCloses(s)
      PROVE  TypeOK'
  BY <1>19 DEF SessionCloses, Idle
<1>20. ASSUME NEW s \in Sessions, SessionLost(s)
      PROVE  TypeOK'
  BY <1>20 DEF SessionLost
<1>21. ASSUME NEW k \in Keys, EndClaims(k)
      PROVE  TypeOK'
  BY <1>21 DEF EndClaims, Claim, Claimable
<1>22. ASSUME NEW k \in Keys, EndBegins(k)
      PROVE  TypeOK'
  <2>1. CASE ~closed
    BY <1>22, <2>1, InFlight DEF EndBegins, CountIn
  <2>2. CASE closed
    BY <1>22, <2>2 DEF EndBegins
  <2>. QED
    BY <2>1, <2>2
<1>23. ASSUME NEW k \in Keys, EndSends(k)
      PROVE  TypeOK'
  BY <1>23 DEF EndSends, DroppedKeys
<1>24. ASSUME NEW k \in Keys, EndSucceeds(k)
      PROVE  TypeOK'
  BY <1>24 DEF EndSucceeds, Finish
<1>25. ASSUME NEW k \in Keys, EndCountsOut(k)
      PROVE  TypeOK'
  BY <1>25, InFlight DEF EndCountsOut, Ended, CountOut
<1>26. ASSUME NEW k \in Keys, EndFails(k)
      PROVE  TypeOK'
  BY <1>26, InFlight DEF EndFails, CountOut
<1>27. ASSUME NEW k \in Keys, Unclaimed(k)
      PROVE  TypeOK'
  BY <1>27 DEF Unclaimed, Ended, Finish
<1>28. ASSUME NEW k \in Keys, KeyAges(k)
      PROVE  TypeOK'
  BY <1>28 DEF KeyAges
<1>29. ASSUME NEW c \in Closers, CloseCalled(c)
      PROVE  TypeOK'
  BY <1>29 DEF CloseCalled
<1>30. ASSUME NEW c \in Closers, SweepBegins(c)
      PROVE  TypeOK'
  BY <1>30 DEF SweepBegins, Finish, Swept, Expired
<1>31. ASSUME NEW c \in Closers, CloseReturns(c)
      PROVE  TypeOK'
  BY <1>31 DEF CloseReturns
<1>32. CASE SweepEnds
  BY <1>32 DEF SweepEnds, Lowest
<1>33. CASE SweepFails
  BY <1>33 DEF SweepFails, Lowest
<1>34. CASE ConnCloses
  BY <1>34 DEF ConnCloses
<1>35. CASE UNCHANGED vars
  BY <1>35 DEF vars
<1>. QED
  BY <1>1, <1>2, <1>3, <1>4, <1>5, <1>6, <1>7, <1>8, <1>9, <1>10, <1>11,
     <1>12, <1>13, <1>14, <1>15, <1>16, <1>17, <1>18, <1>19, <1>20, <1>21,
     <1>22, <1>23, <1>24, <1>25, <1>26, <1>27, <1>28, <1>29, <1>30, <1>31,
     <1>32, <1>33, <1>34, <1>35
  DEF Next, CallStep, CallRuns, MintRuns, EndRuns

(* Nothing is known of a key before the service mints it (client.go:545).  *)
LEMMA NumberedKept ==
    ASSUME IInv, [Next]_vars PROVE Numbered'
<1>. USE DEF clientVars, closeVars, regVars, endVars, keyVars, mintVars,
              sessionVars, callVars,
              IInv, Numbered, TypeOK, Keys, None
<1>1. ASSUME NEW m \in Calls, CallTakesNoKey(m)
      PROVE  Numbered'
  BY <1>1 DEF CallTakesNoKey, TakeDropped, Claim, DroppedKeys
<1>2. ASSUME NEW m \in Calls, CallLeases(m)
      PROVE  Numbered'
  <2>1. /\ UNCHANGED <<live, retired, toEnd, minted, current, fresh>>
        /\ SessionOf[m] \in Sessions
    BY <1>2, ScopeAssumption DEF CallLeases, TakeDropped
  <2>2. \A k \in Keys : ender'[k] # "no" => ender[k] # "no" \/ k \in live
    BY <1>2 DEF CallLeases, TakeDropped, Claim, DroppedKeys
  <2>3. \A j \in Calls :
           carries'[j] \in {carries[j], current[SessionOf[m]]}
    BY <1>2 DEF CallLeases
  <2>. QED
    BY <2>1, <2>2, <2>3
<1>3. ASSUME NEW m \in Calls, CallSettles(m)
      PROVE  Numbered'
  BY <1>3 DEF CallSettles, CountOut, LastLease
<1>4. ASSUME NEW s \in Sessions, MintBefore(s)
      PROVE  Numbered'
  BY <1>4 DEF MintBefore, Claim, DroppedKeys, Expired, OfUser
<1>5. ASSUME NEW s \in Sessions, MintCutOff(s)
      PROVE  Numbered'
  BY <1>5 DEF MintCutOff, Ready, MintOver, Waiters
<1>6. ASSUME NEW s \in Sessions, MintSends(s)
      PROVE  Numbered'
  BY <1>6 DEF MintSends, TakeDropped, Claim, DroppedKeys
<1>7. ASSUME NEW s \in Sessions, MintFails(s)
      PROVE  Numbered'
  BY <1>7 DEF MintFails, MintOver, Waiters, CountOut
<1>8. ASSUME NEW s \in Sessions, NEW k \in Keys, NEW a \in Ages,
             MintAnswered(s, k, a)
      PROVE  Numbered'
  BY <1>8, AnswerNumbered
<1>9. ASSUME NEW s \in Sessions, InlineEnds(s)
      PROVE  Numbered'
  BY <1>9 DEF InlineEnds, InlineOver, MintOver, Waiters, CountOut
<1>10. ASSUME NEW s \in Sessions, InlineFails(s)
      PROVE  Numbered'
  BY <1>10 DEF InlineFails, InlineOver, MintOver, Waiters, CountOut
<1>11. ASSUME NEW s \in Sessions, MintLands(s)
      PROVE  Numbered'
  BY <1>11 DEF MintLands, Waiters, Idle
<1>12. ASSUME NEW s \in Sessions, MintDiscarded(s)
      PROVE  Numbered'
  BY <1>12 DEF MintDiscarded, MintOver, Waiters
<1>13. ASSUME NEW s \in Sessions, SessionCloses(s)
      PROVE  Numbered'
  BY <1>13 DEF SessionCloses, Idle
<1>14. ASSUME NEW k \in Keys, EndClaims(k)
      PROVE  Numbered'
  BY <1>14 DEF EndClaims, Claim, Claimable
<1>15. ASSUME NEW k \in Keys, EndBegins(k)
      PROVE  Numbered'
  BY <1>15 DEF EndBegins, CountIn
<1>16. ASSUME NEW k \in Keys, EndSends(k)
      PROVE  Numbered'
  BY <1>16 DEF EndSends, DroppedKeys
<1>17. ASSUME NEW k \in Keys, EndSucceeds(k)
      PROVE  Numbered'
  BY <1>17 DEF EndSucceeds, Finish
<1>18. ASSUME NEW k \in Keys, EndCountsOut(k)
      PROVE  Numbered'
  BY <1>18 DEF EndCountsOut, Ended, CountOut
<1>19. ASSUME NEW k \in Keys, EndFails(k)
      PROVE  Numbered'
  BY <1>19 DEF EndFails, CountOut
<1>20. ASSUME NEW k \in Keys, Unclaimed(k)
      PROVE  Numbered'
  BY <1>20 DEF Unclaimed, Ended, Finish
<1>21. ASSUME NEW c \in Closers, SweepBegins(c)
      PROVE  Numbered'
  BY <1>21 DEF SweepBegins, Finish, Swept, Expired
<1>22. ASSUME NEW m \in Calls,
             \/ CallRefused(m) \/ CallBegins(m) \/ CallTimesOut(m)
             \/ CallFails(m)
      PROVE  Numbered'
  <2>1. UNCHANGED <<live, retired, toEnd, minted, ender, current, fresh,
                    carries>>
    BY <1>22
    DEF CallRefused, CallBegins, CountIn, CallTimesOut, CallFails, CountOut
  <2>. QED
    BY <2>1 DEF Numbered
<1>23. ASSUME NEW s \in Sessions,
             MintBegins(s) \/ MintCountsOut(s) \/ SessionLost(s)
      PROVE  Numbered'
  <2>1. UNCHANGED <<live, retired, toEnd, minted, ender, current, fresh,
                    carries>>
    BY <1>23 DEF MintBegins, CountIn, MintCountsOut, CountOut, SessionLost
  <2>. QED
    BY <2>1 DEF Numbered
<1>24. ASSUME NEW k \in Keys,
             KeyAges(k)
      PROVE  Numbered'
  <2>1. UNCHANGED <<live, retired, toEnd, minted, ender, current, fresh,
                    carries>>
    BY <1>24 DEF KeyAges
  <2>. QED
    BY <2>1 DEF Numbered
<1>25. ASSUME NEW c \in Closers,
             CloseCalled(c) \/ CloseReturns(c)
      PROVE  Numbered'
  <2>1. UNCHANGED <<live, retired, toEnd, minted, ender, current, fresh,
                    carries>>
    BY <1>25 DEF CloseCalled, CloseReturns
  <2>. QED
    BY <2>1 DEF Numbered
<1>26. CASE SweepEnds \/ SweepFails \/ ConnCloses
  <2>1. UNCHANGED <<live, retired, toEnd, minted, ender, current, fresh,
                    carries>>
    BY <1>26 DEF SweepEnds, SweepFails, ConnCloses
  <2>. QED
    BY <2>1 DEF Numbered
<1>27. CASE UNCHANGED vars
  BY <1>27 DEF vars, Numbered
<1>. QED
  BY <1>1, <1>2, <1>3, <1>4, <1>5, <1>6, <1>7, <1>8, <1>9, <1>10, <1>11,
     <1>12, <1>13, <1>14, <1>15, <1>16, <1>17, <1>18, <1>19, <1>20, <1>21,
     <1>22, <1>23, <1>24, <1>25, <1>26, <1>27
  DEF Next, CallStep, CallRuns, MintRuns, EndRuns

(* A session lends the key it holds, and only that one; the key a mint     *)
(* brought is lent by nobody until it is held (memcoai.go and              *)
(* renewing.go's renew()).                                                 *)
LEMMA OwnedKept ==
    ASSUME IInv, [Next]_vars PROVE Owned'
<1>. USE DEF clientVars, closeVars, regVars, endVars, keyVars, mintVars,
              sessionVars, callVars,
              IInv, Owned, TypeOK, Keys, None, Numbered, Carriers
<1>1. ASSUME NEW m \in Calls, CallRefused(m)
      PROVE  Owned'
  BY <1>1 DEF CallRefused
<1>2. ASSUME NEW m \in Calls, CallBegins(m)
      PROVE  Owned'
  BY <1>2 DEF CallBegins, CountIn
<1>3. ASSUME NEW m \in Calls, CallTimesOut(m)
      PROVE  Owned'
  BY <1>3 DEF CallTimesOut
<1>4. ASSUME NEW m \in Calls, CallTakesNoKey(m)
      PROVE  Owned'
  BY <1>4 DEF CallTakesNoKey, TakeDropped, Claim, DroppedKeys
<1>5. ASSUME NEW m \in Calls, CallLeases(m)
      PROVE  Owned'
  <2>. DEFINE s == SessionOf[m]
  <2>1. UNCHANGED <<owner, fresh, current, retired>> /\ s \in Sessions
    BY <1>5, ScopeAssumption DEF CallLeases
  <2>2. \A t \in Sessions : mint'[t] \in {"inline", "landed", "out"} <=>
                                mint[t] \in {"inline", "landed", "out"}
    BY <1>5 DEF CallLeases
  <2>3. \A j \in Calls : carries'[j] # None =>
           \/ phase'[j] = "sent" /\ phase[j] = "sent"
              /\ carries'[j] = carries[j]
           \/ phase'[j] = "sent" /\ j = m /\ carries'[j] = current[s]
    BY <1>5 DEF CallLeases
  <2>4. \A t \in Sessions : fresh[t] # None => fresh[t] # current[s]
    BY <2>1
  <2>5. \A t \in Sessions : fresh[t] # None => Carriers(fresh[t])' = {}
    BY <2>1, <2>3, <2>4
  <2>6. \A j \in Calls : carries'[j] # None =>
           phase'[j] = "sent" /\ owner[carries'[j]] = SessionOf[j]
    BY <2>1, <2>3
  <2>. QED
    BY <2>1, <2>2, <2>5, <2>6
<1>6. ASSUME NEW m \in Calls, CallSettles(m)
      PROVE  Owned'
  BY <1>6 DEF CallSettles, CountOut, LastLease
<1>7. ASSUME NEW m \in Calls, CallFails(m)
      PROVE  Owned'
  BY <1>7 DEF CallFails, CountOut
<1>8. ASSUME NEW s \in Sessions, MintBefore(s)
      PROVE  Owned'
  BY <1>8 DEF MintBefore, Claim, DroppedKeys, Expired, OfUser
<1>9. ASSUME NEW s \in Sessions, MintBegins(s)
      PROVE  Owned'
  BY <1>9 DEF MintBegins, Ready, CountIn
<1>10. ASSUME NEW s \in Sessions, MintCutOff(s)
      PROVE  Owned'
  BY <1>10 DEF MintCutOff, Ready, MintOver, Waiters
<1>11. ASSUME NEW s \in Sessions, MintSends(s)
      PROVE  Owned'
  BY <1>11 DEF MintSends, TakeDropped, Claim, DroppedKeys
<1>12. ASSUME NEW s \in Sessions, MintFails(s)
      PROVE  Owned'
  BY <1>12 DEF MintFails, MintOver, Waiters, CountOut
<1>13. ASSUME NEW s \in Sessions, NEW k \in Keys, NEW a \in Ages,
             MintAnswered(s, k, a)
      PROVE  Owned'
  BY <1>13 DEF MintAnswered, Answered, Registers
<1>14. ASSUME NEW s \in Sessions, InlineEnds(s)
      PROVE  Owned'
  BY <1>14 DEF InlineEnds, InlineOver, MintOver, Waiters, CountOut
<1>15. ASSUME NEW s \in Sessions, InlineFails(s)
      PROVE  Owned'
  BY <1>15 DEF InlineFails, InlineOver, MintOver, Waiters, CountOut
<1>16. ASSUME NEW s \in Sessions, MintCountsOut(s)
      PROVE  Owned'
  BY <1>16 DEF MintCountsOut, CountOut
<1>17. ASSUME NEW s \in Sessions, MintLands(s)
      PROVE  Owned'
  BY <1>17 DEF MintLands, Waiters, Idle
<1>18. ASSUME NEW s \in Sessions, MintDiscarded(s)
      PROVE  Owned'
  BY <1>18 DEF MintDiscarded, MintOver, Waiters
<1>19. ASSUME NEW s \in Sessions, SessionCloses(s)
      PROVE  Owned'
  BY <1>19 DEF SessionCloses, Idle
<1>20. ASSUME NEW s \in Sessions,
             SessionLost(s)
      PROVE  Owned'
  <2>1. UNCHANGED <<current, owner, retired, fresh, mint, phase, carries>>
    BY <1>20 DEF SessionLost
  <2>. QED
    BY <2>1 DEF Owned, Carriers
<1>21. ASSUME NEW k \in Keys,
             \/ EndClaims(k) \/ EndBegins(k) \/ EndSends(k) \/ EndSucceeds(k)
             \/ EndCountsOut(k) \/ EndFails(k) \/ Unclaimed(k) \/ KeyAges(k)
      PROVE  Owned'
  <2>1. UNCHANGED <<current, owner, retired, fresh, mint, phase, carries>>
    BY <1>21
    DEF EndClaims, Claim, EndBegins, CountIn, EndSends, EndSucceeds, Finish,
        EndCountsOut, Ended, CountOut, EndFails, Unclaimed, KeyAges
  <2>. QED
    BY <2>1 DEF Owned, Carriers
<1>22. ASSUME NEW c \in Closers,
             CloseCalled(c) \/ SweepBegins(c) \/ CloseReturns(c)
      PROVE  Owned'
  <2>1. UNCHANGED <<current, owner, retired, fresh, mint, phase, carries>>
    BY <1>22 DEF CloseCalled, SweepBegins, Finish, CloseReturns
  <2>. QED
    BY <2>1 DEF Owned, Carriers
<1>23. CASE SweepEnds \/ SweepFails \/ ConnCloses
  <2>1. UNCHANGED <<current, owner, retired, fresh, mint, phase, carries>>
    BY <1>23 DEF SweepEnds, SweepFails, ConnCloses
  <2>. QED
    BY <2>1 DEF Owned, Carriers
<1>24. CASE UNCHANGED vars
  BY <1>24 DEF vars, Owned, Carriers
<1>. QED
  BY <1>1, <1>2, <1>3, <1>4, <1>5, <1>6, <1>7, <1>8, <1>9, <1>10, <1>11,
     <1>12, <1>13, <1>14, <1>15, <1>16, <1>17, <1>18, <1>19, <1>20, <1>21,
     <1>22, <1>23, <1>24
  DEF Next, CallStep, CallRuns, MintRuns, EndRuns

(* A collected session has no call and no mint, and begins none: its       *)
(* client cannot be reached any more (keys.go:100).                        *)
LEMMA LostKept ==
    ASSUME IInv, [Next]_vars PROVE Lost'
<1>. USE DEF clientVars, closeVars, regVars, endVars, keyVars, mintVars,
              sessionVars, callVars,
              IInv, Lost, TypeOK
<1>1. ASSUME NEW m \in Calls, CallRefused(m)
      PROVE  Lost'
  BY <1>1 DEF CallRefused
<1>2. ASSUME NEW m \in Calls, CallBegins(m)
      PROVE  Lost'
  BY <1>2 DEF CallBegins, CountIn
<1>3. ASSUME NEW m \in Calls, CallTimesOut(m)
      PROVE  Lost'
  BY <1>3 DEF CallTimesOut
<1>4. ASSUME NEW m \in Calls, CallTakesNoKey(m)
      PROVE  Lost'
  BY <1>4 DEF CallTakesNoKey, TakeDropped, Claim, DroppedKeys
<1>5. ASSUME NEW m \in Calls, CallLeases(m)
      PROVE  Lost'
  BY <1>5 DEF CallLeases, HasKey, TakeDropped, Claim, DroppedKeys
<1>6. ASSUME NEW m \in Calls, CallSettles(m)
      PROVE  Lost'
  BY <1>6 DEF CallSettles, CountOut, LastLease
<1>7. ASSUME NEW m \in Calls, CallFails(m)
      PROVE  Lost'
  BY <1>7 DEF CallFails, CountOut
<1>8. ASSUME NEW s \in Sessions, MintBefore(s)
      PROVE  Lost'
  BY <1>8 DEF MintBefore, Claim, DroppedKeys, Expired, OfUser
<1>9. ASSUME NEW s \in Sessions, MintBegins(s)
      PROVE  Lost'
  BY <1>9 DEF MintBegins, Ready, CountIn
<1>10. ASSUME NEW s \in Sessions, MintCutOff(s)
      PROVE  Lost'
  BY <1>10 DEF MintCutOff, Ready, MintOver, Waiters
<1>11. ASSUME NEW s \in Sessions, MintSends(s)
      PROVE  Lost'
  BY <1>11 DEF MintSends, TakeDropped, Claim, DroppedKeys
<1>12. ASSUME NEW s \in Sessions, MintFails(s)
      PROVE  Lost'
  BY <1>12 DEF MintFails, MintOver, Waiters, CountOut
<1>13. ASSUME NEW s \in Sessions, NEW k \in Keys, NEW a \in Ages,
             MintAnswered(s, k, a)
      PROVE  Lost'
  BY <1>13 DEF MintAnswered, Answered, Registers
<1>14. ASSUME NEW s \in Sessions, InlineEnds(s)
      PROVE  Lost'
  BY <1>14 DEF InlineEnds, InlineOver, MintOver, Waiters, CountOut
<1>15. ASSUME NEW s \in Sessions, InlineFails(s)
      PROVE  Lost'
  BY <1>15 DEF InlineFails, InlineOver, MintOver, Waiters, CountOut
<1>16. ASSUME NEW s \in Sessions, MintCountsOut(s)
      PROVE  Lost'
  BY <1>16 DEF MintCountsOut, CountOut
<1>17. ASSUME NEW s \in Sessions, MintLands(s)
      PROVE  Lost'
  BY <1>17 DEF MintLands, Waiters, Idle
<1>18. ASSUME NEW s \in Sessions, MintDiscarded(s)
      PROVE  Lost'
  BY <1>18 DEF MintDiscarded, MintOver, Waiters
<1>19. ASSUME NEW s \in Sessions, SessionLost(s)
      PROVE  Lost'
  BY <1>19 DEF SessionLost
<1>20. ASSUME NEW k \in Keys, EndSends(k)
      PROVE  Lost'
  BY <1>20 DEF EndSends, DroppedKeys
<1>21. ASSUME NEW c \in Closers, SweepBegins(c)
      PROVE  Lost'
  BY <1>21 DEF SweepBegins, Finish, Swept, Expired
<1>22. ASSUME NEW s \in Sessions,
             SessionCloses(s)
      PROVE  Lost'
  <2>1. UNCHANGED <<dropped, gone, mint, phase>>
    BY <1>22 DEF SessionCloses
  <2>. QED
    BY <2>1 DEF Lost
<1>23. ASSUME NEW k \in Keys,
             \/ EndClaims(k) \/ EndBegins(k) \/ EndSucceeds(k)
             \/ EndCountsOut(k) \/ EndFails(k) \/ Unclaimed(k) \/ KeyAges(k)
      PROVE  Lost'
  <2>1. UNCHANGED <<dropped, gone, mint, phase>>
    BY <1>23
    DEF EndClaims, Claim, EndBegins, CountIn, EndSucceeds, Finish,
        EndCountsOut, Ended, CountOut, EndFails, Unclaimed, KeyAges
  <2>. QED
    BY <2>1 DEF Lost
<1>24. ASSUME NEW c \in Closers,
             CloseCalled(c) \/ CloseReturns(c)
      PROVE  Lost'
  <2>1. UNCHANGED <<dropped, gone, mint, phase>>
    BY <1>24 DEF CloseCalled, CloseReturns
  <2>. QED
    BY <2>1 DEF Lost
<1>25. CASE SweepEnds \/ SweepFails \/ ConnCloses
  <2>1. UNCHANGED <<dropped, gone, mint, phase>>
    BY <1>25 DEF SweepEnds, SweepFails, ConnCloses
  <2>. QED
    BY <2>1 DEF Lost
<1>26. CASE UNCHANGED vars
  BY <1>26 DEF vars, Lost
<1>. QED
  BY <1>1, <1>2, <1>3, <1>4, <1>5, <1>6, <1>7, <1>8, <1>9, <1>10, <1>11,
     <1>12, <1>13, <1>14, <1>15, <1>16, <1>17, <1>18, <1>19, <1>20, <1>21,
     <1>22, <1>23, <1>24, <1>25, <1>26
  DEF Next, CallStep, CallRuns, MintRuns, EndRuns

(* No step condemns a key that a call carries, or may yet carry: retire(), *)
(* Release(), Drop() and a failed end each find it unused.                 *)
LEMMA OnlySpentEndKept ==
    ASSUME IInv, [Next]_vars PROVE OnlySpentEnd'
<1>. USE DEF clientVars, closeVars, regVars, endVars, keyVars, mintVars,
              sessionVars, callVars,
              IInv, OnlySpentEnd, TypeOK, Keys, None, Numbered, Owned, Lost,
              ClaimsAreHeld, Condemned, Spent, Carriers
<1>1. ASSUME NEW m \in Calls, CallRefused(m)
      PROVE  OnlySpentEnd'
  BY <1>1 DEF CallRefused
<1>2. ASSUME NEW m \in Calls, CallBegins(m)
      PROVE  OnlySpentEnd'
  BY <1>2 DEF CallBegins, CountIn
<1>3. ASSUME NEW m \in Calls, CallTimesOut(m)
      PROVE  OnlySpentEnd'
  BY <1>3 DEF CallTimesOut
<1>4. ASSUME NEW m \in Calls, CallTakesNoKey(m)
      PROVE  OnlySpentEnd'
  BY <1>4 DEF CallTakesNoKey, TakeDropped, Claim, DroppedKeys
<1>5. ASSUME NEW m \in Calls, CallLeases(m)
      PROVE  OnlySpentEnd'
  <2>1. /\ UNCHANGED <<toEnd, abandoned, owner, fresh, current, gone>>
        /\ dropped' = {}
        /\ SessionOf[m] \in Sessions \ gone
    BY <1>5, ScopeAssumption DEF CallLeases, TakeDropped
  <2>2. \A k \in Keys : ender'[k] # "no" =>
                            ender[k] # "no" \/ owner[k] \in dropped
    BY <1>5 DEF CallLeases, TakeDropped, Claim, DroppedKeys
  <2>3. Condemned' \subseteq Condemned /\ Condemned' \subseteq Keys
    BY <2>1, <2>2
  <2>4. \A k \in Keys : Carriers(k)' # Carriers(k) =>
                            k = current[SessionOf[m]]
    BY <1>5 DEF CallLeases
  <2>. QED
    BY <2>1, <2>3, <2>4
<1>6. ASSUME NEW m \in Calls, CallSettles(m)
      PROVE  OnlySpentEnd'
  BY <1>6 DEF CallSettles, CountOut, LastLease
<1>7. ASSUME NEW m \in Calls, CallFails(m)
      PROVE  OnlySpentEnd'
  BY <1>7 DEF CallFails, CountOut
<1>8. ASSUME NEW s \in Sessions, MintBefore(s)
      PROVE  OnlySpentEnd'
  BY <1>8 DEF MintBefore, Claim, DroppedKeys, Expired, OfUser
<1>9. ASSUME NEW s \in Sessions, MintCutOff(s)
      PROVE  OnlySpentEnd'
  BY <1>9 DEF MintCutOff, Ready, MintOver, Waiters
<1>10. ASSUME NEW s \in Sessions, MintSends(s)
      PROVE  OnlySpentEnd'
  BY <1>10 DEF MintSends, TakeDropped, Claim, DroppedKeys
<1>11. ASSUME NEW s \in Sessions, MintFails(s)
      PROVE  OnlySpentEnd'
  BY <1>11 DEF MintFails, MintOver, Waiters, CountOut
<1>12. ASSUME NEW s \in Sessions, NEW k \in Keys, NEW a \in Ages,
             MintAnswered(s, k, a)
      PROVE  OnlySpentEnd'
  BY <1>12 DEF MintAnswered, Answered, Registers
<1>13. ASSUME NEW s \in Sessions, InlineEnds(s)
      PROVE  OnlySpentEnd'
  BY <1>13 DEF InlineEnds, InlineOver, MintOver, Waiters, CountOut
<1>14. ASSUME NEW s \in Sessions, InlineFails(s)
      PROVE  OnlySpentEnd'
  BY <1>14 DEF InlineFails, InlineOver, MintOver, Waiters, CountOut
<1>15. ASSUME NEW s \in Sessions, MintLands(s)
      PROVE  OnlySpentEnd'
  BY <1>15 DEF MintLands, Waiters, Idle
<1>16. ASSUME NEW s \in Sessions, MintDiscarded(s)
      PROVE  OnlySpentEnd'
  BY <1>16 DEF MintDiscarded, MintOver, Waiters
<1>17. ASSUME NEW s \in Sessions, SessionCloses(s)
      PROVE  OnlySpentEnd'
  BY <1>17 DEF SessionCloses, Idle
<1>18. ASSUME NEW s \in Sessions, SessionLost(s)
      PROVE  OnlySpentEnd'
  <2>1. /\ gone' = gone \cup {s} /\ dropped' = dropped \cup {s}
        /\ UNCHANGED <<toEnd, abandoned, owner, ender, phase, carries>>
        /\ UNCHANGED <<fresh, current>>
        /\ mint[s] = "no"
        /\ \A m \in Calls : SessionOf[m] = s => phase[m] \in {"idle", "over"}
    BY <1>18 DEF SessionLost
  <2>2. Condemned' = Condemned \cup {k \in Keys : owner[k] = s}
    BY <2>1
  <2>3. ASSUME NEW k \in Keys, owner[k] = s
        PROVE  Spent(k)'
    <3>1. Carriers(k)' = {}
      BY <2>1, <2>3
    <3>2. \A t \in Sessions : fresh[t] # k /\ (current[t] = k => t \in gone')
      BY <2>1, <2>3
    <3>. QED
      BY <2>1, <3>1, <3>2
  <2>. QED
    BY <2>1, <2>2, <2>3
<1>19. ASSUME NEW k \in Keys, EndClaims(k)
      PROVE  OnlySpentEnd'
  BY <1>19 DEF EndClaims, Claim, Claimable
<1>20. ASSUME NEW k \in Keys, EndBegins(k)
      PROVE  OnlySpentEnd'
  BY <1>20, BegunIsSpent
<1>21. ASSUME NEW k \in Keys, EndSends(k)
      PROVE  OnlySpentEnd'
  BY <1>21 DEF EndSends, DroppedKeys
<1>22. ASSUME NEW k \in Keys, EndSucceeds(k)
      PROVE  OnlySpentEnd'
  BY <1>22 DEF EndSucceeds, Finish
<1>23. ASSUME NEW k \in Keys, EndCountsOut(k)
      PROVE  OnlySpentEnd'
  BY <1>23 DEF EndCountsOut, Ended, CountOut
<1>24. ASSUME NEW k \in Keys, EndFails(k)
      PROVE  OnlySpentEnd'
  BY <1>24 DEF EndFails, CountOut
<1>25. ASSUME NEW k \in Keys, Unclaimed(k)
      PROVE  OnlySpentEnd'
  BY <1>25 DEF Unclaimed, Ended, Finish
<1>26. ASSUME NEW c \in Closers, SweepBegins(c)
      PROVE  OnlySpentEnd'
  BY <1>26 DEF SweepBegins, Finish, Swept, Expired
<1>27. ASSUME NEW s \in Sessions,
             MintBegins(s) \/ MintCountsOut(s)
      PROVE  OnlySpentEnd'
  <2>1. UNCHANGED <<toEnd, abandoned, ender, owner, dropped, phase, carries,
                    fresh, current, gone>>
    BY <1>27 DEF MintBegins, CountIn, MintCountsOut, CountOut
  <2>. QED
    BY <2>1 DEF OnlySpentEnd, Condemned, Spent, Carriers
<1>28. ASSUME NEW k \in Keys,
             KeyAges(k)
      PROVE  OnlySpentEnd'
  <2>1. UNCHANGED <<toEnd, abandoned, ender, owner, dropped, phase, carries,
                    fresh, current, gone>>
    BY <1>28 DEF KeyAges
  <2>. QED
    BY <2>1 DEF OnlySpentEnd, Condemned, Spent, Carriers
<1>29. ASSUME NEW c \in Closers,
             CloseCalled(c) \/ CloseReturns(c)
      PROVE  OnlySpentEnd'
  <2>1. UNCHANGED <<toEnd, abandoned, ender, owner, dropped, phase, carries,
                    fresh, current, gone>>
    BY <1>29 DEF CloseCalled, CloseReturns
  <2>. QED
    BY <2>1 DEF OnlySpentEnd, Condemned, Spent, Carriers
<1>30. CASE SweepEnds \/ SweepFails \/ ConnCloses
  <2>1. UNCHANGED <<toEnd, abandoned, ender, owner, dropped, phase, carries,
                    fresh, current, gone>>
    BY <1>30 DEF SweepEnds, SweepFails, ConnCloses
  <2>. QED
    BY <2>1 DEF OnlySpentEnd, Condemned, Spent, Carriers
<1>31. CASE UNCHANGED vars
  BY <1>31 DEF vars, OnlySpentEnd, Condemned, Spent, Carriers
<1>. QED
  BY <1>1, <1>2, <1>3, <1>4, <1>5, <1>6, <1>7, <1>8, <1>9, <1>10, <1>11,
     <1>12, <1>13, <1>14, <1>15, <1>16, <1>17, <1>18, <1>19, <1>20, <1>21,
     <1>22, <1>23, <1>24, <1>25, <1>26, <1>27, <1>28, <1>29, <1>30, <1>31
  DEF Next, CallStep, CallRuns, MintRuns, EndRuns

(* A key is forgotten as its end is answered (client.go:615), and no other *)
(* key takes its number.                                                   *)
LEMMA EndedForgottenKept ==
    ASSUME IInv, [Next]_vars PROVE EndedForgotten'
<1>. USE DEF clientVars, closeVars, regVars, endVars, keyVars, mintVars,
              sessionVars, callVars,
              IInv, EndedForgotten, TypeOK, ClaimsAreHeld, Numbered, Keys
<1>1. ASSUME NEW m \in Calls, CallTakesNoKey(m)
      PROVE  EndedForgotten'
  BY <1>1 DEF CallTakesNoKey, TakeDropped, Claim, DroppedKeys
<1>2. ASSUME NEW m \in Calls, CallLeases(m)
      PROVE  EndedForgotten'
  BY <1>2 DEF CallLeases, HasKey, TakeDropped, Claim, DroppedKeys
<1>3. ASSUME NEW s \in Sessions, MintBefore(s)
      PROVE  EndedForgotten'
  BY <1>3 DEF MintBefore, Claim, DroppedKeys, Expired, OfUser
<1>4. ASSUME NEW s \in Sessions, MintSends(s)
      PROVE  EndedForgotten'
  BY <1>4 DEF MintSends, TakeDropped, Claim, DroppedKeys
<1>5. ASSUME NEW s \in Sessions, NEW k \in Keys, NEW a \in Ages,
             MintAnswered(s, k, a)
      PROVE  EndedForgotten'
  BY <1>5 DEF MintAnswered, Answered, Registers
<1>6. ASSUME NEW k \in Keys, EndClaims(k)
      PROVE  EndedForgotten'
  BY <1>6 DEF EndClaims, Claim, Claimable
<1>7. ASSUME NEW k \in Keys, EndBegins(k)
      PROVE  EndedForgotten'
  BY <1>7 DEF EndBegins, CountIn
<1>8. ASSUME NEW k \in Keys, EndSends(k)
      PROVE  EndedForgotten'
  BY <1>8 DEF EndSends, DroppedKeys
<1>9. ASSUME NEW k \in Keys, EndSucceeds(k)
      PROVE  EndedForgotten'
  BY <1>9 DEF EndSucceeds, Finish
<1>10. ASSUME NEW k \in Keys, EndCountsOut(k)
      PROVE  EndedForgotten'
  BY <1>10 DEF EndCountsOut, Ended, CountOut
<1>11. ASSUME NEW k \in Keys, EndFails(k)
      PROVE  EndedForgotten'
  BY <1>11 DEF EndFails, CountOut
<1>12. ASSUME NEW k \in Keys, Unclaimed(k)
      PROVE  EndedForgotten'
  BY <1>12 DEF Unclaimed, Ended, Finish
<1>13. ASSUME NEW c \in Closers, SweepBegins(c)
      PROVE  EndedForgotten'
  BY <1>13 DEF SweepBegins, Finish, Swept, Expired
<1>14. ASSUME NEW m \in Calls,
             \/ CallRefused(m) \/ CallBegins(m) \/ CallTimesOut(m)
             \/ CallSettles(m) \/ CallFails(m)
      PROVE  EndedForgotten'
  <2>1. UNCHANGED <<ender, live>>
    BY <1>14
    DEF CallRefused, CallBegins, CountIn, CallTimesOut, CallSettles,
        CountOut, CallFails
  <2>. QED
    BY <2>1 DEF EndedForgotten
<1>15. ASSUME NEW s \in Sessions,
             \/ MintBegins(s) \/ MintCutOff(s) \/ MintFails(s)
             \/ InlineEnds(s) \/ InlineFails(s) \/ MintCountsOut(s)
             \/ MintLands(s) \/ MintDiscarded(s) \/ SessionCloses(s)
             \/ SessionLost(s)
      PROVE  EndedForgotten'
  <2>1. UNCHANGED <<ender, live>>
    BY <1>15
    DEF MintBegins, CountIn, MintCutOff, MintOver, MintFails, CountOut,
        InlineEnds, InlineOver, InlineFails, MintCountsOut, MintLands,
        MintDiscarded, SessionCloses, SessionLost
  <2>. QED
    BY <2>1 DEF EndedForgotten
<1>16. ASSUME NEW k \in Keys,
             KeyAges(k)
      PROVE  EndedForgotten'
  <2>1. UNCHANGED <<ender, live>>
    BY <1>16 DEF KeyAges
  <2>. QED
    BY <2>1 DEF EndedForgotten
<1>17. ASSUME NEW c \in Closers,
             CloseCalled(c) \/ CloseReturns(c)
      PROVE  EndedForgotten'
  <2>1. UNCHANGED <<ender, live>>
    BY <1>17 DEF CloseCalled, CloseReturns
  <2>. QED
    BY <2>1 DEF EndedForgotten
<1>18. CASE SweepEnds \/ SweepFails \/ ConnCloses
  <2>1. UNCHANGED <<ender, live>>
    BY <1>18 DEF SweepEnds, SweepFails, ConnCloses
  <2>. QED
    BY <2>1 DEF EndedForgotten
<1>19. CASE UNCHANGED vars
  BY <1>19 DEF vars, EndedForgotten
<1>. QED
  BY <1>1, <1>2, <1>3, <1>4, <1>5, <1>6, <1>7, <1>8, <1>9, <1>10, <1>11,
     <1>12, <1>13, <1>14, <1>15, <1>16, <1>17, <1>18, <1>19
  DEF Next, CallStep, CallRuns, MintRuns, EndRuns

(* Whoever claims a key ends it or gives it back (keys.go:66, :77, :86).   *)
LEMMA ClaimsAreHeldKept ==
    ASSUME IInv, [Next]_vars PROVE ClaimsAreHeld'
<1>. USE DEF clientVars, closeVars, regVars, endVars, keyVars, mintVars,
              sessionVars, callVars,
              IInv, ClaimsAreHeld, TypeOK, EndedForgotten, Numbered, Keys
<1>1. ASSUME NEW m \in Calls, CallTakesNoKey(m)
      PROVE  ClaimsAreHeld'
  BY <1>1 DEF CallTakesNoKey, TakeDropped, Claim, DroppedKeys
<1>2. ASSUME NEW m \in Calls, CallLeases(m)
      PROVE  ClaimsAreHeld'
  BY <1>2 DEF CallLeases, HasKey, TakeDropped, Claim, DroppedKeys
<1>3. ASSUME NEW s \in Sessions, MintBefore(s)
      PROVE  ClaimsAreHeld'
  BY <1>3 DEF MintBefore, Claim, DroppedKeys, Expired, OfUser
<1>4. ASSUME NEW s \in Sessions, MintSends(s)
      PROVE  ClaimsAreHeld'
  BY <1>4 DEF MintSends, TakeDropped, Claim, DroppedKeys
<1>5. ASSUME NEW s \in Sessions, NEW k \in Keys, NEW a \in Ages,
             MintAnswered(s, k, a)
      PROVE  ClaimsAreHeld'
  <2>1. k \notin live /\ ender[k] = "no"
    BY <1>5, NextKey DEF MintAnswered
  <2>2. /\ live' \in {live, live \cup {k}}
        /\ UNCHANGED <<ender, ends, waits, claimed>>
    BY <1>5 DEF MintAnswered, Answered
  <2>. QED
    BY <2>1, <2>2
<1>6. ASSUME NEW k \in Keys, EndClaims(k)
      PROVE  ClaimsAreHeld'
  BY <1>6 DEF EndClaims, Claim, Claimable
<1>7. ASSUME NEW k \in Keys, EndBegins(k)
      PROVE  ClaimsAreHeld'
  <2>1. /\ UNCHANGED <<live, claimed, ends, waits>>
        /\ \A j \in Keys :
              /\ ender'[j] = "no" <=> ender[j] = "no"
              /\ ender'[j] \in {"no", "ended"} <=>
                    ender[j] \in {"no", "ended"}
    BY <1>7, EndBeginsAlone
  <2>. QED
    BY <2>1
<1>8. ASSUME NEW k \in Keys, EndSends(k)
      PROVE  ClaimsAreHeld'
  BY <1>8 DEF EndSends, DroppedKeys
<1>9. ASSUME NEW k \in Keys, EndSucceeds(k)
      PROVE  ClaimsAreHeld'
  BY <1>9 DEF EndSucceeds, Finish
<1>10. ASSUME NEW k \in Keys, EndCountsOut(k)
      PROVE  ClaimsAreHeld'
  BY <1>10 DEF EndCountsOut, Ended, CountOut
<1>11. ASSUME NEW k \in Keys, EndFails(k)
      PROVE  ClaimsAreHeld'
  BY <1>11 DEF EndFails, CountOut
<1>12. ASSUME NEW k \in Keys, Unclaimed(k)
      PROVE  ClaimsAreHeld'
  BY <1>12 DEF Unclaimed, Ended, Finish
<1>13. ASSUME NEW c \in Closers, SweepBegins(c)
      PROVE  ClaimsAreHeld'
  BY <1>13 DEF SweepBegins, Finish, Swept, Expired
<1>14. ASSUME NEW m \in Calls,
             \/ CallRefused(m) \/ CallBegins(m) \/ CallTimesOut(m)
             \/ CallSettles(m) \/ CallFails(m)
      PROVE  ClaimsAreHeld'
  <2>1. UNCHANGED <<live, claimed, ender, ends, waits>>
    BY <1>14
    DEF CallRefused, CallBegins, CountIn, CallTimesOut, CallSettles,
        CountOut, CallFails
  <2>. QED
    BY <2>1 DEF ClaimsAreHeld
<1>15. ASSUME NEW s \in Sessions,
             \/ MintBegins(s) \/ MintCutOff(s) \/ MintFails(s)
             \/ InlineEnds(s) \/ InlineFails(s) \/ MintCountsOut(s)
             \/ MintLands(s) \/ MintDiscarded(s) \/ SessionCloses(s)
             \/ SessionLost(s)
      PROVE  ClaimsAreHeld'
  <2>1. UNCHANGED <<live, claimed, ender, ends, waits>>
    BY <1>15
    DEF MintBegins, CountIn, MintCutOff, MintOver, MintFails, CountOut,
        InlineEnds, InlineOver, InlineFails, MintCountsOut, MintLands,
        MintDiscarded, SessionCloses, SessionLost
  <2>. QED
    BY <2>1 DEF ClaimsAreHeld
<1>16. ASSUME NEW k \in Keys,
             KeyAges(k)
      PROVE  ClaimsAreHeld'
  <2>1. UNCHANGED <<live, claimed, ender, ends, waits>>
    BY <1>16 DEF KeyAges
  <2>. QED
    BY <2>1 DEF ClaimsAreHeld
<1>17. ASSUME NEW c \in Closers,
             CloseCalled(c) \/ CloseReturns(c)
      PROVE  ClaimsAreHeld'
  <2>1. UNCHANGED <<live, claimed, ender, ends, waits>>
    BY <1>17 DEF CloseCalled, CloseReturns
  <2>. QED
    BY <2>1 DEF ClaimsAreHeld
<1>18. CASE SweepEnds \/ SweepFails \/ ConnCloses
  <2>1. UNCHANGED <<live, claimed, ender, ends, waits>>
    BY <1>18 DEF SweepEnds, SweepFails, ConnCloses
  <2>. QED
    BY <2>1 DEF ClaimsAreHeld
<1>19. CASE UNCHANGED vars
  BY <1>19 DEF vars, ClaimsAreHeld
<1>. QED
  BY <1>1, <1>2, <1>3, <1>4, <1>5, <1>6, <1>7, <1>8, <1>9, <1>10, <1>11,
     <1>12, <1>13, <1>14, <1>15, <1>16, <1>17, <1>18, <1>19
  DEF Next, CallStep, CallRuns, MintRuns, EndRuns

(* Sweep() empties the registry, and Add() refuses what comes after        *)
(* (keys.go:60).                                                           *)
LEMMA SweptOnceKept ==
    ASSUME IInv, [Next]_vars PROVE SweptOnce'
<1>. USE DEF clientVars, closeVars, regVars, endVars, keyVars, mintVars,
              sessionVars, callVars,
              IInv, SweptOnce, TypeOK, None
<1>1. ASSUME NEW m \in Calls, CallSettles(m)
      PROVE  SweptOnce'
  BY <1>1 DEF CallSettles, CountOut, LastLease
<1>2. ASSUME NEW m \in Calls, CallFails(m)
      PROVE  SweptOnce'
  BY <1>2 DEF CallFails, CountOut
<1>3. ASSUME NEW s \in Sessions, MintBefore(s)
      PROVE  SweptOnce'
  BY <1>3 DEF MintBefore, Claim, DroppedKeys, Expired, OfUser
<1>4. ASSUME NEW s \in Sessions, MintFails(s)
      PROVE  SweptOnce'
  BY <1>4 DEF MintFails, MintOver, Waiters, CountOut
<1>5. ASSUME NEW s \in Sessions, NEW k \in Keys, NEW a \in Ages,
             MintAnswered(s, k, a)
      PROVE  SweptOnce'
  BY <1>5 DEF MintAnswered, Answered, Registers
<1>6. ASSUME NEW s \in Sessions, InlineEnds(s)
      PROVE  SweptOnce'
  BY <1>6 DEF InlineEnds, InlineOver, MintOver, Waiters, CountOut
<1>7. ASSUME NEW s \in Sessions, InlineFails(s)
      PROVE  SweptOnce'
  BY <1>7 DEF InlineFails, InlineOver, MintOver, Waiters, CountOut
<1>8. ASSUME NEW s \in Sessions, MintCountsOut(s)
      PROVE  SweptOnce'
  BY <1>8 DEF MintCountsOut, CountOut
<1>9. ASSUME NEW k \in Keys, EndSucceeds(k)
      PROVE  SweptOnce'
  BY <1>9 DEF EndSucceeds, Finish
<1>10. ASSUME NEW k \in Keys, EndCountsOut(k)
      PROVE  SweptOnce'
  BY <1>10 DEF EndCountsOut, Ended, CountOut
<1>11. ASSUME NEW k \in Keys, EndFails(k)
      PROVE  SweptOnce'
  BY <1>11 DEF EndFails, CountOut
<1>12. ASSUME NEW c \in Closers, CloseCalled(c)
      PROVE  SweptOnce'
  BY <1>12 DEF CloseCalled
<1>13. ASSUME NEW c \in Closers, SweepBegins(c)
      PROVE  SweptOnce'
  BY <1>13 DEF SweepBegins, Finish, Swept, Expired
<1>14. ASSUME NEW c \in Closers, CloseReturns(c)
      PROVE  SweptOnce'
  BY <1>14 DEF CloseReturns
<1>15. CASE SweepEnds
  BY <1>15 DEF SweepEnds, Lowest
<1>16. CASE SweepFails
  BY <1>16 DEF SweepFails, Lowest
<1>17. CASE ConnCloses
  BY <1>17 DEF ConnCloses
<1>18. ASSUME NEW m \in Calls,
             \/ CallRefused(m) \/ CallBegins(m) \/ CallTimesOut(m)
             \/ CallTakesNoKey(m) \/ CallLeases(m)
      PROVE  SweptOnce'
  <2>1. UNCHANGED <<closer, closed, stage, live, drained, stopped, sweep>>
    BY <1>18
    DEF CallRefused, CallBegins, CountIn, CallTimesOut, CallTakesNoKey,
        TakeDropped, Claim, CallLeases
  <2>. QED
    BY <2>1 DEF SweptOnce
<1>19. ASSUME NEW s \in Sessions,
             \/ MintBegins(s) \/ MintCutOff(s) \/ MintSends(s)
             \/ MintLands(s) \/ MintDiscarded(s) \/ SessionCloses(s)
             \/ SessionLost(s)
      PROVE  SweptOnce'
  <2>1. UNCHANGED <<closer, closed, stage, live, drained, stopped, sweep>>
    BY <1>19
    DEF MintBegins, CountIn, MintCutOff, MintOver, MintSends, TakeDropped,
        Claim, MintLands, MintDiscarded, SessionCloses, SessionLost
  <2>. QED
    BY <2>1 DEF SweptOnce
<1>20. ASSUME NEW k \in Keys,
             \/ EndClaims(k) \/ EndBegins(k) \/ EndSends(k) \/ Unclaimed(k)
             \/ KeyAges(k)
      PROVE  SweptOnce'
  <2>1. UNCHANGED <<closer, closed, stage, live, drained, stopped, sweep>>
    BY <1>20
    DEF EndClaims, Claim, EndBegins, CountIn, EndSends, Unclaimed, Ended,
        Finish, KeyAges
  <2>. QED
    BY <2>1 DEF SweptOnce
<1>21. CASE UNCHANGED vars
  BY <1>21 DEF vars, SweptOnce
<1>. QED
  BY <1>1, <1>2, <1>3, <1>4, <1>5, <1>6, <1>7, <1>8, <1>9, <1>10, <1>11,
     <1>12, <1>13, <1>14, <1>15, <1>16, <1>17, <1>18, <1>19, <1>20, <1>21
  DEF Next, CallStep, CallRuns, MintRuns, EndRuns

(* begin() and end() bracket whatever is counted, once (client.go:384,     *)
(* :395).                                                                  *)
LEMMA DrainedOnceKept ==
    ASSUME IInv, [Next]_vars PROVE DrainedOnce'
<1>. USE DEF clientVars, closeVars, regVars, endVars, keyVars, mintVars,
              sessionVars, callVars,
              IInv, DrainedOnce, TypeOK, Keys
<1>1. ASSUME NEW m \in Calls, CallRefused(m)
      PROVE  DrainedOnce'
  <2>1. CallsIn' = CallsIn /\ MintsIn' = MintsIn /\ EndsIn' = EndsIn
    BY <1>1 DEF CallRefused, CallsIn, MintsIn, EndsIn
  <2>. QED
    BY <1>1, <2>1, SameCount DEF CallRefused
<1>2. ASSUME NEW m \in Calls, CallBegins(m)
      PROVE  DrainedOnce'
  <2>1. m \notin CallsIn /\ CallsIn' = CallsIn \cup {m}
        /\ MintsIn' = MintsIn /\ EndsIn' = EndsIn
    BY <1>2 DEF CallBegins, CallsIn, MintsIn, EndsIn
  <2>. QED
    BY <1>2, <2>1, CallCounted, OneMore DEF CallBegins
<1>3. ASSUME NEW m \in Calls, CallTimesOut(m)
      PROVE  DrainedOnce'
  <2>1. CallsIn' = CallsIn /\ MintsIn' = MintsIn /\ EndsIn' = EndsIn
    BY <1>3 DEF CallTimesOut, CallsIn, MintsIn, EndsIn
  <2>. QED
    BY <1>3, <2>1, SameCount DEF CallTimesOut
<1>4. ASSUME NEW m \in Calls, CallTakesNoKey(m)
      PROVE  DrainedOnce'
  <2>1. CallsIn' = CallsIn /\ MintsIn' = MintsIn
    BY <1>4 DEF CallTakesNoKey, CallsIn, MintsIn
  <2>2. EndsIn' = EndsIn
    BY <1>4, ClaimsStartNew DEF CallTakesNoKey, TakeDropped, DroppedKeys
  <2>. QED
    BY <1>4, <2>1, <2>2, SameCount DEF CallTakesNoKey
<1>5. ASSUME NEW m \in Calls, CallLeases(m)
      PROVE  DrainedOnce'
  <2>1. CallsIn' = CallsIn /\ MintsIn' = MintsIn
    BY <1>5 DEF CallLeases, CallsIn, MintsIn
  <2>2. EndsIn' = EndsIn
    BY <1>5, ClaimsStartNew DEF CallLeases, TakeDropped, DroppedKeys
  <2>. QED
    BY <1>5, <2>1, <2>2, SameCount DEF CallLeases
<1>6. ASSUME NEW m \in Calls, CallSettles(m)
      PROVE  DrainedOnce'
  <2>1. m \in CallsIn /\ CallsIn' = CallsIn \ {m}
        /\ MintsIn' = MintsIn /\ EndsIn' = EndsIn
    BY <1>6 DEF CallSettles, CallsIn, MintsIn, EndsIn
  <2>. QED
    BY <1>6, <2>1, CallCounted, OneLess DEF CallSettles
<1>7. ASSUME NEW m \in Calls, CallFails(m)
      PROVE  DrainedOnce'
  <2>1. m \in CallsIn /\ CallsIn' = CallsIn \ {m}
        /\ MintsIn' = MintsIn /\ EndsIn' = EndsIn
    BY <1>7 DEF CallFails, CallsIn, MintsIn, EndsIn
  <2>. QED
    BY <1>7, <2>1, CallCounted, OneLess DEF CallFails
<1>8. ASSUME NEW s \in Sessions, MintBefore(s)
      PROVE  DrainedOnce'
  <2>1. CallsIn' = CallsIn /\ MintsIn' = MintsIn
    BY <1>8 DEF MintBefore, CallsIn, MintsIn
  <2>2. EndsIn' = EndsIn
    BY <1>8, ClaimsStartNew DEF MintBefore
  <2>. QED
    BY <1>8, <2>1, <2>2, SameCount DEF MintBefore
<1>9. ASSUME NEW s \in Sessions, MintBegins(s)
      PROVE  DrainedOnce'
  <2>1. s \notin MintsIn /\ MintsIn' = MintsIn \cup {s}
        /\ CallsIn' = CallsIn /\ EndsIn' = EndsIn
    BY <1>9 DEF MintBegins, Ready, CallsIn, MintsIn, EndsIn
  <2>. QED
    BY <1>9, <2>1, MintCounted, OneMore DEF MintBegins, Ready
<1>10. ASSUME NEW s \in Sessions, MintCutOff(s)
      PROVE  DrainedOnce'
  <2>1. CallsIn' = CallsIn /\ MintsIn' = MintsIn /\ EndsIn' = EndsIn
    BY <1>10
    DEF MintCutOff, Ready, MintOver, Waiters, CallsIn, MintsIn, EndsIn
  <2>. QED
    BY <1>10, <2>1, SameCount DEF MintCutOff, Ready, MintOver, Waiters
<1>11. ASSUME NEW s \in Sessions, MintSends(s)
      PROVE  DrainedOnce'
  <2>1. CallsIn' = CallsIn /\ MintsIn' = MintsIn
    BY <1>11 DEF MintSends, CallsIn, MintsIn
  <2>2. EndsIn' = EndsIn
    BY <1>11, ClaimsStartNew DEF MintSends, TakeDropped, DroppedKeys
  <2>. QED
    BY <1>11, <2>1, <2>2, SameCount DEF MintSends
<1>12. ASSUME NEW s \in Sessions, MintFails(s)
      PROVE  DrainedOnce'
  <2>1. s \in MintsIn /\ MintsIn' = MintsIn \ {s}
        /\ CallsIn' = CallsIn /\ EndsIn' = EndsIn
    BY <1>12 DEF MintFails, MintOver, Waiters, CallsIn, MintsIn, EndsIn
  <2>. QED
    BY <1>12, <2>1, MintCounted, OneLess DEF MintFails, MintOver, Waiters
<1>13. ASSUME NEW s \in Sessions, NEW k \in Keys, NEW a \in Ages,
             MintAnswered(s, k, a)
      PROVE  DrainedOnce'
  <2>1. CallsIn' = CallsIn /\ MintsIn' = MintsIn /\ EndsIn' = EndsIn
    BY <1>13 DEF MintAnswered, Answered, CallsIn, MintsIn, EndsIn
  <2>. QED
    BY <1>13, <2>1, SameCount DEF MintAnswered, Answered
<1>14. ASSUME NEW s \in Sessions, InlineEnds(s)
      PROVE  DrainedOnce'
  <2>1. s \in MintsIn /\ MintsIn' = MintsIn \ {s}
        /\ CallsIn' = CallsIn /\ EndsIn' = EndsIn
    BY <1>14
    DEF InlineEnds, InlineOver, MintOver, Waiters, CallsIn, MintsIn, EndsIn
  <2>. QED
    BY <1>14, <2>1, MintCounted, OneLess
    DEF InlineEnds, InlineOver, MintOver, Waiters
<1>15. ASSUME NEW s \in Sessions, InlineFails(s)
      PROVE  DrainedOnce'
  <2>1. s \in MintsIn /\ MintsIn' = MintsIn \ {s}
        /\ CallsIn' = CallsIn /\ EndsIn' = EndsIn
    BY <1>15
    DEF InlineFails, InlineOver, MintOver, Waiters, CallsIn, MintsIn, EndsIn
  <2>. QED
    BY <1>15, <2>1, MintCounted, OneLess
    DEF InlineFails, InlineOver, MintOver, Waiters
<1>16. ASSUME NEW s \in Sessions, MintCountsOut(s)
      PROVE  DrainedOnce'
  <2>1. s \in MintsIn /\ MintsIn' = MintsIn \ {s}
        /\ CallsIn' = CallsIn /\ EndsIn' = EndsIn
    BY <1>16 DEF MintCountsOut, CallsIn, MintsIn, EndsIn
  <2>. QED
    BY <1>16, <2>1, MintCounted, OneLess DEF MintCountsOut
<1>17. ASSUME NEW s \in Sessions, MintLands(s)
      PROVE  DrainedOnce'
  <2>1. CallsIn' = CallsIn /\ MintsIn' = MintsIn /\ EndsIn' = EndsIn
    BY <1>17 DEF MintLands, Waiters, CallsIn, MintsIn, EndsIn
  <2>. QED
    BY <1>17, <2>1, SameCount DEF MintLands, Waiters
<1>18. ASSUME NEW s \in Sessions, MintDiscarded(s)
      PROVE  DrainedOnce'
  <2>1. CallsIn' = CallsIn /\ MintsIn' = MintsIn /\ EndsIn' = EndsIn
    BY <1>18 DEF MintDiscarded, MintOver, Waiters, CallsIn, MintsIn, EndsIn
  <2>. QED
    BY <1>18, <2>1, SameCount DEF MintDiscarded, MintOver, Waiters
<1>19. ASSUME NEW k \in Keys, EndClaims(k)
      PROVE  DrainedOnce'
  <2>1. CallsIn' = CallsIn /\ MintsIn' = MintsIn
    BY <1>19 DEF EndClaims, CallsIn, MintsIn
  <2>2. EndsIn' = EndsIn
    BY <1>19, ClaimsStartNew DEF EndClaims, Claimable
  <2>. QED
    BY <1>19, <2>1, <2>2, SameCount DEF EndClaims
<1>20. ASSUME NEW k \in Keys, EndBegins(k)
      PROVE  DrainedOnce'
  <2>. CallsIn' = CallsIn /\ MintsIn' = MintsIn
    BY <1>20 DEF EndBegins, CallsIn, MintsIn
  <2>1. CASE ~closed
    <3>1. ender[k] = "claimed" /\ ender' = [ender EXCEPT ![k] = "begun"]
      BY <1>20, <2>1 DEF EndBegins
    <3>2. k \notin EndsIn /\ EndsIn' = EndsIn \cup {k}
      BY <3>1 DEF EndsIn
    <3>. QED
      BY <1>20, <2>1, <3>2, EndCounted, OneMore DEF EndBegins
  <2>2. CASE closed
    <3>1. ender[k] = "claimed" /\ ender' = [ender EXCEPT ![k] = "refused"]
      BY <1>20, <2>2 DEF EndBegins
    <3>2. EndsIn' = EndsIn
      BY <3>1 DEF EndsIn
    <3>. QED
      BY <1>20, <2>2, <3>2, SameCount DEF EndBegins
  <2>. QED
    BY <2>1, <2>2
<1>21. ASSUME NEW k \in Keys, EndSends(k)
      PROVE  DrainedOnce'
  <2>1. \A j \in DroppedKeys : ender[j] = "no"
    BY DEF DroppedKeys, IInv, ClaimsAreHeld, EndedForgotten
  <2>2. CallsIn' = CallsIn /\ MintsIn' = MintsIn /\ EndsIn' = EndsIn
    BY <1>21, <2>1 DEF EndSends, CallsIn, MintsIn, EndsIn
  <2>. QED
    BY <1>21, <2>2, SameCount DEF EndSends
<1>22. ASSUME NEW k \in Keys, EndSucceeds(k)
      PROVE  DrainedOnce'
  <2>1. CallsIn' = CallsIn /\ MintsIn' = MintsIn /\ EndsIn' = EndsIn
    BY <1>22 DEF EndSucceeds, CallsIn, MintsIn, EndsIn
  <2>. QED
    BY <1>22, <2>1, SameCount DEF EndSucceeds
<1>23. ASSUME NEW k \in Keys, EndCountsOut(k)
      PROVE  DrainedOnce'
  <2>1. k \in EndsIn /\ EndsIn' = EndsIn \ {k}
        /\ CallsIn' = CallsIn /\ MintsIn' = MintsIn
    BY <1>23 DEF EndCountsOut, Ended, CallsIn, MintsIn, EndsIn
  <2>. QED
    BY <1>23, <2>1, EndCounted, OneLess DEF EndCountsOut, Ended
<1>24. ASSUME NEW k \in Keys, EndFails(k)
      PROVE  DrainedOnce'
  <2>1. k \in EndsIn /\ EndsIn' = EndsIn \ {k}
        /\ CallsIn' = CallsIn /\ MintsIn' = MintsIn
    BY <1>24 DEF EndFails, CallsIn, MintsIn, EndsIn
  <2>. QED
    BY <1>24, <2>1, EndCounted, OneLess DEF EndFails
<1>25. ASSUME NEW k \in Keys, Unclaimed(k)
      PROVE  DrainedOnce'
  <2>1. CallsIn' = CallsIn /\ MintsIn' = MintsIn /\ EndsIn' = EndsIn
    BY <1>25 DEF Unclaimed, Ended, CallsIn, MintsIn, EndsIn
  <2>. QED
    BY <1>25, <2>1, SameCount DEF Unclaimed, Ended
<1>26. ASSUME NEW c \in Closers, CloseCalled(c)
      PROVE  DrainedOnce'
  <2>1. Counted' = Counted
    BY <1>26 DEF CloseCalled, Counted, CallsIn, MintsIn, EndsIn
  <2>. QED
    BY <1>26, <2>1 DEF CloseCalled, DrainedOnce
<1>27. ASSUME NEW s \in Sessions,
             SessionCloses(s) \/ SessionLost(s)
      PROVE  DrainedOnce'
  <2>1. UNCHANGED <<inflight, phase, mint, ender, drained, closed>>
    BY <1>27 DEF SessionCloses, SessionLost
  <2>. QED
    BY <2>1 DEF DrainedOnce, Counted, CallsIn, MintsIn, EndsIn
<1>28. ASSUME NEW k \in Keys,
             KeyAges(k)
      PROVE  DrainedOnce'
  <2>1. UNCHANGED <<inflight, phase, mint, ender, drained, closed>>
    BY <1>28 DEF KeyAges
  <2>. QED
    BY <2>1 DEF DrainedOnce, Counted, CallsIn, MintsIn, EndsIn
<1>29. ASSUME NEW c \in Closers,
             SweepBegins(c) \/ CloseReturns(c)
      PROVE  DrainedOnce'
  <2>1. UNCHANGED <<inflight, phase, mint, ender, drained, closed>>
    BY <1>29 DEF SweepBegins, Finish, CloseReturns
  <2>. QED
    BY <2>1 DEF DrainedOnce, Counted, CallsIn, MintsIn, EndsIn
<1>30. CASE SweepEnds \/ SweepFails \/ ConnCloses
  <2>1. UNCHANGED <<inflight, phase, mint, ender, drained, closed>>
    BY <1>30 DEF SweepEnds, SweepFails, ConnCloses
  <2>. QED
    BY <2>1 DEF DrainedOnce, Counted, CallsIn, MintsIn, EndsIn
<1>31. CASE UNCHANGED vars
  BY <1>31 DEF vars, DrainedOnce, Counted, CallsIn, MintsIn, EndsIn
<1>. QED
  BY <1>1, <1>2, <1>3, <1>4, <1>5, <1>6, <1>7, <1>8, <1>9, <1>10, <1>11,
     <1>12, <1>13, <1>14, <1>15, <1>16, <1>17, <1>18, <1>19, <1>20, <1>21,
     <1>22, <1>23, <1>24, <1>25, <1>26, <1>27, <1>28, <1>29, <1>30, <1>31
  DEF Next, CallStep, CallRuns, MintRuns, EndRuns

(* A key leaves the registry ended, given up on, expired or swept          *)
(* (keys.go:77, :118, :165).                                               *)
LEMMA KeysAccountedForKept ==
    ASSUME IInv, [Next]_vars PROVE KeysAccountedFor'
<1>. USE DEF clientVars, closeVars, regVars, endVars, keyVars, mintVars,
              sessionVars, callVars,
              IInv, KeysAccountedFor, TypeOK, Keys, Numbered, SweptOnce,
              Owned, None
<1>1. ASSUME NEW m \in Calls, CallLeases(m)
      PROVE  KeysAccountedFor'
  BY <1>1 DEF CallLeases, HasKey, TakeDropped, Claim, DroppedKeys
<1>2. ASSUME NEW s \in Sessions, MintBefore(s)
      PROVE  KeysAccountedFor'
  BY <1>2 DEF MintBefore, Claim, DroppedKeys, Expired, OfUser
<1>3. ASSUME NEW s \in Sessions, MintBegins(s)
      PROVE  KeysAccountedFor'
  BY <1>3 DEF MintBegins, Ready, CountIn
<1>4. ASSUME NEW s \in Sessions, MintCutOff(s)
      PROVE  KeysAccountedFor'
  BY <1>4 DEF MintCutOff, Ready, MintOver, Waiters
<1>5. ASSUME NEW s \in Sessions, MintSends(s)
      PROVE  KeysAccountedFor'
  BY <1>5 DEF MintSends, TakeDropped, Claim, DroppedKeys
<1>6. ASSUME NEW s \in Sessions, MintFails(s)
      PROVE  KeysAccountedFor'
  BY <1>6 DEF MintFails, MintOver, Waiters, CountOut
<1>7. ASSUME NEW s \in Sessions, NEW k \in Keys, NEW a \in Ages,
             MintAnswered(s, k, a)
      PROVE  KeysAccountedFor'
  BY <1>7, AnswerAccounted
<1>8. ASSUME NEW s \in Sessions, InlineEnds(s)
      PROVE  KeysAccountedFor'
  BY <1>8 DEF InlineEnds, InlineOver, MintOver, Waiters, CountOut
<1>9. ASSUME NEW s \in Sessions, InlineFails(s)
      PROVE  KeysAccountedFor'
  BY <1>9 DEF InlineFails, InlineOver, MintOver, Waiters, CountOut
<1>10. ASSUME NEW s \in Sessions, MintCountsOut(s)
      PROVE  KeysAccountedFor'
  BY <1>10 DEF MintCountsOut, CountOut
<1>11. ASSUME NEW s \in Sessions, MintLands(s)
      PROVE  KeysAccountedFor'
  BY <1>11 DEF MintLands, Waiters, Idle
<1>12. ASSUME NEW s \in Sessions, MintDiscarded(s)
      PROVE  KeysAccountedFor'
  BY <1>12 DEF MintDiscarded, MintOver, Waiters
<1>13. ASSUME NEW k \in Keys, EndSucceeds(k)
      PROVE  KeysAccountedFor'
  BY <1>13 DEF EndSucceeds, Finish
<1>14. ASSUME NEW k \in Keys, EndFails(k)
      PROVE  KeysAccountedFor'
  BY <1>14 DEF EndFails, CountOut
<1>15. ASSUME NEW k \in Keys, KeyAges(k)
      PROVE  KeysAccountedFor'
  BY <1>15, OlderAccounted
<1>16. ASSUME NEW c \in Closers, SweepBegins(c)
      PROVE  KeysAccountedFor'
  BY <1>16 DEF SweepBegins, Finish, Swept, Expired
<1>17. CASE SweepEnds
  BY <1>17 DEF SweepEnds, Lowest
<1>18. CASE SweepFails
  <2>1. /\ alive' \subseteq alive /\ warned' = warned \cup sweep
        /\ UNCHANGED <<age, stage, live, mint, fresh>>
    BY <1>18 DEF SweepFails
  <2>. QED
    BY <2>1 DEF KeysAccountedFor
<1>19. CASE ConnCloses
  BY <1>19 DEF ConnCloses
<1>20. ASSUME NEW m \in Calls,
             \/ CallRefused(m) \/ CallBegins(m) \/ CallTimesOut(m)
             \/ CallTakesNoKey(m) \/ CallSettles(m) \/ CallFails(m)
      PROVE  KeysAccountedFor'
  <2>1. UNCHANGED <<alive, age, stage, live, sweep, warned, mint, fresh>>
    BY <1>20
    DEF CallRefused, CallBegins, CountIn, CallTimesOut, CallTakesNoKey,
        TakeDropped, Claim, CallSettles, CountOut, CallFails
  <2>. QED
    BY <2>1 DEF KeysAccountedFor
<1>21. ASSUME NEW s \in Sessions,
             SessionCloses(s) \/ SessionLost(s)
      PROVE  KeysAccountedFor'
  <2>1. UNCHANGED <<alive, age, stage, live, sweep, warned, mint, fresh>>
    BY <1>21 DEF SessionCloses, SessionLost
  <2>. QED
    BY <2>1 DEF KeysAccountedFor
<1>22. ASSUME NEW k \in Keys,
             \/ EndClaims(k) \/ EndBegins(k) \/ EndSends(k)
             \/ EndCountsOut(k) \/ Unclaimed(k)
      PROVE  KeysAccountedFor'
  <2>1. UNCHANGED <<alive, age, stage, live, sweep, warned, mint, fresh>>
    BY <1>22
    DEF EndClaims, Claim, EndBegins, CountIn, EndSends, EndCountsOut, Ended,
        CountOut, Unclaimed, Finish
  <2>. QED
    BY <2>1 DEF KeysAccountedFor
<1>23. ASSUME NEW c \in Closers,
             CloseCalled(c) \/ CloseReturns(c)
      PROVE  KeysAccountedFor'
  <2>1. UNCHANGED <<alive, age, stage, live, sweep, warned, mint, fresh>>
    BY <1>23 DEF CloseCalled, CloseReturns
  <2>. QED
    BY <2>1 DEF KeysAccountedFor
<1>24. CASE UNCHANGED vars
  BY <1>24 DEF vars, KeysAccountedFor
<1>. QED
  BY <1>1, <1>2, <1>3, <1>4, <1>5, <1>6, <1>7, <1>8, <1>9, <1>10, <1>11,
     <1>12, <1>13, <1>14, <1>15, <1>16, <1>17, <1>18, <1>19, <1>20, <1>21,
     <1>22, <1>23, <1>24
  DEF Next, CallStep, CallRuns, MintRuns, EndRuns

----------------------------------------------------------------------------
(* What a step does to the registry and to the stages of the close.        *)

(* Most steps mint no key and leave the sweep alone (keys.go:10).          *)
Steady == UNCHANGED <<stage, stopped, sweep, warned, minted, age, alive>>

(* The steps that do more are few (client.go:306, :545, :615).             *)
LEMMA StepKinds ==
    ASSUME [Next]_vars
    PROVE  \/ Steady
           \/ \E s \in Sessions, k \in Keys, a \in Ages : MintAnswered(s, k, a)
           \/ \E s \in Sessions : InlineEnds(s) \/ InlineFails(s)
           \/ \E k \in Keys : EndSucceeds(k) \/ EndFails(k) \/ KeyAges(k)
           \/ \E c \in Closers : SweepBegins(c)
           \/ SweepEnds \/ SweepFails \/ ConnCloses
<1>. USE DEF closeVars, keyVars, Steady
<1>1. ASSUME NEW m \in Calls, CallStep(m) \/ CallRuns(m)
      PROVE  Steady
  BY <1>1 DEF CallStep, CallRuns, CallRefused, CallBegins, CallTimesOut,
      CallTakesNoKey, CallLeases, CallSettles, CallFails
<1>2. ASSUME NEW s \in Sessions,
             \/ MintBefore(s) \/ MintBegins(s) \/ MintCutOff(s) \/ MintSends(s)
             \/ MintFails(s) \/ MintCountsOut(s) \/ MintLands(s)
             \/ MintDiscarded(s) \/ SessionCloses(s) \/ SessionLost(s)
      PROVE  Steady
  BY <1>2 DEF MintBefore, MintBegins, MintCutOff, MintSends, MintFails,
      MintCountsOut, MintLands, MintDiscarded, SessionCloses, SessionLost
<1>3. ASSUME NEW k \in Keys,
             \/ EndClaims(k) \/ EndBegins(k) \/ EndSends(k)
             \/ EndCountsOut(k) \/ Unclaimed(k)
      PROVE  Steady
  BY <1>3 DEF EndClaims, EndBegins, EndSends, EndCountsOut, Unclaimed
<1>4. ASSUME NEW c \in Closers, CloseCalled(c) \/ CloseReturns(c)
      PROVE  Steady
  BY <1>4 DEF CloseCalled, CloseReturns
<1>5. CASE UNCHANGED vars
  BY <1>5 DEF vars
<1>. QED
  BY <1>1, <1>2, <1>3, <1>4, <1>5 DEF Next, MintRuns, EndRuns

(* A key known of stays known, an expired one expired, and the service     *)
(* ends one only when asked to (client.go:545, :615).                      *)
LEMMA KnownKeys ==
    ASSUME IInv, [Next]_vars, NEW k \in Keys, k <= minted
    PROVE  /\ k <= minted'
           /\ k \in alive' => k \in alive
           /\ age[k] = "expired" => age'[k] = "expired"
           /\ k \in alive => \/ k \in alive' \/ Ending(k) \/ Lowest(k)
                             \/ k \in Inline
           /\ k \in warned' =>
                 k \in warned \/ k \in sweep \/ k \in Inline
           /\ k \in sweep' => k \in sweep \/ k \in live
<1>1. CASE Steady
  BY <1>1 DEF Steady
<1>2. ASSUME NEW s \in Sessions, NEW j \in Keys, NEW a \in Ages,
             MintAnswered(s, j, a)
      PROVE  /\ k <= minted' /\ age'[k] = age[k]
             /\ k \in alive' <=> k \in alive
             /\ UNCHANGED <<sweep, warned>>
  <2>1. Answered(s, j, a) /\ UNCHANGED <<sweep, warned>>
    BY <1>2 DEF MintAnswered, closeVars
  <2>2. ~(j <= minted) /\ minted <= j /\ minted' = j
    BY <2>1, NextKey DEF IInv
  <2>3. k # j /\ k <= j
    BY <2>2, BoundAssumption DEF Keys, IInv, TypeOK
  <2>4. age' = [age EXCEPT ![j] = a] /\ alive' = alive \cup {j}
    BY <2>1 DEF Answered
  <2>. QED
    BY <2>1, <2>2, <2>3, <2>4 DEF IInv, TypeOK
<1>3. ASSUME NEW s \in Sessions, InlineEnds(s) \/ InlineFails(s)
      PROVE  /\ UNCHANGED <<minted, age, sweep>>
             /\ k \in alive' => k \in alive
             /\ k \in alive => k \in alive' \/ k \in Inline
             /\ k \in warned' => k \in warned \/ k \in Inline
  BY <1>3 DEF InlineEnds, InlineFails, InlineOver, closeVars, keyVars, Inline
<1>4. ASSUME NEW j \in Keys, EndSucceeds(j) \/ EndFails(j)
      PROVE  /\ UNCHANGED <<minted, age, sweep, warned>>
             /\ k \in alive' => k \in alive
             /\ k \in alive => k \in alive' \/ Ending(k)
  BY <1>4 DEF EndSucceeds, EndFails, closeVars, keyVars, Ending
<1>5. ASSUME NEW j \in Keys, KeyAges(j)
      PROVE  /\ UNCHANGED <<minted, alive, sweep, warned>>
             /\ age[k] = "expired" => age'[k] = "expired"
  BY <1>5 DEF KeyAges, closeVars, IInv, TypeOK
<1>6. ASSUME NEW c \in Closers, SweepBegins(c)
      PROVE  /\ UNCHANGED <<minted, age, alive, warned>>
             /\ sweep' \subseteq live
  BY <1>6 DEF SweepBegins, Swept, keyVars
<1>7. CASE SweepEnds \/ SweepFails \/ ConnCloses
  BY <1>7 DEF SweepEnds, SweepFails, ConnCloses, keyVars
<1>. QED
  BY <1>1, <1>2, <1>3, <1>4, <1>5, <1>6, <1>7, StepKinds

(* A key that becomes known is accepted, while there is a connection       *)
(* (client.go:545).                                                        *)
LEMMA NewKeys ==
    ASSUME IInv, [Next]_vars, NEW k \in Keys, ~(k <= minted),
           k <= minted' \/ k \in alive'
    PROVE  /\ k \in alive' /\ k <= minted'
           /\ stage # "closed"
           /\ UNCHANGED <<stage, stopped, sweep, warned>>
<1>1. k \notin alive
  BY DEF IInv, MintedFirst
<1>2. minted' # minted \/ k \in alive' \ alive
  BY <1>1
<1>3. /\ ~Steady /\ ~SweepEnds /\ ~SweepFails /\ ~ConnCloses
      /\ ~(\E s \in Sessions : InlineEnds(s) \/ InlineFails(s))
      /\ ~(\E j \in Keys : EndSucceeds(j) \/ EndFails(j) \/ KeyAges(j))
      /\ ~(\E c \in Closers : SweepBegins(c))
  BY <1>2 DEF Steady, SweepEnds, SweepFails, ConnCloses, InlineEnds,
      InlineFails, InlineOver, EndSucceeds, EndFails, KeyAges, SweepBegins,
      keyVars
<1>4. PICK s \in Sessions, j \in Keys, a \in Ages : MintAnswered(s, j, a)
  BY <1>3, StepKinds
<1>5. /\ stage # "closed" /\ UNCHANGED <<stage, stopped, sweep, warned>>
      /\ j = minted + 1 /\ minted' = j /\ alive' = alive \cup {j}
  BY <1>4 DEF MintAnswered, Answered, closeVars
<1>6. k = j
  BY <1>1, <1>5, BoundAssumption DEF Keys, IInv, TypeOK
<1>. QED
  BY <1>5, <1>6, BoundAssumption DEF Keys

(* What the service accepts, a sweep ends or a warning names was minted    *)
(* (client.go:545, keys.go:178).                                           *)
LEMMA MintedFirstKept ==
    ASSUME IInv, [Next]_vars
    PROVE  MintedFirst'
<1>. SUFFICES ASSUME NEW k \in (alive \cup sweep \cup warned)'
              PROVE  k <= minted'
  BY DEF MintedFirst
<1>1. k \in Keys
  BY TypeOKKept DEF TypeOK
<1>2. CASE k <= minted
  BY <1>1, <1>2, KnownKeys
<1>3. CASE ~(k <= minted)
  <2>1. k \notin sweep \cup warned \cup live
    BY <1>3 DEF IInv, MintedFirst, Numbered
  <2>2. k \in alive' => k <= minted'
    BY <1>1, <1>3, NewKeys
  <2>3. k \notin Inline
    BY <1>1, <1>3 DEF Inline, IInv, Numbered
  <2>4. k \in sweep' \cup warned' => k \in alive' \/ k <= minted'
    <3>1. CASE Steady
      BY <2>1, <3>1 DEF Steady
    <3>2. ASSUME NEW s \in Sessions, NEW j \in Keys, NEW a \in Ages,
                 MintAnswered(s, j, a)
          PROVE  UNCHANGED <<sweep, warned>>
      BY <3>2 DEF MintAnswered, closeVars
    <3>3. ASSUME NEW s \in Sessions, InlineEnds(s) \/ InlineFails(s)
          PROVE  /\ sweep' = sweep
                 /\ k \in warned' => k \in warned \/ k \in Inline
      BY <1>1, <3>3 DEF InlineEnds, InlineFails, InlineOver, closeVars,
          Inline
    <3>4. ASSUME NEW j \in Keys, EndSucceeds(j) \/ EndFails(j) \/ KeyAges(j)
          PROVE  UNCHANGED <<sweep, warned>>
      BY <3>4 DEF EndSucceeds, EndFails, KeyAges, closeVars
    <3>5. ASSUME NEW c \in Closers, SweepBegins(c)
          PROVE  warned' = warned /\ sweep' \subseteq live
      BY <3>5 DEF SweepBegins, Swept
    <3>6. CASE SweepEnds \/ SweepFails \/ ConnCloses
      BY <2>1, <3>6 DEF SweepEnds, SweepFails, ConnCloses
    <3>. QED
      BY <2>1, <2>3, <3>1, <3>2, <3>3, <3>4, <3>5, <3>6, StepKinds
  <2>. QED
    BY <2>2, <2>4
<1>. QED
  BY <1>1, <1>2, <1>3 DEF IInv, TypeOK

(* The registry forgets a key when it has expired, when its end was        *)
(* answered or at the sweep, and a key is claimed while registered         *)
(* (keys.go:100, :153, :178); only an open client sends a claimed end      *)
(* (client.go:611).                                                        *)
Registry ==
    \A k \in Keys :
        /\ k <= minted => (k \in live' => k \in live)
        /\ ender'[k] = "claimed" => ender[k] = "claimed" \/ k \in live'
        /\ Ending(k)' => Ending(k) \/ (ender[k] = "claimed" /\ ~closed)
        /\ k \in live \ live' =>
              age[k] = "expired" \/ ender'[k] = "ended" \/ stage' # "open"

LEMMA RegistryMoves ==
    ASSUME IInv, [Next]_vars
    PROVE  Registry
<1>. USE DEF regVars, endVars, IInv, TypeOK, Registry, Ending
<1>1. ASSUME NEW m \in Calls, CallTakesNoKey(m) \/ CallLeases(m)
      PROVE  Registry
  BY <1>1 DEF CallTakesNoKey, CallLeases, TakeDropped, Claim, DroppedKeys
<1>2. ASSUME NEW s \in Sessions, MintBefore(s)
      PROVE  Registry
  BY <1>2 DEF MintBefore, Claim, Expired
<1>3. ASSUME NEW s \in Sessions, MintSends(s)
      PROVE  Registry
  BY <1>3 DEF MintSends, TakeDropped, Claim, DroppedKeys
<1>4. ASSUME NEW s \in Sessions, NEW j \in Keys, NEW a \in Ages,
             MintAnswered(s, j, a)
      PROVE  Registry
  <2>1. ~(j <= minted)
    BY <1>4, NextKey DEF MintAnswered
  <2>2. live' \subseteq live \cup {j} /\ live \subseteq live' /\ ender' = ender
    BY <1>4 DEF MintAnswered
  <2>. QED
    BY <2>1, <2>2
<1>5. ASSUME NEW k \in Keys, EndClaims(k)
      PROVE  Registry
  BY <1>5 DEF EndClaims, Claim, Claimable
<1>6. ASSUME NEW k \in Keys, EndBegins(k)
      PROVE  Registry
  BY <1>6 DEF EndBegins
<1>7. ASSUME NEW k \in Keys, EndSends(k)
      PROVE  Registry
  BY <1>7 DEF EndSends, DroppedKeys
<1>8. ASSUME NEW k \in Keys, EndSucceeds(k)
      PROVE  Registry
  BY <1>8 DEF EndSucceeds
<1>9. ASSUME NEW k \in Keys, EndCountsOut(k) \/ EndFails(k) \/ Unclaimed(k)
      PROVE  Registry
  BY <1>9 DEF EndCountsOut, EndFails, Unclaimed, Ended
<1>10. ASSUME NEW c \in Closers, SweepBegins(c)
       PROVE  Registry
  BY <1>10 DEF SweepBegins
<1>11. ASSUME UNCHANGED <<live, ender>>
       PROVE  Registry
  BY <1>11
<1>12. ASSUME NEW m \in Calls,
              \/ CallStep(m) \/ CallSettles(m) \/ CallFails(m)
       PROVE  UNCHANGED <<live, ender>>
  BY <1>12 DEF CallStep, CallRefused, CallBegins, CallTimesOut, CallSettles,
      CallFails
<1>13. ASSUME NEW s \in Sessions,
              \/ MintBegins(s) \/ MintCutOff(s) \/ MintFails(s)
              \/ InlineEnds(s) \/ InlineFails(s) \/ MintCountsOut(s)
              \/ MintLands(s) \/ MintDiscarded(s)
              \/ SessionCloses(s) \/ SessionLost(s)
       PROVE  UNCHANGED <<live, ender>>
  BY <1>13 DEF MintBegins, MintCutOff, MintFails, InlineEnds, InlineFails,
      InlineOver, MintCountsOut, MintLands, MintDiscarded, SessionCloses,
      SessionLost
<1>14. ASSUME NEW k \in Keys, KeyAges(k)
       PROVE  UNCHANGED <<live, ender>>
  BY <1>14 DEF KeyAges
<1>15. ASSUME NEW c \in Closers, CloseCalled(c) \/ CloseReturns(c)
       PROVE  UNCHANGED <<live, ender>>
  BY <1>15 DEF CloseCalled, CloseReturns
<1>16. ASSUME SweepEnds \/ SweepFails \/ ConnCloses \/ UNCHANGED vars
       PROVE  UNCHANGED <<live, ender>>
  BY <1>16 DEF SweepEnds, SweepFails, ConnCloses, vars
<1>. QED
  BY <1>1, <1>2, <1>3, <1>4, <1>5, <1>6, <1>7, <1>8, <1>9, <1>10, <1>11,
     <1>12, <1>13, <1>14, <1>15, <1>16
  DEF Next, CallRuns, MintRuns, EndRuns

(* The registry takes a key in unless it has expired, or a close has swept *)
(* it (keys.go:61, client.go:545).                                         *)
LEMMA RefusedKeys ==
    ASSUME IInv, [Next]_vars, NEW k \in Keys, k \in Inline'
    PROVE  \/ k <= minted /\ k \in Inline
           \/ ~(k <= minted) /\ (stage = "open" => age'[k] = "expired")
<1>. USE DEF mintVars, IInv, TypeOK
<1>. DEFINE P == \A s \in Sessions :
                    mint'[s] = "inline" =>
                        mint[s] = "inline" /\ fresh'[s] = fresh[s]
<1>1. ASSUME P
      PROVE  k <= minted /\ k \in Inline
  BY <1>1 DEF Inline, Numbered
<1>2. ASSUME NEW s \in Sessions, NEW j \in Keys, NEW a \in Ages,
             MintAnswered(s, j, a)
      PROVE  \/ k <= minted /\ k \in Inline
             \/ ~(k <= minted) /\ (stage = "open" => age'[k] = "expired")
  <2>1. ~(j <= minted)
    BY <1>2, NextKey DEF MintAnswered
  <2>2. /\ fresh' = [fresh EXCEPT ![s] = j] /\ age' = [age EXCEPT ![j] = a]
        /\ mint'[s] = "inline" /\ stage = "open" => a = "expired"
    BY <1>2 DEF MintAnswered, Answered, Registers
  <2>3. \A t \in Sessions \ {s} : mint'[t] = mint[t]
    BY <1>2 DEF MintAnswered
  <2>4. PICK t \in Sessions : fresh'[t] = k /\ mint'[t] = "inline"
    BY DEF Inline
  <2>5. CASE t = s
    BY <2>1, <2>2, <2>4, <2>5
  <2>6. CASE t # s
    BY <2>2, <2>3, <2>4, <2>6 DEF Inline, Numbered
  <2>. QED
    BY <2>5, <2>6
<1>3. ASSUME NEW m \in Calls, CallStep(m) \/ CallRuns(m)
      PROVE  P
  BY <1>3 DEF CallStep, CallRuns, CallRefused, CallBegins, CallTimesOut,
      CallTakesNoKey, CallLeases, CallSettles, CallFails
<1>4. ASSUME NEW s \in Sessions,
             MintBefore(s) \/ MintBegins(s) \/ MintSends(s) \/ MintCountsOut(s)
      PROVE  P
  BY <1>4 DEF MintBefore, MintBegins, MintSends, MintCountsOut
<1>5. ASSUME NEW s \in Sessions,
             \/ MintCutOff(s) \/ MintFails(s) \/ InlineEnds(s)
             \/ InlineFails(s) \/ MintLands(s) \/ MintDiscarded(s)
      PROVE  P
  BY <1>5 DEF MintCutOff, MintFails, InlineEnds, InlineFails, InlineOver,
      MintLands, MintDiscarded, MintOver
<1>6. ASSUME NEW s \in Sessions, SessionCloses(s) \/ SessionLost(s)
      PROVE  P
  BY <1>6 DEF SessionCloses, SessionLost
<1>7. ASSUME NEW j \in Keys, EndClaims(j) \/ EndRuns(j) \/ KeyAges(j)
      PROVE  P
  BY <1>7 DEF EndClaims, EndRuns, EndBegins, EndSends, EndSucceeds,
      EndCountsOut, EndFails, Unclaimed, Ended, KeyAges
<1>8. ASSUME NEW c \in Closers,
             CloseCalled(c) \/ SweepBegins(c) \/ CloseReturns(c)
      PROVE  P
  BY <1>8 DEF CloseCalled, SweepBegins, CloseReturns
<1>9. ASSUME SweepEnds \/ SweepFails \/ ConnCloses \/ UNCHANGED vars
      PROVE  P
  BY <1>9 DEF SweepEnds, SweepFails, ConnCloses, vars
<1>. QED
  BY <1>1, <1>2, <1>3, <1>4, <1>5, <1>6, <1>7, <1>8, <1>9
  DEF Next, MintRuns

(* The client is swept once and for good (client.go:457, :529).            *)
LEMMA ClosesOn ==
    ASSUME IInv, [Next]_vars
    PROVE  /\ stage' = "open" => stage = "open"
           /\ stage = "open" => stage' \in {"open", "sweeping"}
           /\ stage = "open" /\ stage' = "open" => stopped' = stopped
           /\ stage = "sweeping" => stage' \in {"sweeping", "closed"}
           /\ stage = "closed" => stage' = "closed"
           /\ stage # "open" => stopped' = stopped
           /\ warned \subseteq warned'
           /\ warned' # warned => stage' = stage
<1>1. ASSUME NEW s \in Sessions, NEW k \in Keys, NEW a \in Ages,
             MintAnswered(s, k, a)
      PROVE  UNCHANGED <<stage, stopped, warned>>
  BY <1>1 DEF MintAnswered, closeVars
<1>2. ASSUME NEW s \in Sessions, InlineEnds(s) \/ InlineFails(s)
      PROVE  UNCHANGED <<stage, stopped>> /\ warned \subseteq warned'
  BY <1>2 DEF InlineEnds, InlineFails, InlineOver, closeVars
<1>3. ASSUME NEW k \in Keys, EndSucceeds(k) \/ EndFails(k) \/ KeyAges(k)
      PROVE  UNCHANGED <<stage, stopped, warned>>
  BY <1>3 DEF EndSucceeds, EndFails, KeyAges, closeVars
<1>4. ASSUME NEW c \in Closers, SweepBegins(c)
      PROVE  stage = "open" /\ stage' = "sweeping" /\ warned' = warned
  BY <1>4 DEF SweepBegins
<1>5. CASE SweepEnds \/ SweepFails \/ ConnCloses
  BY <1>5 DEF SweepEnds, SweepFails, ConnCloses
<1>. QED
  BY <1>1, <1>2, <1>3, <1>4, <1>5, StepKinds DEF Steady, IInv, TypeOK

(* Nothing else is ended while forgotten: an end begins of a registered    *)
(* key, and the registry keeps one until its end is answered (keys.go:28). *)
LEMMA ForgottenOnExpiryKept ==
    ASSUME IInv, [Next]_vars
    PROVE  ForgottenOnExpiry'
<1>. SUFFICES ASSUME stage' = "open", NEW k \in Keys,
                     \/ ender'[k] = "claimed" /\ k \notin live'
                     \/ k \in Inline'
              PROVE  age'[k] = "expired"
  BY DEF ForgottenOnExpiry
<1>1. stage = "open"
  BY ClosesOn
<1>2. CASE ender'[k] = "claimed" /\ k \notin live'
  <2>1. ender[k] = "claimed"
    BY <1>2, RegistryMoves DEF Registry
  <2>2. k <= minted
    BY <2>1 DEF IInv, Numbered
  <2>3. age[k] = "expired"
    BY <1>1, <1>2, <2>1, RegistryMoves DEF Registry, IInv, ForgottenOnExpiry
  <2>. QED
    BY <2>2, <2>3, KnownKeys
<1>3. CASE k \in Inline'
  <2>1. CASE k <= minted /\ k \in Inline
    BY <1>1, <2>1, KnownKeys DEF IInv, ForgottenOnExpiry
  <2>. QED
    BY <1>1, <1>3, <2>1, RefusedKeys
<1>. QED
  BY <1>2, <1>3

----------------------------------------------------------------------------
(* The invariant, and what follows from it.                                *)

(* A client is created with no key, no call and nothing to end             *)
(* (client.go:210).                                                        *)
LEMMA InitIInv ==
    ASSUME Init
    PROVE  IInv
<1>1. TypeOK
  <2>1. minted \in 0 .. MaxKeys
    BY BoundAssumption DEF Init
  <2>2. /\ owner \in [Keys -> Sessions \cup {Own}]
        /\ age \in [Keys -> Ages]
        /\ ender \in [Keys -> {"no", "claimed", "begun", "sent",
                               "ended", "failed", "refused"}]
    BY DEF Init, Ages
  <2>3. /\ current \in [Sessions -> Keys \cup {None}]
        /\ fresh \in [Sessions -> Keys \cup {None}]
        /\ mint \in [Sessions -> {"no", "before", "ends", "begun", "sent",
                                  "inline", "landed", "out"}]
        /\ ends \in [Sessions -> SUBSET Keys]
        /\ waits \in [Sessions -> SUBSET Keys]
    BY DEF Init
  <2>4. /\ phase \in [Calls -> {"idle", "begun", "waiting", "sent",
                                "failing", "cutoff", "over"}]
        /\ carries \in [Calls -> Keys \cup {None}]
        /\ closer \in [Closers -> {"idle", "waiting", "done"}]
    BY DEF Init
  <2>. QED
    BY <2>1, <2>2, <2>3, <2>4 DEF Init, TypeOK
<1>2. Numbered
  BY BoundAssumption DEF Init, Numbered, None
<1>3. Owned
  BY DEF Init, Owned, None
<1>4. Lost
  BY DEF Init, Lost
<1>5. OnlySpentEnd
  <2>1. Condemned = {}
    BY DEF Init, Condemned
  <2>. QED
    BY <2>1 DEF OnlySpentEnd
<1>6. EndedForgotten /\ ClaimsAreHeld
  BY DEF Init, EndedForgotten, ClaimsAreHeld
<1>7. SweptOnce
  BY DEF Init, SweptOnce
<1>8. DrainedOnce
  <2>1. CallsIn = {} /\ MintsIn = {} /\ EndsIn = {}
    BY DEF Init, CallsIn, MintsIn, EndsIn
  <2>. QED
    BY <2>1, FS_EmptySet DEF Init, DrainedOnce, Counted
<1>9. KeysAccountedFor
  BY DEF Init, KeysAccountedFor
<1>10. MintedFirst /\ ForgottenOnExpiry
  BY DEF Init, MintedFirst, ForgottenOnExpiry, Inline
<1>. QED
  BY <1>1, <1>2, <1>3, <1>4, <1>5, <1>6, <1>7, <1>8, <1>9, <1>10 DEF IInv

(* The invariant holds of every behaviour, whatever the sessions, calls    *)
(* and closes: one step of Client.mu, Keys.mu or the service keeps each of *)
(* its parts.                                                              *)
THEOREM GoClientInvariant == Spec => []IInv
<1>1. Init => IInv
  BY InitIInv
<1>2. IInv /\ [Next]_vars => IInv'
  <2>. SUFFICES ASSUME IInv, [Next]_vars
                PROVE  IInv'
    OBVIOUS
  <2>1. TypeOK' /\ Numbered' /\ Owned' /\ Lost' /\ OnlySpentEnd'
    BY TypeOKKept, NumberedKept, OwnedKept, LostKept, OnlySpentEndKept
  <2>2. EndedForgotten' /\ ClaimsAreHeld' /\ SweptOnce' /\ DrainedOnce'
    BY EndedForgottenKept, ClaimsAreHeldKept, SweptOnceKept, DrainedOnceKept
  <2>3. KeysAccountedFor' /\ MintedFirst' /\ ForgottenOnExpiry'
    BY KeysAccountedForKept, MintedFirstKept, ForgottenOnExpiryKept
  <2>. QED
    BY <2>1, <2>2, <2>3 DEF IInv
<1>. QED
  BY <1>1, <1>2, PTL DEF Spec

(* The state of the client and of its registry stays within its types:     *)
(* Client.inflight, which is counted down, is never negative               *)
(* (client.go:397).                                                        *)
THEOREM GoClientTypeCorrect == Spec => []TypeOK
<1>1. IInv => TypeOK
  BY DEF IInv
<1>. QED
  BY <1>1, GoClientInvariant, PTL

(* A sweep that found a call in flight did not wait for the drain          *)
(* (client.go:457).                                                        *)
LEMMA SweepUnderCount ==
    ASSUME IInv, sweep # {}, CallsIn \cup EndsIn # {}
    PROVE  stopped
<1>1. drained > 0 \/ stopped
  BY DEF IInv, SweptOnce
<1>2. DrainedOnce /\ TypeOK
  BY DEF IInv
<1>3. inflight \in Nat \ {0}
  BY <1>2, InFlight
<1>4. drained \in Nat /\ ~(drained > 0)
  BY <1>2, <1>3 DEF DrainedOnce, TypeOK
<1>. QED
  BY <1>1, <1>4

(* No key is ended under a call that carries it, by endClaimed() ever, by  *)
(* a sweep unless its Close() stopped waiting (client.go:306).             *)
THEOREM GoNoEndUnderCall == Spec => []NoEndUnderCall
<1>1. ASSUME IInv
      PROVE  NoEndUnderCall
  <2>1. ASSUME NEW k \in Keys, Carriers(k) # {}
        PROVE  ~Ending(k)
    BY <1>1, <2>1 DEF IInv, OnlySpentEnd, Condemned, Spent, Ending
  <2>2. ASSUME NEW k \in Keys, Carriers(k) # {}, k \in sweep
        PROVE  stopped
    <3>1. CallsIn # {}
      BY <2>2 DEF Carriers, CallsIn
    <3>. QED
      BY <1>1, <2>2, <3>1, SweepUnderCount
  <2>. QED
    BY <2>1, <2>2 DEF NoEndUnderCall
<1>. QED
  BY <1>1, GoClientInvariant, PTL

(* A sweep that waited never ends a key that anything else ends or ended   *)
(* (client.go:615).                                                        *)
THEOREM GoNeverEndedAgain == Spec => []NeverEndedAgain
<1>1. ASSUME IInv
      PROVE  NeverEndedAgain
  <2>1. ASSUME NEW k \in sweep, ender[k] \in {"begun", "sent", "ended"}
        PROVE  stopped
    <3>1. k \in EndsIn
      BY <1>1, <2>1 DEF EndsIn, IInv, TypeOK
    <3>. QED
      BY <1>1, <2>1, <3>1, SweepUnderCount
  <2>. QED
    BY <2>1 DEF NeverEndedAgain
<1>. QED
  BY <1>1, GoClientInvariant, PTL

(* Whoever claims a key, and whatever becomes of the end, the claim is     *)
(* given back, and what waits for it is woken (keys.go:28).                *)
THEOREM GoClaimsAreHeld == Spec => []ClaimsAreHeld
<1>1. IInv => ClaimsAreHeld
  BY DEF IInv
<1>. QED
  BY <1>1, GoClientInvariant, PTL

(* Client.drained is closed at most once, and with nothing in flight       *)
(* (client.go:395).                                                        *)
THEOREM GoDrainedOnce == Spec => []DrainedOnce
<1>1. IInv => DrainedOnce
  BY DEF IInv
<1>. QED
  BY <1>1, GoClientInvariant, PTL

(* No key the service would accept is forgotten while it is valid          *)
(* (keys.go:10).                                                           *)
THEOREM GoKeysAccountedFor == Spec => []KeysAccountedFor
<1>1. IInv => KeysAccountedFor
  BY DEF IInv
<1>. QED
  BY <1>1, GoClientInvariant, PTL

----------------------------------------------------------------------------
(* The client implements Keyring: how a step moves each key.               *)

(* What a key is in use by was handed out, or is about to be, after it was *)
(* minted; a step puts only a new key to use (client.go:545).              *)
LEMMA UsedKeys ==
    ASSUME IInv, [Next]_vars, NEW k \in Keys, k <= minted, InUse(k)'
    PROVE  InUse(k)
<1>. USE DEF callVars, mintVars, sessionVars, IInv, TypeOK, Owned, Lost, None,
              Keys, InUse, Inline, Landed, Carriers
<1>1. ASSUME UNCHANGED <<phase, carries, mint, fresh, current, gone>>
      PROVE  InUse(k)
  BY ONLY <1>1, InUse(k)' DEF InUse, Inline, Landed, Carriers
<1>2. ASSUME NEW m \in Calls,
             \/ CallRefused(m) \/ CallBegins(m) \/ CallTimesOut(m)
             \/ CallFails(m) \/ CallSettles(m)
      PROVE  InUse(k)
  BY <1>2 DEF CallRefused, CallBegins, CallTimesOut, CallFails, CallSettles
<1>3. ASSUME NEW m \in Calls, CallTakesNoKey(m)
      PROVE  InUse(k)
  BY <1>3 DEF CallTakesNoKey
<1>4. ASSUME NEW m \in Calls, CallLeases(m)
      PROVE  InUse(k)
  <2>1. /\ SessionOf[m] \in Sessions \ gone /\ phase[m] = "begun"
        /\ UNCHANGED <<fresh, current, gone>>
    BY <1>4, ScopeAssumption DEF CallLeases
  <2>2. \A t \in Sessions : mint'[t] \in {mint[t], "before"}
    BY <1>4, <2>1 DEF CallLeases
  <2>3. Landed' \subseteq Landed
    BY <2>1, <2>2
  <2>4. \A n \in Calls : phase'[n] = "sent" /\ carries'[n] = k =>
           \/ phase[n] = "sent" /\ carries[n] = k
           \/ current[SessionOf[m]] = k
    BY <1>4 DEF CallLeases
  <2>. QED
    BY <2>1, <2>3, <2>4
<1>5. ASSUME NEW s \in Sessions,
             MintBefore(s) \/ MintBegins(s) \/ MintSends(s) \/ MintCountsOut(s)
      PROVE  InUse(k)
  BY <1>5 DEF MintBefore, MintBegins, Ready, MintSends, MintCountsOut
<1>6. ASSUME NEW s \in Sessions,
             \/ MintCutOff(s) \/ MintFails(s) \/ MintDiscarded(s)
             \/ InlineEnds(s) \/ InlineFails(s)
      PROVE  InUse(k)
  <2>1. /\ mint' = [mint EXCEPT ![s] = "no"]
        /\ fresh' = [fresh EXCEPT ![s] = None]
        /\ UNCHANGED <<carries, current, gone>>
    BY <1>6 DEF MintCutOff, MintFails, MintDiscarded, InlineEnds,
        InlineFails, InlineOver, MintOver
  <2>2. \A m \in Calls : phase'[m] = "sent" => phase[m] = "sent"
    BY <1>6 DEF MintCutOff, MintFails, MintDiscarded, InlineEnds,
        InlineFails, InlineOver, MintOver
  <2>3. Landed' \subseteq Landed
    BY <2>1
  <2>. QED
    BY <2>1, <2>2, <2>3
<1>7. ASSUME NEW s \in Sessions, NEW j \in Keys, NEW a \in Ages,
             MintAnswered(s, j, a)
      PROVE  InUse(k)
  <2>1. k # j
    BY <1>7, NextKey DEF MintAnswered
  <2>2. /\ fresh' = [fresh EXCEPT ![s] = j]
        /\ \A t \in Sessions \ {s} : mint'[t] = mint[t]
        /\ UNCHANGED <<phase, carries, current, gone>>
    BY <1>7 DEF MintAnswered, Answered
  <2>. QED
    BY <2>1, <2>2
<1>8. ASSUME NEW s \in Sessions, MintLands(s)
      PROVE  InUse(k)
  BY <1>8 DEF MintLands
<1>9. ASSUME NEW s \in Sessions, SessionCloses(s)
      PROVE  InUse(k)
  BY <1>9 DEF SessionCloses
<1>10. ASSUME NEW s \in Sessions, SessionLost(s)
       PROVE  InUse(k)
  BY <1>10 DEF SessionLost
<1>11. ASSUME NEW j \in Keys, EndClaims(j) \/ EndRuns(j) \/ KeyAges(j)
       PROVE  UNCHANGED <<phase, carries, mint, fresh, current, gone>>
  BY <1>11 DEF EndClaims, EndRuns, EndBegins, EndSends, EndSucceeds,
      EndCountsOut, EndFails, Unclaimed, KeyAges
<1>12. ASSUME NEW c \in Closers,
              CloseCalled(c) \/ SweepBegins(c) \/ CloseReturns(c)
       PROVE  UNCHANGED <<phase, carries, mint, fresh, current, gone>>
  BY <1>12 DEF CloseCalled, SweepBegins, CloseReturns
<1>13. ASSUME SweepEnds \/ SweepFails \/ ConnCloses \/ UNCHANGED vars
       PROVE  UNCHANGED <<phase, carries, mint, fresh, current, gone>>
  BY <1>13 DEF SweepEnds, SweepFails, ConnCloses, vars
<1>. QED
  BY <1>1, <1>2, <1>3, <1>4, <1>5, <1>6, <1>7, <1>8, <1>9, <1>10, <1>11,
     <1>12, <1>13
  DEF Next, CallStep, CallRuns, MintRuns

(* A key being ended is in no use, unless its Close() stopped waiting, and *)
(* one that is forgotten was ended or has expired (client.go:306).         *)
Apart ==
    \A k \in Keys :
        /\ InUse(k) => k <= minted
        /\ k \in Inline => ~InUse(k)
        /\ k \notin Lent => Carriers(k) = {}
        /\ k \in BeingEnded => k \notin Lent \/ Closing = "abandoned"
        /\ Fate(k) = "over" => k \notin alive \/ k \in Lapsed

LEMMA KeysApart == IInv => Apart
<1>. SUFFICES ASSUME IInv, NEW k \in Keys
              PROVE  /\ InUse(k) => k <= minted
                     /\ k \in Inline => ~InUse(k)
                     /\ k \notin Lent => Carriers(k) = {}
                     /\ k \in BeingEnded => k \notin Lent \/ Closing = "abandoned"
                     /\ Fate(k) = "over" => k \notin alive \/ k \in Lapsed
  BY DEF Apart
<1>1. InUse(k) => k <= minted
  BY DEF InUse, Inline, Landed, Carriers, IInv, Numbered
<1>2. k \in Inline => ~InUse(k)
  BY DEF InUse, Inline, Landed, IInv, Owned, None, Keys
<1>3. ASSUME k \notin Lent, Carriers(k) # {}
      PROVE  FALSE
  <2>1. stage # "open" /\ ~stopped
    BY <1>3 DEF Lent, InUse
  <2>2. inflight = 0 /\ DrainedOnce
    BY <2>1 DEF IInv, SweptOnce, DrainedOnce
  <2>3. CallsIn = {}
    BY <2>2, InFlight
  <2>. QED
    BY <1>3, <2>3 DEF Carriers, CallsIn
<1>4. ASSUME k \in BeingEnded
      PROVE  k \notin Lent \/ Closing = "abandoned"
  <2>1. Ending(k) => ~InUse(k)
    BY DEF Ending, InUse, Inline, Landed, IInv, OnlySpentEnd, Condemned, Spent
  <2>2. Lowest(k) => stage # "open"
    BY DEF Lowest, IInv, SweptOnce
  <2>. QED
    BY <1>2, <1>4, <2>1, <2>2 DEF BeingEnded, Lent, Closing
<1>5. ASSUME Fate(k) = "over"
      PROVE  k \notin alive \/ k \in Lapsed
  <2>1. /\ k <= minted /\ k \notin warned /\ k \notin live
        /\ k \notin sweep /\ k \notin Inline
    BY <1>5 DEF Fate, BeingEnded
  <2>. QED
    BY <2>1 DEF IInv, KeysAccountedFor, TypeOK, Lapsed, Inline
<1>. QED
  BY <1>1, <1>2, <1>3, <1>4, <1>5

(* So it is after every step (client.go:306).                              *)
LEMMA KeysApartNext == IInv' => Apart'
  BY KeysApart, PTL

(* A key is named in a warning as the sweep gives it up, or the mint that  *)
(* brought it does, which ends only a key that has expired unless there is *)
(* no registry for it any more (client.go:529, :557).                      *)
LEMMA WarnedKeys ==
    ASSUME IInv, [Next]_vars, NEW k \in Keys, k <= minted,
           k \notin warned, k \in warned'
    PROVE  /\ k \notin Lent' \/ Closing' = "abandoned"
           /\ Closing' # "open" \/ k \in Lapsed'
<1>1. Closing' = "open" <=> stage' = "open"
  BY DEF Closing
<1>2. stage' # "open" => Lent' = {} \/ Closing' = "abandoned"
  BY DEF Lent, Closing
<1>3. k \in sweep \/ k \in Inline
  BY KnownKeys
<1>4. k \in sweep => stage' # "open"
  BY ClosesOn DEF IInv, SweptOnce
<1>5. ASSUME k \in Inline
      PROVE  /\ k \notin Lent'
             /\ stage' = "open" => k \in Lapsed'
  <2>1. ~InUse(k)
    BY <1>5, KeysApart DEF Apart
  <2>2. ~InUse(k)'
    BY <2>1, UsedKeys
  <2>3. stage' = "open" => age'[k] = "expired" /\ k <= minted'
    BY <1>5, ClosesOn, KnownKeys DEF IInv, ForgottenOnExpiry
  <2>. QED
    BY <2>2, <2>3 DEF Lent, Lapsed
<1>. QED
  BY <1>1, <1>2, <1>3, <1>4, <1>5

(* Each key moves as Keyring says, or stays where it is.                   *)
LEMMA KeyMoves ==
    ASSUME IInv, IInv', [Next]_vars, NEW k \in Keys
    PROVE  \/ Fates'[k] = Fates[k]
           \/ K!Kept(k) \/ K!EndBegins(k) \/ K!EndFailed(k)
           \/ K!Forgotten(k) \/ K!Warned(k)
<1>1. Fates[k] = Fate(k) /\ Fates'[k] = Fate(k)'
  BY DEF Fates
<1>2. /\ Fate(k)' = "ending" => k \notin Lent' \/ Closing' = "abandoned"
      /\ Fate(k)' = "over" => k \notin alive' \/ k \in Lapsed'
  BY KeysApartNext DEF Apart, Fate
<1>3. Fate(k)' \in {"unminted", "kept", "ending", "over", "warned"}
  BY DEF Fate
<1>4. CASE Fate(k) = "unminted"
  <2>1. ~(k <= minted)
    BY <1>4 DEF Fate
  <2>2. k \notin warned
    BY <2>1 DEF IInv, MintedFirst
  <2>3. Fate(k)' # "warned"
    BY <2>1, <2>2, NewKeys DEF Fate
  <2>. QED
    BY <1>1, <1>2, <1>3, <1>4, <2>3 DEF K!Kept, K!EndBegins, K!Forgotten,
        K!Moves, K!OutOfUse
<1>5. CASE Fate(k) = "warned"
  <2>1. k <= minted /\ k \in warned
    BY <1>5 DEF Fate
  <2>2. k <= minted' /\ k \in warned'
    BY <2>1, KnownKeys, ClosesOn
  <2>. QED
    BY <1>1, <1>5, <2>2 DEF Fate
<1>6. CASE Fate(k) \in {"kept", "ending"}
  <2>1. k <= minted /\ k \notin warned
    BY <1>6 DEF Fate
  <2>2. Fate(k)' # "unminted"
    BY <2>1, KnownKeys DEF Fate
  <2>3. Fate(k)' = "warned" =>
           /\ k \notin Lent' \/ Closing' = "abandoned"
           /\ Closing' # "open" \/ k \in Lapsed'
    <3>1. Fate(k)' = "warned" => k \in warned'
      BY DEF Fate
    <3>. QED
      BY <2>1, <3>1, WarnedKeys
  <2>. QED
    BY <1>1, <1>2, <1>3, <1>6, <2>2, <2>3 DEF K!EndBegins, K!EndFailed,
        K!Forgotten, K!Warned, K!Moves, K!OutOfUse
<1>7. CASE Fate(k) = "over"
  <2>1. /\ k <= minted /\ k \notin warned /\ k \notin live /\ k \notin sweep
        /\ ~Ending(k) /\ k \notin Inline
    BY <1>7 DEF Fate, BeingEnded
  <2>2. k <= minted' /\ k \notin warned' /\ k \notin sweep'
    BY <2>1, KnownKeys
  <2>3. k \notin live' /\ k \notin Inline'
    BY <2>1, <2>2, RegistryMoves, RefusedKeys DEF Registry
  <2>4. CASE Ending(k)'
    <3>1. ender[k] = "claimed" /\ ~closed
      BY <2>1, <2>4, RegistryMoves DEF Registry
    <3>2. stage = "open"
      BY <3>1 DEF IInv, SweptOnce
    <3>3. k \in Lapsed
      BY <2>1, <3>1, <3>2 DEF IInv, ForgottenOnExpiry, Lapsed
    <3>4. k \in BeingEnded'
      BY <2>4 DEF BeingEnded, Ending, Lowest
    <3>5. Fate(k)' = "ending"
      BY <2>2, <3>4 DEF Fate
    <3>. QED
      BY <1>1, <1>2, <1>7, <3>3, <3>5 DEF K!EndBegins, K!Moves, K!OutOfUse
  <2>5. CASE ~Ending(k)'
    <3>1. k \notin BeingEnded'
      BY <2>2, <2>3, <2>5 DEF BeingEnded, Ending, Lowest
    <3>. QED
      BY <1>1, <1>7, <2>2, <2>3, <3>1 DEF Fate
  <2>. QED
    BY <2>4, <2>5
<1>. QED
  BY <1>4, <1>5, <1>6, <1>7 DEF Fate

(* A key is lent from its mint to its last lease, and the service drops no *)
(* other than those it is asked to (client.go:545, :615).                  *)
LEMMA KeysLent ==
    ASSUME IInv, IInv', [Next]_vars
    PROVE  K!Lending /\ K!Service
<1>1. \A k \in Keys : Fates[k] = Fate(k) /\ Fates'[k] = Fate(k)'
  BY DEF Fates
<1>2. \A k \in Keys : /\ Carried[k] = Carriers(k)
                      /\ Carried'[k] = Carriers(k)'
  BY DEF Carried
<1>3. ASSUME NEW k \in Lent' \ Lent
      PROVE  Fates[k] = "unminted" /\ k \in alive'
  <2>1. k \in Keys /\ InUse(k)' /\ (stage' = "open" \/ stopped')
    BY <1>3 DEF Lent
  <2>2. k <= minted'
    BY <2>1, KeysApartNext DEF Apart
  <2>3. stage = "open" \/ stopped
    BY <2>1, ClosesOn
  <2>4. ~(k <= minted)
    BY <1>3, <2>1, <2>3, UsedKeys DEF Lent
  <2>. QED
    BY <1>1, <2>1, <2>2, <2>4, NewKeys DEF Fate
<1>4. ASSUME NEW k \in Keys, k \notin Lent'
      PROVE  Carried'[k] = {}
  BY <1>2, <1>4, KeysApartNext DEF Apart
<1>5. ASSUME NEW k \in alive' \ alive
      PROVE  Fates[k] = "unminted" /\ Fates'[k] # "unminted"
  <2>1. k \in Keys
    BY <1>5 DEF IInv, TypeOK
  <2>2. ~(k <= minted) /\ k <= minted'
    BY <1>5, <2>1, KnownKeys, NewKeys
  <2>. QED
    BY <1>1, <2>1, <2>2 DEF Fate
<1>6. ASSUME NEW k \in alive \ alive'
      PROVE  Fates[k] \in {"ending", "warned"}
  <2>1. k \in Keys /\ k <= minted
    BY <1>6 DEF IInv, TypeOK, MintedFirst
  <2>2. k \in BeingEnded
    BY <1>6, <2>1, KnownKeys DEF BeingEnded
  <2>. QED
    BY <1>1, <2>1, <2>2 DEF Fate
<1>7. Lapsed \subseteq Lapsed'
  BY KnownKeys DEF Lapsed
<1>8. Lent \subseteq Keys
  BY DEF Lent
<1>. QED
  BY <1>3, <1>4, <1>5, <1>6, <1>7, <1>8 DEF K!Lending, K!Service, K!Moves

(* Once drained the client makes no call, and once its connection is       *)
(* released it has no key left to end (client.go:395, :529).               *)
Finished ==
    stage # "open" /\ ~stopped =>
        /\ Lent = {} /\ Carried = [k \in Keys |-> {}]
        /\ stage = "closed" =>
              \A k \in Keys : Fate(k) # "kept" /\ k \notin BeingEnded

LEMMA ClosingIsQuiet == IInv => Finished
<1>. SUFFICES ASSUME IInv, stage # "open", ~stopped
              PROVE  Finished
  BY DEF Finished
<1>1. inflight = 0 /\ DrainedOnce
  BY DEF IInv, SweptOnce, DrainedOnce
<1>2. CallsIn = {} /\ MintsIn = {} /\ EndsIn = {}
  BY <1>1, InFlight
<1>3. Lent = {}
  BY DEF Lent
<1>4. Carried = [k \in Keys |-> {}]
  BY <1>2 DEF Carried, Carriers, CallsIn
<1>5. ASSUME stage = "closed", NEW k \in Keys
      PROVE  Fate(k) # "kept" /\ k \notin BeingEnded
  <2>1. sweep = {} /\ live = {}
    BY <1>5 DEF IInv, SweptOnce
  <2>. QED
    BY <1>2, <2>1 DEF Fate, BeingEnded, Ending, EndsIn, Inline, MintsIn, Lowest
<1>. QED
  BY <1>3, <1>4, <1>5 DEF Finished

(* So it is after every step (client.go:529).                              *)
LEMMA ClosingIsQuietNext == IInv' => Finished'
  BY ClosingIsQuiet, PTL

(* Close() waits for the calls and releases the connection once nothing is *)
(* left to end, or its ctx ends first; a closed client does nothing more   *)
(* (client.go:306, :457, :529).                                            *)
LEMMA CloseGoesOn ==
    ASSUME IInv, IInv', [Next]_vars
    PROVE  /\ K!Closing /\ K!Released
           /\ Closing \in {"drained", "released"} => UNCHANGED <<Lent, Carried>>
           /\ Closing = "released" => UNCHANGED <<Fates, alive>>
<1>1. /\ stage \in {"open", "sweeping", "closed"}
      /\ stage' \in {"open", "sweeping", "closed"}
      /\ stopped \in BOOLEAN /\ stopped' \in BOOLEAN
  BY DEF IInv, TypeOK
<1>2. /\ Closing = "drained" <=> stage = "sweeping" /\ ~stopped
      /\ Closing = "released" <=> stage = "closed" /\ ~stopped
      /\ Closing = "abandoned" <=> stage # "open" /\ stopped
      /\ Closing = "open" <=> stage = "open"
  BY <1>1 DEF Closing
<1>3. /\ Closing' = "drained" <=> stage' = "sweeping" /\ ~stopped'
      /\ Closing' = "released" <=> stage' = "closed" /\ ~stopped'
      /\ Closing' = "abandoned" <=> stage' # "open" /\ stopped'
      /\ Closing' = "open" <=> stage' = "open"
  BY <1>1 DEF Closing
<1>4. stage' # "open" /\ ~stopped' => Lent' = {}
  BY DEF Lent
<1>5. /\ stage' = "open" => stage = "open"
      /\ stage = "open" => stage' \in {"open", "sweeping"}
      /\ stage = "sweeping" => stage' \in {"sweeping", "closed"}
      /\ stage = "closed" => stage' = "closed"
      /\ stage # "open" => stopped' = stopped
  BY ClosesOn
<1>6. \A k \in Keys : Fates[k] = Fate(k) /\ Fates'[k] = Fate(k)'
  BY DEF Fates
<1>7. Finished /\ Finished'
  BY ClosingIsQuiet, ClosingIsQuietNext
<1>8. K!Closing
  BY <1>1, <1>2, <1>3, <1>4, <1>5 DEF K!Closing
<1>9. K!Released
  <2>1. \A k \in Keys : Fate(k)' = "ending" => k \in BeingEnded'
    BY DEF Fate
  <2>. QED
    BY <1>3, <1>6, <1>7, <2>1 DEF K!Released, Finished
<1>10. Closing \in {"drained", "released"} => UNCHANGED <<Lent, Carried>>
  BY <1>1, <1>2, <1>5, <1>7 DEF Finished
<1>11. ASSUME stage = "closed", ~stopped, NEW k \in Keys
       PROVE  Fate(k)' = Fate(k) /\ (k \in alive' <=> k \in alive)
  <2>1. CASE ~(k <= minted)
    <3>1. ~(k <= minted') /\ k \notin alive'
      BY <1>11, <2>1, NewKeys
    <3>2. k \notin alive
      BY <2>1 DEF IInv, MintedFirst
    <3>. QED
      BY <2>1, <3>1, <3>2 DEF Fate
  <2>2. CASE k <= minted
    <3>1. Fate(k) \in {"over", "warned"}
      BY <1>7, <1>11, <2>2 DEF Finished, Fate
    <3>2. Fate(k)' \notin {"kept", "ending"}
      BY <1>5, <1>7, <1>11 DEF Finished, Fate
    <3>3. Fate(k)' = Fate(k)
      BY <1>6, <3>1, <3>2, KeyMoves DEF K!Kept, K!EndBegins, K!EndFailed,
          K!Forgotten, K!Warned, K!Moves
    <3>4. k \in alive' => k \in alive
      BY <2>2, KnownKeys
    <3>5. k \in alive => k \in alive'
      BY <1>7, <1>11, <2>2, KnownKeys DEF Finished, BeingEnded, Ending
    <3>. QED
      BY <3>3, <3>4, <3>5
  <2>. QED
    BY <2>1, <2>2
<1>12. ASSUME stage = "closed", ~stopped
       PROVE  UNCHANGED <<Fates, alive>>
  <2>1. alive \subseteq Keys /\ alive' \subseteq Keys
    BY DEF IInv, TypeOK
  <2>2. alive' = alive
    BY <1>11, <1>12, <2>1
  <2>3. Fates' = Fates
    BY <1>11, <1>12 DEF Fates
  <2>. QED
    BY <2>2, <2>3
<1>. QED
  BY <1>2, <1>8, <1>9, <1>10, <1>12

(* The client's state is one of Keyring's (client.go:306).                 *)
LEMMA KeyringTypes == IInv => K!KeyringTypeOK
<1>. SUFFICES ASSUME IInv
              PROVE  K!KeyringTypeOK
  OBVIOUS
<1>1. Fates \in [Keys -> {"unminted", "kept", "ending", "over", "warned"}]
  BY DEF Fates, Fate
<1>2. Carried \in [Keys -> SUBSET Calls]
  BY DEF Carried, Carriers
<1>3. Lent \subseteq Keys /\ alive \subseteq Keys /\ Lapsed \subseteq Keys
  BY DEF Lent, Lapsed, IInv, TypeOK
<1>4. Closing \in {"open", "drained", "released", "abandoned"}
  BY DEF Closing
<1>. QED
  BY <1>1, <1>2, <1>3, <1>4 DEF K!KeyringTypeOK

(* So it is after every step (client.go:306).                              *)
LEMMA KeyringTypesNext == IInv' => K!KeyringTypeOK'
  BY KeyringTypes, PTL

(* The client keeps the promise of Keyring, as the Node.js one does: a key *)
(* is lent only while it may be used, ended only out of use unless a       *)
(* Close() stopped waiting, remembered until its end is answered or it has *)
(* expired, and otherwise named in a warning (client.go:306, :457, :529,   *)
(* :545, :615; keys.go:10).                                                *)
THEOREM GoClientKeepsKeyring == Spec => KeepsKeyring
<1>1. Init => K!KeyringInit
  <2>. SUFFICES ASSUME Init
                PROVE  K!KeyringInit
    OBVIOUS
  <2>1. \A k \in Keys : ~(k <= minted)
    BY BoundAssumption DEF Init, Keys
  <2>2. Fates = [k \in Keys |-> "unminted"]
    BY <2>1 DEF Fates, Fate
  <2>3. Carried = [k \in Keys |-> {}]
    BY DEF Init, Carried, Carriers
  <2>4. Lapsed = {}
    BY <2>1 DEF Lapsed
  <2>5. Lent = {}
    BY DEF Init, Lent, InUse, Inline, Landed, Carriers, Keys, None
  <2>6. alive = {} /\ Closing = "open"
    BY DEF Init, Closing
  <2>. QED
    BY <2>2, <2>3, <2>4, <2>5, <2>6 DEF K!KeyringInit
<1>2. IInv /\ IInv' /\ [Next]_vars => [K!KeyringNext]_(K!keyringVars)
  <2>. SUFFICES ASSUME IInv, IInv', [Next]_vars
                PROVE  K!KeyringNext
    OBVIOUS
  <2>1. K!KeyringTypeOK'
    BY KeyringTypesNext
  <2>2. \A k \in Keys :
           \/ Fates'[k] = Fates[k]
           \/ K!Kept(k) \/ K!EndBegins(k) \/ K!EndFailed(k)
           \/ K!Forgotten(k) \/ K!Warned(k)
    BY KeyMoves
  <2>3. K!Lending /\ K!Service
    BY KeysLent
  <2>. QED
    BY <2>1, <2>2, <2>3, CloseGoesOn DEF K!KeyringNext
<1>. QED
  BY <1>1, <1>2, GoClientInvariant, PTL DEF Spec, KeepsKeyring, K!KeyringSpec
=============================================================================
