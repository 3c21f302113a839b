---------------------------- MODULE ClientProofs ---------------------------
(***************************************************************************)
(* The safety properties of Client.tla, for every number of sessions,      *)
(* calls and keys, from one inductive invariant.                           *)
(*                                                                         *)
(* IInv relates what the client counts to what runs (CountsWhatRuns), the  *)
(* registry to the ends in flight (EndsShared) and to what the service     *)
(* still accepts (Registered), and the keys that are ended to those that   *)
(* nobody will use again (OnlySpentEnd, from who holds what: Numbered,     *)
(* Owned, Lost).  The steps that end keys are first shown to begin those   *)
(* ends and no other (Begins); then one lemma per part shows that no step  *)
(* breaks it.  The last part shows that the client implements Keyring.     *)
(***************************************************************************)
EXTENDS Client, FiniteSetTheorems, TLAPS

(* Calls, mints and ends in flight are finitely many (client.ts:401).      *)
LEMMA CountsFinite ==
    /\ IsFiniteSet(Windows) /\ Cardinality(Windows) \in Nat
    /\ IsFiniteSet(MintWindows) /\ Cardinality(MintWindows) \in Nat
    /\ IsFiniteSet(EndWindows) /\ Cardinality(EndWindows) \in Nat
<1>1. /\ Windows \subseteq Calls /\ MintWindows \subseteq Sessions
      /\ EndWindows \subseteq 1 .. MaxKeys
  BY DEF Windows, MintWindows, EndWindows, Keys
<1>2. IsFiniteSet(1 .. MaxKeys)
  BY BoundAssumption, FS_Interval
<1>3. /\ IsFiniteSet(Windows) /\ IsFiniteSet(MintWindows)
      /\ IsFiniteSet(EndWindows)
  BY <1>1, <1>2, CallsAssumption, FS_Subset
<1>. QED
  BY <1>3, FS_CardinalityType

(* Nothing is in flight when Memco.inflight is zero (client.ts:358).       *)
LEMMA NothingInFlight ==
    ASSUME CountsWhatRuns, inflight = 0
    PROVE  Windows = {} /\ MintWindows = {} /\ EndWindows = {}
<1>1. /\ Windows # {} => Cardinality(Windows) # 0
      /\ MintWindows # {} => Cardinality(MintWindows) # 0
      /\ EndWindows # {} => Cardinality(EndWindows) # 0
  BY CountsFinite, FS_EmptySet
<1>2. /\ Cardinality(Windows) = 0 /\ Cardinality(MintWindows) = 0
      /\ Cardinality(EndWindows) = 0
  BY CountsFinite DEF CountsWhatRuns, Counted
<1>. QED
  BY <1>1, <1>2

(* From the sweep on, nothing is in flight (client.ts:731).                *)
LEMMA Quiet ==
    ASSUME IInv, stage \in {"sweeping", "closed"}
    PROVE  /\ Windows = {} /\ MintWindows = {} /\ EndWindows = {}
           /\ closed /\ live = {}
BY NothingInFlight DEF IInv, Stages

(* The service numbers a new key past those known (client.ts:550).         *)
LEMMA NextKey ==
    ASSUME TypeOK, NEW s, NEW k \in Keys, NEW a, Minted(s, k, a)
    PROVE  ~(k <= minted) /\ minted <= k /\ minted' = k
           /\ minted' \in 0 .. MaxKeys
BY BoundAssumption DEF Minted, TypeOK, Keys

(* An end goes out only for a key with none in flight (client.ts:637): the *)
(* registry says so of what it has, the holder of the rest.                *)
LEMMA StartedIdle ==
    ASSUME IInv, NEW E, E \subseteq Keys, NEW sends,
           \A k \in E : k \in live \/ ending[k] = 0
    PROVE  /\ Started(E, sends) \subseteq (E \cup DroppedKeys) \cap Keys
           /\ \A k \in Started(E, sends) : ending[k] = 0 /\ ~closed
BY DEF IInv, TypeOK, EndsShared, Started, Sends, DroppedKeys

(* What becomes of the ends when some begin (client.ts:642).               *)
LEMMA EndsBegun ==
    ASSUME IInv, NEW E, E \subseteq Keys, NEW L, NEW sends,
           \A k \in E : k \in live \/ ending[k] = 0,
           EndKeys(E, L, sends)
    PROVE  /\ \A k \in Keys :
                 ending'[k] = IF k \in Started(E, sends) THEN 1 ELSE ending[k]
           /\ ending' \in [Keys -> Nat]
           /\ dropped' \in {dropped, {}}
           /\ pending' \subseteq L
           /\ \A k \in L \cap live : k \in pending' <=> ending'[k] > 0
<1>. DEFINE S == Started(E, sends)
<1>1. /\ S \subseteq Keys /\ \A k \in S : ending[k] = 0
  BY StartedIdle
<1>2. ending' = [k \in Keys |-> IF k \in S THEN ending[k] + 1 ELSE ending[k]]
  BY DEF EndKeys
<1>3. \A k \in Keys : ending'[k] = IF k \in S THEN 1 ELSE ending[k]
  BY <1>1, <1>2 DEF IInv, TypeOK
<1>4. /\ pending' = (pending \cup S) \cap L /\ pending' \subseteq L
      /\ dropped' \in {dropped, {}}
  BY DEF EndKeys
<1>5. \A k \in live : k \in Keys /\ (k \in pending <=> ending[k] > 0)
  BY DEF IInv, TypeOK, EndsShared
<1>6. ending' \in [Keys -> Nat]
  BY <1>2, <1>3 DEF IInv, TypeOK
<1>7. ASSUME NEW k \in L \cap live
      PROVE  k \in pending' <=> ending'[k] > 0
  <2>1. ending'[k] = IF k \in S THEN 1 ELSE ending[k]
    BY <1>3, <1>5
  <2>2. k \in pending' <=> k \in pending \/ k \in S
    BY <1>4
  <2>. QED
    BY <1>5, <2>1, <2>2
<1>8. \A k \in L \cap live : k \in pending' <=> ending'[k] > 0
  BY <1>7
<1>9. \A k \in Keys :
         ending'[k] = IF k \in Started(E, sends) THEN 1 ELSE ending[k]
  BY <1>3
<1>. QED
  BY <1>4, <1>6, <1>8, <1>9

(* The key a holder gives up is not being ended (auth.ts:186).             *)
LEMMA RetiringIdle ==
    ASSUME IInv, NEW s \in Sessions, s \notin gone
    PROVE  /\ EndOnRetiring(current[s]) \subseteq {current[s]} \cap Keys
           /\ \A k \in EndOnRetiring(current[s]) :
                 Carriers(k) = {} /\ ending[k] = 0
BY DEF IInv, TypeOK, OnlySpentEnd, Spent, EndOnRetiring

(* Nor is the one a last use gives back (auth.ts:345).                     *)
LEMMA LastUseIdle ==
    ASSUME IInv, NEW m \in Calls
    PROVE  /\ EndOnLastUse(m) \subseteq Keys
           /\ \A k \in EndOnLastUse(m) :
                 /\ k = carries[m] /\ k \in retired
                 /\ Carriers(k) = {m} /\ ending[k] = 0
<1>1. ASSUME NEW k \in EndOnLastUse(m)
      PROVE  /\ k \in Keys /\ k = carries[m] /\ k \in retired
             /\ Carriers(k) = {m} /\ ending[k] = 0
  <2>1. k \in Keys /\ k = carries[m] /\ k \in retired /\ Carriers(k) = {m}
    BY DEF IInv, TypeOK, EndOnLastUse
  <2>2. ~Spent(k)
    BY <2>1 DEF Spent
  <2>3. ending[k] \in Nat /\ ~(ending[k] > 0)
    BY <2>1, <2>2 DEF IInv, TypeOK, OnlySpentEnd
  <2>. QED
    BY <2>1, <2>3
<1>. QED
  BY <1>1

(* The ends a mint makes first are of registered keys (client.ts:540).     *)
LEMMA FirstIdle ==
    ASSUME IInv, NEW s
    PROVE  ToEndFirst(s) \subseteq live /\ live \subseteq Keys
BY DEF IInv, TypeOK, ToEndFirst, Unexpired

(* A call of a session takes its key or waits for one, and may start a     *)
(* mint, while neither it nor the client is closed (auth.ts:309).          *)
Enters(m) ==
    /\ phase[m] = "idle" /\ ~closed
    /\ SessionOf[m] \in Sessions \ gone /\ shut[SessionOf[m]] = "open"
    /\ \/ /\ current[SessionOf[m]] # None
          /\ phase' = [phase EXCEPT ![m] = "sent"]
          /\ carries' = [carries EXCEPT ![m] = current[SessionOf[m]]]
       \/ /\ phase' = [phase EXCEPT ![m] = "waiting"]
          /\ carries' = carries
    /\ \/ mint' = mint
       \/ /\ mint[SessionOf[m]] = "no"
          /\ mint' = [mint EXCEPT ![SessionOf[m]] = "ends"]
    /\ live' \subseteq live /\ dropped' \in {dropped, {}}
    /\ UNCHANGED <<closed, stage, sweep, warned, minted, owner, age>>
    /\ UNCHANGED <<retired, alive, current, fresh, shut, gone>>

(* Both ways in, by joining a mint or by starting one (auth.ts:316).       *)
LEMMA CallEnters ==
    ASSUME TypeOK, NEW m \in Calls, CallJoins(m) \/ CallMints(m)
    PROVE  Enters(m)
<1>1. /\ phase[m] = "idle" /\ ~closed
      /\ SessionOf[m] \in Sessions \ gone /\ shut[SessionOf[m]] = "open"
  BY ScopeAssumption DEF CallJoins, CallMints, Idle
<1>2. \/ /\ current[SessionOf[m]] # None
         /\ phase' = [phase EXCEPT ![m] = "sent"]
         /\ carries' = [carries EXCEPT ![m] = current[SessionOf[m]]]
      \/ /\ phase' = [phase EXCEPT ![m] = "waiting"]
         /\ carries' = carries
  BY DEF CallJoins, CallMints, HasKey, Carry, Wait
<1>3. /\ \/ mint' = mint
         \/ /\ mint[SessionOf[m]] = "no"
            /\ mint' = [mint EXCEPT ![SessionOf[m]] = "ends"]
      /\ live' \subseteq live
      /\ UNCHANGED <<closed, stage, sweep, warned, minted, owner, age>>
      /\ UNCHANGED <<retired, alive, current, fresh, shut, gone>>
  BY DEF CallJoins, CallMints, Unexpired, sessionVars
<1>4. dropped' \in {dropped, {}}
  BY DEF CallJoins, CallMints, EndKeys
<1>. QED
  BY <1>1, <1>2, <1>3, <1>4 DEF Enters

(* A key that arrives expired is ended before its mint rejects             *)
(* (client.ts:575).                                                        *)
Condemns(s, k) ==
    /\ mint' = [mint EXCEPT ![s] = "refusing"]
    /\ fresh' = [fresh EXCEPT ![s] = k]
    /\ phase' = phase
    /\ EndKeys({k}, live, FALSE)
    /\ Count(Cardinality(Started({k}, FALSE)), 0)

(* A key that arrives expired is refused at once, or when it was ended     *)
(* (client.ts:571).                                                        *)
Skews(s, k) ==
    /\ mint[s] = "sent"
    /\ ~(k <= minted) /\ minted <= k /\ minted' = k
    /\ owner' = [owner EXCEPT ![k] = s]
    /\ age' = [age EXCEPT ![k] = "expired"]
    /\ alive' = alive \cup {k}
    /\ dropped' \in {dropped, {}}
    /\ UNCHANGED <<closed, stage, sweep, warned, live, failed>>
    /\ UNCHANGED <<retired, carries, current, shut, gone>>
    /\ \/ MintOver(s, "done") /\ UNCHANGED <<ending, pending>>
       \/ Condemns(s, k)

(* Whether the client is closing or not (client.ts:572).                   *)
LEMMA SkewedEnters ==
    ASSUME TypeOK, NEW s \in Sessions, NEW k \in Keys, MintSkewed(s, k)
    PROVE  Skews(s, k)
<1>1. ~(k <= minted) /\ minted <= k /\ minted' = k
  BY NextKey DEF MintSkewed
<1>2. /\ mint[s] = "sent"
      /\ owner' = [owner EXCEPT ![k] = s]
      /\ age' = [age EXCEPT ![k] = "expired"]
      /\ alive' = alive \cup {k}
      /\ UNCHANGED <<closed, stage, sweep, warned, retired>>
  BY DEF MintSkewed, Minted
<1>3. CASE closed
  BY <1>1, <1>2, <1>3 DEF MintSkewed, MintOver, regVars, Skews
<1>4. CASE ~closed
  <2>1. /\ EndKeys({k}, live, FALSE)
        /\ Count(Cardinality(Started({k}, FALSE)), 0)
        /\ mint' = [mint EXCEPT ![s] = "refusing"]
        /\ fresh' = [fresh EXCEPT ![s] = k]
        /\ UNCHANGED <<live, failed, phase, carries, current, shut, gone>>
    BY <1>4 DEF MintSkewed, callVars
  <2>2. dropped' \in {dropped, {}}
    BY <2>1 DEF EndKeys
  <2>. QED
    BY <1>1, <1>2, <2>1, <2>2, <1>4 DEF Skews, Condemns, MintSkewed
<1>. QED
  BY <1>3, <1>4

(* A session that closes retires its key (auth.ts:374).                    *)
Retiring(s) == Started(EndOnRetiring(current[s]), FALSE)
Retires(s) ==
    /\ mint[s] = "no"
    /\ current' = [current EXCEPT ![s] = None]
    /\ retired' = retired \cup ({current[s]} \ {None})
    /\ EndKeys(EndOnRetiring(current[s]), live, FALSE)
    /\ Count(Cardinality(Retiring(s)), 0)

(* A session closes at once, or when the mint under way has landed         *)
(* (auth.ts:352); a collected one cannot.                                  *)
Shuts(s) ==
    /\ s \notin gone /\ dropped' \in {dropped, {}}
    /\ shut' \in [Sessions -> {"open", "minting", "done"}]
    /\ \A t \in Sessions \ {s} : shut'[t] = shut[t]
    /\ UNCHANGED <<closed, stage, sweep, warned, minted, owner, age>>
    /\ UNCHANGED <<alive, live, failed, mint, awaits, fresh, gone>>
    /\ UNCHANGED <<phase, carries>>
    /\ \/ UNCHANGED <<current, retired, ending, pending, dropped, inflight>>
       \/ Retires(s)

(* With a mint under way or without (auth.ts:366).                         *)
LEMMA SessionEnds ==
    ASSUME IInv, NEW s \in Sessions, SessionCloses(s) \/ SessionShuts(s)
    PROVE  Shuts(s)
<1>1. /\ s \notin gone
      /\ UNCHANGED <<closed, stage, sweep, warned, minted, owner, age>>
      /\ UNCHANGED <<alive, mint, awaits, fresh, gone, phase, carries>>
  BY DEF SessionCloses, SessionShuts, IInv, Lost, callVars
<1>2. CASE mint[s] = "no" /\ Shut(s)
  BY <1>1, <1>2 DEF Shut, Shuts, Retires, Retiring, EndKeys, IInv,
      TypeOK
<1>3. CASE /\ shut' = [shut EXCEPT ![s] = "minting"]
           /\ UNCHANGED <<current, retired, ending, inflight, dropped>>
           /\ UNCHANGED regVars
  BY <1>1, <1>3 DEF Shuts, regVars, IInv, TypeOK
<1>. QED
  BY <1>2, <1>3 DEF SessionCloses, SessionShuts

(* A call that enters carries its session's key or none (auth.ts:316).     *)
LEMMA EnteredCarriers ==
    ASSUME IInv, NEW m \in Calls, Enters(m), NEW k \in Keys
    PROVE  /\ Carriers(k)' \subseteq Carriers(k) \cup {m}
           /\ k # current[SessionOf[m]] => Carriers(k)' = Carriers(k)
<1>1. /\ phase[m] = "idle" /\ carries[m] = None /\ None \notin Keys
      /\ phase \in [Calls -> {"idle", "waiting", "sent",
                              "done", "rejected", "cutoff"}]
      /\ carries \in [Calls -> Keys \cup {None}]
  BY DEF Enters, IInv, TypeOK, Owned, Keys, None
<1>2. CASE /\ phase' = [phase EXCEPT ![m] = "sent"]
           /\ carries' = [carries EXCEPT ![m] = current[SessionOf[m]]]
  BY <1>1, <1>2 DEF Carriers
<1>3. CASE /\ phase' = [phase EXCEPT ![m] = "waiting"]
           /\ carries' = carries
  BY <1>1, <1>3 DEF Carriers
<1>. QED
  BY <1>2, <1>3 DEF Enters

(* It learns of no other key (auth.ts:309).                                *)
LEMMA EnteredNumbered ==
    ASSUME IInv, NEW m \in Calls, Enters(m)
    PROVE  Numbered'
<1>1. /\ live' \subseteq live
      /\ UNCHANGED <<retired, alive, minted, current, fresh>>
  BY DEF Enters
<1>2. \A n \in Calls : carries'[n] \in {carries[n], current[SessionOf[m]]}
  BY DEF Enters, IInv, TypeOK
<1>3. SessionOf[m] \in Sessions
  BY DEF Enters
<1>. QED
  BY <1>1, <1>2, <1>3 DEF IInv, Numbered

(* It is lent the key its session holds (auth.ts:316).                     *)
LEMMA EnteredOwned ==
    ASSUME IInv, NEW m \in Calls, Enters(m)
    PROVE  Owned'
<1>1. /\ UNCHANGED <<retired, current, fresh, owner>>
      /\ SessionOf[m] \in Sessions
      /\ phase[m] = "idle"
  BY DEF Enters
<1>2. \A t \in Sessions :
         mint'[t] \in {"landed", "refusing"}
            <=> mint[t] \in {"landed", "refusing"}
  BY DEF Enters, IInv, TypeOK
<1>3. ASSUME NEW t \in Sessions, fresh[t] # None
      PROVE  Carriers(fresh[t])' = {}
  <2>1. fresh[t] \in Keys /\ Carriers(fresh[t]) = {}
    BY <1>3 DEF IInv, TypeOK, Owned
  <2>2. fresh[t] # current[SessionOf[m]]
    BY <1>1, <1>3 DEF IInv, Owned
  <2>. QED
    BY <1>1, <2>1, <2>2, EnteredCarriers
<1>4. ASSUME NEW n \in Calls, carries'[n] # None
      PROVE  /\ phase'[n] = "sent" /\ SessionOf[n] \in Sessions
             /\ owner[carries'[n]] = SessionOf[n]
             /\ carries'[n] \in retired \cup {current[SessionOf[n]]}
  <2>1. CASE n = m
    <3>1. carries[m] = None
      BY <1>1 DEF IInv, Owned
    <3>2. /\ phase'[m] = "sent" /\ carries'[m] = current[SessionOf[m]]
          /\ current[SessionOf[m]] # None
      BY <1>4, <2>1, <3>1 DEF Enters, IInv, TypeOK
    <3>. QED
      BY <1>1, <2>1, <3>2 DEF IInv, Owned
  <2>2. CASE n # m
    <3>1. phase'[n] = phase[n] /\ carries'[n] = carries[n]
      BY <2>2 DEF Enters, IInv, TypeOK
    <3>. QED
      BY <1>4, <3>1 DEF IInv, Owned
  <2>. QED
    BY <2>1, <2>2
<1>. QED
  BY <1>1, <1>2, <1>3, <1>4 DEF IInv, Owned, Carriers

(* A call of a collected session cannot be made (client.ts:519).           *)
LEMMA EnteredLost ==
    ASSUME IInv, NEW m \in Calls, Enters(m)
    PROVE  Lost'
<1>1. /\ dropped' \in {dropped, {}} /\ UNCHANGED <<gone, shut, owner>>
      /\ SessionOf[m] \in Sessions \ gone
      /\ \A t \in gone : t \in Sessions => mint'[t] = mint[t]
  BY DEF Enters, IInv, TypeOK
<1>2. ASSUME NEW t \in gone, NEW k \in Keys, owner[k] = t
      PROVE  Carriers(k)' = {}
  <2>1. Carriers(k) = {}
    BY <1>2 DEF IInv, Lost
  <2>2. k # current[SessionOf[m]]
    BY <1>1, <1>2 DEF IInv, Owned, Keys, None
  <2>. QED
    BY <2>1, <2>2, EnteredCarriers
<1>3. gone \subseteq Sessions
  BY DEF IInv, TypeOK
<1>. QED
  BY <1>1, <1>2, <1>3 DEF IInv, Lost

(* A session that closes gives its key up, and lends it no more            *)
(* (auth.ts:352).                                                          *)
LEMMA ShutGivesUp ==
    ASSUME IInv, NEW s \in Sessions, Shuts(s)
    PROVE  /\ \A t \in Sessions : current'[t] \in {current[t], None}
           /\ retired' \in {retired, retired \cup ({current[s]} \ {None})}
           /\ retired' # retired => current'[s] = None
           /\ \A t \in Sessions \ {s} : current'[t] = current[t]
           /\ UNCHANGED <<minted, owner, age, alive, live, mint, fresh>>
           /\ UNCHANGED <<gone, phase, carries>>
           /\ s \notin gone /\ dropped' \in {dropped, {}}
           /\ \A t \in Sessions \ {s} : shut'[t] = shut[t]
           /\ current'[s] = None =>
                 current[s] = None \/ current[s] \in retired'
BY DEF Shuts, Retires, IInv, TypeOK, None

(* It names no new key (auth.ts:375).                                      *)
LEMMA ShutNumbered ==
    ASSUME IInv, NEW s \in Sessions, Shuts(s)
    PROVE  Numbered'
<1>1. \A k \in retired' : k <= minted'
  BY ShutGivesUp DEF IInv, Numbered
<1>2. \A t \in Sessions : current'[t] <= minted'
  <2>1. None <= minted
    BY BoundAssumption DEF IInv, TypeOK, None
  <2>. QED
    BY <2>1, ShutGivesUp DEF IInv, Numbered
<1>. QED
  BY <1>1, <1>2, ShutGivesUp DEF IInv, Numbered

(* What it held is retired, and what it lent stays with the calls that     *)
(* carry it (auth.ts:374).                                                 *)
LEMMA ShutOwned ==
    ASSUME IInv, NEW s \in Sessions, Shuts(s)
    PROVE  Owned'
<1>1. ASSUME NEW t \in Sessions
      PROVE  /\ current'[t] # None => owner'[current'[t]] = t
             /\ current'[t] \notin retired'
  <2>1. current'[t] # None => owner'[current'[t]] = t
    BY ShutGivesUp DEF IInv, Owned
  <2>2. None \notin retired'
    <3>1. None \notin Keys /\ current[s] \in Keys \cup {None}
      BY DEF IInv, TypeOK, Keys, None
    <3>. QED
      BY <3>1, ShutGivesUp DEF IInv, TypeOK
  <2>3. CASE current'[t] # None
    <3>1. /\ current'[t] = current[t] /\ current[t] \notin retired
          /\ owner[current[t]] = t
      BY <2>3, ShutGivesUp DEF IInv, Owned
    <3>2. current[s] \in retired' \ retired => t # s /\ owner[current[s]] = s
      BY <2>3, <2>2, ShutGivesUp DEF IInv, Owned
    <3>. QED
      BY <2>1, <3>1, <3>2, ShutGivesUp
  <2>. QED
    BY <2>1, <2>2, <2>3
<1>2. \A t \in Sessions : 
          /\ fresh'[t] # None <=> mint'[t] \in {"landed", "refusing"}
          /\ fresh'[t] # None => /\ owner'[fresh'[t]] = t
                                /\ fresh'[t] # current'[t]
                                /\ fresh'[t] \notin retired'
                                /\ Carriers(fresh[t])' = {}
  BY ShutGivesUp DEF IInv, Owned, Carriers
<1>3. \A m \in Calls : carries'[m] # None =>
          /\ phase'[m] = "sent" /\ SessionOf[m] \in Sessions
          /\ owner'[carries'[m]] = SessionOf[m]
          /\ carries'[m] \in retired' \cup {current'[SessionOf[m]]}
  BY ShutGivesUp DEF IInv, Owned
<1>. QED
  BY <1>1, <1>2, <1>3, ShutGivesUp DEF Owned, Carriers

(* Another session's loss is not its concern, nor is its own               *)
(* (auth.ts:366).                                                          *)
LEMMA ShutLost ==
    ASSUME IInv, NEW s \in Sessions, Shuts(s)
    PROVE  Lost'
BY ShutGivesUp DEF IInv, Lost, Carriers, TypeOK

(* What nobody uses stays so (auth.ts:374).                                *)
LEMMA ShutSpent ==
    ASSUME IInv, NEW s \in Sessions, Shuts(s), NEW j \in Keys, Spent(j)
    PROVE  Spent(j)'
<1>1. j # None
  BY DEF Keys, None
<1>. QED
  BY <1>1, ShutGivesUp DEF Spent, Carriers

(* The key of a collected session is not lent again (auth.ts:316).         *)
LEMMA EnteredSpent ==
    ASSUME IInv, NEW m \in Calls, Enters(m), NEW j \in Keys, Spent(j)
    PROVE  Spent(j)'
<1>1. Carriers(j)' = {}
  BY EnteredCarriers DEF Spent, Enters
<1>2. /\ UNCHANGED <<fresh, current, gone>>
      /\ \A t \in Sessions : mint[t] = "refusing" => mint'[t] = "refusing"
  BY DEF Enters, IInv, TypeOK
<1>. QED
  BY <1>1, <1>2 DEF Spent, Carriers

(* A key that is minted is new to everybody (client.ts:550).               *)
LEMMA NewKey ==
    ASSUME IInv, NEW k \in Keys, ~(k <= minted)
    PROVE  /\ k \notin live /\ k \notin retired /\ k \notin alive
           /\ \A s \in Sessions : current[s] # k /\ fresh[s] # k
           /\ Carriers(k) = {} /\ ending[k] = 0 /\ k # None
           /\ k \notin pending /\ k \notin failed
BY DEF IInv, Numbered, TypeOK, Keys, Carriers, EndsShared, None

(* What the answers to a mint have in common (client.ts:550).              *)
Answers(s, k) ==
    /\ mint[s] = "sent"
    /\ ~(k <= minted) /\ minted <= k /\ minted' = k
    /\ owner' = [owner EXCEPT ![k] = s]
    /\ alive' = alive \cup {k} /\ live' \subseteq live \cup {k}
    /\ dropped' \in {dropped, {}}
    /\ UNCHANGED <<retired, carries, current, shut, gone>>
    /\ \A t \in Sessions \ {s} : mint'[t] = mint[t] /\ fresh'[t] = fresh[t]
    /\ \/ mint'[s] = "no" /\ fresh'[s] = None
       \/ mint'[s] \in {"landed", "refusing"} /\ fresh'[s] = k
    /\ \A m \in Calls : phase[m] = "sent" <=> phase'[m] = "sent"

(* A key is registered, refused by the clock or cut off by the close       *)
(* (client.ts:559, :571).                                                  *)
LEMMA MintAnswers ==
    ASSUME IInv, NEW s \in Sessions, NEW k \in Keys,
           Skews(s, k) \/ \E a \in Ages : MintAnswered(s, k, a)
    PROVE  Answers(s, k)
<1>1. CASE \E a \in Ages : MintAnswered(s, k, a)
  <2>1. PICK a \in Ages : MintAnswered(s, k, a)
    BY <1>1
  <2>2. ~(k <= minted) /\ minted <= k /\ minted' = k
    BY <2>1, NextKey DEF IInv, MintAnswered
  <2>. QED
    BY <2>1, <2>2 DEF MintAnswered, Minted, Answers, IInv, TypeOK, callVars
<1>2. CASE Skews(s, k)
  <2>1. CASE MintOver(s, "done")
    BY <1>2, <2>1 DEF Skews, MintOver, Waiters, Answers, IInv, TypeOK
  <2>2. CASE Condemns(s, k)
    BY <1>2, <2>2 DEF Skews, Condemns, Answers, IInv, TypeOK
  <2>. QED
    BY <1>2, <2>1, <2>2 DEF Skews
<1>. QED
  BY <1>1, <1>2

(* No call carries another key for it (auth.ts:330).                       *)
LEMMA AnswerCarriers ==
    ASSUME IInv, NEW s \in Sessions, NEW k \in Keys, Answers(s, k), NEW j
    PROVE  Carriers(j)' = Carriers(j)
BY DEF Answers, Carriers

(* The new key is the last known of (client.ts:550).                       *)
LEMMA AnswerNumbered ==
    ASSUME IInv, NEW s \in Sessions, NEW k \in Keys, Answers(s, k)
    PROVE  Numbered'
<1>1. minted' = k /\ k \in Nat /\ minted \in Nat /\ minted <= k /\ None <= k
  BY BoundAssumption DEF Answers, IInv, TypeOK, Keys, None
<1>2. \A j \in Nat : j <= minted => j <= minted'
  BY <1>1
<1>3. \A t \in Sessions : fresh'[t] \in {fresh[t], k, None}
  BY DEF Answers
<1>4. /\ \A t \in Sessions : current[t] \in Nat /\ fresh[t] \in Nat
      /\ \A m \in Calls : carries[m] \in Nat
      /\ live \subseteq Nat /\ retired \subseteq Nat /\ alive \subseteq Nat
  <2>1. Keys \subseteq Nat /\ None \in Nat
    BY BoundAssumption DEF Keys, None
  <2>. QED
    BY <2>1 DEF IInv, TypeOK
<1>5. /\ live' \subseteq live \cup {k} /\ alive' = alive \cup {k}
      /\ UNCHANGED <<retired, current, carries>>
  BY DEF Answers
<1>6. ASSUME NEW j \in live' \cup retired' \cup alive'
      PROVE  j <= minted'
  <2>1. CASE j = k
    BY <1>1, <2>1
  <2>2. CASE j \in live \cup retired \cup alive
    <3>1. j \in Nat /\ j <= minted
      BY <1>4, <2>2 DEF IInv, Numbered
    <3>. QED
      BY <1>2, <3>1
  <2>. QED
    BY <1>5, <2>1, <2>2
<1>7. ASSUME NEW t \in Sessions
      PROVE  current'[t] <= minted' /\ fresh'[t] <= minted'
  <2>1. current[t] <= minted' /\ fresh[t] <= minted'
    BY <1>2, <1>4 DEF IInv, Numbered
  <2>2. k <= minted' /\ None <= minted'
    BY <1>1
  <2>. QED
    BY <1>3, <1>5, <2>1, <2>2
<1>8. \A m \in Calls : carries'[m] <= minted'
  BY <1>1, <1>2, <1>4, <1>5 DEF IInv, Numbered
<1>. QED
  BY <1>6, <1>7, <1>8 DEF Numbered

(* It belongs to the session that asked for it (client.ts:606).            *)
LEMMA AnswerOwned ==
    ASSUME IInv, NEW s \in Sessions, NEW k \in Keys, Answers(s, k)
    PROVE  Owned'
<1>1. /\ mint[s] = "sent" /\ UNCHANGED <<retired, carries, current>>
      /\ \A j \in Keys \ {k} : owner'[j] = owner[j]
      /\ owner'[k] = s
      /\ \A t \in Sessions \ {s} : mint'[t] = mint[t] /\ fresh'[t] = fresh[t]
      /\ \/ mint'[s] = "no" /\ fresh'[s] = None
         \/ mint'[s] \in {"landed", "refusing"} /\ fresh'[s] = k
  BY DEF Answers, IInv, TypeOK
<1>2. /\ k \notin retired
      /\ \A t \in Sessions : current[t] # k /\ fresh[t] # k
      /\ Carriers(k) = {} /\ k # None
  BY NewKey DEF Answers
<1>3. \A m \in Calls : carries[m] # k
  BY DEF Answers, IInv, Numbered
<1>4. ASSUME NEW t \in Sessions
      PROVE  /\ current'[t] # None => owner'[current'[t]] = t
             /\ current'[t] \notin retired'
  BY <1>1, <1>2 DEF IInv, Owned, TypeOK
<1>5. ASSUME NEW t \in Sessions
      PROVE  /\ fresh'[t] # None <=> mint'[t] \in {"landed", "refusing"}
             /\ fresh'[t] # None => /\ owner'[fresh'[t]] = t
                                   /\ fresh'[t] # current'[t]
                                   /\ fresh'[t] \notin retired'
                                   /\ Carriers(fresh[t])' = {}
  <2>1. CASE t = s
    BY <1>1, <1>2, <2>1, AnswerCarriers
  <2>2. CASE t # s
    BY <1>1, <1>2, <2>2, AnswerCarriers DEF IInv, Owned, TypeOK
  <2>. QED
    BY <2>1, <2>2
<1>6. ASSUME NEW m \in Calls, carries'[m] # None
      PROVE  /\ phase'[m] = "sent" /\ SessionOf[m] \in Sessions
             /\ owner'[carries'[m]] = SessionOf[m]
             /\ carries'[m] \in retired' \cup {current'[SessionOf[m]]}
  <2>1. phase'[m] = "sent"
    BY <1>1, <1>6 DEF Answers, IInv, Owned
  <2>. QED
    BY <1>1, <1>3, <1>6, <2>1 DEF IInv, Owned, TypeOK
<1>. QED
  BY <1>4, <1>5, <1>6 DEF Owned, Carriers

(* A collected session asked for none (client.ts:519).                     *)
LEMMA AnswerLost ==
    ASSUME IInv, NEW s \in Sessions, NEW k \in Keys, Answers(s, k)
    PROVE  Lost'
<1>1. s \notin gone /\ dropped' \subseteq gone'
      /\ UNCHANGED <<shut, gone>>
      /\ \A t \in Sessions \ {s} : mint'[t] = mint[t]
  BY DEF Answers, IInv, Lost
<1>2. \A j \in Keys : owner'[j] = IF j = k THEN s ELSE owner[j]
  BY DEF Answers, IInv, TypeOK
<1>. QED
  BY <1>1, <1>2, AnswerCarriers DEF IInv, Lost, TypeOK

(* It is none of the keys that nobody uses (client.ts:550).                *)
LEMMA AnswerSpent ==
    ASSUME IInv, NEW s \in Sessions, NEW k \in Keys, Answers(s, k),
           NEW j \in Keys, j <= minted \/ minted' # j, Spent(j)
    PROVE  Spent(j)'
<1>. j # k
  BY DEF Answers
<1>1. Carriers(j)' = {}
  BY AnswerCarriers DEF Spent
<1>2. /\ mint[s] = "sent" /\ UNCHANGED <<current, gone>>
      /\ \A t \in Sessions \ {s} : mint'[t] = mint[t] /\ fresh'[t] = fresh[t]
      /\ fresh'[s] \in {None, k}
  BY DEF Answers
<1>3. j # None
  BY DEF Keys, None
<1>. QED
  BY <1>1, <1>2, <1>3 DEF Spent, Carriers

----------------------------------------------------------------------------
(* Who holds, owns and uses a key.                                         *)

(* A key that nobody may use any more is never used again (auth.ts:186).   *)
LEMMA SpentStays ==
    ASSUME IInv, [Next]_vars, NEW j \in Keys, Spent(j),
           j <= minted \/ minted' # j
    PROVE  Spent(j)'
<1>1. \A m \in Calls : CallJoins(m) \/ CallMints(m) => Enters(m)
  BY CallEnters DEF IInv
<1>2. \A s \in Sessions, k \in Keys : MintSkewed(s, k) => Skews(s, k)
  BY SkewedEnters DEF IInv
<1>3. \A s \in Sessions : SessionCloses(s) \/ SessionShuts(s) => Shuts(s)
  BY SessionEnds DEF IInv
<1>. USE DEF clientVars, regVars, tokenVars, keyVars, sessionVars, callVars,
             IInv, Spent, TypeOK, Keys, None, Owned, Lost, Numbered, Carriers
<1>4. ASSUME NEW m \in Calls, CallRejected(m)
      PROVE  Spent(j)'
  BY <1>4 DEF CallRejected, Idle
<1>5. ASSUME NEW m \in Calls, OwnCall(m)
      PROVE  Spent(j)'
  BY <1>5 DEF OwnCall, Idle, EndKeys, Count
<1>6. ASSUME NEW m \in Calls, Connect(m)
      PROVE  Spent(j)'
  BY <1>6 DEF Connect, Idle, Count
<1>7. ASSUME NEW m \in Calls, CallOnClosed(m)
      PROVE  Spent(j)'
  BY <1>7 DEF CallOnClosed, Idle, EndKeys, Count
<1>8. ASSUME NEW m \in Calls, CallJoins(m)
      PROVE  Spent(j)'
  BY <1>8, <1>1, EnteredSpent
<1>9. ASSUME NEW m \in Calls, CallMints(m)
      PROVE  Spent(j)'
  BY <1>9, <1>1, EnteredSpent
<1>10. ASSUME NEW m \in Calls, CallSettles(m)
      PROVE  Spent(j)'
  BY <1>10 DEF CallSettles, EndKeys, Count
<1>11. ASSUME NEW m \in Calls, CallTimesOut(m)
      PROVE  Spent(j)'
  BY <1>11 DEF CallTimesOut, Count
<1>12. ASSUME NEW s \in Sessions, MintAsks(s)
      PROVE  Spent(j)'
  BY <1>12 DEF MintAsks, EndKeys, Count
<1>13. ASSUME NEW s \in Sessions, MintCutOff(s)
      PROVE  Spent(j)'
  BY <1>13 DEF MintCutOff, MintOver, Waiters
<1>14. ASSUME NEW s \in Sessions, MintRefused(s)
      PROVE  Spent(j)'
  BY <1>14 DEF MintRefused, MintOver, Waiters
<1>15. ASSUME NEW s \in Sessions, NEW k \in Keys, NEW a \in Ages,
             MintAnswered(s, k, a)
      PROVE  Spent(j)'
  BY <1>15, MintAnswers, AnswerSpent
<1>16. ASSUME NEW s \in Sessions, NEW k \in Keys,
             MintSkewed(s, k)
      PROVE  Spent(j)'
  BY <1>16, <1>2, MintAnswers, AnswerSpent
<1>17. ASSUME NEW s \in Sessions, MintRefusesKey(s)
      PROVE  Spent(j)'
  BY <1>17 DEF MintRefusesKey, MintOver, Waiters
<1>18. ASSUME NEW s \in Sessions, MintLands(s)
      PROVE  Spent(j)'
  BY <1>18 DEF MintLands, Waiters, EndKeys, Count
<1>19. ASSUME NEW s \in Sessions,
             SessionCloses(s) \/ SessionShuts(s)
      PROVE  Spent(j)'
  BY <1>19, <1>3, ShutSpent
<1>20. ASSUME NEW s \in Sessions, SessionLost(s)
      PROVE  Spent(j)'
  BY <1>20 DEF SessionLost
<1>21. ASSUME NEW k \in Keys,
             EndSucceeds(k) \/ EndFails(k) \/ KeyAges(k)
      PROVE  Spent(j)'
  <2>1. UNCHANGED <<phase, carries, fresh, mint, current, gone>>
    BY <1>21 DEF EndSucceeds, EndOver, EndFails, KeyAges
  <2>. QED
    BY <2>1 DEF Carriers
<1>22. CASE Close \/ Drained \/ SweepEnds \/ SweepFails \/ TokenAges
  <2>1. UNCHANGED <<phase, carries, fresh, mint, current, gone>>
    BY <1>22 DEF Close, Drained, SweepOn, SweepEnds, SweepFails, TokenAges
  <2>. QED
    BY <2>1 DEF Carriers
<1>23. ASSUME NEW to \in {"valid", "due", token},
             TokenIssued(to)
      PROVE  Spent(j)'
  <2>1. UNCHANGED <<phase, carries, fresh, mint, current, gone>>
    BY <1>23 DEF TokenIssued
  <2>. QED
    BY <2>1 DEF Carriers
<1>24. CASE UNCHANGED vars
  BY <1>24 DEF vars, Carriers
<1>. QED
  BY <1>4, <1>5, <1>6, <1>7, <1>8, <1>9, <1>10, <1>11, <1>12, <1>13, <1>14,
     <1>15, <1>16, <1>17, <1>18, <1>19, <1>20, <1>21, <1>22, <1>23, <1>24
  DEF Next, CallStep, MintStep, MintAnswer, SessionStep, EndAnswer,
      TokenAnswer

(* Nothing is known of a key before the service mints it (client.ts:550).  *)
LEMMA NumberedKept ==
    ASSUME IInv, [Next]_vars
    PROVE  Numbered'
<1>1. \A m \in Calls : CallJoins(m) \/ CallMints(m) => Enters(m)
  BY CallEnters DEF IInv
<1>2. \A s \in Sessions, k \in Keys : MintSkewed(s, k) => Skews(s, k)
  BY SkewedEnters DEF IInv
<1>3. \A s \in Sessions : SessionCloses(s) \/ SessionShuts(s) => Shuts(s)
  BY SessionEnds DEF IInv
<1>. USE DEF clientVars, regVars, tokenVars, keyVars, sessionVars, callVars,
             IInv, Numbered, TypeOK, Keys, None
<1>4. ASSUME NEW m \in Calls, CallJoins(m)
      PROVE  Numbered'
  BY <1>4, <1>1, EnteredNumbered
<1>5. ASSUME NEW m \in Calls, CallMints(m)
      PROVE  Numbered'
  BY <1>5, <1>1, EnteredNumbered
<1>6. ASSUME NEW m \in Calls, CallSettles(m)
      PROVE  Numbered'
  BY <1>6 DEF CallSettles, EndKeys, Count
<1>7. ASSUME NEW s \in Sessions, MintCutOff(s)
      PROVE  Numbered'
  BY <1>7 DEF MintCutOff, MintOver, Waiters
<1>8. ASSUME NEW s \in Sessions, MintRefused(s)
      PROVE  Numbered'
  BY <1>8 DEF MintRefused, MintOver, Waiters
<1>9. ASSUME NEW s \in Sessions, NEW k \in Keys, NEW a \in Ages,
             MintAnswered(s, k, a)
      PROVE  Numbered'
  BY <1>9, MintAnswers, AnswerNumbered
<1>10. ASSUME NEW s \in Sessions, NEW k \in Keys,
             MintSkewed(s, k)
      PROVE  Numbered'
  BY <1>10, <1>2, MintAnswers, AnswerNumbered
<1>11. ASSUME NEW s \in Sessions, MintRefusesKey(s)
      PROVE  Numbered'
  BY <1>11 DEF MintRefusesKey, MintOver, Waiters
<1>12. ASSUME NEW s \in Sessions, MintLands(s)
      PROVE  Numbered'
  BY <1>12 DEF MintLands, Waiters, EndKeys, Count
<1>13. ASSUME NEW s \in Sessions,
             SessionCloses(s) \/ SessionShuts(s)
      PROVE  Numbered'
  BY <1>13, <1>3, ShutNumbered
<1>14. ASSUME NEW k \in Keys, EndSucceeds(k)
      PROVE  Numbered'
  BY <1>14 DEF EndSucceeds, EndOver, Count
<1>15. ASSUME NEW k \in Keys, EndFails(k)
      PROVE  Numbered'
  BY <1>15 DEF EndFails, EndOver, Count
<1>16. CASE Drained
  BY <1>16 DEF Drained, SweepOn, DrainDone, Unexpired
<1>17. CASE SweepEnds
  BY <1>17 DEF SweepEnds, SweepOn, Lowest
<1>18. CASE SweepFails
  BY <1>18 DEF SweepFails, SweepOn, Lowest
<1>19. ASSUME NEW m \in Calls,
             \/ CallRejected(m) \/ OwnCall(m) \/ Connect(m)
             \/ CallOnClosed(m) \/ CallTimesOut(m)
      PROVE  Numbered'
  <2>1. UNCHANGED <<live, retired, alive, minted, current, fresh, carries>>
    BY <1>19
    DEF CallRejected, OwnCall, EndKeys, Connect, CallOnClosed, CallTimesOut
  <2>. QED
    BY <2>1 DEF Numbered
<1>20. ASSUME NEW s \in Sessions,
             MintAsks(s) \/ SessionLost(s)
      PROVE  Numbered'
  <2>1. UNCHANGED <<live, retired, alive, minted, current, fresh, carries>>
    BY <1>20 DEF MintAsks, EndKeys, SessionLost
  <2>. QED
    BY <2>1 DEF Numbered
<1>21. ASSUME NEW k \in Keys,
             KeyAges(k)
      PROVE  Numbered'
  <2>1. UNCHANGED <<live, retired, alive, minted, current, fresh, carries>>
    BY <1>21 DEF KeyAges
  <2>. QED
    BY <2>1 DEF Numbered
<1>22. CASE Close \/ TokenAges
  <2>1. UNCHANGED <<live, retired, alive, minted, current, fresh, carries>>
    BY <1>22 DEF Close, TokenAges
  <2>. QED
    BY <2>1 DEF Numbered
<1>23. ASSUME NEW to \in {"valid", "due", token},
             TokenIssued(to)
      PROVE  Numbered'
  <2>1. UNCHANGED <<live, retired, alive, minted, current, fresh, carries>>
    BY <1>23 DEF TokenIssued
  <2>. QED
    BY <2>1 DEF Numbered
<1>24. CASE UNCHANGED vars
  BY <1>24 DEF vars, Numbered
<1>. QED
  BY <1>4, <1>5, <1>6, <1>7, <1>8, <1>9, <1>10, <1>11, <1>12, <1>13, <1>14,
     <1>15, <1>16, <1>17, <1>18, <1>19, <1>20, <1>21, <1>22, <1>23, <1>24
  DEF Next, CallStep, MintStep, MintAnswer, SessionStep, EndAnswer,
      TokenAnswer

(* A session lends the key it holds and no other, and the key a mint       *)
(* brought is lent by nobody until it is held (auth.ts:316).               *)
LEMMA OwnedKept ==
    ASSUME IInv, [Next]_vars
    PROVE  Owned'
<1>1. \A m \in Calls : CallJoins(m) \/ CallMints(m) => Enters(m)
  BY CallEnters DEF IInv
<1>2. \A s \in Sessions, k \in Keys : MintSkewed(s, k) => Skews(s, k)
  BY SkewedEnters DEF IInv
<1>3. \A s \in Sessions : SessionCloses(s) \/ SessionShuts(s) => Shuts(s)
  BY SessionEnds DEF IInv
<1>. USE DEF clientVars, regVars, tokenVars, keyVars, sessionVars, callVars,
             IInv, Owned, TypeOK, Keys, None, Numbered, Carriers
<1>4. ASSUME NEW m \in Calls, CallRejected(m)
      PROVE  Owned'
  BY <1>4 DEF CallRejected, Idle
<1>5. ASSUME NEW m \in Calls, OwnCall(m)
      PROVE  Owned'
  BY <1>5 DEF OwnCall, Idle, EndKeys, Count
<1>6. ASSUME NEW m \in Calls, Connect(m)
      PROVE  Owned'
  BY <1>6 DEF Connect, Idle, Count
<1>7. ASSUME NEW m \in Calls, CallOnClosed(m)
      PROVE  Owned'
  BY <1>7 DEF CallOnClosed, Idle, EndKeys, Count
<1>8. ASSUME NEW m \in Calls, CallJoins(m)
      PROVE  Owned'
  BY <1>8, <1>1, EnteredOwned
<1>9. ASSUME NEW m \in Calls, CallMints(m)
      PROVE  Owned'
  BY <1>9, <1>1, EnteredOwned
<1>10. ASSUME NEW m \in Calls, CallSettles(m)
      PROVE  Owned'
  BY <1>10 DEF CallSettles, EndKeys, Count
<1>11. ASSUME NEW m \in Calls, CallTimesOut(m)
      PROVE  Owned'
  BY <1>11 DEF CallTimesOut, Count
<1>12. ASSUME NEW s \in Sessions, MintAsks(s)
      PROVE  Owned'
  BY <1>12 DEF MintAsks, EndKeys, Count
<1>13. ASSUME NEW s \in Sessions, MintCutOff(s)
      PROVE  Owned'
  BY <1>13 DEF MintCutOff, MintOver, Waiters
<1>14. ASSUME NEW s \in Sessions, MintRefused(s)
      PROVE  Owned'
  BY <1>14 DEF MintRefused, MintOver, Waiters
<1>15. ASSUME NEW s \in Sessions, NEW k \in Keys, NEW a \in Ages,
             MintAnswered(s, k, a)
      PROVE  Owned'
  BY <1>15, MintAnswers, AnswerOwned
<1>16. ASSUME NEW s \in Sessions, NEW k \in Keys,
             MintSkewed(s, k)
      PROVE  Owned'
  BY <1>16, <1>2, MintAnswers, AnswerOwned
<1>17. ASSUME NEW s \in Sessions, MintRefusesKey(s)
      PROVE  Owned'
  BY <1>17 DEF MintRefusesKey, MintOver, Waiters
<1>18. ASSUME NEW s \in Sessions, MintLands(s)
      PROVE  Owned'
  BY <1>18 DEF MintLands, Waiters, EndKeys, Count
<1>19. ASSUME NEW s \in Sessions,
             SessionCloses(s) \/ SessionShuts(s)
      PROVE  Owned'
  BY <1>19, <1>3, ShutOwned
<1>20. ASSUME NEW s \in Sessions,
             SessionLost(s)
      PROVE  Owned'
  <2>1. UNCHANGED <<current, owner, retired, fresh, mint, phase, carries>>
    BY <1>20 DEF SessionLost
  <2>. QED
    BY <2>1 DEF Owned, Carriers
<1>21. ASSUME NEW k \in Keys,
             EndSucceeds(k) \/ EndFails(k) \/ KeyAges(k)
      PROVE  Owned'
  <2>1. UNCHANGED <<current, owner, retired, fresh, mint, phase, carries>>
    BY <1>21 DEF EndSucceeds, EndOver, EndFails, KeyAges
  <2>. QED
    BY <2>1 DEF Owned, Carriers
<1>22. CASE Close \/ Drained \/ SweepEnds \/ SweepFails \/ TokenAges
  <2>1. UNCHANGED <<current, owner, retired, fresh, mint, phase, carries>>
    BY <1>22 DEF Close, Drained, SweepOn, SweepEnds, SweepFails, TokenAges
  <2>. QED
    BY <2>1 DEF Owned, Carriers
<1>23. ASSUME NEW to \in {"valid", "due", token},
             TokenIssued(to)
      PROVE  Owned'
  <2>1. UNCHANGED <<current, owner, retired, fresh, mint, phase, carries>>
    BY <1>23 DEF TokenIssued
  <2>. QED
    BY <2>1 DEF Owned, Carriers
<1>24. CASE UNCHANGED vars
  BY <1>24 DEF vars, Owned, Carriers
<1>. QED
  BY <1>4, <1>5, <1>6, <1>7, <1>8, <1>9, <1>10, <1>11, <1>12, <1>13, <1>14,
     <1>15, <1>16, <1>17, <1>18, <1>19, <1>20, <1>21, <1>22, <1>23, <1>24
  DEF Next, CallStep, MintStep, MintAnswer, SessionStep, EndAnswer,
      TokenAnswer

(* A collected session makes no call and mints no key (client.ts:519).     *)
LEMMA LostKept ==
    ASSUME IInv, [Next]_vars
    PROVE  Lost'
<1>1. \A m \in Calls : CallJoins(m) \/ CallMints(m) => Enters(m)
  BY CallEnters DEF IInv
<1>2. \A s \in Sessions, k \in Keys : MintSkewed(s, k) => Skews(s, k)
  BY SkewedEnters DEF IInv
<1>3. \A s \in Sessions : SessionCloses(s) \/ SessionShuts(s) => Shuts(s)
  BY SessionEnds DEF IInv
<1>. USE DEF clientVars, regVars, tokenVars, keyVars, sessionVars, callVars,
             IInv, Lost, TypeOK, Keys, None, Numbered, Owned, Carriers
<1>4. ASSUME NEW m \in Calls, CallRejected(m)
      PROVE  Lost'
  BY <1>4 DEF CallRejected, Idle
<1>5. ASSUME NEW m \in Calls, OwnCall(m)
      PROVE  Lost'
  <2>1. dropped' \in {dropped, {}}
    BY <1>5 DEF OwnCall, EndKeys
  <2>. QED
    BY <1>5, <2>1 DEF OwnCall, Idle
<1>6. ASSUME NEW m \in Calls, Connect(m)
      PROVE  Lost'
  BY <1>6 DEF Connect, Idle, Count
<1>7. ASSUME NEW m \in Calls, CallOnClosed(m)
      PROVE  Lost'
  <2>1. dropped' \in {dropped, {}}
    BY <1>7 DEF CallOnClosed, EndKeys
  <2>. QED
    BY <1>7, <2>1 DEF CallOnClosed, Idle
<1>8. ASSUME NEW m \in Calls, CallJoins(m)
      PROVE  Lost'
  BY <1>8, <1>1, EnteredLost
<1>9. ASSUME NEW m \in Calls, CallMints(m)
      PROVE  Lost'
  BY <1>9, <1>1, EnteredLost
<1>10. ASSUME NEW m \in Calls, CallSettles(m)
      PROVE  Lost'
  <2>1. dropped' \in {dropped, {}}
    BY <1>10 DEF CallSettles, EndKeys
  <2>. QED
    BY <1>10, <2>1 DEF CallSettles
<1>11. ASSUME NEW m \in Calls, CallTimesOut(m)
      PROVE  Lost'
  BY <1>11 DEF CallTimesOut, Count
<1>12. ASSUME NEW s \in Sessions, MintAsks(s)
      PROVE  Lost'
  <2>1. dropped' \in {dropped, {}}
    BY <1>12 DEF MintAsks, EndKeys
  <2>. QED
    BY <1>12, <2>1 DEF MintAsks
<1>13. ASSUME NEW s \in Sessions, MintCutOff(s)
      PROVE  Lost'
  BY <1>13 DEF MintCutOff, MintOver, Waiters
<1>14. ASSUME NEW s \in Sessions, MintRefused(s)
      PROVE  Lost'
  BY <1>14 DEF MintRefused, MintOver, Waiters
<1>15. ASSUME NEW s \in Sessions, NEW k \in Keys, NEW a \in Ages,
             MintAnswered(s, k, a)
      PROVE  Lost'
  BY <1>15, MintAnswers, AnswerLost
<1>16. ASSUME NEW s \in Sessions, NEW k \in Keys,
             MintSkewed(s, k)
      PROVE  Lost'
  BY <1>16, <1>2, MintAnswers, AnswerLost
<1>17. ASSUME NEW s \in Sessions, MintRefusesKey(s)
      PROVE  Lost'
  BY <1>17 DEF MintRefusesKey, MintOver, Waiters
<1>18. ASSUME NEW s \in Sessions, MintLands(s)
      PROVE  Lost'
  <2>1. dropped' \in {dropped, {}}
    BY <1>18 DEF MintLands, EndKeys
  <2>. QED
    BY <1>18, <2>1 DEF MintLands, Waiters
<1>19. ASSUME NEW s \in Sessions,
             SessionCloses(s) \/ SessionShuts(s)
      PROVE  Lost'
  BY <1>19, <1>3, ShutLost
<1>20. ASSUME NEW s \in Sessions, SessionLost(s)
      PROVE  Lost'
  BY <1>20 DEF SessionLost
<1>21. ASSUME NEW k \in Keys,
             EndSucceeds(k) \/ EndFails(k) \/ KeyAges(k)
      PROVE  Lost'
  <2>1. UNCHANGED <<dropped, gone, mint, shut, owner, phase, carries>>
    BY <1>21 DEF EndSucceeds, EndOver, EndFails, KeyAges
  <2>. QED
    BY <2>1 DEF Lost, Carriers
<1>22. CASE Close \/ Drained \/ SweepEnds \/ SweepFails \/ TokenAges
  <2>1. UNCHANGED <<dropped, gone, mint, shut, owner, phase, carries>>
    BY <1>22 DEF Close, Drained, SweepOn, SweepEnds, SweepFails, TokenAges
  <2>. QED
    BY <2>1 DEF Lost, Carriers
<1>23. ASSUME NEW to \in {"valid", "due", token},
             TokenIssued(to)
      PROVE  Lost'
  <2>1. UNCHANGED <<dropped, gone, mint, shut, owner, phase, carries>>
    BY <1>23 DEF TokenIssued
  <2>. QED
    BY <2>1 DEF Lost, Carriers
<1>24. CASE UNCHANGED vars
  BY <1>24 DEF vars, Lost, Carriers
<1>. QED
  BY <1>4, <1>5, <1>6, <1>7, <1>8, <1>9, <1>10, <1>11, <1>12, <1>13, <1>14,
     <1>15, <1>16, <1>17, <1>18, <1>19, <1>20, <1>21, <1>22, <1>23, <1>24
  DEF Next, CallStep, MintStep, MintAnswer, SessionStep, EndAnswer,
      TokenAnswer

----------------------------------------------------------------------------
(* The ends a step begins.                                                 *)

(* Keys and the count of them are numbers (client.ts:550).                 *)
LEMMA KeyType == Keys \subseteq Nat /\ \A k \in Keys : k <= k
BY BoundAssumption DEF Keys

(* The count of them is a number too (client.ts:550).                      *)
LEMMA MintedType == TypeOK => minted \in Nat /\ minted <= minted
BY BoundAssumption DEF TypeOK

(* The ends of the keys of S begin, and no other (client.ts:712).          *)
Begins(S) ==
    /\ S \subseteq Keys
    /\ ending' \in [Keys -> Nat]
    /\ \A k \in Keys : ending'[k] = IF k \in S THEN 1 ELSE ending[k]
    /\ \A k \in S : /\ ending[k] = 0 /\ ~closed
                    /\ Spent(k)' /\ k <= minted'
                    /\ k \in live \/ age'[k] = "expired"
    /\ \A k \in live' : k \in pending' <=> ending'[k] > 0
    /\ pending' \subseteq live' /\ dropped' \in {dropped, {}}
    /\ minted <= minted' /\ minted' \in Nat

(* endKey() begins the ends it is asked for, if the client is open, and    *)
(* those of dropped sessions' keys (client.ts:635, :712).                  *)
LEMMA KeysBegin ==
    ASSUME IInv, [Next]_vars, minted <= minted',
           minted' \in Nat,
           NEW E, E \subseteq Keys, NEW L, NEW sends, EndKeys(E, L, sends),
           L \subseteq live, live' = L,
           \A k \in E : /\ k \in live \/ ending[k] = 0
                        /\ Spent(k)' /\ k <= minted'
                        /\ closed \/ k \in live \/ age'[k] = "expired"
    PROVE  Begins(Started(E, sends))
<1>. DEFINE S == Started(E, sends)
<1>1. /\ S \subseteq (E \cup DroppedKeys) \cap Keys
      /\ \A k \in S : ending[k] = 0 /\ ~closed
  BY StartedIdle
<1>2. /\ \A k \in Keys : ending'[k] = IF k \in S THEN 1 ELSE ending[k]
      /\ ending' \in [Keys -> Nat]
      /\ pending' \subseteq live' /\ dropped' \in {dropped, {}}
      /\ \A k \in live' : k \in pending' <=> ending'[k] > 0
  BY EndsBegun
<1>3. ASSUME NEW k \in DroppedKeys
      PROVE  Spent(k)' /\ k <= minted' /\ k \in live
  <2>1. k \in live /\ k \in Keys /\ owner[k] \in dropped
    BY <1>3 DEF DroppedKeys, IInv, TypeOK
  <2>2. Spent(k) /\ k <= minted
    BY <2>1 DEF IInv, OnlySpentEnd, Numbered
  <2>3. k <= minted'
    <3>1. k \in Nat /\ minted \in Nat /\ minted' \in Nat
      BY <2>1, KeyType, MintedType DEF IInv
    <3>. QED
      BY <2>2, <3>1
  <2>. QED
    BY <2>1, <2>2, <2>3, SpentStays
<1>. QED
  BY <1>1, <1>2, <1>3 DEF Begins

(* A call begins no end but of dropped sessions' keys (client.ts:712).     *)
LEMMA CallsBegin ==
    ASSUME IInv, [Next]_vars, NEW m \in Calls,
           OwnCall(m) \/ CallOnClosed(m) \/ CallJoins(m)
    PROVE  Begins(Started({}, TRUE))
<1>1. EndKeys({}, live, TRUE) /\ live' = live /\ minted' = minted
  BY DEF OwnCall, CallOnClosed, CallJoins
<1>. QED
  BY <1>1, KeysBegin, MintedType DEF IInv

(* Nor does the request for a key (client.ts:550).                         *)
LEMMA MintAsksBegins ==
    ASSUME IInv, [Next]_vars, NEW s \in Sessions, MintAsks(s)
    PROVE  Begins(Started({}, TRUE))
<1>1. EndKeys({}, live, TRUE) /\ live' = live /\ minted' = minted
  BY DEF MintAsks
<1>. QED
  BY <1>1, KeysBegin, MintedType DEF IInv

(* A mint first ends the user's keys whose end is due (client.ts:540).     *)
LEMMA CallMintsBegins ==
    ASSUME IInv, [Next]_vars, NEW m \in Calls, CallMints(m)
    PROVE  Begins(Started(ToEndFirst(SessionOf[m]), TRUE))
<1>. DEFINE E == ToEndFirst(SessionOf[m])
<1>1. /\ EndKeys(E, Unexpired, TRUE) /\ live' = Unexpired
      /\ minted' = minted /\ Unexpired \subseteq live
  BY DEF CallMints, Unexpired
<1>2. ASSUME NEW k \in E
      PROVE  k \in live /\ k \in Keys /\ Spent(k)' /\ k <= minted'
  <2>1. k \in live /\ k \in Keys
    BY <1>2, FirstIdle
  <2>2. k \in pending \cup failed \/ owner[k] \in dropped
    BY <1>2 DEF ToEndFirst, DroppedKeys
  <2>3. Spent(k)
    BY <2>1, <2>2 DEF IInv, OnlySpentEnd, EndsShared
  <2>4. k <= minted
    BY <2>1 DEF IInv, Numbered
  <2>. QED
    BY <1>1, <2>1, <2>3, <2>4, SpentStays
<1>3. E \subseteq Keys /\ minted <= minted' /\ minted' \in Nat
  BY <1>1, <1>2, MintedType DEF IInv
<1>. QED
  BY <1>1, <1>2, <1>3, KeysBegin

(* The last use of a retired key ends it, and the call is out of it by     *)
(* then (auth.ts:345).                                                     *)
LEMMA CallSettlesBegins ==
    ASSUME IInv, [Next]_vars, NEW m \in Calls, CallSettles(m)
    PROVE  Begins(Started(EndOnLastUse(m), FALSE))
<1>. DEFINE E == EndOnLastUse(m)
<1>1. /\ EndKeys(E, live, FALSE) /\ live' = live /\ minted' = minted
      /\ phase' = [phase EXCEPT ![m] = "done"] /\ age' = age
      /\ UNCHANGED <<retired, current, fresh, mint, gone>>
  BY DEF CallSettles, sessionVars
<1>2. ASSUME NEW k \in E
      PROVE  /\ ending[k] = 0 /\ Spent(k)' /\ k <= minted'
  <2>1. k \in Keys /\ k \in retired /\ Carriers(k) = {m} /\ ending[k] = 0
    BY <1>2, LastUseIdle
  <2>2. \A t \in Sessions : current[t] # k /\ fresh[t] # k
    BY <2>1 DEF IInv, Owned, Keys, None
  <2>3. Carriers(k)' = {}
    BY <2>1, <1>1 DEF Carriers, CallSettles, IInv, TypeOK, Keys, None
  <2>4. Spent(k)'
    BY <1>1, <2>2, <2>3 DEF Spent, Carriers
  <2>. QED
    BY <1>1, <2>1, <2>4 DEF IInv, Numbered
<1>3. E \subseteq Keys /\ minted <= minted' /\ minted' \in Nat
  BY <1>1, LastUseIdle, MintedType DEF IInv
<1>4. ASSUME NEW k \in E
      PROVE  closed \/ k \in live \/ age'[k] = "expired"
  <2>1. k \in Keys /\ ~Spent(k)
    BY <1>4, LastUseIdle DEF Spent
  <2>2. closed \/ stage = "open"
    BY DEF IInv, Stages
  <2>. QED
    BY <1>1, <2>1, <2>2 DEF IInv, Registered
<1>. QED
  BY <1>1, <1>2, <1>3, <1>4, KeysBegin

(* A key that is retired unused is ended at once (auth.ts:186).            *)
LEMMA RetiringBegins ==
    ASSUME IInv, [Next]_vars, NEW s \in Sessions, s \notin gone,
           EndKeys(EndOnRetiring(current[s]), live, FALSE),
           retired' = retired \cup ({current[s]} \ {None}),
           live' = live, minted' = minted, age' = age,
           \A k \in Keys : k = current[s] => Carriers(k)' \subseteq Carriers(k)
    PROVE  Begins(Retiring(s))
<1>. DEFINE E == EndOnRetiring(current[s])
<1>1. ASSUME NEW k \in E
      PROVE  /\ ending[k] = 0 /\ Spent(k)' /\ k <= minted'
             /\ closed \/ k \in live \/ age'[k] = "expired"
  <2>1. /\ k \in Keys /\ k = current[s] /\ k # None
        /\ Carriers(k) = {} /\ ending[k] = 0 /\ k \in retired'
    <3>1. k \in Keys /\ k = current[s] /\ Carriers(k) = {} /\ ending[k] = 0
      BY <1>1, RetiringIdle
    <3>2. k # None
      BY <3>1 DEF Keys, None
    <3>. QED
      BY <3>1, <3>2
  <2>2. \A t \in Sessions : current'[t] # k /\ fresh'[t] # k
    BY <2>1, OwnedKept DEF Owned
  <2>3. Carriers(k)' = {}
    BY <2>1
  <2>4. Spent(k)'
    BY <2>2, <2>3 DEF Spent, Carriers
  <2>5. ~Spent(k)
    BY <2>1 DEF Spent
  <2>6. closed \/ stage = "open"
    BY DEF IInv, Stages
  <2>7. closed \/ k \in live \/ age'[k] = "expired"
    BY <2>1, <2>5, <2>6 DEF IInv, Registered
  <2>8. k <= minted'
    BY <2>1 DEF IInv, Numbered
  <2>. QED
    BY <2>1, <2>4, <2>7, <2>8
<1>2. E \subseteq Keys /\ minted <= minted' /\ minted' \in Nat
  BY RetiringIdle, MintedType DEF IInv
<1>. QED
  BY <1>1, <1>2, KeysBegin DEF Retiring

(* So it is when its session closes (auth.ts:374).                         *)
LEMMA ShutBegins ==
    ASSUME IInv, [Next]_vars, NEW s \in Sessions, Shuts(s),
           Retires(s)
    PROVE  Begins(Retiring(s))
<1>1. /\ s \notin gone
      /\ UNCHANGED <<live, minted, age, phase, carries>>
      /\ EndKeys(EndOnRetiring(current[s]), live, FALSE)
      /\ retired' = retired \cup ({current[s]} \ {None})
  BY DEF Shuts, Retires
<1>2. \A k \in Keys : k = current[s] => Carriers(k)' \subseteq Carriers(k)
  BY <1>1 DEF Carriers
<1>. QED
  BY <1>1, <1>2, RetiringBegins

(* So it is when a new key replaces it (auth.ts:410).                      *)
LEMMA MintLandsBegins ==
    ASSUME IInv, [Next]_vars, NEW s \in Sessions, MintLands(s)
    PROVE  Begins(Retiring(s))
<1>1. /\ mint[s] = "landed"
      /\ UNCHANGED <<live, minted, age>>
      /\ retired' = retired \cup ({current[s]} \ {None})
      /\ EndKeys(EndOnRetiring(current[s]), live, FALSE)
      /\ phase' = [m \in Calls |->
                      IF m \in Waiters(s) THEN "sent" ELSE phase[m]]
      /\ carries' = [m \in Calls |->
                        IF m \in Waiters(s) THEN fresh[s] ELSE carries[m]]
  BY DEF MintLands
<1>2. s \notin gone /\ fresh[s] # current[s]
  BY <1>1 DEF IInv, Lost, Owned
<1>3. \A k \in Keys : k = current[s] => Carriers(k)' \subseteq Carriers(k)
  BY <1>1, <1>2 DEF Carriers
<1>. QED
  BY <1>1, <1>2, <1>3, RetiringBegins

(* A key that arrives expired is ended, never used (client.ts:575).        *)
LEMMA SkewedBegins ==
    ASSUME IInv, [Next]_vars, NEW s \in Sessions, NEW k \in Keys, Skews(s, k),
           Condemns(s, k)
    PROVE  Begins(Started({k}, FALSE))
<1>1. /\ ~(k <= minted) /\ minted <= k /\ minted' = k
      /\ live' = live /\ current' = current
      /\ age' = [age EXCEPT ![k] = "expired"]
      /\ mint' = [mint EXCEPT ![s] = "refusing"]
      /\ fresh' = [fresh EXCEPT ![s] = k]
      /\ EndKeys({k}, live, FALSE)
  BY DEF Skews, Condemns
<1>2. /\ \A t \in Sessions : current[t] # k /\ fresh[t] # k
      /\ Carriers(k) = {} /\ ending[k] = 0
  BY <1>1, NewKey
<1>3. Carriers(k)' = {}
  BY <1>2, MintAnswers, AnswerCarriers
<1>4. \A t \in Sessions : fresh'[t] = k => mint'[t] = "refusing"
  BY <1>1, <1>2 DEF IInv, TypeOK
<1>5. Spent(k)'
  BY <1>1, <1>2, <1>3, <1>4 DEF Spent, Carriers
<1>6. /\ age'[k] = "expired"
      /\ k <= minted' /\ minted <= minted' /\ minted' \in Nat
  BY <1>1, KeyType DEF IInv, TypeOK
<1>. QED
  BY <1>1, <1>2, <1>5, <1>6, KeysBegin

(* An end that begins is the only one of its key (client.ts:637).          *)
LEMMA BeginsShared ==
    ASSUME IInv, NEW S, Begins(S)
    PROVE  EndsShared'
<1>1. ASSUME NEW k \in Keys, ending'[k] > 0
      PROVE  ending'[k] = 1 /\ k <= minted'
  <2>1. CASE k \in S
    BY <2>1 DEF Begins
  <2>2. CASE k \notin S
    <3>1. ending[k] = 1 /\ k <= minted /\ ending'[k] = 1
      BY <1>1, <2>2 DEF Begins, IInv, EndsShared
    <3>2. k \in Nat /\ minted \in Nat
      BY KeyType, MintedType DEF IInv
    <3>. QED
      BY <3>1, <3>2 DEF Begins
  <2>. QED
    BY <2>1, <2>2
<1>. QED
  BY <1>1 DEF Begins, EndsShared

(* A closing client begins none (client.ts:405).                           *)
LEMMA ClosedBegins ==
    ASSUME NEW S, Begins(S), closed
    PROVE  S = {} /\ Cardinality(S) = 0
BY FS_EmptySet DEF Begins

(* Adding and taking away, counted.                                        *)
LEMMA CountAdds ==
    ASSUME NEW S, NEW T, IsFiniteSet(S), IsFiniteSet(T), S \cap T = {}
    PROVE  /\ Cardinality(S \cup T) = Cardinality(S) + Cardinality(T)
           /\ Cardinality(S) \in Nat /\ Cardinality(T) \in Nat
<1>1. Cardinality(S \cup T) =
        Cardinality(S) + Cardinality(T) - Cardinality(S \cap T)
  BY FS_Union
<1>2. Cardinality(S \cap T) = 0
  BY FS_EmptySet
<1>3. Cardinality(S) \in Nat /\ Cardinality(T) \in Nat
  BY FS_CardinalityType
<1>. QED
  BY <1>1, <1>2, <1>3

(* What is taken away was counted.                                         *)
LEMMA CountTakes ==
    ASSUME NEW S, NEW T, IsFiniteSet(S), T \subseteq S
    PROVE  /\ Cardinality(S \ T) = Cardinality(S) - Cardinality(T)
           /\ Cardinality(S) \in Nat /\ Cardinality(T) \in Nat
<1>1. Cardinality(S \ T) = Cardinality(S) - Cardinality(S \cap T)
  BY FS_Difference
<1>2. S \cap T = T
  OBVIOUS
<1>3. Cardinality(S) \in Nat /\ Cardinality(T) \in Nat
  BY FS_CardinalityType, FS_Subset
<1>. QED
  BY <1>1, <1>2, <1>3

(* The count follows what begins and ends (client.ts:401).                 *)
LEMMA CountStep ==
    ASSUME IInv, NEW w \in Int, NEW i \in Int, NEW e \in Int,
           Cardinality(Windows') = Cardinality(Windows) + w,
           Cardinality(MintWindows') = Cardinality(MintWindows) + i,
           Cardinality(EndWindows') = Cardinality(EndWindows) + e,
           inflight' = inflight + w + i + e
    PROVE  CountsWhatRuns' /\ inflight' \in Nat
<1>1. /\ Windows' \subseteq Calls /\ MintWindows' \subseteq Sessions
      /\ EndWindows' \subseteq 1 .. MaxKeys
  BY DEF Windows, MintWindows, EndWindows, Keys
<1>2. /\ Cardinality(Windows') \in Nat /\ Cardinality(MintWindows') \in Nat
      /\ Cardinality(EndWindows') \in Nat
  <2>1. IsFiniteSet(1 .. MaxKeys)
    BY BoundAssumption, FS_Interval
  <2>2. /\ IsFiniteSet(Windows') /\ IsFiniteSet(MintWindows')
        /\ IsFiniteSet(EndWindows')
    BY <1>1, <2>1, CallsAssumption, FS_Subset
  <2>. QED
    BY <2>2, FS_CardinalityType
<1>3. inflight = Cardinality(Windows) + Cardinality(MintWindows)
                 + Cardinality(EndWindows)
  BY DEF IInv, CountsWhatRuns, Counted
<1>4. inflight' = Cardinality(Windows') + Cardinality(MintWindows')
                  + Cardinality(EndWindows')
  BY <1>3, CountsFinite
<1>. QED
  BY <1>2, <1>4 DEF CountsWhatRuns, Counted

(* The ends that begin were not in flight (client.ts:637).                 *)
LEMMA CountEnds ==
    ASSUME IInv, NEW S, Begins(S)
    PROVE  /\ Cardinality(EndWindows') =
                Cardinality(EndWindows) + Cardinality(S)
           /\ Cardinality(S) \in Int
<1>1. /\ EndWindows' = EndWindows \cup S /\ EndWindows \cap S = {}
  BY DEF Begins, EndWindows
<1>2. S \subseteq 1 .. MaxKeys
  BY DEF Begins, Keys
<1>3. IsFiniteSet(S)
  <2>1. IsFiniteSet(1 .. MaxKeys)
    BY BoundAssumption, FS_Interval
  <2>. QED
    BY <1>2, <2>1, FS_Subset
<1>. QED
  BY <1>1, <1>3, CountsFinite, CountAdds

(* One call more, or one less (client.ts:401).                             *)
LEMMA CallEnded ==
    ASSUME NEW m \in Calls
    PROVE  /\ m \notin Windows =>
                Cardinality(Windows \cup {m}) = Cardinality(Windows) + 1
           /\ m \in Windows =>
                Cardinality(Windows \ {m}) = Cardinality(Windows) - 1
BY CountsFinite, FS_AddElement, FS_RemoveElement

(* One mint more, or one less (client.ts:401).                             *)
LEMMA MintEnded ==
    ASSUME NEW s \in Sessions
    PROVE  /\ s \notin MintWindows =>
                Cardinality(MintWindows \cup {s}) =
                  Cardinality(MintWindows) + 1
           /\ s \in MintWindows =>
                Cardinality(MintWindows \ {s}) =
                  Cardinality(MintWindows) - 1
BY CountsFinite, FS_AddElement, FS_RemoveElement

(* One end less (client.ts:663).                                           *)
LEMMA EndEnded ==
    ASSUME NEW k \in EndWindows
    PROVE  Cardinality(EndWindows \ {k}) = Cardinality(EndWindows) - 1
BY CountsFinite, FS_RemoveElement

(* A mint that rejects takes its calls with it (auth.ts:316).              *)
LEMMA CountMintOver ==
    ASSUME IInv, NEW s \in Sessions, NEW to \in {"done", "cutoff"},
           MintOver(s, to), s \in MintWindows
    PROVE  /\ Cardinality(Windows') =
                Cardinality(Windows) + (0 - Cardinality(Waiters(s)))
           /\ Cardinality(MintWindows') = Cardinality(MintWindows) + (0 - 1)
           /\ inflight' = inflight + (0 - Cardinality(Waiters(s))) + (0 - 1)
           /\ Cardinality(Waiters(s)) \in Int
<1>1. Windows' = Windows \ Waiters(s) /\ Waiters(s) \subseteq Windows
  BY DEF MintOver, Windows, Waiters
<1>2. /\ Cardinality(Windows \ Waiters(s)) =
           Cardinality(Windows) - Cardinality(Waiters(s))
      /\ Cardinality(Windows) \in Nat /\ Cardinality(Waiters(s)) \in Nat
  BY <1>1, CountsFinite, CountTakes
<1>3. MintWindows' = MintWindows \ {s}
  BY DEF MintOver, MintWindows, IInv, TypeOK
<1>4. inflight' = (inflight + 0) - (1 + Cardinality(Waiters(s)))
  BY DEF MintOver, Count
<1>5. inflight \in Nat /\ Cardinality(MintWindows) \in Nat
  BY CountsFinite DEF IInv, TypeOK
<1>. QED
  BY <1>1, <1>2, <1>3, <1>4, <1>5, MintEnded

(* The answer to an end settles the only one there is (client.ts:680).     *)
LEMMA EndIsOver ==
    ASSUME IInv, NEW k \in Keys, EndAnswer(k)
    PROVE  /\ ending[k] = 1 /\ k \in EndWindows
           /\ \A j \in Keys : ending'[j] = IF j = k THEN 0 ELSE ending[j]
           /\ ending' \in [Keys -> Nat]
           /\ pending' = pending \ {k} /\ live' \subseteq live
           /\ \A j \in Keys : j # k => (j \in live' <=> j \in live)
           /\ EndWindows' = EndWindows \ {k}
<1>1. /\ ending[k] > 0 /\ ending' = [ending EXCEPT ![k] = @ - 1]
      /\ pending' = pending \ {k}
      /\ live' = live \ {k} \/ live' = live
  BY DEF EndAnswer, EndSucceeds, EndFails, EndOver
<1>2. ending[k] = 1
  BY <1>1 DEF IInv, EndsShared
<1>3. /\ \A j \in Keys : ending'[j] = IF j = k THEN 0 ELSE ending[j]
      /\ ending' \in [Keys -> Nat]
  BY <1>1, <1>2 DEF IInv, TypeOK
<1>. QED
  BY <1>1, <1>2, <1>3 DEF EndWindows

(* Nothing joins the count of a closed client that way (client.ts:405).    *)
LEMMA CountQuiet ==
    ASSUME IInv, NEW S, Begins(S), Count(Cardinality(S), 0), closed
    PROVE  inflight' = inflight
<1>1. Cardinality(S) = 0
  BY ClosedBegins
<1>2. inflight' = (inflight + 0) - 0
  BY <1>1 DEF Count
<1>. QED
  BY <1>2 DEF IInv, TypeOK

(* Ends that begin join the count beside what else a step opens and closes *)
(* (client.ts:401).                                                        *)
LEMMA CountBegins ==
    ASSUME IInv, NEW S, Begins(S),
           \/ /\ Cardinality(Windows') = Cardinality(Windows) + 0
              /\ Cardinality(MintWindows') = Cardinality(MintWindows) + 0
              /\ Count(Cardinality(S), 0)
           \/ /\ Cardinality(Windows') = Cardinality(Windows) + 1
              /\ Cardinality(MintWindows') = Cardinality(MintWindows) + 0
              /\ Count(1 + Cardinality(S), 0)
           \/ /\ Cardinality(Windows') = Cardinality(Windows) + 1
              /\ Cardinality(MintWindows') = Cardinality(MintWindows) + 1
              /\ Count(2 + Cardinality(S), 0)
           \/ /\ Cardinality(Windows') = Cardinality(Windows) + (0 - 1)
              /\ Cardinality(MintWindows') = Cardinality(MintWindows) + 0
              /\ Count(Cardinality(S), 1)
    PROVE  CountsWhatRuns' /\ inflight' \in Nat
<1>. DEFINE c == Cardinality(S)
<1>1. Cardinality(EndWindows') = Cardinality(EndWindows) + c /\ c \in Int
  BY CountEnds
<1>2. PICK w \in Int, i \in Int :
         /\ Cardinality(Windows') = Cardinality(Windows) + w
         /\ Cardinality(MintWindows') = Cardinality(MintWindows) + i
         /\ \/ w = 0 /\ i = 0 /\ inflight' = (inflight + c) - 0
            \/ w = 1 /\ i = 0 /\ inflight' = (inflight + (1 + c)) - 0
            \/ w = 1 /\ i = 1 /\ inflight' = (inflight + (2 + c)) - 0
            \/ w = 0 - 1 /\ i = 0 /\ inflight' = (inflight + c) - 1
  BY DEF Count
<1>3. inflight \in Int
  BY DEF IInv, TypeOK
<1>. HIDE DEF c
<1>4. inflight' = inflight + w + i + c
  BY <1>1, <1>2, <1>3
<1>. QED
  BY <1>1, <1>2, <1>4, CountStep

(* An end begins before the close, of a key that nobody uses and that the  *)
(* registry has or the clock rejected (client.ts:635).                     *)
LEMMA EndsBegin ==
    ASSUME IInv, [Next]_vars, NEW j \in Keys, ~(ending[j] > 0), ending'[j] > 0
    PROVE  /\ Spent(j)' /\ ~closed
           /\ j \in live \/ age'[j] = "expired"
<1>1. \A m \in Calls : CallJoins(m) \/ CallMints(m) => Enters(m)
  BY CallEnters DEF IInv
<1>2. \A s \in Sessions, k \in Keys : MintSkewed(s, k) => Skews(s, k)
  BY SkewedEnters DEF IInv
<1>3. \A s \in Sessions : SessionCloses(s) \/ SessionShuts(s) => Shuts(s)
  BY SessionEnds DEF IInv
<1>. USE DEF clientVars, regVars, tokenVars, keyVars, sessionVars, callVars,
             IInv, TypeOK, Keys, EndsShared
<1>4. ASSUME NEW m \in Calls, OwnCall(m)
      PROVE  /\ Spent(j)' /\ ~closed
             /\ j \in live \/ age'[j] = "expired"
  BY <1>4, CallsBegin DEF Begins
<1>5. ASSUME NEW m \in Calls, CallOnClosed(m)
      PROVE  /\ Spent(j)' /\ ~closed
             /\ j \in live \/ age'[j] = "expired"
  BY <1>5, CallsBegin DEF Begins
<1>6. ASSUME NEW m \in Calls, CallJoins(m)
      PROVE  /\ Spent(j)' /\ ~closed
             /\ j \in live \/ age'[j] = "expired"
  BY <1>6, CallsBegin DEF Begins
<1>7. ASSUME NEW m \in Calls, CallMints(m)
      PROVE  /\ Spent(j)' /\ ~closed
             /\ j \in live \/ age'[j] = "expired"
  BY <1>7, CallMintsBegins DEF Begins
<1>8. ASSUME NEW m \in Calls, CallSettles(m)
      PROVE  /\ Spent(j)' /\ ~closed
             /\ j \in live \/ age'[j] = "expired"
  BY <1>8, CallSettlesBegins DEF Begins
<1>9. ASSUME NEW s \in Sessions, MintAsks(s)
      PROVE  /\ Spent(j)' /\ ~closed
             /\ j \in live \/ age'[j] = "expired"
  BY <1>9, MintAsksBegins DEF Begins
<1>10. ASSUME NEW s \in Sessions, NEW k \in Keys,
             MintSkewed(s, k)
      PROVE  /\ Spent(j)' /\ ~closed
             /\ j \in live \/ age'[j] = "expired"
  <2>1. Skews(s, k)
    BY <1>10, <1>2
  <2>2. CASE MintOver(s, "done") /\ UNCHANGED <<ending, pending>>
    BY <2>2
  <2>3. CASE Condemns(s, k)
    <3>1. Begins(Started({k}, FALSE))
      BY <2>1, <2>3, SkewedBegins
    <3>. QED
      BY <3>1 DEF Begins
  <2>. QED
    BY <2>1, <2>2, <2>3 DEF Skews
<1>11. ASSUME NEW s \in Sessions, MintLands(s)
      PROVE  /\ Spent(j)' /\ ~closed
             /\ j \in live \/ age'[j] = "expired"
  BY <1>11, MintLandsBegins DEF Begins
<1>12. ASSUME NEW s \in Sessions,
             SessionCloses(s) \/ SessionShuts(s)
      PROVE  /\ Spent(j)' /\ ~closed
             /\ j \in live \/ age'[j] = "expired"
  <2>1. Shuts(s)
    BY <1>12, <1>3
  <2>2. CASE UNCHANGED <<current, retired, ending, pending, dropped, inflight>>
    BY <2>2
  <2>3. CASE Retires(s)
    <3>1. Begins(Retiring(s))
      BY <2>1, <2>3, ShutBegins
    <3>. QED
      BY <3>1 DEF Begins
  <2>. QED
    BY <2>1, <2>2, <2>3 DEF Shuts
<1>13. ASSUME NEW k \in Keys, EndSucceeds(k)
      PROVE  /\ Spent(j)' /\ ~closed
             /\ j \in live \/ age'[j] = "expired"
  BY <1>13 DEF EndSucceeds, EndOver, Count
<1>14. ASSUME NEW k \in Keys, EndFails(k)
      PROVE  /\ Spent(j)' /\ ~closed
             /\ j \in live \/ age'[j] = "expired"
  BY <1>14 DEF EndFails, EndOver, Count
<1>15. ASSUME NEW m \in Calls,
             CallRejected(m) \/ Connect(m) \/ CallTimesOut(m)
      PROVE  /\ Spent(j)' /\ ~closed
             /\ j \in live \/ age'[j] = "expired"
  <2>1. UNCHANGED <<ending>>
    BY <1>15 DEF CallRejected, Connect, CallTimesOut
  <2>. QED
    BY <2>1
<1>16. ASSUME NEW s \in Sessions,
             \/ MintCutOff(s) \/ MintRefused(s) \/ MintRefusesKey(s)
             \/ SessionLost(s)
      PROVE  /\ Spent(j)' /\ ~closed
             /\ j \in live \/ age'[j] = "expired"
  <2>1. UNCHANGED <<ending>>
    BY <1>16
    DEF MintCutOff, MintOver, MintRefused, MintRefusesKey, SessionLost
  <2>. QED
    BY <2>1
<1>17. ASSUME NEW s \in Sessions, NEW k \in Keys, NEW a \in Ages,
             MintAnswered(s, k, a)
      PROVE  /\ Spent(j)' /\ ~closed
             /\ j \in live \/ age'[j] = "expired"
  <2>1. UNCHANGED <<ending>>
    BY <1>17 DEF MintAnswered, Minted
  <2>. QED
    BY <2>1
<1>18. ASSUME NEW k \in Keys,
             KeyAges(k)
      PROVE  /\ Spent(j)' /\ ~closed
             /\ j \in live \/ age'[j] = "expired"
  <2>1. UNCHANGED <<ending>>
    BY <1>18 DEF KeyAges
  <2>. QED
    BY <2>1
<1>19. CASE Close \/ Drained \/ SweepEnds \/ SweepFails \/ TokenAges
  <2>1. UNCHANGED <<ending>>
    BY <1>19 DEF Close, Drained, SweepOn, SweepEnds, SweepFails, TokenAges
  <2>. QED
    BY <2>1
<1>20. ASSUME NEW to \in {"valid", "due", token},
             TokenIssued(to)
      PROVE  /\ Spent(j)' /\ ~closed
             /\ j \in live \/ age'[j] = "expired"
  <2>1. UNCHANGED <<ending>>
    BY <1>20 DEF TokenIssued
  <2>. QED
    BY <2>1
<1>21. CASE UNCHANGED vars
  BY <1>21 DEF vars
<1>. QED
  BY <1>4, <1>5, <1>6, <1>7, <1>8, <1>9, <1>10, <1>11, <1>12, <1>13, <1>14,
     <1>15, <1>16, <1>17, <1>18, <1>19, <1>20, <1>21
  DEF Next, CallStep, MintStep, MintAnswer, SessionStep, EndAnswer,
      TokenAnswer

(* Only the failure of an end marks a key so (client.ts:674).              *)
LEMMA FailsWereSent ==
    ASSUME IInv, [Next]_vars, NEW j \in Keys, j \in failed'
    PROVE  j \in failed \/ ending[j] > 0
<1>1. \A m \in Calls : CallJoins(m) \/ CallMints(m) => Enters(m)
  BY CallEnters DEF IInv
<1>. USE DEF clientVars, regVars, tokenVars, keyVars, sessionVars, callVars,
             IInv
<1>2. ASSUME NEW m \in Calls, CallMints(m)
      PROVE  j \in failed \/ ending[j] > 0
  BY <1>2 DEF CallMints, Idle, HasKey, Carry, Wait, EndKeys, Count
<1>3. ASSUME NEW k \in Keys, EndSucceeds(k)
      PROVE  j \in failed \/ ending[j] > 0
  BY <1>3 DEF EndSucceeds, EndOver, Count
<1>4. ASSUME NEW k \in Keys, EndFails(k)
      PROVE  j \in failed \/ ending[j] > 0
  BY <1>4 DEF EndFails, EndOver, Count
<1>5. CASE Drained
  BY <1>5 DEF Drained, SweepOn, DrainDone, Unexpired
<1>6. ASSUME NEW m \in Calls,
             \/ CallRejected(m) \/ OwnCall(m) \/ Connect(m)
             \/ CallOnClosed(m) \/ CallJoins(m) \/ CallSettles(m)
             \/ CallTimesOut(m)
      PROVE  j \in failed \/ ending[j] > 0
  <2>1. UNCHANGED <<failed>>
    BY <1>6
    DEF CallRejected, OwnCall, EndKeys, Connect, CallOnClosed, CallJoins,
        Carry, Wait, CallSettles, CallTimesOut
  <2>. QED
    BY <2>1
<1>7. ASSUME NEW s \in Sessions,
             \/ MintAsks(s) \/ MintCutOff(s) \/ MintRefused(s)
             \/ MintRefusesKey(s) \/ MintLands(s) \/ SessionCloses(s)
             \/ SessionShuts(s) \/ SessionLost(s)
      PROVE  j \in failed \/ ending[j] > 0
  <2>1. UNCHANGED <<failed>>
    BY <1>7
    DEF MintAsks, EndKeys, MintCutOff, MintOver, MintRefused, MintRefusesKey,
        MintLands, SessionCloses, SessionShuts, Shut, SessionLost
  <2>. QED
    BY <2>1
<1>8. ASSUME NEW s \in Sessions, NEW k \in Keys, NEW a \in Ages,
             MintAnswered(s, k, a)
      PROVE  j \in failed \/ ending[j] > 0
  <2>1. UNCHANGED <<failed>>
    BY <1>8 DEF MintAnswered, Minted
  <2>. QED
    BY <2>1
<1>9. ASSUME NEW s \in Sessions, NEW k \in Keys,
             MintSkewed(s, k)
      PROVE  j \in failed \/ ending[j] > 0
  <2>1. UNCHANGED <<failed>>
    BY <1>9 DEF MintSkewed, Minted, MintOver, EndKeys
  <2>. QED
    BY <2>1
<1>10. ASSUME NEW k \in Keys,
             KeyAges(k)
      PROVE  j \in failed \/ ending[j] > 0
  <2>1. UNCHANGED <<failed>>
    BY <1>10 DEF KeyAges
  <2>. QED
    BY <2>1
<1>11. CASE Close \/ SweepEnds \/ SweepFails \/ TokenAges
  <2>1. UNCHANGED <<failed>>
    BY <1>11 DEF Close, SweepEnds, SweepOn, SweepFails, TokenAges
  <2>. QED
    BY <2>1
<1>12. ASSUME NEW to \in {"valid", "due", token},
             TokenIssued(to)
      PROVE  j \in failed \/ ending[j] > 0
  <2>1. UNCHANGED <<failed>>
    BY <1>12 DEF TokenIssued
  <2>. QED
    BY <2>1
<1>13. CASE UNCHANGED vars
  BY <1>13 DEF vars
<1>. QED
  BY <1>2, <1>3, <1>4, <1>5, <1>6, <1>7, <1>8, <1>9, <1>10, <1>11, <1>12,
     <1>13
  DEF Next, CallStep, MintStep, MintAnswer, SessionStep, EndAnswer,
      TokenAnswer

----------------------------------------------------------------------------
(* The rest of the invariant, one lemma for each part.                     *)

(* LiveKey.ending is set and cleared with the end it stands for            *)
(* (client.ts:642, :673, :685).                                            *)
LEMMA EndsSharedKept ==
    ASSUME IInv, [Next]_vars
    PROVE  EndsShared'
<1>1. \A m \in Calls : CallJoins(m) \/ CallMints(m) => Enters(m)
  BY CallEnters DEF IInv
<1>2. \A s \in Sessions, k \in Keys : MintSkewed(s, k) => Skews(s, k)
  BY SkewedEnters DEF IInv
<1>3. \A s \in Sessions : SessionCloses(s) \/ SessionShuts(s) => Shuts(s)
  BY SessionEnds DEF IInv
<1>. USE DEF clientVars, regVars, tokenVars, keyVars, sessionVars, callVars,
             IInv, EndsShared
<1>4. ASSUME NEW m \in Calls, OwnCall(m)
      PROVE  EndsShared'
  BY <1>4, CallsBegin, BeginsShared
<1>5. ASSUME NEW m \in Calls, CallOnClosed(m)
      PROVE  EndsShared'
  BY <1>5, CallsBegin, BeginsShared
<1>6. ASSUME NEW m \in Calls, CallJoins(m)
      PROVE  EndsShared'
  BY <1>6, CallsBegin, BeginsShared
<1>7. ASSUME NEW m \in Calls, CallMints(m)
      PROVE  EndsShared'
  BY <1>7, CallMintsBegins, BeginsShared
<1>8. ASSUME NEW m \in Calls, CallSettles(m)
      PROVE  EndsShared'
  BY <1>8, CallSettlesBegins, BeginsShared
<1>9. ASSUME NEW s \in Sessions, MintAsks(s)
      PROVE  EndsShared'
  BY <1>9, MintAsksBegins, BeginsShared
<1>10. ASSUME NEW s \in Sessions, NEW k \in Keys, NEW a \in Ages,
             MintAnswered(s, k, a)
      PROVE  EndsShared'
  <2>1. ~(k <= minted) /\ minted <= k /\ minted' = k
    BY <1>10, NextKey DEF MintAnswered
  <2>2. k \notin pending /\ ending[k] = 0
    BY <2>1, NewKey
  <2>3. UNCHANGED <<ending, pending>> /\ live' = live \cup {k}
    BY <1>10 DEF MintAnswered
  <2>4. \A j \in Keys : j <= minted => j <= minted'
    BY <2>1, KeyType, MintedType
  <2>. QED
    BY <2>2, <2>3, <2>4 DEF EndsShared
<1>11. ASSUME NEW s \in Sessions, NEW k \in Keys,
             MintSkewed(s, k)
      PROVE  EndsShared'
  <2>1. Skews(s, k)
    BY <1>11, <1>2
  <2>2. CASE MintOver(s, "done") /\ UNCHANGED <<ending, pending>>
    <3>1. /\ live' = live /\ minted' = k /\ minted <= k
      BY <2>1 DEF Skews
    <3>. QED
      BY <2>2, <3>1, KeyType, MintedType DEF EndsShared
  <2>3. CASE Condemns(s, k)
    <3>1. Begins(Started({k}, FALSE))
      BY <2>1, <2>3, SkewedBegins
    <3>. QED
      BY <3>1, BeginsShared
  <2>. QED
    BY <2>1, <2>2, <2>3 DEF Skews
<1>12. ASSUME NEW s \in Sessions, MintLands(s)
      PROVE  EndsShared'
  BY <1>12, MintLandsBegins, BeginsShared
<1>13. ASSUME NEW s \in Sessions,
             SessionCloses(s) \/ SessionShuts(s)
      PROVE  EndsShared'
  <2>1. Shuts(s)
    BY <1>13, <1>3
  <2>2. CASE UNCHANGED <<current, retired, ending, pending, dropped, inflight>>
    BY <2>1, <2>2 DEF Shuts, EndsShared
  <2>3. CASE Retires(s)
    <3>1. Begins(Retiring(s))
      BY <2>1, <2>3, ShutBegins
    <3>. QED
      BY <3>1, BeginsShared
  <2>. QED
    BY <2>1, <2>2, <2>3 DEF Shuts
<1>14. ASSUME NEW k \in Keys, EndSucceeds(k)
      PROVE  EndsShared'
  <2>1. minted' = minted
    BY <1>14 DEF EndSucceeds, EndOver
  <2>. QED
    BY <1>14, <2>1, EndIsOver DEF EndAnswer, EndsShared, TypeOK
<1>15. ASSUME NEW k \in Keys, EndFails(k)
      PROVE  EndsShared'
  <2>1. minted' = minted
    BY <1>15 DEF EndFails, EndOver
  <2>. QED
    BY <1>15, <2>1, EndIsOver DEF EndAnswer, EndsShared, TypeOK
<1>16. CASE Drained
  BY <1>16 DEF Drained, SweepOn, DrainDone, Unexpired
<1>17. ASSUME NEW m \in Calls,
             CallRejected(m) \/ Connect(m) \/ CallTimesOut(m)
      PROVE  EndsShared'
  <2>1. UNCHANGED <<ending, live, pending, minted>>
    BY <1>17 DEF CallRejected, Connect, CallTimesOut
  <2>. QED
    BY <2>1 DEF EndsShared
<1>18. ASSUME NEW s \in Sessions,
             \/ MintCutOff(s) \/ MintRefused(s) \/ MintRefusesKey(s)
             \/ SessionLost(s)
      PROVE  EndsShared'
  <2>1. UNCHANGED <<ending, live, pending, minted>>
    BY <1>18
    DEF MintCutOff, MintOver, MintRefused, MintRefusesKey, SessionLost
  <2>. QED
    BY <2>1 DEF EndsShared
<1>19. ASSUME NEW k \in Keys,
             KeyAges(k)
      PROVE  EndsShared'
  <2>1. UNCHANGED <<ending, live, pending, minted>>
    BY <1>19 DEF KeyAges
  <2>. QED
    BY <2>1 DEF EndsShared
<1>20. CASE Close \/ SweepEnds \/ SweepFails \/ TokenAges
  <2>1. UNCHANGED <<ending, live, pending, minted>>
    BY <1>20 DEF Close, SweepEnds, SweepOn, SweepFails, TokenAges
  <2>. QED
    BY <2>1 DEF EndsShared
<1>21. ASSUME NEW to \in {"valid", "due", token},
             TokenIssued(to)
      PROVE  EndsShared'
  <2>1. UNCHANGED <<ending, live, pending, minted>>
    BY <1>21 DEF TokenIssued
  <2>. QED
    BY <2>1 DEF EndsShared
<1>22. CASE UNCHANGED vars
  BY <1>22 DEF vars, EndsShared
<1>. QED
  BY <1>4, <1>5, <1>6, <1>7, <1>8, <1>9, <1>10, <1>11, <1>12, <1>13, <1>14,
     <1>15, <1>16, <1>17, <1>18, <1>19, <1>20, <1>21, <1>22
  DEF Next, CallStep, MintStep, MintAnswer, SessionStep, EndAnswer,
      TokenAnswer

(* close() refuses, drains, sweeps and releases, in that order, and        *)
(* nothing joins the count after the drain (client.ts:303).                *)
LEMMA StagesKept ==
    ASSUME IInv, [Next]_vars
    PROVE  Stages'
<1>1. \A m \in Calls : CallJoins(m) \/ CallMints(m) => Enters(m)
  BY CallEnters DEF IInv
<1>2. \A s \in Sessions, k \in Keys : MintSkewed(s, k) => Skews(s, k)
  BY SkewedEnters DEF IInv
<1>3. \A s \in Sessions : SessionCloses(s) \/ SessionShuts(s) => Shuts(s)
  BY SessionEnds DEF IInv
<1>. USE DEF clientVars, regVars, tokenVars, keyVars, sessionVars, callVars,
             IInv, Stages, TypeOK
<1>4. ASSUME NEW m \in Calls, OwnCall(m)
      PROVE  Stages'
  BY <1>4 DEF OwnCall, Idle, EndKeys, Count
<1>5. ASSUME NEW m \in Calls, Connect(m)
      PROVE  Stages'
  BY <1>5 DEF Connect, Idle, Count
<1>6. ASSUME NEW m \in Calls, CallOnClosed(m)
      PROVE  Stages'
  BY <1>6 DEF CallOnClosed, Idle, EndKeys, Count
<1>7. ASSUME NEW m \in Calls, CallJoins(m)
      PROVE  Stages'
  BY <1>7, <1>1 DEF Enters
<1>8. ASSUME NEW m \in Calls, CallMints(m)
      PROVE  Stages'
  BY <1>8, <1>1 DEF Enters
<1>9. ASSUME NEW m \in Calls, CallSettles(m)
      PROVE  Stages'
  <2>1. stage \notin {"sweeping", "closed"}
    BY <1>9, Quiet DEF CallSettles, Windows
  <2>. QED
    BY <1>9, <2>1 DEF CallSettles
<1>10. ASSUME NEW m \in Calls, CallTimesOut(m)
      PROVE  Stages'
  <2>1. stage \notin {"sweeping", "closed"}
    BY <1>10, Quiet DEF CallTimesOut, Windows
  <2>. QED
    BY <1>10, <2>1 DEF CallTimesOut
<1>11. ASSUME NEW s \in Sessions, MintAsks(s)
      PROVE  Stages'
  <2>1. stage \notin {"sweeping", "closed"}
    BY <1>11, Quiet DEF MintAsks, MintWindows
  <2>. QED
    BY <1>11, <2>1 DEF MintAsks
<1>12. ASSUME NEW s \in Sessions, MintCutOff(s)
      PROVE  Stages'
  <2>1. stage \notin {"sweeping", "closed"}
    BY <1>12, Quiet DEF MintCutOff, MintWindows, MintOver
  <2>. QED
    BY <1>12, <2>1 DEF MintCutOff, MintOver
<1>13. ASSUME NEW s \in Sessions, MintRefused(s)
      PROVE  Stages'
  <2>1. stage \notin {"sweeping", "closed"}
    BY <1>13, Quiet DEF MintRefused, MintWindows, MintOver
  <2>. QED
    BY <1>13, <2>1 DEF MintRefused, MintOver
<1>14. ASSUME NEW s \in Sessions, NEW k \in Keys, NEW a \in Ages,
             MintAnswered(s, k, a)
      PROVE  Stages'
  <2>1. stage \notin {"sweeping", "closed"}
    BY <1>14, Quiet DEF MintAnswered, MintWindows
  <2>. QED
    BY <1>14, <2>1 DEF MintAnswered
<1>15. ASSUME NEW s \in Sessions, NEW k \in Keys,
             MintSkewed(s, k)
      PROVE  Stages'
  <2>1. Skews(s, k)
    BY <1>15, <1>2
  <2>2. stage \notin {"sweeping", "closed"}
    BY <2>1, Quiet DEF Skews, MintWindows
  <2>. QED
    BY <2>1, <2>2 DEF Skews
<1>16. ASSUME NEW s \in Sessions, MintRefusesKey(s)
      PROVE  Stages'
  <2>1. stage \notin {"sweeping", "closed"}
    BY <1>16, Quiet DEF MintRefusesKey, MintWindows, MintOver
  <2>. QED
    BY <1>16, <2>1 DEF MintRefusesKey, MintOver
<1>17. ASSUME NEW s \in Sessions, MintLands(s)
      PROVE  Stages'
  <2>1. Count(Cardinality(Retiring(s)), 0)
    BY <1>17 DEF MintLands, Retiring
  <2>2. closed => inflight' = inflight
    BY <1>17, <2>1, MintLandsBegins, CountQuiet
  <2>. QED
    BY <1>17, <2>2 DEF MintLands
<1>18. ASSUME NEW s \in Sessions,
             SessionCloses(s) \/ SessionShuts(s)
      PROVE  Stages'
  <2>1. Shuts(s)
    BY <1>18, <1>3
  <2>2. CASE UNCHANGED <<current, retired, ending, pending, dropped, inflight>>
    BY <2>1, <2>2 DEF Shuts
  <2>3. CASE Retires(s)
    <3>1. Begins(Retiring(s))
      BY <2>1, <2>3, ShutBegins
    <3>2. closed => inflight' = inflight
      BY <3>1, <2>3, CountQuiet DEF Retires
    <3>. QED
      BY <2>1, <3>2 DEF Shuts
  <2>. QED
    BY <2>1, <2>2, <2>3 DEF Shuts
<1>19. ASSUME NEW k \in Keys, EndSucceeds(k)
      PROVE  Stages'
  <2>1. stage \notin {"sweeping", "closed"}
    BY <1>19, Quiet, EndIsOver DEF EndAnswer
  <2>. QED
    BY <1>19, <2>1 DEF EndSucceeds, EndOver
<1>20. ASSUME NEW k \in Keys, EndFails(k)
      PROVE  Stages'
  <2>1. stage \notin {"sweeping", "closed"}
    BY <1>20, Quiet, EndIsOver DEF EndAnswer
  <2>. QED
    BY <1>20, <2>1 DEF EndFails, EndOver
<1>21. CASE Close
  BY <1>21 DEF Close
<1>22. CASE Drained
  BY <1>22 DEF Drained, SweepOn, DrainDone, Unexpired
<1>23. CASE SweepEnds
  BY <1>23 DEF SweepEnds, SweepOn, Lowest
<1>24. CASE SweepFails
  BY <1>24 DEF SweepFails, SweepOn, Lowest
<1>25. ASSUME NEW m \in Calls,
             CallRejected(m)
      PROVE  Stages'
  <2>1. UNCHANGED <<stage, closed, inflight, live, sweep, warned>>
    BY <1>25 DEF CallRejected
  <2>. QED
    BY <2>1 DEF Stages
<1>26. ASSUME NEW s \in Sessions,
             SessionLost(s)
      PROVE  Stages'
  <2>1. UNCHANGED <<stage, closed, inflight, live, sweep, warned>>
    BY <1>26 DEF SessionLost
  <2>. QED
    BY <2>1 DEF Stages
<1>27. ASSUME NEW k \in Keys,
             KeyAges(k)
      PROVE  Stages'
  <2>1. UNCHANGED <<stage, closed, inflight, live, sweep, warned>>
    BY <1>27 DEF KeyAges
  <2>. QED
    BY <2>1 DEF Stages
<1>28. ASSUME NEW to \in {"valid", "due", token},
             TokenIssued(to)
      PROVE  Stages'
  <2>1. UNCHANGED <<stage, closed, inflight, live, sweep, warned>>
    BY <1>28 DEF TokenIssued
  <2>. QED
    BY <2>1 DEF Stages
<1>29. CASE TokenAges
  <2>1. UNCHANGED <<stage, closed, inflight, live, sweep, warned>>
    BY <1>29 DEF TokenAges
  <2>. QED
    BY <2>1 DEF Stages
<1>30. CASE UNCHANGED vars
  BY <1>30 DEF vars, Stages
<1>. QED
  BY <1>4, <1>5, <1>6, <1>7, <1>8, <1>9, <1>10, <1>11, <1>12, <1>13, <1>14,
     <1>15, <1>16, <1>17, <1>18, <1>19, <1>20, <1>21, <1>22, <1>23, <1>24,
     <1>25, <1>26, <1>27, <1>28, <1>29, <1>30
  DEF Next, CallStep, MintStep, MintAnswer, SessionStep, EndAnswer,
      TokenAnswer

(* Every call, mint and end joins the count once and leaves it once        *)
(* (client.ts:401).                                                        *)
LEMMA CountKept ==
    ASSUME IInv, [Next]_vars
    PROVE  CountsWhatRuns' /\ inflight' \in Nat
<1>1. \A m \in Calls : CallJoins(m) \/ CallMints(m) => Enters(m)
  BY CallEnters DEF IInv
<1>2. \A s \in Sessions, k \in Keys : MintSkewed(s, k) => Skews(s, k)
  BY SkewedEnters DEF IInv
<1>3. \A s \in Sessions : SessionCloses(s) \/ SessionShuts(s) => Shuts(s)
  BY SessionEnds DEF IInv
<1>. USE DEF clientVars, regVars, tokenVars, keyVars, sessionVars, callVars,
             IInv, TypeOK
<1>4. ASSUME NEW m \in Calls, CallRejected(m)
      PROVE  CountsWhatRuns' /\ inflight' \in Nat
  BY <1>4 DEF CallRejected, Idle, clientVars, keyVars, sessionVars,
      CountsWhatRuns, Counted, Windows, MintWindows, EndWindows
<1>5. ASSUME NEW m \in Calls, OwnCall(m)
      PROVE  CountsWhatRuns' /\ inflight' \in Nat
  <2>1. Windows' = Windows \cup {m} /\ m \notin Windows
    BY <1>5 DEF OwnCall, Windows, Idle
  <2>2. MintWindows' = MintWindows
    BY <1>5 DEF OwnCall, MintWindows, sessionVars
  <2>3. Begins(Started({}, TRUE))
    BY <1>5, CallsBegin
  <2>4. Count(1 + Cardinality(Started({}, TRUE)), 0)
    BY <1>5 DEF OwnCall
  <2>5. /\ Cardinality(Windows') = Cardinality(Windows) + 1
        /\ Cardinality(MintWindows') = Cardinality(MintWindows) + 0
    BY <2>1, <2>2, CountsFinite, CallEnded
  <2>. QED
    BY <2>3, <2>4, <2>5, CountBegins
<1>6. ASSUME NEW m \in Calls, Connect(m)
      PROVE  CountsWhatRuns' /\ inflight' \in Nat
  <2>1. Windows' = Windows \cup {m} /\ m \notin Windows
    BY <1>6 DEF Connect, Windows, Idle
  <2>2. MintWindows' = MintWindows
    BY <1>6 DEF Connect, MintWindows, sessionVars
  <2>3. EndWindows' = EndWindows
    BY <1>6 DEF Connect, EndWindows, keyVars
  <2>4. inflight' = inflight + 1 + 0 + 0
    BY <1>6, <2>3 DEF Connect, Count
  <2>5. /\ Cardinality(Windows') = Cardinality(Windows) + 1
        /\ Cardinality(MintWindows') = Cardinality(MintWindows) + 0
    BY <2>1, <2>2, CountsFinite, CallEnded
  <2>6. Cardinality(EndWindows') = Cardinality(EndWindows) + 0
    BY <2>3, CountsFinite
  <2>. QED
    BY <2>3, <2>4, <2>5, <2>6, CountStep
<1>7. ASSUME NEW m \in Calls, CallOnClosed(m)
      PROVE  CountsWhatRuns' /\ inflight' \in Nat
  <2>1. Windows' = Windows
    BY <1>7 DEF CallOnClosed, Windows, Idle
  <2>2. MintWindows' = MintWindows
    BY <1>7 DEF CallOnClosed, MintWindows, sessionVars
  <2>3. Begins(Started({}, TRUE))
    BY <1>7, CallsBegin
  <2>4. Count(Cardinality(Started({}, TRUE)), 0)
    BY <1>7 DEF CallOnClosed
  <2>5. /\ Cardinality(Windows') = Cardinality(Windows) + 0
        /\ Cardinality(MintWindows') = Cardinality(MintWindows) + 0
    BY <2>1, <2>2, CountsFinite
  <2>. QED
    BY <2>3, <2>4, <2>5, CountBegins
<1>8. ASSUME NEW m \in Calls, CallJoins(m)
      PROVE  CountsWhatRuns' /\ inflight' \in Nat
  <2>1. Windows' = Windows \cup {m} /\ m \notin Windows
    BY <1>8 DEF CallJoins, Windows, Idle, Carry, Wait
  <2>2. MintWindows' = MintWindows
    BY <1>8 DEF CallJoins, MintWindows, sessionVars
  <2>3. Begins(Started({}, TRUE))
    BY <1>8, CallsBegin
  <2>4. Count(1 + Cardinality(Started({}, TRUE)), 0)
    BY <1>8 DEF CallJoins
  <2>5. /\ Cardinality(Windows') = Cardinality(Windows) + 1
        /\ Cardinality(MintWindows') = Cardinality(MintWindows) + 0
    BY <2>1, <2>2, CountsFinite, CallEnded
  <2>. QED
    BY <2>3, <2>4, <2>5, CountBegins
<1>9. ASSUME NEW m \in Calls, CallMints(m)
      PROVE  CountsWhatRuns' /\ inflight' \in Nat
  <2>1. Windows' = Windows \cup {m} /\ m \notin Windows
    BY <1>9 DEF CallMints, Windows, Idle, Carry, Wait
  <2>2. /\ MintWindows' = MintWindows \cup {SessionOf[m]}
        /\ SessionOf[m] \notin MintWindows
    BY <1>9, ScopeAssumption DEF CallMints, MintWindows, sessionVars
  <2>3. Begins(Started(ToEndFirst(SessionOf[m]), TRUE))
    BY <1>9, CallMintsBegins
  <2>4. Count(2 + Cardinality(Started(ToEndFirst(SessionOf[m]), TRUE)), 0)
    BY <1>9 DEF CallMints
  <2>5. /\ Cardinality(Windows') = Cardinality(Windows) + 1
        /\ Cardinality(MintWindows') = Cardinality(MintWindows) + 1
    BY <2>1, <2>2, <1>9, <1>1, CountsFinite, CallEnded, MintEnded DEF Enters
  <2>. QED
    BY <2>3, <2>4, <2>5, CountBegins
<1>10. ASSUME NEW m \in Calls, CallSettles(m)
      PROVE  CountsWhatRuns' /\ inflight' \in Nat
  <2>1. Windows' = Windows \ {m} /\ m \in Windows
    BY <1>10 DEF CallSettles, Windows
  <2>2. MintWindows' = MintWindows
    BY <1>10 DEF CallSettles, MintWindows, sessionVars
  <2>3. Begins(Started(EndOnLastUse(m), FALSE))
    BY <1>10, CallSettlesBegins
  <2>4. Count(Cardinality(Started(EndOnLastUse(m), FALSE)), 1)
    BY <1>10 DEF CallSettles
  <2>5. /\ Cardinality(Windows') = Cardinality(Windows) + (0 - 1)
        /\ Cardinality(MintWindows') = Cardinality(MintWindows) + 0
    BY <2>1, <2>2, CountsFinite, CallEnded
  <2>. QED
    BY <2>3, <2>4, <2>5, CountBegins
<1>11. ASSUME NEW m \in Calls, CallTimesOut(m)
      PROVE  CountsWhatRuns' /\ inflight' \in Nat
  <2>1. Windows' = Windows \ {m} /\ m \in Windows
    BY <1>11 DEF CallTimesOut, Windows
  <2>2. MintWindows' = MintWindows
    BY <1>11 DEF CallTimesOut, MintWindows, sessionVars
  <2>3. EndWindows' = EndWindows
    BY <1>11 DEF CallTimesOut, EndWindows, keyVars
  <2>4. inflight' = inflight + (0 - 1) + 0 + 0
    BY <1>11, <2>3 DEF CallTimesOut, Count
  <2>5. /\ Cardinality(Windows') = Cardinality(Windows) + (0 - 1)
        /\ Cardinality(MintWindows') = Cardinality(MintWindows) + 0
    BY <2>1, <2>2, CountsFinite, CallEnded
  <2>6. Cardinality(EndWindows') = Cardinality(EndWindows) + 0
    BY <2>3, CountsFinite
  <2>. QED
    BY <2>3, <2>4, <2>5, <2>6, CountStep
<1>12. ASSUME NEW s \in Sessions, MintAsks(s)
      PROVE  CountsWhatRuns' /\ inflight' \in Nat
  <2>1. Windows' = Windows
    BY <1>12 DEF MintAsks, Windows, callVars
  <2>2. MintWindows' = MintWindows
    BY <1>12 DEF MintAsks, MintWindows, sessionVars
  <2>3. Begins(Started({}, TRUE))
    BY <1>12, MintAsksBegins
  <2>4. Count(Cardinality(Started({}, TRUE)), 0)
    BY <1>12 DEF MintAsks
  <2>5. /\ Cardinality(Windows') = Cardinality(Windows) + 0
        /\ Cardinality(MintWindows') = Cardinality(MintWindows) + 0
    BY <2>1, <2>2, CountsFinite
  <2>. QED
    BY <2>3, <2>4, <2>5, CountBegins
<1>13. ASSUME NEW s \in Sessions, MintCutOff(s)
      PROVE  CountsWhatRuns' /\ inflight' \in Nat
  <2>1. MintOver(s, "cutoff") /\ ending' = ending /\ s \in MintWindows
    BY <1>13 DEF MintCutOff, MintWindows
  <2>2. Cardinality(EndWindows') = Cardinality(EndWindows) + 0
    BY <2>1, CountsFinite DEF EndWindows
  <2>3. inflight' = inflight + (0 - Cardinality(Waiters(s))) + (0 - 1) + 0
    BY <2>1, CountMintOver
  <2>. QED
    BY <2>1, <2>2, <2>3, CountMintOver, CountStep
<1>14. ASSUME NEW s \in Sessions, MintRefused(s)
      PROVE  CountsWhatRuns' /\ inflight' \in Nat
  <2>1. MintOver(s, "done") /\ ending' = ending /\ s \in MintWindows
    BY <1>14 DEF MintRefused, MintWindows
  <2>2. Cardinality(EndWindows') = Cardinality(EndWindows) + 0
    BY <2>1, CountsFinite DEF EndWindows
  <2>3. inflight' = inflight + (0 - Cardinality(Waiters(s))) + (0 - 1) + 0
    BY <2>1, CountMintOver
  <2>. QED
    BY <2>1, <2>2, <2>3, CountMintOver, CountStep
<1>15. ASSUME NEW s \in Sessions, NEW k \in Keys, NEW a \in Ages,
             MintAnswered(s, k, a)
      PROVE  CountsWhatRuns' /\ inflight' \in Nat
  <2>1. Windows' = Windows
    BY <1>15 DEF MintAnswered, Windows, callVars
  <2>2. MintWindows' = MintWindows \ {s} /\ s \in MintWindows
    BY <1>15 DEF MintAnswered, MintWindows, sessionVars
  <2>3. EndWindows' = EndWindows
    BY <1>15 DEF MintAnswered, EndWindows, keyVars
  <2>4. inflight' = inflight + 0 + (0 - 1) + 0
    BY <1>15, <2>3 DEF MintAnswered, Count
  <2>5. /\ Cardinality(Windows') = Cardinality(Windows) + 0
        /\ Cardinality(MintWindows') = Cardinality(MintWindows) + (0 - 1)
    BY <2>1, <2>2, CountsFinite, MintEnded
  <2>6. Cardinality(EndWindows') = Cardinality(EndWindows) + 0
    BY <2>3, CountsFinite
  <2>. QED
    BY <2>3, <2>4, <2>5, <2>6, CountStep
<1>16. ASSUME NEW s \in Sessions, NEW k \in Keys,
             MintSkewed(s, k)
      PROVE  CountsWhatRuns' /\ inflight' \in Nat
  <2>1. Skews(s, k)
    BY <1>16, <1>2
  <2>2. CASE MintOver(s, "done") /\ UNCHANGED <<ending, pending>>
    <3>1. s \in MintWindows
      BY <2>1 DEF Skews, MintWindows
    <3>2. Cardinality(EndWindows') = Cardinality(EndWindows) + 0
      BY <2>2, CountsFinite DEF EndWindows
    <3>3. inflight' = inflight + (0 - Cardinality(Waiters(s))) + (0 - 1) + 0
      BY <2>2, <3>1, CountMintOver
    <3>. QED
      BY <2>2, <3>1, <3>2, <3>3, CountMintOver, CountStep
  <2>3. CASE Condemns(s, k)
    <3>1. Begins(Started({k}, FALSE))
      BY <2>1, <2>3, SkewedBegins
    <3>2. Windows' = Windows /\ MintWindows' = MintWindows
      BY <2>1, <2>3 DEF Windows, MintWindows, Skews, Condemns
    <3>3. /\ Cardinality(Windows') = Cardinality(Windows) + 0
          /\ Cardinality(MintWindows') = Cardinality(MintWindows) + 0
      BY <3>2, CountsFinite
    <3>. QED
      BY <2>3, <3>1, <3>3, CountBegins DEF Condemns
  <2>. QED
    BY <2>1, <2>2, <2>3 DEF Skews
<1>17. ASSUME NEW s \in Sessions, MintRefusesKey(s)
      PROVE  CountsWhatRuns' /\ inflight' \in Nat
  <2>1. MintOver(s, "done") /\ ending' = ending /\ s \in MintWindows
    BY <1>17 DEF MintRefusesKey, MintWindows
  <2>2. Cardinality(EndWindows') = Cardinality(EndWindows) + 0
    BY <2>1, CountsFinite DEF EndWindows
  <2>3. inflight' = inflight + (0 - Cardinality(Waiters(s))) + (0 - 1) + 0
    BY <2>1, CountMintOver
  <2>. QED
    BY <2>1, <2>2, <2>3, CountMintOver, CountStep
<1>18. ASSUME NEW s \in Sessions, MintLands(s)
      PROVE  CountsWhatRuns' /\ inflight' \in Nat
  <2>1. Windows' = Windows
    BY <1>18 DEF MintLands, Windows, Waiters
  <2>2. MintWindows' = MintWindows
    BY <1>18 DEF MintLands, MintWindows, sessionVars
  <2>3. Begins(Retiring(s))
    BY <1>18, MintLandsBegins
  <2>4. Count(Cardinality(Retiring(s)), 0)
    BY <1>18 DEF MintLands, Retiring
  <2>5. /\ Cardinality(Windows') = Cardinality(Windows) + 0
        /\ Cardinality(MintWindows') = Cardinality(MintWindows) + 0
    BY <2>1, <2>2, CountsFinite
  <2>. QED
    BY <2>3, <2>4, <2>5, CountBegins
<1>19. ASSUME NEW s \in Sessions,
             SessionCloses(s) \/ SessionShuts(s)
      PROVE  CountsWhatRuns' /\ inflight' \in Nat
  <2>1. Shuts(s)
    BY <1>19, <1>3
  <2>2. CASE UNCHANGED <<current, retired, ending, pending, dropped, inflight>>
    BY <2>1, <2>2 DEF Shuts, CountsWhatRuns, Counted, Windows,
        MintWindows, EndWindows
  <2>3. CASE Retires(s)
    <3>1. Begins(Retiring(s))
      BY <2>1, <2>3, ShutBegins
    <3>2. Windows' = Windows /\ MintWindows' = MintWindows
      BY <2>1 DEF Windows, MintWindows, Shuts
    <3>3. /\ Cardinality(Windows') = Cardinality(Windows) + 0
          /\ Cardinality(MintWindows') = Cardinality(MintWindows) + 0
      BY <3>2, CountsFinite
    <3>. QED
      BY <2>3, <3>1, <3>3, CountBegins DEF Retires
  <2>. QED
    BY <2>1, <2>2, <2>3 DEF Shuts
<1>20. ASSUME NEW k \in Keys, EndSucceeds(k)
      PROVE  CountsWhatRuns' /\ inflight' \in Nat
  <2>1. k \in EndWindows /\ EndWindows' = EndWindows \ {k}
    BY <1>20, EndIsOver DEF EndAnswer
  <2>2. Windows' = Windows /\ MintWindows' = MintWindows
    BY <1>20 DEF EndSucceeds, EndOver, callVars, Windows, MintWindows
  <2>3. inflight' = inflight + 0 + 0 + (0 - 1)
    BY <1>20 DEF EndSucceeds, EndOver, Count
  <2>4. /\ Cardinality(Windows') = Cardinality(Windows) + 0
        /\ Cardinality(MintWindows') = Cardinality(MintWindows) + 0
        /\ Cardinality(EndWindows') = Cardinality(EndWindows) + (0 - 1)
    BY <2>1, <2>2, CountsFinite, EndEnded
  <2>. QED
    BY <2>3, <2>4, CountStep
<1>21. ASSUME NEW k \in Keys, EndFails(k)
      PROVE  CountsWhatRuns' /\ inflight' \in Nat
  <2>1. k \in EndWindows /\ EndWindows' = EndWindows \ {k}
    BY <1>21, EndIsOver DEF EndAnswer
  <2>2. Windows' = Windows /\ MintWindows' = MintWindows
    BY <1>21 DEF EndFails, EndOver, callVars, Windows, MintWindows
  <2>3. inflight' = inflight + 0 + 0 + (0 - 1)
    BY <1>21 DEF EndFails, EndOver, Count
  <2>4. /\ Cardinality(Windows') = Cardinality(Windows) + 0
        /\ Cardinality(MintWindows') = Cardinality(MintWindows) + 0
        /\ Cardinality(EndWindows') = Cardinality(EndWindows) + (0 - 1)
    BY <2>1, <2>2, CountsFinite, EndEnded
  <2>. QED
    BY <2>3, <2>4, CountStep
<1>22. ASSUME NEW s \in Sessions,
             SessionLost(s)
      PROVE  CountsWhatRuns' /\ inflight' \in Nat
  <2>1. UNCHANGED <<inflight, phase, mint, ending>>
    BY <1>22 DEF SessionLost
  <2>. QED
    BY <2>1
    DEF CountsWhatRuns, Counted, Windows, MintWindows, EndWindows, TypeOK
<1>23. ASSUME NEW k \in Keys,
             KeyAges(k)
      PROVE  CountsWhatRuns' /\ inflight' \in Nat
  <2>1. UNCHANGED <<inflight, phase, mint, ending>>
    BY <1>23 DEF KeyAges
  <2>. QED
    BY <2>1
    DEF CountsWhatRuns, Counted, Windows, MintWindows, EndWindows, TypeOK
<1>24. CASE Close \/ Drained \/ SweepEnds \/ SweepFails \/ TokenAges
  <2>1. UNCHANGED <<inflight, phase, mint, ending>>
    BY <1>24 DEF Close, Drained, SweepOn, SweepEnds, SweepFails, TokenAges
  <2>. QED
    BY <2>1
    DEF CountsWhatRuns, Counted, Windows, MintWindows, EndWindows, TypeOK
<1>25. ASSUME NEW to \in {"valid", "due", token},
             TokenIssued(to)
      PROVE  CountsWhatRuns' /\ inflight' \in Nat
  <2>1. UNCHANGED <<inflight, phase, mint, ending>>
    BY <1>25 DEF TokenIssued
  <2>. QED
    BY <2>1
    DEF CountsWhatRuns, Counted, Windows, MintWindows, EndWindows, TypeOK
<1>26. CASE UNCHANGED vars
  BY <1>26
  DEF vars, CountsWhatRuns, Counted, Windows, MintWindows, EndWindows, TypeOK
<1>. QED
  BY <1>4, <1>5, <1>6, <1>7, <1>8, <1>9, <1>10, <1>11, <1>12, <1>13, <1>14,
     <1>15, <1>16, <1>17, <1>18, <1>19, <1>20, <1>21, <1>22, <1>23, <1>24,
     <1>25, <1>26
  DEF Next, CallStep, MintStep, MintAnswer, SessionStep, EndAnswer,
      TokenAnswer

(* Whatever is ended, or may be, stays unused (client.ts:297).             *)
LEMMA OnlySpentEndKept ==
    ASSUME IInv, [Next]_vars
    PROVE  OnlySpentEnd'
<1>1. ASSUME NEW j \in Keys, ending[j] > 0 \/ j \in failed
      PROVE  Spent(j)'
  <2>1. Spent(j)
    BY <1>1 DEF IInv, OnlySpentEnd
  <2>2. j <= minted
    BY <1>1 DEF IInv, EndsShared, Numbered, TypeOK
  <2>. QED
    BY <2>1, <2>2, SpentStays
<1>2. ASSUME NEW j \in Keys, ending'[j] > 0
      PROVE  Spent(j)'
  BY <1>1, <1>2, EndsBegin
<1>3. ASSUME NEW j \in Keys, j \in failed'
      PROVE  Spent(j)'
  BY <1>1, <1>3, FailsWereSent
<1>4. ASSUME NEW j \in Keys, owner'[j] \in dropped'
      PROVE  Spent(j)'
  <2>1. j # None
    BY DEF Keys, None
  <2>2. owner'[j] \in gone'
    BY <1>4, LostKept DEF Lost
  <2>3. Carriers(j)' = {}
    BY <2>2, LostKept DEF Lost
  <2>4. \A s \in Sessions : current'[s] = j => s \in gone'
    BY <2>1, <2>2, OwnedKept DEF Owned
  <2>5. \A s \in Sessions : fresh'[s] # j
    BY <2>1, <2>2, OwnedKept, LostKept DEF Owned, Lost
  <2>. QED
    BY <2>3, <2>4, <2>5 DEF Spent, Carriers
<1>. QED
  BY <1>2, <1>3, <1>4 DEF OnlySpentEnd

(* Every step keeps the types, the count in flight among them              *)
(* (client.ts:401).                                                        *)
LEMMA TypeOKKept ==
    ASSUME IInv, [Next]_vars
    PROVE  TypeOK'
<1>1. \A m \in Calls : CallJoins(m) \/ CallMints(m) => Enters(m)
  BY CallEnters DEF IInv
<1>2. \A s \in Sessions, k \in Keys : MintSkewed(s, k) => Skews(s, k)
  BY SkewedEnters DEF IInv
<1>3. \A s \in Sessions : SessionCloses(s) \/ SessionShuts(s) => Shuts(s)
  BY SessionEnds DEF IInv
<1>. USE DEF clientVars, regVars, tokenVars, keyVars, sessionVars, callVars,
             IInv, TypeOK
<1>4. ASSUME NEW m \in Calls, CallRejected(m)
      PROVE  TypeOK'
  BY <1>4 DEF CallRejected, TypeOK, Ages
<1>5. ASSUME NEW m \in Calls, OwnCall(m)
      PROVE  TypeOK'
  <2>1. Begins(Started({}, TRUE)) /\ inflight' \in Nat
    BY <1>5, CountKept, CallsBegin
  <2>. QED
    BY <1>5, <2>1 DEF TypeOK, Keys, Ages, None, OwnCall, LeaseOwn, Begins
<1>6. ASSUME NEW m \in Calls, Connect(m)
      PROVE  TypeOK'
  <2>1. inflight' \in Nat
    BY <1>6, CountKept
  <2>. QED
    BY <1>6, <2>1 DEF TypeOK, Keys, Ages, None, Connect, LeaseOwn
<1>7. ASSUME NEW m \in Calls, CallOnClosed(m)
      PROVE  TypeOK'
  <2>1. Begins(Started({}, TRUE)) /\ inflight' \in Nat
    BY <1>7, CountKept, CallsBegin
  <2>. QED
    BY <1>7, <2>1
    DEF TypeOK, Keys, Ages, None, CallOnClosed, LeaseOwn, Begins
<1>8. ASSUME NEW m \in Calls, CallJoins(m)
      PROVE  TypeOK'
  <2>1. /\ Begins(Started({}, TRUE))
        /\ inflight' \in Nat /\ Enters(m)
    BY <1>8, <1>1, CountKept, CallsBegin
  <2>2. /\ phase' \in [Calls -> {"idle", "waiting", "sent",
                                 "done", "rejected", "cutoff"}]
        /\ carries' \in [Calls -> Keys \cup {None}]
        /\ mint' \in [Sessions -> {"no", "ends", "sent", "landed", "refusing"}]
    BY <2>1 DEF Enters, TypeOK
  <2>3. /\ issuing' \in BOOLEAN /\ token' = token
        /\ live' \subseteq live /\ failed' \subseteq live'
        /\ awaits' \in [Sessions -> SUBSET Keys]
    BY <1>8, FirstIdle
    DEF CallJoins, LeaseOwn, TypeOK, Unexpired, sessionVars
  <2>. QED
    BY <2>1, <2>2, <2>3 DEF Enters, Begins, TypeOK
<1>9. ASSUME NEW m \in Calls, CallMints(m)
      PROVE  TypeOK'
  <2>1. /\ Begins(Started(ToEndFirst(SessionOf[m]), TRUE))
        /\ inflight' \in Nat /\ Enters(m)
    BY <1>9, <1>1, CountKept, CallMintsBegins
  <2>2. /\ phase' \in [Calls -> {"idle", "waiting", "sent",
                                 "done", "rejected", "cutoff"}]
        /\ carries' \in [Calls -> Keys \cup {None}]
        /\ mint' \in [Sessions -> {"no", "ends", "sent", "landed", "refusing"}]
    BY <2>1 DEF Enters, TypeOK
  <2>3. /\ issuing' \in BOOLEAN /\ token' = token
        /\ live' \subseteq live /\ failed' \subseteq live'
        /\ awaits' \in [Sessions -> SUBSET Keys]
    BY <1>9, FirstIdle
    DEF CallMints, LeaseOwn, TypeOK, Unexpired, sessionVars
  <2>. QED
    BY <2>1, <2>2, <2>3 DEF Enters, Begins, TypeOK
<1>10. ASSUME NEW m \in Calls, CallSettles(m)
      PROVE  TypeOK'
  <2>1. Begins(Started(EndOnLastUse(m), FALSE)) /\ inflight' \in Nat
    BY <1>10, CountKept, CallSettlesBegins
  <2>. QED
    BY <1>10, <2>1
    DEF TypeOK, Keys, Ages, None, CallSettles, LeaseOwn, Begins
<1>11. ASSUME NEW m \in Calls, CallTimesOut(m)
      PROVE  TypeOK'
  <2>1. inflight' \in Nat
    BY <1>11, CountKept
  <2>. QED
    BY <1>11, <2>1 DEF TypeOK, Keys, Ages, None, CallTimesOut
<1>12. ASSUME NEW s \in Sessions, MintAsks(s)
      PROVE  TypeOK'
  <2>1. Begins(Started({}, TRUE)) /\ inflight' \in Nat
    BY <1>12, CountKept, MintAsksBegins
  <2>. QED
    BY <1>12, <2>1 DEF TypeOK, Keys, Ages, None, MintAsks, LeaseOwn, Begins
<1>13. ASSUME NEW s \in Sessions, MintCutOff(s)
      PROVE  TypeOK'
  <2>1. inflight' \in Nat
    BY <1>13, CountKept
  <2>. QED
    BY <1>13, <2>1 DEF TypeOK, Keys, Ages, None, MintCutOff, MintOver
<1>14. ASSUME NEW s \in Sessions, MintRefused(s)
      PROVE  TypeOK'
  <2>1. inflight' \in Nat
    BY <1>14, CountKept
  <2>. QED
    BY <1>14, <2>1 DEF TypeOK, Keys, Ages, None, MintRefused, MintOver
<1>15. ASSUME NEW s \in Sessions, NEW k \in Keys, NEW a \in Ages,
             MintAnswered(s, k, a)
      PROVE  TypeOK'
  <2>1. inflight' \in Nat /\ minted' \in 0 .. MaxKeys
    BY <1>15, CountKept, NextKey DEF MintAnswered
  <2>2. /\ alive' \subseteq Keys
        /\ live' \subseteq Keys /\ live \subseteq live'
        /\ owner' \in [Keys -> Sessions \cup {Own}]
        /\ age' \in [Keys -> Ages]
        /\ fresh' \in [Sessions -> Keys \cup {None}]
        /\ mint' \in [Sessions -> {"no", "ends", "sent", "landed", "refusing"}]
    BY <1>15 DEF MintAnswered, Minted, TypeOK
  <2>3. /\ UNCHANGED <<closed, stage, sweep, warned, dropped, pending, failed>>
        /\ UNCHANGED <<tokenVars, retired, ending, current, awaits, shut>>
        /\ UNCHANGED <<gone, callVars>>
    BY <1>15 DEF MintAnswered, Minted
  <2>. QED
    BY <2>1, <2>2, <2>3 DEF TypeOK
<1>16. ASSUME NEW s \in Sessions, NEW k \in Keys,
             MintSkewed(s, k)
      PROVE  TypeOK'
  <2>1. Skews(s, k)
    BY <1>16, <1>2
  <2>4. /\ inflight' \in Nat /\ minted' \in 0 .. MaxKeys
        /\ owner' \in [Keys -> Sessions \cup {Own}]
        /\ age' \in [Keys -> Ages] /\ alive' \subseteq Keys
        /\ issuing' \in BOOLEAN /\ token' = token /\ awaits' = awaits
    <3>1. minted' \in 0 .. MaxKeys
      BY <1>16, NextKey DEF MintSkewed
    <3>2. /\ issuing' \in BOOLEAN /\ token' = token /\ awaits' = awaits
      BY <1>16 DEF MintSkewed, LeaseOwn, MintOver, TypeOK, tokenVars
    <3>. QED
      BY <2>1, <3>1, <3>2, CountKept DEF Skews, Ages, TypeOK
  <2>2. CASE MintOver(s, "done") /\ UNCHANGED <<ending, pending>>
    <3>1. /\ phase' \in [Calls -> {"idle", "waiting", "sent",
                                   "done", "rejected", "cutoff"}]
          /\ mint' \in [Sessions -> {"no", "ends", "sent", "landed",
                                     "refusing"}]
          /\ fresh' \in [Sessions -> Keys \cup {None}]
          /\ awaits' = awaits
      BY <2>2 DEF MintOver, TypeOK
    <3>. QED
      BY <2>1, <2>2, <2>4, <3>1 DEF Skews, TypeOK
  <2>3. CASE Condemns(s, k)
    <3>1. Begins(Started({k}, FALSE))
      BY <2>1, <2>3, SkewedBegins
    <3>2. /\ mint' \in [Sessions -> {"no", "ends", "sent", "landed",
                                     "refusing"}]
          /\ fresh' \in [Sessions -> Keys \cup {None}]
      BY <2>3 DEF Condemns, TypeOK
    <3>. QED
      BY <2>1, <2>3, <2>4, <3>1, <3>2 DEF Skews, Condemns, Begins, TypeOK
  <2>. QED
    BY <2>1, <2>2, <2>3 DEF Skews
<1>17. ASSUME NEW s \in Sessions, MintRefusesKey(s)
      PROVE  TypeOK'
  <2>1. inflight' \in Nat
    BY <1>17, CountKept
  <2>. QED
    BY <1>17, <2>1 DEF TypeOK, Keys, Ages, None, MintRefusesKey, MintOver
<1>18. ASSUME NEW s \in Sessions, MintLands(s)
      PROVE  TypeOK'
  <2>1. Begins(Retiring(s)) /\ inflight' \in Nat
    BY <1>18, CountKept, MintLandsBegins
  <2>. QED
    BY <1>18, <2>1
    DEF TypeOK, Keys, Ages, None, MintLands, Waiters, LeaseOwn, Begins
<1>19. ASSUME NEW s \in Sessions,
             SessionCloses(s) \/ SessionShuts(s)
      PROVE  TypeOK'
  <2>1. Shuts(s)
    BY <1>19, <1>3
  <2>4. /\ inflight' \in Nat
        /\ issuing' \in BOOLEAN /\ token' = token
    BY <1>19, CountKept
    DEF SessionCloses, SessionShuts, Shut, LeaseOwn, tokenVars,
       TypeOK
  <2>2. CASE UNCHANGED <<current, retired, ending, pending, dropped, inflight>>
    BY <2>1, <2>2, <2>4 DEF Shuts, TypeOK
  <2>3. CASE Retires(s)
    <3>1. Begins(Retiring(s))
      BY <2>1, <2>3, ShutBegins
    <3>2. /\ current' \in [Sessions -> Keys \cup {None}]
          /\ retired' \subseteq Keys
      BY <2>3 DEF Retires, TypeOK
    <3>. QED
      BY <2>1, <2>4, <3>1, <3>2 DEF Shuts, Begins, TypeOK
  <2>. QED
    BY <2>1, <2>2, <2>3 DEF Shuts
<1>20. ASSUME NEW s \in Sessions, SessionLost(s)
      PROVE  TypeOK'
  BY <1>20 DEF SessionLost, TypeOK, Ages
<1>21. ASSUME NEW k \in Keys, EndSucceeds(k)
      PROVE  TypeOK'
  <2>1. /\ inflight' \in Nat /\ ending' \in [Keys -> Nat]
        /\ pending' \subseteq live' /\ failed' \subseteq live'
        /\ live' \subseteq Keys
    BY <1>21, CountKept, EndIsOver DEF EndAnswer, EndSucceeds, TypeOK
  <2>. QED
    BY <1>21, <2>1 DEF TypeOK, Keys, Ages, None, EndSucceeds, EndOver
<1>22. ASSUME NEW k \in Keys, EndFails(k)
      PROVE  TypeOK'
  <2>1. /\ inflight' \in Nat /\ ending' \in [Keys -> Nat]
        /\ pending' \subseteq live' /\ failed' \subseteq live'
        /\ live' \subseteq Keys
    BY <1>22, CountKept, EndIsOver DEF EndAnswer, EndFails, TypeOK
  <2>. QED
    BY <1>22, <2>1 DEF TypeOK, Keys, Ages, None, EndFails, EndOver
<1>23. ASSUME NEW k \in Keys, KeyAges(k)
      PROVE  TypeOK'
  BY <1>23 DEF KeyAges, TypeOK, Ages
<1>24. CASE Close
  BY <1>24 DEF Close, TypeOK, Ages
<1>25. CASE Drained
  <2>1. inflight' \in Nat
    BY <1>25, CountKept
  <2>. QED
    BY <1>25, <2>1
    DEF TypeOK, Keys, Ages, None, Drained, SweepOn, LeaseOwn, Unexpired
<1>26. CASE SweepEnds
  <2>1. inflight' \in Nat
    BY <1>26, CountKept
  <2>. QED
    BY <1>26, <2>1 DEF TypeOK, Keys, Ages, None, SweepEnds, SweepOn, LeaseOwn
<1>27. CASE SweepFails
  <2>1. inflight' \in Nat
    BY <1>27, CountKept
  <2>. QED
    BY <1>27, <2>1
    DEF TypeOK, Keys, Ages, None, SweepFails, SweepOn, LeaseOwn
<1>28. ASSUME NEW to \in {"valid", "due", token},
             TokenIssued(to)
      PROVE  TypeOK'
  BY <1>28 DEF TokenIssued, TypeOK, Ages
<1>29. CASE TokenAges
  BY <1>29 DEF TokenAges, TypeOK, Ages
<1>30. CASE UNCHANGED vars
  BY <1>30 DEF vars, TypeOK
<1>. QED
  BY <1>4, <1>5, <1>6, <1>7, <1>8, <1>9, <1>10, <1>11, <1>12, <1>13, <1>14,
     <1>15, <1>16, <1>17, <1>18, <1>19, <1>20, <1>21, <1>22, <1>23, <1>24,
     <1>25, <1>26, <1>27, <1>28, <1>29, <1>30
  DEF Next, CallStep, MintStep, MintAnswer, SessionStep, EndAnswer,
      TokenAnswer

(* A step that takes no unexpired key out of the registry keeps account of *)
(* the keys (client.ts:297).                                               *)
LEMMA RegisteredSteady ==
    ASSUME IInv, [Next]_vars,
           stage' \in {"open", "draining"} <=> stage \in {"open", "draining"},
           sweep \subseteq sweep', warned \subseteq warned',
           \A j \in Keys : age'[j] # "expired" =>
              /\ age[j] # "expired" /\ (j \in live => j \in live')
              /\ j \in alive' => j \in alive
              /\ j <= minted \/ minted' # j
    PROVE  Registered'
<1>1. ASSUME NEW j \in Keys, age'[j] # "expired",
             stage \in {"open", "draining"}, j \notin live
      PROVE  Spent(j)' /\ ending'[j] = 0 /\ j \notin alive'
  <2>1. Spent(j) /\ ending[j] = 0 /\ j \notin alive
    BY <1>1 DEF IInv, Registered
  <2>2. Spent(j)' /\ j \notin alive'
    BY <1>1, <2>1, SpentStays
  <2>3. ~(ending'[j] > 0)
    BY <1>1, <2>1, EndsBegin
  <2>4. ending'[j] \in Nat
    BY TypeOKKept DEF TypeOK
  <2>. QED
    BY <2>2, <2>3, <2>4
<1>2. ASSUME NEW j \in Keys, age'[j] # "expired",
             stage \notin {"open", "draining"}
      PROVE  j \notin alive' \/ j \in sweep' \/ j \in warned'
  BY <1>2 DEF IInv, Registered
<1>. QED
  BY <1>1, <1>2 DEF Registered

(* A new key is registered as its answer arrives (client.ts:606).          *)
LEMMA AnswerRegistered ==
    ASSUME IInv, [Next]_vars, NEW s \in Sessions, NEW k \in Keys,
           NEW a \in Ages, MintAnswered(s, k, a)
    PROVE  Registered'
<1>1. /\ stage' = stage /\ ending' = ending /\ live' = live \cup {k}
      /\ alive' = alive \cup {k} /\ mint[s] = "sent"
      /\ minted' = k
      /\ \A j \in Keys \ {k} : age'[j] = age[j]
  BY DEF MintAnswered, Minted, IInv, TypeOK
<1>2. stage \in {"open", "draining"}
  BY <1>1, Quiet DEF MintWindows, IInv, TypeOK
<1>3. ASSUME NEW j \in Keys, j # k, age'[j] # "expired", j \notin live
      PROVE  Spent(j)' /\ ending'[j] = 0 /\ j \notin alive'
  <2>1. Spent(j) /\ ending[j] = 0 /\ j \notin alive
    BY <1>1, <1>2, <1>3 DEF IInv, Registered
  <2>. QED
    BY <1>1, <1>3, <2>1, SpentStays
<1>. QED
  BY <1>1, <1>2, <1>3 DEF Registered

(* A key leaves the registry as its end succeeds (client.ts:680).          *)
LEMMA EndRegistered ==
    ASSUME IInv, [Next]_vars, NEW k \in Keys, EndSucceeds(k)
    PROVE  Registered'
<1>1. /\ ending[k] = 1 /\ k \in EndWindows
      /\ \A j \in Keys : ending'[j] = IF j = k THEN 0 ELSE ending[j]
  BY EndIsOver DEF EndAnswer
<1>2. /\ alive' = alive \ {k} /\ live' = live \ {k}
      /\ UNCHANGED <<stage, age, minted>>
  BY DEF EndSucceeds, EndOver
<1>3. stage \in {"open", "draining"}
  BY <1>1, Quiet DEF IInv, TypeOK
<1>4. Spent(k) /\ k <= minted
  BY <1>1 DEF IInv, OnlySpentEnd, EndsShared
<1>5. Spent(k)'
  BY <1>4, SpentStays
<1>6. ASSUME NEW j \in Keys, j # k, age'[j] # "expired", j \notin live
      PROVE  Spent(j)' /\ ending'[j] = 0 /\ j \notin alive'
  <2>1. Spent(j) /\ ending[j] = 0 /\ j \notin alive
    BY <1>2, <1>3, <1>6 DEF IInv, Registered
  <2>2. j <= minted \/ minted' # j
    BY <1>2, KeyType
  <2>. QED
    BY <1>1, <1>2, <1>6, <2>1, <2>2, SpentStays
<1>. QED
  BY <1>1, <1>2, <1>3, <1>5, <1>6 DEF Registered

(* The sweep takes over what is registered (client.ts:318).                *)
LEMMA DrainedRegistered ==
    ASSUME IInv, Drained
    PROVE  Registered'
BY DEF IInv, TypeOK, Registered, Drained, SweepOn, Unexpired, keyVars

(* What the sweep does not end its warning names (client.ts:745).          *)
LEMMA SweptRegistered ==
    ASSUME IInv, SweepEnds \/ SweepFails
    PROVE  Registered'
<1>1. stage = "sweeping" /\ stage' \in {"sweeping", "closed"} /\ age' = age
  BY DEF SweepEnds, SweepFails, SweepOn
<1>2. ASSUME NEW j \in Keys, j \in alive'
      PROVE  j \in alive /\ (j \in sweep => j \in sweep' \/ j \in warned')
  BY <1>2 DEF SweepEnds, SweepFails, SweepOn, IInv, TypeOK
<1>3. warned \subseteq warned'
  BY <1>1 DEF SweepEnds, SweepFails, IInv, Stages
<1>. QED
  BY <1>1, <1>2, <1>3 DEF IInv, Registered, TypeOK

(* A key leaves the registry ended, expired or swept (client.ts:533, :680, *)
(* :319).                                                                  *)
LEMMA RegisteredKept ==
    ASSUME IInv, [Next]_vars
    PROVE  Registered'
<1>1. \A m \in Calls : CallJoins(m) \/ CallMints(m) => Enters(m)
  BY CallEnters DEF IInv
<1>2. \A s \in Sessions, k \in Keys : MintSkewed(s, k) => Skews(s, k)
  BY SkewedEnters DEF IInv
<1>. USE DEF clientVars, regVars, tokenVars, keyVars, sessionVars, callVars,
             IInv
<1>3. ASSUME NEW m \in Calls, CallMints(m)
      PROVE  Registered'
  <2>1. UNCHANGED <<stage, sweep, warned, age, alive, minted>>
        /\ live' = Unexpired
    BY <1>3 DEF CallMints
  <2>2. \A j \in Keys : j <= minted \/ minted' # j
    BY <2>1, KeyType
  <2>. QED
    BY <2>1, <2>2, RegisteredSteady DEF Unexpired
<1>4. ASSUME NEW s \in Sessions, NEW k \in Keys, NEW a \in Ages,
             MintAnswered(s, k, a)
      PROVE  Registered'
  BY <1>4, AnswerRegistered
<1>5. ASSUME NEW s \in Sessions, NEW k \in Keys,
             MintSkewed(s, k)
      PROVE  Registered'
  <2>1. /\ UNCHANGED <<stage, sweep, warned, live>>
        /\ minted' = k /\ age' = [age EXCEPT ![k] = "expired"]
        /\ alive' = alive \cup {k}
    BY <1>5, <1>2 DEF Skews
  <2>2. \A j \in Keys : age'[j] # "expired" => j # k /\ age'[j] = age[j]
    BY <2>1 DEF TypeOK
  <2>. QED
    BY <2>1, <2>2, RegisteredSteady
<1>6. ASSUME NEW k \in Keys, EndSucceeds(k)
      PROVE  Registered'
  BY <1>6, EndRegistered
<1>7. ASSUME NEW k \in Keys, EndFails(k)
      PROVE  Registered'
  <2>1. /\ UNCHANGED <<stage, sweep, warned, age, live, minted>>
        /\ alive' \subseteq alive
    BY <1>7 DEF EndFails, EndOver
  <2>2. \A j \in Keys : j <= minted \/ minted' # j
    BY <2>1, KeyType
  <2>. QED
    BY <2>1, <2>2, RegisteredSteady
<1>8. ASSUME NEW k \in Keys, KeyAges(k)
      PROVE  Registered'
  <2>1. UNCHANGED <<stage, sweep, warned, live, alive, minted>>
    BY <1>8 DEF KeyAges
  <2>2. \A j \in Keys : j <= minted \/ minted' # j
    BY <2>1, KeyType
  <2>3. \A j \in Keys : age'[j] # "expired" => age[j] # "expired"
    BY <1>8 DEF KeyAges, TypeOK
  <2>. QED
    BY <2>1, <2>2, <2>3, RegisteredSteady
<1>9. CASE Close
  <2>1. /\ UNCHANGED <<sweep, warned, age, live, alive, minted>>
        /\ stage = "open" /\ stage' = "draining"
    BY <1>9 DEF Close, Stages
  <2>2. \A j \in Keys : j <= minted \/ minted' # j
    BY <2>1, KeyType
  <2>. QED
    BY <2>1, <2>2, RegisteredSteady
<1>10. CASE Drained
  BY <1>10, DrainedRegistered
<1>11. CASE SweepEnds
  BY <1>11, SweptRegistered
<1>12. CASE SweepFails
  BY <1>12, SweptRegistered
<1>13. ASSUME NEW m \in Calls,
             \/ CallRejected(m) \/ OwnCall(m) \/ Connect(m)
             \/ CallOnClosed(m) \/ CallJoins(m) \/ CallSettles(m)
             \/ CallTimesOut(m)
      PROVE  Registered'
  <2>1. UNCHANGED <<stage, sweep, warned, age, live, alive, minted>>
    BY <1>13
    DEF CallRejected, OwnCall, EndKeys, Connect, CallOnClosed, CallJoins,
        Carry, Wait, CallSettles, CallTimesOut
  <2>2. \A j \in Keys : j <= minted \/ minted' # j
    BY <2>1, KeyType
  <2>. QED
    BY <2>1, <2>2, RegisteredSteady
<1>14. ASSUME NEW s \in Sessions,
             \/ MintAsks(s) \/ MintCutOff(s) \/ MintRefused(s)
             \/ MintRefusesKey(s) \/ MintLands(s) \/ SessionCloses(s)
             \/ SessionShuts(s) \/ SessionLost(s)
      PROVE  Registered'
  <2>1. UNCHANGED <<stage, sweep, warned, age, live, alive, minted>>
    BY <1>14
    DEF MintAsks, EndKeys, MintCutOff, MintOver, MintRefused, MintRefusesKey,
        MintLands, SessionCloses, SessionShuts, Shut, SessionLost
  <2>2. \A j \in Keys : j <= minted \/ minted' # j
    BY <2>1, KeyType
  <2>. QED
    BY <2>1, <2>2, RegisteredSteady
<1>15. ASSUME NEW to \in {"valid", "due", token},
             TokenIssued(to)
      PROVE  Registered'
  <2>1. UNCHANGED <<stage, sweep, warned, age, live, alive, minted>>
    BY <1>15 DEF TokenIssued
  <2>2. \A j \in Keys : j <= minted \/ minted' # j
    BY <2>1, KeyType
  <2>. QED
    BY <2>1, <2>2, RegisteredSteady
<1>16. CASE TokenAges
  <2>1. UNCHANGED <<stage, sweep, warned, age, live, alive, minted>>
    BY <1>16 DEF TokenAges
  <2>2. \A j \in Keys : j <= minted \/ minted' # j
    BY <2>1, KeyType
  <2>. QED
    BY <2>1, <2>2, RegisteredSteady
<1>17. CASE UNCHANGED vars
  <2>1. UNCHANGED <<stage, sweep, warned, age, live, alive, minted>>
    BY <1>17 DEF vars
  <2>2. \A j \in Keys : j <= minted \/ minted' # j
    BY <2>1, KeyType
  <2>. QED
    BY <2>1, <2>2, RegisteredSteady
<1>. QED
  BY <1>3, <1>4, <1>5, <1>6, <1>7, <1>8, <1>9, <1>10, <1>11, <1>12, <1>13,
     <1>14, <1>15, <1>16, <1>17
  DEF Next, CallStep, MintStep, MintAnswer, SessionStep, EndAnswer,
      TokenAnswer

----------------------------------------------------------------------------
(* The theorems.                                                           *)

(* A client starts with no key, no call and no session closed              *)
(* (client.ts:168).                                                        *)
LEMMA InitIInv == Init => IInv
<1>. SUFFICES ASSUME Init
              PROVE  IInv
  OBVIOUS
<1>1. TypeOK
  <2>1. /\ owner \in [Keys -> Sessions \cup {Own}]
        /\ age \in [Keys -> Ages] /\ ending \in [Keys -> Nat]
        /\ minted \in 0 .. MaxKeys /\ inflight \in Nat
    BY BoundAssumption DEF Init, Ages
  <2>2. /\ current \in [Sessions -> Keys \cup {None}]
        /\ mint \in [Sessions -> {"no", "ends", "sent", "landed", "refusing"}]
        /\ awaits \in [Sessions -> SUBSET Keys]
        /\ fresh \in [Sessions -> Keys \cup {None}]
        /\ shut \in [Sessions -> {"open", "minting", "done"}]
    BY DEF Init
  <2>3. /\ phase \in [Calls -> {"idle", "waiting", "sent",
                                "done", "rejected", "cutoff"}]
        /\ carries \in [Calls -> Keys \cup {None}]
    BY DEF Init
  <2>. QED
    BY <2>1, <2>2, <2>3 DEF Init, TypeOK, Ages
<1>2. Numbered
  BY BoundAssumption DEF Init, Numbered, None
<1>3. Owned
  BY DEF Init, Owned, None
<1>4. Lost
  BY DEF Init, Lost
<1>5. OnlySpentEnd
  <2>1. \A k \in Keys : ~(ending[k] > 0) /\ k \notin failed /\ dropped = {}
    BY DEF Init
  <2>. QED
    BY <2>1 DEF OnlySpentEnd
<1>6. EndsShared
  BY DEF Init, EndsShared
<1>7. CountsWhatRuns
  <2>1. Windows = {} /\ MintWindows = {} /\ EndWindows = {}
    BY DEF Init, Windows, MintWindows, EndWindows
  <2>. QED
    BY <2>1, FS_EmptySet DEF Init, CountsWhatRuns, Counted
<1>8. Stages
  BY DEF Init, Stages
<1>9. Registered
  <2>1. ASSUME NEW k \in Keys
        PROVE  Spent(k)
    BY DEF Init, Spent, Carriers, Keys, None
  <2>. QED
    BY <2>1 DEF Init, Registered
<1>. QED
  BY <1>1, <1>2, <1>3, <1>4, <1>5, <1>6, <1>7, <1>8, <1>9 DEF IInv

(* The invariant holds of every behaviour, whatever the sessions, the      *)
(* calls and the keys: no job of the event loop breaks a part of it.       *)
THEOREM ClientInvariant == Spec => []IInv
<1>1. Init => IInv
  BY InitIInv
<1>2. IInv /\ [Next]_vars => IInv'
  <2>. SUFFICES ASSUME IInv, [Next]_vars
                PROVE  IInv'
    OBVIOUS
  <2>1. TypeOK' /\ Numbered' /\ Owned' /\ Lost' /\ OnlySpentEnd'
    BY TypeOKKept, NumberedKept, OwnedKept, LostKept, OnlySpentEndKept
  <2>2. EndsShared' /\ CountsWhatRuns' /\ Stages' /\ Registered'
    BY EndsSharedKept, CountKept, StagesKept, RegisteredKept
  <2>. QED
    BY <2>1, <2>2 DEF IInv
<1>. QED
  BY <1>1, <1>2, PTL DEF Spec

(* The state of the client stays within its types: Memco.inflight, which   *)
(* is counted down as each call, mint and end is over, is never negative   *)
(* (client.ts:401).                                                        *)
THEOREM ClientTypeCorrect == Spec => []TypeOK
<1>1. IInv => TypeOK
  BY DEF IInv
<1>. QED
  BY <1>1, ClientInvariant, PTL

(* The sweep meets no call and no end of sendEnd() (client.ts:731).        *)
LEMMA SweptQuiet ==
    ASSUME IInv, NEW k \in Swept
    PROVE  Windows = {} /\ EndWindows = {}
<1>1. stage = "sweeping"
  BY DEF Swept, IInv, Stages
<1>. QED
  BY <1>1, Quiet

(* No key is ended under a call still using it, by whichever of the five   *)
(* parties that end keys (client.ts:297).                                  *)
THEOREM ClientNoEndUnderCall == Spec => []NoEndUnderCall
<1>1. ASSUME IInv
      PROVE  NoEndUnderCall
  <2>1. ASSUME NEW k \in Keys, ending[k] > 0
        PROVE  Carriers(k) = {}
    BY <1>1, <2>1 DEF IInv, OnlySpentEnd, Spent
  <2>2. ASSUME NEW k \in Keys, k \in Swept
        PROVE  Carriers(k) = {}
    BY <1>1, <2>2, SweptQuiet DEF Carriers, Windows
  <2>. QED
    BY <2>1, <2>2 DEF NoEndUnderCall
<1>. QED
  BY <1>1, ClientInvariant, PTL

(* One EndImpersonation at a time for a key: an end in flight is shared,   *)
(* and the sweep meets none (client.ts:394, :631).                         *)
THEOREM ClientEndedOneAtATime == Spec => []EndedOneAtATime
<1>1. ASSUME IInv
      PROVE  EndedOneAtATime
  <2>1. ASSUME NEW k \in Keys, k \in Swept
        PROVE  ending[k] + Cardinality({k} \cap Swept) <= 1
    <3>1. ending[k] = 0
      BY <1>1, <2>1, SweptQuiet DEF EndWindows, IInv, TypeOK
    <3>2. Cardinality({k} \cap Swept) = 1
      <4>1. {k} \cap Swept = {k}
        BY <2>1
      <4>. QED
        BY <4>1, FS_Singleton
    <3>. QED
      BY <3>1, <3>2
  <2>2. ASSUME NEW k \in Keys, k \notin Swept
        PROVE  ending[k] + Cardinality({k} \cap Swept) <= 1
    <3>1. ending[k] \in {0, 1}
      BY <1>1 DEF IInv, TypeOK, EndsShared
    <3>2. Cardinality({k} \cap Swept) = 0
      <4>1. {k} \cap Swept = {}
        BY <2>2
      <4>. QED
        BY <4>1, FS_EmptySet
    <3>. QED
      BY <3>1, <3>2
  <2>. QED
    BY <2>1, <2>2 DEF EndedOneAtATime
<1>. QED
  BY <1>1, ClientInvariant, PTL

(* A key the service would accept, and that has not expired, is registered *)
(* or about to be ended, or close() has named it (client.ts:93, :297).     *)
THEOREM ClientKeysAccountedFor == Spec => []KeysAccountedFor
<1>1. ASSUME IInv
      PROVE  KeysAccountedFor
  BY <1>1 DEF IInv, TypeOK, Registered, KeysAccountedFor
<1>. QED
  BY <1>1, ClientInvariant, PTL

(* From the drain on nothing is in flight (client.ts:731).                 *)
THEOREM ClientDrainIsComplete == Spec => []DrainIsComplete
<1>1. ASSUME IInv, stage \in {"sweeping", "closed"}
      PROVE  /\ Windows = {} /\ MintWindows = {}
             /\ \A k \in Keys : ending[k] = 0
  BY <1>1, Quiet DEF EndWindows, IInv, TypeOK
<1>. QED
  BY <1>1, ClientInvariant, PTL DEF DrainIsComplete

----------------------------------------------------------------------------
(* The client implements Keyring.  What a step does to the registry and to *)
(* the stages of the close, first; then how it moves each key.             *)

(* Most steps mint no key and leave the sweep alone (client.ts:397).       *)
Steady ==
    /\ UNCHANGED <<stage, sweep, warned, minted, age, alive>>
    /\ live' \subseteq live

(* A key arrives while its mint is counted in flight (client.ts:550).      *)
Arrives(s, k, a) ==
    /\ mint[s] = "sent" /\ Minted(s, k, a)
    /\ UNCHANGED <<stage, sweep, warned>>
    /\ live' \subseteq live \cup {k}

(* The steps that do more are few (client.ts:301, :550, :663).             *)
LEMMA StepKinds ==
    ASSUME IInv, [Next]_vars
    PROVE  \/ Steady
           \/ \E s \in Sessions, k \in Keys, a \in Ages : Arrives(s, k, a)
           \/ \E k \in Keys : EndAnswer(k) \/ KeyAges(k)
           \/ Close \/ Drained \/ SweepEnds \/ SweepFails
<1>. USE DEF clientVars, regVars, tokenVars, keyVars, sessionVars, callVars
<1>1. ASSUME NEW m \in Calls, CallStep(m)
      PROVE  Steady
  BY <1>1 DEF CallStep, CallRejected, OwnCall, Connect, CallOnClosed,
      CallJoins, CallMints, CallSettles, CallTimesOut, Unexpired, Steady
<1>2. ASSUME NEW s \in Sessions, MintStep(s) \/ MintRefused(s)
      PROVE  Steady
  BY <1>2 DEF MintStep, MintAsks, MintCutOff, MintRefusesKey, MintLands,
      MintRefused, Steady
<1>3. ASSUME NEW s \in Sessions, SessionStep(s)
      PROVE  Steady
  <2>1. CASE SessionCloses(s) \/ SessionShuts(s)
    BY <2>1, SessionEnds DEF Shuts, Steady
  <2>2. CASE SessionLost(s)
    BY <2>2 DEF SessionLost, Steady
  <2>. QED
    BY <1>3, <2>1, <2>2 DEF SessionStep
<1>4. ASSUME NEW s \in Sessions, NEW k \in Keys, NEW a \in Ages,
             MintAnswered(s, k, a)
      PROVE  Arrives(s, k, a)
  BY <1>4 DEF MintAnswered, Arrives
<1>5. ASSUME NEW s \in Sessions, NEW k \in Keys, MintSkewed(s, k)
      PROVE  Arrives(s, k, "expired") /\ "expired" \in Ages
  BY <1>5 DEF MintSkewed, Arrives, Ages
<1>6. CASE TokenAnswer \/ TokenAges \/ UNCHANGED vars
  BY <1>6 DEF TokenAnswer, TokenIssued, TokenAges, vars, Steady
<1>. QED
  BY <1>1, <1>2, <1>3, <1>4, <1>5, <1>6 DEF Next, MintAnswer

(* A key known of stays known, the registry forgets it for good, its age   *)
(* matters while it is registered, and the service ends it when asked to   *)
(* (client.ts:606, :663).                                                  *)
LEMMA KnownKeys ==
    ASSUME IInv, [Next]_vars, NEW k \in Keys, k <= minted
    PROVE  /\ k <= minted'
           /\ k \in live' => k \in live
           /\ k \in alive' => k \in alive
           /\ k \notin live => age'[k] = age[k]
           /\ age[k] = "expired" => age'[k] = "expired"
           /\ k \in alive => k \in alive' \/ ending[k] > 0 \/ k \in Swept
<1>1. CASE Steady
  BY <1>1 DEF Steady
<1>2. ASSUME NEW s \in Sessions, NEW j \in Keys, NEW a \in Ages,
             Arrives(s, j, a)
      PROVE  /\ k <= minted' /\ k # j /\ age'[k] = age[k]
             /\ k \in live' => k \in live
             /\ k \in alive' <=> k \in alive
  <2>1. ~(j <= minted) /\ minted <= j /\ minted' = j
    BY <1>2, NextKey DEF Arrives, IInv
  <2>2. k # j
    BY <2>1
  <2>3. k <= j
    BY <2>1, BoundAssumption DEF Keys, IInv, TypeOK
  <2>4. age' = [age EXCEPT ![j] = a] /\ alive' = alive \cup {j}
    BY <1>2 DEF Arrives, Minted
  <2>5. k \in live' => k \in live
    BY <1>2, <2>2 DEF Arrives
  <2>. QED
    BY <2>1, <2>2, <2>3, <2>4, <2>5 DEF IInv, TypeOK
<1>3. ASSUME NEW j \in Keys, EndAnswer(j)
      PROVE  /\ UNCHANGED <<minted, age>>
             /\ k \in live' => k \in live
             /\ k \in alive' => k \in alive
             /\ k \in alive => k \in alive' \/ ending[k] > 0
  BY <1>3 DEF EndAnswer, EndSucceeds, EndFails, EndOver
<1>4. ASSUME NEW j \in Keys, KeyAges(j)
      PROVE  /\ UNCHANGED <<minted, live, alive>>
             /\ k \notin live => age'[k] = age[k]
             /\ age[k] = "expired" => age'[k] = "expired"
  BY <1>4 DEF KeyAges, regVars, IInv, TypeOK
<1>5. CASE Close \/ Drained
  BY <1>5 DEF Close, Drained, keyVars, regVars
<1>6. CASE SweepEnds \/ SweepFails
  BY <1>6 DEF SweepEnds, SweepFails, regVars, Swept, Lowest
<1>. QED
  BY <1>1, <1>2, <1>3, <1>4, <1>5, <1>6, StepKinds

(* A key that becomes known is accepted, and there is no sweep yet         *)
(* (client.ts:606, :731).                                                  *)
LEMMA NewKeys ==
    ASSUME IInv, [Next]_vars, NEW k \in Keys, ~(k <= minted),
           k <= minted' \/ k \in alive'
    PROVE  /\ k \in alive' /\ k <= minted'
           /\ stage \in {"open", "draining"} /\ stage' = stage
           /\ sweep' = {} /\ warned' = {}
<1>1. k \notin alive /\ k \notin live
  BY NewKey
<1>2. minted' # minted \/ k \in alive' \ alive
  BY <1>1
<1>3. ~(\E j \in Keys : EndAnswer(j) \/ KeyAges(j)) /\ ~Steady
  BY <1>2 DEF EndAnswer, EndSucceeds, EndFails, EndOver, KeyAges, Steady
<1>4. ~Close /\ ~Drained /\ ~SweepEnds /\ ~SweepFails
  BY <1>2 DEF Close, Drained, SweepEnds, SweepFails, keyVars
<1>5. PICK s \in Sessions, j \in Keys, a \in Ages : Arrives(s, j, a)
  BY <1>3, <1>4, StepKinds
<1>6. j = minted + 1 /\ minted' = j /\ alive' = alive \cup {j}
  BY <1>5 DEF Arrives, Minted
<1>7. k = j /\ k <= j
  BY <1>1, <1>6, BoundAssumption DEF Keys, IInv, TypeOK
<1>8. stage \in {"open", "draining"}
  BY <1>5, Quiet DEF Arrives, MintWindows, IInv, TypeOK
<1>9. sweep = {} /\ warned = {}
  BY <1>8 DEF IInv, Stages
<1>. QED
  BY <1>5, <1>6, <1>7, <1>8, <1>9 DEF Arrives

(* What close() has come to, and what it takes out of the registry         *)
(* (client.ts:301, :731).                                                  *)
LEMMA ClosesOn ==
    ASSUME IInv, [Next]_vars
    PROVE  /\ sweep' \subseteq sweep \cup live
           /\ warned \subseteq warned' /\ warned' \subseteq warned \cup sweep
           /\ stage' \in {"open", "draining"} => stage \in {"open", "draining"}
           /\ stage' = "sweeping" =>
                 stage \in {"open", "draining", "sweeping"}
           /\ stage = "closed" => stage' = "closed"
<1>1. CASE Steady
  BY <1>1 DEF Steady
<1>2. CASE \E s \in Sessions, k \in Keys, a \in Ages : Arrives(s, k, a)
  BY <1>2 DEF Arrives
<1>3. CASE \E k \in Keys : EndAnswer(k) \/ KeyAges(k)
  BY <1>3 DEF EndAnswer, EndSucceeds, EndFails, EndOver, KeyAges, clientVars
<1>4. CASE Close
  BY <1>4 DEF Close, IInv, TypeOK, Stages
<1>5. CASE Drained
  BY <1>5 DEF Drained, SweepOn, Unexpired
<1>6. CASE SweepEnds
  BY <1>6 DEF SweepEnds, SweepOn
<1>7. CASE SweepFails
  <2>1. warned = {}
    BY <1>7 DEF SweepFails, IInv, Stages
  <2>. QED
    BY <1>7, <2>1 DEF SweepFails, SweepOn
<1>. QED
  BY <1>1, <1>2, <1>3, <1>4, <1>5, <1>6, <1>7, StepKinds

(* A key that is not lent is carried by no call, one that is being ended   *)
(* or named in a warning is not lent, and one forgotten was ended or has   *)
(* expired (client.ts:297).                                                *)
Apart ==
    \A k \in Keys :
        /\ k \notin Lent => Carriers(k) = {}
        /\ Fate(k) \in {"ending", "warned"} => k \notin Lent
        /\ Fate(k) = "warned" => stage = "closed"
        /\ Fate(k) = "over" => k \notin alive \/ k \in Lapsed

LEMMA KeysApart == IInv => Apart
<1>. SUFFICES ASSUME IInv, NEW k \in Keys
              PROVE  /\ k \notin Lent => Carriers(k) = {}
                     /\ Fate(k) \in {"ending", "warned"} => k \notin Lent
                     /\ Fate(k) = "warned" => stage = "closed"
                     /\ Fate(k) = "over" => k \notin alive \/ k \in Lapsed
  BY DEF Apart
<1>1. ASSUME k \notin Lent
      PROVE  Carriers(k) = {}
  <2>1. CASE ~(k <= minted)
    BY <2>1, NewKey
  <2>2. CASE Spent(k)
    BY <2>2 DEF Spent
  <2>3. CASE stage \in {"sweeping", "closed"}
    BY <2>3, Quiet DEF Windows, Carriers
  <2>. QED
    BY <1>1, <2>1, <2>2, <2>3 DEF Lent, IInv, TypeOK
<1>2. Fate(k) = "warned" => stage = "closed" /\ k \notin Lent
  BY DEF Fate, IInv, Stages, Lent
<1>3. ASSUME Fate(k) = "ending"
      PROVE  k \notin Lent
  <2>1. ending[k] > 0 => Spent(k)
    BY DEF IInv, OnlySpentEnd
  <2>2. k \in Swept => stage = "sweeping"
    BY DEF Swept, IInv, Stages
  <2>. QED
    BY <1>3, <2>1, <2>2 DEF Fate, Lent
<1>4. ASSUME Fate(k) = "over"
      PROVE  k \notin alive \/ k \in Lapsed
  <2>1. /\ k <= minted /\ k \notin warned /\ k \notin live
        /\ k \notin sweep /\ ~(ending[k] > 0)
    BY <1>4 DEF Fate
  <2>. QED
    BY <2>1 DEF IInv, Registered, TypeOK, Lapsed
<1>. QED
  BY <1>1, <1>2, <1>3, <1>4

(* So it is after every step (client.ts:297).                              *)
LEMMA KeysApartNext == IInv' => Apart'
  BY KeysApart, PTL

(* Each key moves as Keyring says, or stays where it is.                   *)
LEMMA KeyMoves ==
    ASSUME IInv, IInv', [Next]_vars, NEW k \in Keys
    PROVE  \/ Fates'[k] = Fates[k]
           \/ K!Kept(k) \/ K!EndBegins(k) \/ K!EndFailed(k)
           \/ K!Forgotten(k) \/ K!Warned(k)
<1>1. Fates[k] = Fate(k) /\ Fates'[k] = Fate(k)'
  BY DEF Fates
<1>2. /\ Fate(k)' \in {"ending", "warned"} => k \notin Lent'
      /\ Fate(k)' = "warned" => stage' = "closed"
      /\ Fate(k)' = "over" => k \notin alive' \/ k \in Lapsed'
  BY KeysApartNext DEF Apart
<1>3. Fate(k)' \in {"unminted", "kept", "ending", "over", "warned"}
  BY DEF Fate
<1>4. CASE Fate(k) = "unminted"
  <2>1. ~(k <= minted)
    BY <1>4 DEF Fate
  <2>2. Fate(k)' # "warned"
    BY <2>1, NewKeys DEF Fate
  <2>. QED
    BY <1>1, <1>2, <1>3, <1>4, <2>2 DEF K!Kept, K!EndBegins, K!Forgotten,
        K!Moves, K!OutOfUse
<1>5. CASE Fate(k) = "warned"
  <2>1. k <= minted /\ k \in warned
    BY <1>5 DEF Fate
  <2>2. k <= minted' /\ k \in warned'
    BY <2>1, KnownKeys, ClosesOn
  <2>. QED
    BY <1>1, <1>5, <2>2 DEF Fate
<1>6. CASE Fate(k) \in {"kept", "ending"}
  <2>1. k <= minted
    BY <1>6 DEF Fate
  <2>2. Fate(k)' # "unminted"
    BY <2>1, KnownKeys DEF Fate
  <2>3. Closing' = "released" <=> stage' = "closed"
    BY DEF Closing
  <2>. QED
    BY <1>1, <1>2, <1>3, <1>6, <2>2, <2>3 DEF K!EndBegins, K!EndFailed,
        K!Forgotten, K!Warned, K!Moves, K!OutOfUse
<1>7. CASE Fate(k) = "over"
  <2>1. /\ k <= minted /\ k \notin warned /\ k \notin live
        /\ k \notin sweep /\ ~(ending[k] > 0)
    BY <1>7 DEF Fate
  <2>2. /\ k <= minted' /\ k \notin warned' /\ k \notin live'
        /\ k \notin sweep' /\ age'[k] = age[k]
    BY <2>1, KnownKeys, ClosesOn
  <2>3. k \notin Swept'
    BY <2>2 DEF Swept
  <2>4. CASE ending'[k] > 0
    <3>1. k \in Lapsed
      BY <2>1, <2>2, <2>4, EndsBegin DEF Lapsed
    <3>2. Fate(k)' = "ending"
      BY <2>2, <2>4 DEF Fate
    <3>. QED
      BY <1>1, <1>2, <1>7, <3>1, <3>2 DEF K!EndBegins, K!Moves, K!OutOfUse
  <2>5. CASE ~(ending'[k] > 0)
    BY <1>1, <1>7, <2>2, <2>3, <2>5 DEF Fate
  <2>. QED
    BY <2>4, <2>5
<1>. QED
  BY <1>4, <1>5, <1>6, <1>7 DEF Fate

(* A key is lent from its mint to its last call, and the service drops no  *)
(* other than those it is asked to (auth.ts:316, client.ts:550).           *)
LEMMA KeysLent ==
    ASSUME IInv, IInv', [Next]_vars
    PROVE  K!Lending /\ K!Service
<1>1. \A k \in Keys : Fates[k] = Fate(k) /\ Fates'[k] = Fate(k)'
  BY DEF Fates
<1>2. \A k \in Keys : /\ Carried[k] = Carriers(k)
                      /\ Carried'[k] = Carriers(k)'
  BY DEF Carried
<1>3. ASSUME NEW k \in Lent' \ Lent
      PROVE  Fates[k] = "unminted" /\ k \in alive'
  <2>1. /\ k \in Keys /\ k <= minted' /\ ~Spent(k)'
        /\ stage' \in {"open", "draining"}
    BY <1>3 DEF Lent
  <2>2. stage \in {"open", "draining"}
    BY <2>1, ClosesOn
  <2>3. ~(k <= minted)
    BY <1>3, <2>1, <2>2, SpentStays DEF Lent
  <2>. QED
    BY <1>1, <2>1, <2>3, NewKeys DEF Fate
<1>4. ASSUME NEW k \in Keys, k \notin Lent'
      PROVE  Carried'[k] = {}
  BY <1>2, <1>4, KeysApartNext DEF Apart
<1>5. ASSUME NEW k \in alive' \ alive
      PROVE  Fates[k] = "unminted" /\ Fates'[k] # "unminted"
  <2>1. k \in Keys
    BY <1>5 DEF IInv, TypeOK
  <2>2. ~(k <= minted) /\ k <= minted'
    BY <1>5, <2>1, KnownKeys, NewKeys
  <2>. QED
    BY <1>1, <2>1, <2>2 DEF Fate
<1>6. ASSUME NEW k \in alive \ alive'
      PROVE  Fates[k] \in {"ending", "warned"}
  <2>1. k \in Keys /\ k <= minted
    BY <1>6 DEF IInv, TypeOK, Numbered
  <2>. QED
    BY <1>1, <1>6, <2>1, KnownKeys DEF Fate
<1>7. Lapsed \subseteq Lapsed'
  BY KnownKeys DEF Lapsed
<1>8. Lent \subseteq Keys
  BY DEF Lent
<1>. QED
  BY <1>3, <1>4, <1>5, <1>6, <1>7, <1>8 DEF K!Lending, K!Service, K!Moves

(* Once drained the client makes no call, and once its channel is closed   *)
(* it has no key left to end (client.ts:731).                              *)
Finished ==
    stage \in {"sweeping", "closed"} =>
        /\ Lent = {} /\ Carried = [k \in Keys |-> {}]
        /\ stage = "closed" =>
              \A k \in Keys : /\ Fate(k) \notin {"kept", "ending"}
                              /\ ~(ending[k] > 0) /\ k \notin Swept

LEMMA ClosingIsQuiet == IInv => Finished
<1>. SUFFICES ASSUME IInv, stage \in {"sweeping", "closed"}
              PROVE  Finished
  BY DEF Finished
<1>1. Windows = {} /\ EndWindows = {} /\ live = {}
  BY Quiet
<1>2. Lent = {}
  BY DEF Lent
<1>3. Carried = [k \in Keys |-> {}]
  BY <1>1 DEF Carried, Carriers, Windows
<1>4. ASSUME stage = "closed", NEW k \in Keys
      PROVE  Fate(k) \notin {"kept", "ending"} /\ ~(ending[k] > 0)
             /\ k \notin Swept
  <2>1. sweep = {} /\ ~(ending[k] > 0)
    BY <1>1, <1>4 DEF IInv, Stages, EndWindows
  <2>. QED
    BY <1>1, <2>1 DEF Fate, Swept
<1>. QED
  BY <1>2, <1>3, <1>4 DEF Finished

(* So it is after every step (client.ts:731).                              *)
LEMMA ClosingIsQuietNext == IInv' => Finished'
  BY ClosingIsQuiet, PTL

(* close() waits for the calls and releases the connection once nothing is *)
(* left to end; a closed client does nothing more (client.ts:301, :731).   *)
LEMMA CloseGoesOn ==
    ASSUME IInv, IInv', [Next]_vars
    PROVE  /\ K!Closing /\ K!Released
           /\ Closing \in {"drained", "released"} => UNCHANGED <<Lent, Carried>>
           /\ Closing = "released" => UNCHANGED <<Fates, alive>>
<1>1. /\ stage \in {"open", "draining", "sweeping", "closed"}
      /\ stage' \in {"open", "draining", "sweeping", "closed"}
  BY DEF IInv, TypeOK
<1>2. /\ Closing = "drained" <=> stage = "sweeping"
      /\ Closing = "released" <=> stage = "closed"
      /\ Closing = "open" <=> stage \in {"open", "draining"}
  BY <1>1 DEF Closing
<1>3. /\ Closing' = "drained" <=> stage' = "sweeping"
      /\ Closing' = "released" <=> stage' = "closed"
      /\ Closing' = "open" <=> stage' \in {"open", "draining"}
  BY <1>1 DEF Closing
<1>4. stage' \in {"sweeping", "closed"} => Lent' = {}
  BY DEF Lent
<1>5. /\ stage' \in {"open", "draining"} => stage \in {"open", "draining"}
      /\ stage' = "sweeping" => stage \in {"open", "draining", "sweeping"}
      /\ stage = "closed" => stage' = "closed"
  BY ClosesOn
<1>6. \A k \in Keys : Fates[k] = Fate(k) /\ Fates'[k] = Fate(k)'
  BY DEF Fates
<1>7. Finished /\ Finished'
  BY ClosingIsQuiet, ClosingIsQuietNext
<1>8. K!Closing
  BY <1>1, <1>2, <1>3, <1>4, <1>5 DEF K!Closing
<1>9. K!Released
  BY <1>3, <1>6, <1>7 DEF K!Released, Finished
<1>10. Closing \in {"drained", "released"} => UNCHANGED <<Lent, Carried>>
  BY <1>1, <1>2, <1>5, <1>7 DEF Finished
<1>11. ASSUME stage = "closed", NEW k \in Keys
       PROVE  Fate(k)' = Fate(k) /\ (k \in alive' <=> k \in alive)
  <2>1. CASE ~(k <= minted)
    <3>1. ~(k <= minted') /\ k \notin alive'
      BY <1>11, <2>1, NewKeys
    <3>2. k \notin alive
      BY <2>1, NewKey
    <3>. QED
      BY <2>1, <3>1, <3>2 DEF Fate
  <2>2. CASE k <= minted
    <3>1. Fate(k) \in {"over", "warned"}
      BY <1>7, <1>11, <2>2 DEF Finished, Fate
    <3>2. Fate(k)' \notin {"kept", "ending"}
      BY <1>5, <1>7, <1>11 DEF Finished
    <3>3. Fate(k)' = Fate(k)
      BY <1>6, <3>1, <3>2, KeyMoves DEF K!Kept, K!EndBegins, K!EndFailed,
          K!Forgotten, K!Warned, K!Moves
    <3>4. k \in alive' => k \in alive
      BY <2>2, KnownKeys
    <3>5. k \in alive => k \in alive'
      BY <1>7, <1>11, <2>2, KnownKeys DEF Finished
    <3>. QED
      BY <3>3, <3>4, <3>5
  <2>. QED
    BY <2>1, <2>2 DEF IInv, TypeOK
<1>12. ASSUME stage = "closed"
       PROVE  UNCHANGED <<Fates, alive>>
  <2>1. alive \subseteq Keys /\ alive' \subseteq Keys
    BY DEF IInv, TypeOK
  <2>2. alive' = alive
    BY <1>11, <1>12, <2>1
  <2>3. Fates' = Fates
    BY <1>11, <1>12 DEF Fates
  <2>. QED
    BY <2>2, <2>3
<1>. QED
  BY <1>2, <1>8, <1>9, <1>10, <1>12

(* The client's state is one of Keyring's (client.ts:301).                 *)
LEMMA KeyringTypes == IInv => K!KeyringTypeOK
<1>. SUFFICES ASSUME IInv
              PROVE  K!KeyringTypeOK
  OBVIOUS
<1>1. Fates \in [Keys -> {"unminted", "kept", "ending", "over", "warned"}]
  BY DEF Fates, Fate
<1>2. Carried \in [Keys -> SUBSET Calls]
  BY DEF Carried, Carriers
<1>3. Lent \subseteq Keys /\ alive \subseteq Keys /\ Lapsed \subseteq Keys
  BY DEF Lent, Lapsed, IInv, TypeOK
<1>4. Closing \in {"open", "drained", "released", "abandoned"}
  BY DEF Closing, IInv, TypeOK
<1>. QED
  BY <1>1, <1>2, <1>3, <1>4 DEF K!KeyringTypeOK

(* So it is after every step (client.ts:301).                              *)
LEMMA KeyringTypesNext == IInv' => K!KeyringTypeOK'
  BY KeyringTypes, PTL

(* The client keeps the promise of Keyring: a key is lent to calls only    *)
(* while it may be used, ended only out of use, remembered until its end   *)
(* is answered or it has expired, and named in the warning of a close that *)
(* could not end it (client.ts:93, :297, :301, :606, :663, :731).          *)
THEOREM ClientKeepsKeyring == Spec => KeepsKeyring
<1>1. Init => K!KeyringInit
  <2>. SUFFICES ASSUME Init
                PROVE  K!KeyringInit
    OBVIOUS
  <2>1. \A k \in Keys : ~(k <= minted)
    BY BoundAssumption DEF Init, Keys
  <2>2. Fates = [k \in Keys |-> "unminted"]
    BY <2>1 DEF Fates, Fate
  <2>3. Carried = [k \in Keys |-> {}]
    BY DEF Init, Carried, Carriers
  <2>4. Lent = {} /\ Lapsed = {}
    BY <2>1 DEF Lent, Lapsed
  <2>5. alive = {} /\ Closing = "open"
    BY DEF Init, Closing
  <2>. QED
    BY <2>2, <2>3, <2>4, <2>5 DEF K!KeyringInit
<1>2. IInv /\ IInv' /\ [Next]_vars => [K!KeyringNext]_(K!keyringVars)
  <2>. SUFFICES ASSUME IInv, IInv', [Next]_vars
                PROVE  K!KeyringNext
    OBVIOUS
  <2>1. K!KeyringTypeOK'
    BY KeyringTypesNext
  <2>2. \A k \in Keys :
           \/ Fates'[k] = Fates[k]
           \/ K!Kept(k) \/ K!EndBegins(k) \/ K!EndFailed(k)
           \/ K!Forgotten(k) \/ K!Warned(k)
    BY KeyMoves
  <2>3. K!Lending /\ K!Service
    BY KeysLent
  <2>. QED
    BY <2>1, <2>2, <2>3, CloseGoesOn DEF K!KeyringNext
<1>. QED
  BY <1>1, <1>2, ClientInvariant, PTL DEF Spec, KeepsKeyring, K!KeyringSpec
=============================================================================
