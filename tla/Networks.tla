------------------------------- MODULE Networks -------------------------------
(***************************************************************************)
(* Networks created, changed, deleted and fetched by name by clients that  *)
(* do not know of each other: class NetworkOperations of                   *)
(* src/nodejs/src/administration.ts and the requests it builds.            *)
(*                                                                         *)
(* The service keeps names unique and lists networks in some order, a page *)
(* of PageSize at a time, each page from the networks there are when it is *)
(* asked for.  Its name filter lists relatives of the matches too: here,   *)
(* every network.  scope stands for the domain too, which is compared in   *)
(* the same way; owner and scope are None where there is none.  An owner   *)
(* is given with space around it (padded), or stored trimmed.              *)
(***************************************************************************)
EXTENDS Integers, SequencesExt

CONSTANTS
    Calls,      \* the calls of createOrGet()
    Names, Owners, Scopes, None,
    PageSize,   \* networks on a page
    MaxNetworks, MaxChanges     \* bounds: networks created, others' changes

ASSUME PagesAssumption == PageSize \in Nat \ {0}
ASSUME BoundsAssumption == MaxNetworks \in Nat /\ MaxChanges \in Nat

VARIABLES
    networks,   \* the networks there are, in the order they are listed
    created,    \* how many have been
    changes,    \* how many changes the other clients have made
    at,         \* how far each call has come
    want,       \* its options
    page, seen, \* its search for the name
    got,        \* the network it resolved with
    made,       \* the network the service created for it
    since       \* what was done to networks during its search

service == <<networks, created, changes>>
vars == <<service, at, want, page, seen, got, made, since>>

Options == [name : Names, owner : Owners \cup {None}, padded : BOOLEAN,
            scope : Scopes \cup {None}]
Networks == [id : 1 .. MaxNetworks, name : Names,
             owner : Owners \cup {None}, scope : Scopes \cup {None}]
NoNetwork == [id |-> 0]
Settled == {"returned", "taken", "failed"}

TypeOK ==
    /\ networks \in Seq(Networks)
    /\ created \in 0 .. MaxNetworks /\ changes \in 0 .. MaxChanges
    /\ at \in [Calls -> {"idle", "creating", "listing"} \cup Settled]
    /\ want \in [Calls -> Options \cup {None}]
    /\ \A c \in Calls : at[c] # "idle" => want[c] \in Options
    /\ page \in [Calls -> Nat] /\ seen \in [Calls -> Nat]
    /\ got \in [Calls -> Networks \cup {NoNetwork}]
    /\ made \in [Calls -> Networks \cup {NoNetwork}]
    /\ since \in [Calls -> SUBSET {"renamed", "deleted"}]

Init ==
    /\ networks = <<>> /\ created = 0 /\ changes = 0
    /\ at = [c \in Calls |-> "idle"]
    /\ want = [c \in Calls |-> None]
    /\ page = [c \in Calls |-> 1]
    /\ seen = [c \in Calls |-> 0]
    /\ got = [c \in Calls |-> NoNetwork]
    /\ made = [c \in Calls |-> NoNetwork]
    /\ since = [c \in Calls |-> {}]

Held(name) == \E n \in ToSet(networks) : n.name = name

(* CreateNetwork: the new network is listed wherever its name falls.       *)
Creates(network) ==
    /\ created < MaxNetworks
    /\ created' = created + 1
    /\ \E k \in 1 .. Len(networks) + 1 :
          networks' = InsertAt(networks, k, network)

----------------------------------------------------------------------------
(* createOrGet().                                                          *)

Begin(c, options) ==
    /\ at[c] = "idle"
    /\ at' = [at EXCEPT ![c] = "creating"]
    /\ want' = [want EXCEPT ![c] = options]
    /\ UNCHANGED <<service, page, seen, got, made, since>>

(* The service creates the network; its answer may be lost.                *)
CreateLands(c) ==
    /\ at[c] = "creating" /\ ~Held(want[c].name)
    /\ LET network == [id |-> created + 1, name |-> want[c].name,
                       owner |-> want[c].owner, scope |-> want[c].scope]
       IN  /\ Creates(network)
           /\ made' = [made EXCEPT ![c] = network]
           /\ \/ /\ at' = [at EXCEPT ![c] = "returned"]
                 /\ got' = [got EXCEPT ![c] = network]
              \/ /\ at' = [at EXCEPT ![c] = "failed"]
                 /\ UNCHANGED got
    /\ UNCHANGED <<changes, want, page, seen, since>>

(* Any refusal other than ALREADY_EXISTS is passed on.                     *)
CreateRefused(c) ==
    /\ at[c] = "creating"
    /\ \/ Held(want[c].name) /\ at' = [at EXCEPT ![c] = "listing"]
       \/ at' = [at EXCEPT ![c] = "failed"]
    /\ UNCHANGED <<service, want, page, seen, got, made, since>>

(* Whether a network is the one asked for: no owner matches only none, no  *)
(* scope matches any.                                                      *)
Asked_Untrimmed(c, n) ==
    /\ n.owner = want[c].owner /\ ~want[c].padded
    /\ want[c].scope = None \/ n.scope = want[c].scope
Asked(c, n) ==
    /\ n.owner = want[c].owner
    /\ want[c].scope = None \/ n.scope = want[c].scope

Listing(p) ==
    SubSeq(networks, (p - 1) * PageSize + 1,
           IF p * PageSize < Len(networks) THEN p * PageSize
           ELSE Len(networks))

(* The last page, as far as its answer tells.                              *)
LastPage_ByTotal(listing, listed, total) == listed >= total
LastPage(listing, listed, total) == listing = <<>> \/ listed >= total

(* One page: the service's total may count networks no page shows.         *)
ListPage(c) ==
    /\ at[c] = "listing"
    /\ LET listing == Listing(page[c])
           listed == seen[c] + Len(listing)
           holders == {n \in ToSet(listing) : n.name = want[c].name}
       IN  \/ \E n \in holders :
                 IF Asked(c, n)
                 THEN /\ at' = [at EXCEPT ![c] = "returned"]
                      /\ got' = [got EXCEPT ![c] = n]
                      /\ UNCHANGED <<page, seen>>
                 ELSE /\ at' = [at EXCEPT ![c] = "taken"]
                      /\ UNCHANGED <<got, page, seen>>
           \/ /\ holders = {}
              /\ UNCHANGED got
              /\ \E total \in {Len(networks), Len(networks) + 1} :
                    IF LastPage(listing, listed, total)
                    THEN /\ at' = [at EXCEPT ![c] = "taken"]
                         /\ UNCHANGED <<page, seen>>
                    ELSE /\ seen' = [seen EXCEPT ![c] = listed]
                         /\ page' = [page EXCEPT ![c] =
                                        IF @ > MaxNetworks THEN @ ELSE @ + 1]
                         /\ UNCHANGED at
    /\ UNCHANGED <<service, want, made, since>>

(* A listing the service refuses, or that is lost.                         *)
ListFails(c) ==
    /\ at[c] = "listing"
    /\ at' = [at EXCEPT ![c] = "failed"]
    /\ UNCHANGED <<service, want, page, seen, got, made, since>>

----------------------------------------------------------------------------
(* The other operations, by any client: create(), update() and delete().   *)

Others(done) ==
    /\ changes < MaxChanges
    /\ changes' = changes + 1
    /\ since' = [c \in Calls |->
                    IF at[c] = "listing" THEN since[c] \cup done ELSE since[c]]
    /\ UNCHANGED <<at, want, page, seen, got, made>>

Create(name, owner) ==
    /\ ~Held(name)
    /\ Creates([id |-> created + 1, name |-> name, owner |-> owner,
                scope |-> None])
    /\ Others({})

(* A patch: what it leaves out stays, what it gives empty is cleared.      *)
Update(k, name, owner) ==
    /\ networks[k].name = name \/ ~Held(name)
    /\ networks' = [networks EXCEPT ![k].name = name, ![k].owner = owner]
    /\ UNCHANGED created
    /\ Others(IF name = networks[k].name THEN {} ELSE {"renamed"})

Delete(k) ==
    /\ networks' = RemoveAt(networks, k)
    /\ UNCHANGED created
    /\ Others({"deleted"})

----------------------------------------------------------------------------

CreateAnswered(c) == CreateLands(c) \/ CreateRefused(c)

Next ==
    \/ \E c \in Calls :
          \/ CreateAnswered(c) \/ ListPage(c) \/ ListFails(c)
          \/ \E options \in Options : Begin(c, options)
    \/ \E name \in Names, owner \in Owners \cup {None} :
          \/ Create(name, owner)
          \/ \E k \in DOMAIN networks : Update(k, name, owner)
    \/ \E k \in DOMAIN networks : Delete(k)

Spec == Init /\ [][Next]_vars

(* The service answers every call, or its deadline passes.                 *)
FairSpec == Spec /\ \A c \in Calls :
                       WF_vars(CreateAnswered(c)) /\ WF_vars(ListPage(c))

----------------------------------------------------------------------------
(* Properties.                                                             *)

TakenWhileHeld(c) ==
    \E d \in Calls : want[d] = want[c] /\ made[d] \in ToSet(networks)
CallsTaken(c) == at[c] = "listing" /\ at'[c] = "taken"

(* "Safe when two callers race to create one network: the loser is handed  *)
(* the winner's" (administration.ts:362): the name is not called taken     *)
(* while the network made for a call with the same options still holds it, *)
(* unless networks were renamed during the search.                         *)
LoserGetsWinner ==
    [][\A c \in Calls :
          CallsTaken(c) /\ "renamed" \notin since[c] => ~TakenWhileHeld(c)]_vars

(* So it is unless networks were renamed or deleted during the search.     *)
UndisturbedLoserGetsWinner ==
    [][\A c \in Calls :
          CallsTaken(c) /\ since[c] = {} => ~TakenWhileHeld(c)]_vars

(* The search stops, "whatever the total says"                             *)
(* (administration.test.ts:1080): every call settles.                      *)
CreateOrGetSettles ==
    \A c \in Calls : at[c] = "listing" ~> at[c] \in Settled

----------------------------------------------------------------------------
(* The inductive invariant behind UndisturbedLoserGetsWinner.              *)

NamesUnique ==
    \A j, k \in DOMAIN networks : networks[j].name = networks[k].name => j = k

MadeAsAsked(c) ==
    made[c] # NoNetwork =>
        /\ at[c] # "idle" /\ made[c].name = want[c].name
        /\ made[c].owner = want[c].owner /\ made[c].scope = want[c].scope

(* What a search has yet to list begins after the pages it has listed, and *)
(* the name it looks for, taken when it began, is there still: others may  *)
(* push the holder back, never forward, but by deleting or renaming.       *)
ListedBefore(c) == (page[c] - 1) * PageSize
Ahead(c) ==
    /\ page[c] >= 1 /\ seen[c] <= ListedBefore(c)
    /\ at[c] \in {"idle", "creating"} => page[c] = 1
    /\ at[c] = "listing" /\ since[c] = {} =>
          \E k \in DOMAIN networks :
             k > ListedBefore(c) /\ networks[k].name = want[c].name

IInv ==
    /\ TypeOK /\ NamesUnique /\ Len(networks) <= created
    /\ \A c \in Calls : MadeAsAsked(c) /\ Ahead(c)
=============================================================================
