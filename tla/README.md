# The memcoai SDKs in TLA+

`src/` holds three SDKs for one gRPC service: Node.js (`src/nodejs`), Go
(`src/go`) and Python (`src/python`). Each is a thin layer of request building
and conversion over a small concurrent core: a **holder** of short-lived
credentials, renewed beside the calls that carry them, and a **client** that
counts its calls, remembers every impersonation key until it is ended, and
closes without ending a key under a call. On top of these, a few operations take
several calls: opening a session, importing a batch, creating a network or
finding the one that has its name. Those are what this project models; the rest
is listed below with the reason it is left out.

## Inventory

| Part | State it keeps | Operations | What is hard | What makes it correct |
|---|---|---|---|---|
| Holder (`auth.ts` class `Renewing`, `renewing.go`, `_auth.py`) | the current credential, the mint in flight, closed; a use count and a retired mark per credential | lease, renew, close; in Go also release | a mint settles, a call ends, a deadline passes and a close lands in any order; what was read before an await or an unlock is stale after it | ended once, never under a call, none left behind, every lease answered |
| Client (`client.ts`, `client.go`, `_sync.py`, `_aio.py`) | closed, calls in flight, the registry of live keys, the sessions collected, the client's token | call, issue, mint a key, end a key, sweep, close | an end is itself a call; five parties may want to end one key; ends fail; sessions are collected; the drain must not finish between a call and the end that follows from it | one end at a time per key, every live key accounted for, a complete drain, close returns |
| Go registry (`keys.go`) | live keys, each with the channel of the end that claimed it; the dropped queue; whether it was swept | Add, Claim, Ended, Unclaimed, Drop, Dropped, Before, Sweep | a close whose context ended sweeps while calls, mints and ends still run | a claim is always given back, a key never claimed twice, none added once nobody will look |
| Sessions (`operations.ts`, `session.go`, `operations.py`) | an opening session: its holder, its three calls; the opener's remembered promise | start, resume, await, close | an open fails or times out between its mint and its calls, two of which are concurrent; an opener awaited by several | no key outlives a failed open, a failure is not remembered, one session per opener |
| Imports and limits (`operations.ts`, `requests.ts`, `limits.ts`, `convert.ts`, `channel.ts`) | what the service last said of its limits; how far a batch has come | import, listDomains | limits change across awaits, a group is refused or its answer lost, outcomes are numbered per call | a prefix of the batch is judged, each memory once; outcomes at the caller's indices |
| Administration (`administration.ts`) | none of its own; the service's networks | createOrGet, create, update, delete, list, and one request each for the rest | a race for a name is resolved page by page while others change the pages | the loser gets the winner's network; the search ends |
| Requests, validation, conversion, wire guards | none | pure | boundaries | as above, where several calls depend on them |
| Agent tools | tables | argument coercion, rendering | nothing concurrent | — |
| Channel, health probe, configuration, errors, logging, deprecation, provenance | static | pure or I/O | — | — |
| Contract, scripts, examples, system tests | — | — | — | — |

**How they interact.** An operation builds its request and hands it, with the
holder of the session it belongs to, to the client's `call`. The client counts
it in, starts the ends of any sessions the collector reported, leases the
holder's credential, sends, releases, and counts it out. A lease may start a
mint, which is the holder's callback into the client: for the client's own
credential `issue` (one RPC carrying nothing), for a session `mint`/`mintKey`,
which first ends what is left of its user's keys, then makes a *counted call*
under the client's own credential. A release, a renewal or a session's close may
leave a credential for which the holder calls back `endKey`, again a counted
call. `close` refuses new calls, waits for the count, ends what the registry
still holds, and closes the connection. Everything hard in the core is in that
loop: the holder's callbacks are calls of the client that is counting them.

## Modules

| Module | What it is | Code |
|---|---|---|
| `Custody` | the abstract promise: a credential is minted, held, given up at most once, revoked exactly once by whoever lets go last, never under a borrower | all three holders |
| `Keyring` | the abstract promise of a whole client: a key is lent only while it may be used, ended only out of use, remembered until its end is answered or it has expired, and named in a warning if the client closes without having ended it | both clients |
| `Renewing` | the Node.js holder, job by job | `src/nodejs/src/internal/auth.ts` |
| `GoRenewing` | the Go holder, critical section by critical section | `src/go/internal/transport/renewing.go` |
| `PyRenewing` | the Python holder for threads, by sections of its condition variable | `src/python/memcoai/_auth.py` |
| `Client`, `ClientMC` | the Node.js client over its sessions' holders | `src/nodejs/src/client.ts` |
| `GoClient`, `GoClientMC` | the Go client and its key registry over its sessions' holders | `src/go/memcoai/client.go`, `src/go/internal/transport/keys.go` |
| `SessionOpen` | opening a session, and its opener, **composed with `Renewing`** | `src/nodejs/src/operations.ts` |
| `Importing`, `ImportingMC` | a batch imported while the limits change | `operations.ts`, `internal/requests.ts`, `limits.ts`, `convert.ts`, `channel.ts` |
| `Networks` | networks created, found by name, changed and deleted | `src/nodejs/src/administration.ts` |
| `CustodyProofs`, `RenewingProofs`, `GoRenewingProofs`, `PyRenewingProofs`, `ClientProofs`, `GoClientProofs`, `ImportingProofs`, `NetworksProofs` | theorems and proofs about the module each names; `CustodyProofs` is also about `Keyring`, and `RenewingProofs` about `SessionOpen` | |

`Renewing`, `GoRenewing` and `PyRenewing` instantiate `Custody` with a refinement
mapping and state `KeepsCustody == C!CustodySpec`; `Client` and `GoClient` do so
with `Keyring` and state `KeepsKeyring == K!KeyringSpec`. The `MC` modules extend
theirs with the values a configuration file cannot write. Each module keeps,
beside a definition some properties depend on, a variant named `X_Y`: the
same definition with a plausible bug, which no specification uses and which
shows, when put in the definition's place, that the properties see it.

### Keyring: what a client promises of its keys

Each key has a `fate`: unminted, kept, ending (an end is on its way, or the sweep
has come to it), over (the client has forgotten it) or warned of. `lent` are the
keys that calls carry or may yet; `closing` is how far `close()` has come,
`"abandoned"` being a Go `Close()` whose context ended before the calls did.
One step may move several keys, as one job or critical section does: a call
that settles lets go of the key it carried last, and takes along those of the
sessions collected meanwhile. The mapping reads a key's fate off the registry, the ends in flight
and the sweep: in Node.js `ending`, `live`, `sweep` and `warned`, in Go `ender`,
`ends`, and the same. A key is lent there until it is `Spent` (Node.js), or while
a call carries it, a session holds it or a mint is about to hand it over (Go).
What the clients differ in shows in the promise: in Go a key that is forgotten,
having expired, may still be ended, and after an abandoned close so may one a
call carries.

### Renewing: one job at a time

JavaScript runs a job from an entry or an `await` to the next `await`, so that
is a step. `current`, `minting`, `closed` are the fields of the class, `users`
and `retired` those of `Minted`; `closing` and `idle` are where `shut()` stands
and its local; `phase` and `held` are the same for each `lease()`. `ends` counts
the calls of `end()` per credential and `endDone` which of them settled. The
continuations of promises a job settles are microtasks: they run before any
answer or timer can start another job, but other continuations of the
application may run between them. `Quiet` says the first half of this (a
network answer, a timer or the clock waits for the `resuming` leases); leaving
`Resume`, `LeaseX` and `Close` free to interleave says the second, which is the
window `lease()` guards against at `auth.ts:332`. The clock is one `age` of the
current credential, as only the current one is ever compared with it.

### GoRenewing: critical sections

Goroutines interleave at every lock, so a step is one critical section of
`r.mu`, or one step between two that somebody else can see: `Lease` has two
sections with a wait between them, a flight is taken out of `r.flight` in one
step (`MintLands`, `MintFails`, `MintDiscarded`) and its `done` channel closed in
another (`Settles`), and a credential given to `end` (`ends`) comes back later
(`EndReturns`). Two flights can therefore be settling at once. `Static()`
credentials never come due: they are the behaviours in which `Tick` is not
taken.

### PyRenewing: a condition variable

The lease of `_auth.py` waits on a condition variable that many events notify,
so it counts finished mints: `seen` is the count it read when it began to wait,
`attempts` the count now, and it goes on once they differ or the holder is
closed. By then a second mint may be running or over. `Wakes` is what it finds
when it has the lock again, in three outcomes (served, refused, told the last
failure), and `skewed` is the one `_honoured` (`_auth.py:274`) reports: neither a
credential that serves nor a failure to raise. The mint's thread and the threads
that end credentials are steps of their own; `Close` waits for nothing.

### Client: windows and registry

`inflight` is the size of `Memco.inflight`, `live`, `pending` and `failed` the
registry with the `ending` and `endFailed` of its entries, `dropped` the sessions
the `FinalizationRegistry` reported. A session that was closed is reported like
another, as `close()` does not unregister it: if the end of its key failed, that
key is then tried again. `gone` are the sessions collected; one that has left no
key in the registry is passed by, for `endDropped()` would find nothing to end. A session's holder is what `Renewing`
models; here it is one `current` and one `mint` per session, the calls a mint
serves being served as it lands, and the race in between is `Renewing`'s. An
RPC under the client's own credential is one step to send and one to answer:
waiting for the token is part of its being in flight, and `token`/`issuing` keep
the exchange itself. Counted calls made inside a counted call (a mint's, an
end's) are one window, open from the outer to the inner. `stage` is how far
`shutdown()` has come, and `sweep` what `endLive()` has still to end.

### GoClient: the same promise with locks

`inflight`, `closed`, `drained` are the fields behind `Client.mu` (`drained`
counts how often the channel was closed: twice is a panic). `live`, `claimed`,
`abandoned`, `dropped` are the registry behind `Keys.mu`. `ender[k]` is how far
`endClaimed()` of key `k` has come, with a step for each section: claimed,
counted in, past `Dropped()`, answered and forgotten, counted out, given back.
`ends[s]` are the ends a mint makes itself (`endKeys`), `waits[s]` the channels of
others' ends it blocks on. A `Close()` may go on without the drain at any time
(its context ended): `stopped` records that it did. After it, calls, ends and
mints go on against a swept registry and a connection that may close under
them.

The service is what the client can tell of it: it mints keys with fresh ids,
ends a key or says it does not know it, and any RPC may fail, with an end having
happened or not. A key may arrive with any age, expired only where
`SkewedClock` allows it.

### SessionOpen: an open over its holder

`SessionOpen` EXTENDS `Renewing`: the leases of the holder are the three calls of
`open()` (`List`, then `Tools` and `Start` together) and those of the session it
opens, and a step of the open is a step of the holder with what the caller does
in the same job. `open` is where `openSession()` stands, `answer` what each call
settled with, `error` what the open failed with. A failed open closes its key and
waits for it unless its deadline passed (`operations.ts:632`). The opener is
`opened` (whether a promise is remembered), and for each that awaits it the
attempt it chained itself on; `Forget` is the rejection handler that drops the
promise, `Told` the continuation of an awaiter. When an attempt is over and
another begins, the holder and calls of the old one leave the model: the two
share only the opener.

"Nothing held" after a failure is said of the key that was current when the
holder was closed. A key that a renewal replaced before the open failed is
ended by the renewal, and `shut()` does not wait for that end: it may still be
in flight when the caller sees the failure. `FailedOpenHoldsNothing` says
exactly this much, and `KeyGoesAfterFailure` that the rest follows.

### Importing: one import, moving limits

`importMemoriesRequests()` is a generator drained one request per loop turn:
`caps` is the local it takes the limits into, `offset` and `group` where it
stands, and `known` is `Known`, which `listDomains()` updates in between. The
counts are held to `caps`, the text to `known` (`requests.ts:510` and `:167`):
the model keeps the two reads apart, as the code does. A call is `wire` copies
on their way and a `reply`; answers are lost, and a call its caller gave up on
may still arrive. `Retried` is the service config's list of methods.

The service is as its contract says. A call over the cap on memories is refused.
Otherwise every memory is judged on its own (`memory.proto:64`), as queued,
rejected, in error or a duplicate; one over a cap of its own is rejected, or the
whole call is refused for it, as the contract may be read either way
(`memory.proto:198`). An entry is written "under an identity derived from its own
content" (`memory.proto:452`): one that has landed is never queued again, and a
replay would be answered with `duplicate` for what the first attempt wrote.
`judged` is the log of these judgements, which tells whether any memory was
judged twice, out of order or not at all. One call is judged from its first
memory to its last or not at all: a service that fails between two is left out.

### Networks: pages under other clients' changes

`networks` is the service's list, in the order it lists them; a new one appears
wherever its name falls. A `createOrGet()` is refused because the name is held,
then asks page after page, each cut from the list as it then is, and stops as
the code does: on the name, on an empty page, or when the total is reached. The
total may count more than is ever listed. `since` records what was done to the
list during a search, so that a property can say under which changes it holds.

## What the runs check

| Run | Instance | Shows |
|---|---|---|
| `renewing` | 3 leases, 3 mints | the inductive invariant, the refinement of `Custody` (which ends nothing under a use), leases answered and close returned, for the Node.js holder |
| `go_renewing` | 3 leases, 2 mints | the same of the Go holder, and that no lease meets a nil credential |
| `py_renewing` | 3 threads, 3 mints | the same of the Python holder, and that a thread that wakes late is still told the truth |
| `client` | 1 session, which may be collected, 3 calls of it and one under an API client's own token, 3 keys, the token exchanged, due and expired (up to symmetry) | the refinement of `Keyring`; no key ended under a call, one end at a time, every key accounted for, the drain complete |
| `client_live` | 2 sessions of one user, one of which may be collected, a call each, 2 keys, the token exchanged, due and expired, skewed clock | the inductive invariant; close finishes, calls are answered, no retired key left live in silence |
| `go_client` | 2 sessions of one user, a call each, 2 keys, a `Close`, sessions dropped (2.4 million states, up to symmetry) | no end under a call, none repeated, claims always somebody's to give back, keys accounted for, `drained` closed once and not early |
| `go_client_live` | 2 sessions of one user, a call each, 1 key, a `Close`, a session dropped, skewed clock | the inductive invariant, the refinement of `Keyring`; `Close` returns |
| `session_open` | 2 awaiters, 2 attempts, 2 mints each, one use of the session | a failed open holds nothing, later leaves nothing; no stale rejection; one session; awaiters told |
| `importing` | 1 import of up to 3 memories, 1 `listDomains()`, limits that change once | outcomes at their memories; memories judged in order, each once; nothing sent that the known limits refuse |
| `networks` | 2 calls, 3 networks ever created, 2 changes by others, one network to a page | an undisturbed loser gets the winner's network; every search ends |
| `client_cutoff`, `networks_deleted` | small instances | two statements of the source the code does not keep; see Findings |

**Bounds.** `MaxMints`, `MaxFlights` and `MaxKeys` bound how many credentials the
service ever mints: a mint beyond them can only fail (in `Client` the call that
would ask for one is not made). Two credentials are the
least for a replacement to meet the calls of what it replaces, three for two
generations of replaced ones to be carried at once. Three leases let one carry
the old credential, one the new, and one wait; in Python two mints must be over
before a waiter looks, and a third may be running. Two sessions of one user are
the least for one session's mint to wait for the end of another's key; one key is
enough for that, and is what `Close` has to wait out in `go_client_live`. One
session with three calls and three keys (`client`) lets one call carry a retired
key, another lease, and the next mint wait for an end or try it again. A Go call
under the client's own credential carries no key and is otherwise a session's
call whose key is good, so the Go runs have none; in Node.js it also waits for
the token, and `client` has one. One `Close` is enough: a second finds the client
closed, waits as the first does, and leaves the rest to `sync.Once`.
`MaxAttempts` 2 lets the opener fail and try again; two awaiters, one told of a
failure while the other awaits the next attempt. `MaxBatch` 3 with caps of one and
two memories gives one to three groups, the last one short; the memories differ
in what refuses them (nothing, the text, the counts, a blank field), and the
limits pull each cap a different way. `MaxNetworks` and `MaxChanges` bound what
the service's other clients do; `page` stops counting beyond `MaxNetworks`, where
every page is empty. One network to a page is the least, and makes every search
longer than one page. Every safety property and both refinements are proved for
all bounds, so the bounds matter to liveness only.

**Choices of an instance.** `ApiClient` says whether the client has a token it
exchanges, `SkewedClock` whether a key may arrive expired by the local clock,
`Collectable` and `Unclosed` (Go) which sessions may be collected. The runs give
these different values, so that each is met with small numbers of calls and
keys. In `go_client` swapping the two sessions together with their calls is a
symmetry (same user, same kind of call), in `client` permuting the calls of its
session; liveness runs use none.

**Deadlock** is not checked: a program whose calls are over and whose client is
closed stops, and so does a bounded model. That nothing waits for ever is what
the liveness properties say.

**Fairness.** Weak fairness on every step the runtime or the service owes:
continuations, threads and goroutines that can run do, and every RPC has a
deadline (the client gives one to a call without), so it is answered one way or
another. None on the application (nothing obliges it to call, close or wait), on
the clock, on the collector, on a deadline passing first, or on what other
clients do. In `GoClient` a `Close` is only obliged to go on once the client has
drained: its context may never end. `CloseCompletes` therefore says that
`Close()` returns by itself.

## What is proved

`CustodyProofs`: whatever keeps the promise of `Custody` never revokes a borrowed
credential, leaves none live with nobody to end it, and holds one at a time
(`CustodyIsSafe`, `OneAtATime`), for any sets of credentials and calls. Whatever
keeps the promise of `Keyring` has no call in flight under a key that is being
ended or is no longer accepted, unless its close was abandoned (`KeyringIsSafe`),
and loses sight of no key: one that the service accepts and that has not expired
is kept, being ended or warned of, and only warned of once the connection is
released (`KeyringAccounts`).

`RenewingProofs`, `GoRenewingProofs` and `PyRenewingProofs`: for any finite set of
leases and any bound on mints (the assumptions `CallsAssumption` and
`MaxMintsAssumption` or `MaxFlightsAssumption`; finiteness is needed as a use
count is a cardinality),

* the inductive invariant `IInv` holds (`RenewingInvariant`,
  `GoRenewingInvariant`, `PyRenewingInvariant`);
* type correctness, no end under use, at most one end, nothing left behind,
  and for each language its own: in Node.js only `close()` refuses a lease and
  only a lease with nothing to carry waits; in Go no lease meets a nil
  credential and two mints never run at once; in Python a lease that wakes finds
  a credential or a failure, unless the clock has overtaken the credential
  (`PySkewIsTheClock`);
* the holder implements `Custody` (`RenewingKeepsCustody`,
  `GoRenewingKeepsCustody`, `PyRenewingKeepsCustody`): initial states map to
  initial states and each step to a step of `Custody` or a stutter.

None of the safety properties is inductive. "No end under a call" needs to know
that the use count the code tests is the number of calls that carry the
credential; "ended once" needs to know who has ended it and that the retired
mark is set exactly when it is no longer current; both need to know where the
leases that are between two sections stand. `Bookkeeping` (Node.js) says: the
counts are the carriers, retired means minted and no longer current, and a
credential has been ended exactly when it is retired and nothing carries it. A
lease that resumes holds what is current unless the holder was closed, which is
what makes it safe to carry. `Books` (Go, Python) says the same of the locked
state, and `Flights` (Go) relates each flight's stage to `r.flight`, to its
credential and to the leases waiting on it, which is what `NeverNil` rests on.

`GoClientProofs`: for any finite sets of calls and sessions (`CallsAssumption`;
`inflight` is compared with a cardinality), any closes, users and bound on keys,
every safety property of `GoClient`: `GoNoEndUnderCall`, `GoNeverEndedAgain`,
`GoClaimsAreHeld`, `GoKeysAccountedFor` and `GoDrainedOnce`, besides type
correctness. They follow from `IInv` (`GoClientInvariant`), which needs six facts
more than it shows. Keys are known only once minted (`Numbered`), and each belongs
to the one session that lands and lends it (`Owned`): without these a new key
could be one already claimed. A key that anybody may end - queued, claimed, given
back after a failed end, or of a session that was dropped - is `Spent`: nothing
carries it, no mint brings it and no reachable session holds it
(`OnlySpentEnd`), which in turn needs a collected session to begin nothing more
(`Lost`). A key is forgotten as its end is answered (`EndedForgotten`), so a
claim means an end not answered yet. And a sweep comes after the close, with the
drain done or given up (`SweptOnce`): with `DrainedOnce`, which says that
`inflight` counts exactly what runs, a sweep that waited has no call and no end
beside it. One lemma for each part has one step for each action that touches it.
Two more parts are there for the refinement: what is accepted, swept or warned of
was minted (`MintedFirst`), and until the sweep an end in flight of a key that the
registry does not have is of one that has expired (`ForgottenOnExpiry`: `Before`
forgot it, or a mint refused it). With these `GoClientKeepsKeyring` shows that
each step is a step of `Keyring` or a stutter.

`ClientProofs`: for any finite sets of calls and sessions (`CallsAssumption`), any
users, any bound on keys (`BoundAssumption`), whichever kind of client and clock
(`KindAssumption`, `ScopeAssumption`), every safety property of `Client`:
`ClientNoEndUnderCall`, `ClientEndedOneAtATime`, `ClientKeysAccountedFor` and
`ClientDrainIsComplete`, besides type correctness. They follow from `IInv`
(`ClientInvariant`). `CountsWhatRuns` says that `inflight` is the number of windows
open, of calls, mints and ends, which gives the drain. `EndsShared` says that an
entry's `ending` is there exactly while one end of its key is in flight.
`OnlySpentEnd` says that a key anybody may end is carried by no call, and rests on
`Numbered`, `Owned` and `Lost` as in Go. `Registered` says where each unexpired key
is, before the sweep and after it. A job of the event loop often begins ends
besides what it does itself (the last use of a retired key, the sessions the
collector reported, a mint's first step): lemmas named `...Begins` say which ends
each step begins, and the lemmas for the parts of `IInv` cite them.
`ClientKeepsKeyring` follows from `IInv` alone: `StepKinds` sorts the steps by what
they may do to a key, and the lemmas after it show for each kind how a key's fate
moves, what stays lent, and that `close()` goes on only as `Keyring` lets it.

The second part of `RenewingProofs` is about `SessionOpen`: for any awaiters,
attempts, mints and uses, a failed open holds nothing (`FailedOpenIsClean`),
rejections are not remembered (`RejectionsAreNotCached`), awaiters share one
session (`OpenerYieldsOneSession`) and no call of an open or of its session loses
its key under it (`OpenNeverEndsUnderUse`). Every step of `SessionOpen` on the
holder is a step of `Renewing`, so `Renewing`'s invariant and its step lemmas carry
over by name; the rest of the invariant relates how far the open has come to its
calls' phases (a call not yet made is idle, one answered is over), to the close
of the holder, and each awaiter's attempt to the attempts made, told and given.

`ImportingProofs`: for any memories, limits, batches and changes,

* the service judges a prefix of each batch in order, each memory once, so that
  no outcome is that of a replay (`ImportsInOrder`).
  `Progress` says that what is judged stops at the groups answered while a copy is
  on the wire, and that there is never more than one: that an import is not
  retried is what it rests on;
* the caller is told of each memory, at its own place, how the service judged
  it (`OutcomesAreFiled`). `Told` says that the answers so far, renumbered by the
  offsets of their groups and flattened, are the verdicts on the batch up to where
  the generator stands. What flattening does to one answer more is shown by
  induction on how many there are, for a set of numbers, from the library's
  theorem that less-than is well-founded;
* while the service keeps to the limits that the generator took, it refuses
  no call (`CheckedIsHonoured`). `Published` says that, until the service changes its
  limits, whoever knows any knows those, and the group under way honours them.

`NetworksProofs`: for any callers, names, size of page and changes by others, the
loser of a race whose search meets no rename and no delete is not told that the
name is taken while a network like the one it asked for holds it
(`LoserIsHandedTheWinners`). The invariant says that names are unique, that a
network made by a call is as the call asked, and that in an undisturbed search
the name lost is still ahead of the pages read: others' creations only push it
on. The lemmas on `InsertAt`, `RemoveAt` and slices say where each element goes.

Each proof that a step preserves its invariant has one step per action and one
case per conjunct the action can disturb; facts about how a call's move changes
the carriers of a credential are lemmas. The copies of a definition with a bug
in it are used by no theorem.

**Model-checked only.** Liveness: fairness and ENABLED are beyond TLAPS. Every
invariant, action property and refinement that a passing run checks is stated by
a theorem.

## Findings

Two statements of the source that the code does not keep (`PROJECT.json` quotes
the lines).

1. `client_cutoff`: a call in flight when `close()` is called is said to be waited
   for; if its session still has to mint, the mint may resume from the wait for
   its user's ends (`client.ts:538`, even when there are none) after the close:
   its own call is then refused, and the call fails because the client is closed.
   The Go client does the same.
2. `networks_deleted`: the loser of a race to create a network is said to be
   handed the winner's, unless it cannot be listed. If another client deletes a
   network of a page already read, the winner's moves onto that page, and the
   loser is told that the name is taken. `UndisturbedLoserGetsWinner` shows that
   nothing but a rename or a delete during the search does this.

Four more the models showed while they were written, each milder, and stated
without a run. The first three are definitions of `Client`, which a configuration
may name (the second and third as a PROPERTY) to see them violated.

* A token renewal set off beside a call is said to be waited for by `close()`
  (`client.ts:762`); `issue()` (`:456`) is not counted, and the channel closes
  under it (`CloseWaitsForRenewal`).
* A key whose end failed is said to be tried again (`client.ts:692`); one that
  arrived already expired by the local clock was never registered, and is not
  (`:575`, `FailedEndIsRemembered`). Go shares this.
* A mint is said to wait for every end of its user's keys in flight
  (`client.ts:505`); it lists them once (`:538`), and an end begun while it waits
  is not waited for (`MintCountsOnlyKeysInUse`). Go shares this.
* `Known.limits` is said to give one request "one consistent set of numbers"
  (`limits.ts:27`), and a batch's counts do keep to one; its text cap is read
  anew for each group (`requests.ts:510` and `:167`), so a batch may be cut by
  one set and its text checked against another. An answer to an older
  `listDomains()` that arrives last also brings the older limits back.

## Not modelled, and why

* The window between a mint settling and its leases resuming is left out of
  `Client` and `GoClient`; `Renewing` and `GoRenewing` explore it.
* Node.js inner windows (a mint's or an end's call inside another counted call)
  are one window: the inner is always closed before the outer.
* `AsyncRenewing` (`_auth.py`): what becomes of a mint on a closed event loop
  depends on the interpreter's tasks, which `src/` does not show. In the
  threaded holder, the watch for one that is garbage-collected; `apart()`
  failing to start the thread of an end (`:429`; of a mint, `:452`, is
  `LeaseFails`); and a mint that raises what is not an `Exception` (`:479`), which
  would be recorded as neither a failure nor a credential, and its waiters told of
  the clock. Nothing `_mint` calls raises one by itself, and an interrupt goes to
  the main thread, never to the mint's: `SkewIsTheClock` holds under that.
* The Python clients: the counterparts of `Client` and `GoClient`.
* Health probe, provenance, `NewClient` and the constructor: no state of the
  client changes in them, or nothing else runs yet.
* The per-domain cap on tags, which trims a request and refuses nothing.
* The other operations of memory and administration: one request each, with
  nothing kept. Agent tools, conversion, validation, errors, logging: pure.
* Configuration: one pure decision, taken before anything runs, with a table of
  cases and a test for each.
* The gRPC library's back-off, health probe and connection states.
* Generated code, which is more than half of the source of the SDKs, scripts,
  examples, tests and CI. With the pure layers above it, it is why the models
  stand for a small share of the lines: the parts with state and order in them
  are small, and they are what is modelled.

## Plan

In order of what would be gained:

1. The Python clients over `PyRenewing`, shown to implement `Keyring`.
2. The asyncio holder, as far as `src/` shows what an event loop leaves behind.
