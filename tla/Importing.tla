------------------------------ MODULE Importing ------------------------------
(***************************************************************************)
(* Importing a batch of memories in as many calls as the service's limits  *)
(* ask for, while listDomains() refreshes those limits: importMemories()   *)
(* and listDomains() of src/nodejs/src/operations.ts, the generator        *)
(* importMemoriesRequests() of internal/requests.ts, class Known of        *)
(* internal/limits.ts and the retry policy of internal/channel.ts.         *)
(*                                                                         *)
(* A memory is [id, whole, entries, text]: whether checkImportMemories()   *)
(* accepts it, and its sizes.  entries stands for the counts of queries,   *)
(* insights and tags, whose three caps are read and checked alike; text    *)
(* for the longest title and content together.  A set of limits is         *)
(* [memories, entries, text], zero being no cap.                           *)
(***************************************************************************)
EXTENDS Integers, SequencesExt

CONSTANTS
    Imports,    \* the imports under way
    Readers,    \* the calls of listDomains()
    Memories,   \* what a batch may hold
    LimitSets,  \* the limits the service may enforce
    Unreported, \* what an older service says of them: nothing
    MaxBatch,   \* bound: the length of a batch
    MaxChanges  \* bound: how many times the service changes its limits

ASSUME BatchAssumption == MaxBatch \in Nat /\ MaxChanges \in Nat
ASSUME LimitsAssumption ==
    /\ LimitSets \subseteq [memories : Nat, entries : Nat, text : Nat]
    /\ Unreported \notin LimitSets

VARIABLES
    serving,    \* the limits of the service that answers now
    changes,    \* how many times they have changed
    known,      \* Known.limits
    list,       \* how far each listDomains() has come
    tries,      \* its attempts
    report,     \* the limits its answer carries
    at,         \* how far each import has come
    batch,      \* the caller's array
    caps,       \* the limits the generator took as it began
    offset,     \* the memories the generator has yielded
    group,      \* the memories of the call under way
    wire,       \* the copies of that call yet to reach the service
    sends,      \* its attempts
    reply,      \* the service's answer to it
    answered,   \* the answers of the calls before it, with their offsets
    result,     \* what importMemories() resolved with
    judged      \* what the service has judged of each import, in order

service == <<serving, changes>>
lists == <<list, tries, report>>
calls == <<at, batch, caps, offset, group, wire, sends, reply, answered,
           result, judged>>
vars == <<service, known, lists, calls>>

Reports == LimitSets \cup {Unreported}
Batches == UNION {[1 .. n -> Memories] : n \in 0 .. MaxBatch}
\* What becomes of one memory: written, not usable, not queued for writing,
\* in memory already.
Statuses == {"queued", "rejected", "error", "duplicate"}
Judgement == [memory : Memories, status : Statuses]
NoReply == <<>>
Refusal == <<[index |-> 0, status |-> "refused"]>>
Replies == Seq([index : Nat, status : Statuses \cup {"refused"}])

TypeOK ==
    /\ serving \in Reports /\ known \in Reports /\ changes \in 0 .. MaxChanges
    /\ list \in [Readers -> {"idle", "asked", "answered", "done", "failed"}]
    /\ tries \in [Readers -> Nat] /\ report \in [Readers -> Reports]
    /\ at \in [Imports -> {"idle", "sent", "returned", "failed"}]
    /\ batch \in [Imports -> Seq(Memories)] /\ caps \in [Imports -> Reports]
    /\ offset \in [Imports -> Nat] /\ group \in [Imports -> Seq(Memories)]
    /\ wire \in [Imports -> Nat] /\ sends \in [Imports -> Nat]
    /\ reply \in [Imports -> Replies]
    /\ answered \in [Imports -> Seq([offset : Nat, results : Replies])]
    /\ DOMAIN result = Imports
    /\ judged \in [Imports -> Seq(Judgement)]

Init ==
    /\ serving \in Reports /\ known = Unreported /\ changes = 0
    /\ list = [r \in Readers |-> "idle"]
    /\ tries = [r \in Readers |-> 0]
    /\ report = [r \in Readers |-> Unreported]
    /\ at = [i \in Imports |-> "idle"]
    /\ batch = [i \in Imports |-> <<>>]
    /\ caps = [i \in Imports |-> Unreported]
    /\ offset = [i \in Imports |-> 0]
    /\ group = [i \in Imports |-> <<>>]
    /\ wire = [i \in Imports |-> 0]
    /\ sends = [i \in Imports |-> 0]
    /\ reply = [i \in Imports |-> NoReply]
    /\ answered = [i \in Imports |-> <<>>]
    /\ result = [i \in Imports |-> <<>>]
    /\ judged = [i \in Imports |-> <<>>]

----------------------------------------------------------------------------
(* The channel's retry policy.                                             *)

Retried_Always(method) == TRUE
Retried(method) ==
    method \in {"ListDomains", "GetMemory", "ListTools", "GetSession"}
Attempts == 3

----------------------------------------------------------------------------
(* listDomains() and Known.                                                *)

Ask(r) ==
    /\ list[r] = "idle"
    /\ list' = [list EXCEPT ![r] = "asked"]
    /\ tries' = [tries EXCEPT ![r] = 1]
    /\ UNCHANGED <<service, known, report, calls>>

ServiceReports(r) ==
    /\ list[r] = "asked"
    /\ list' = [list EXCEPT ![r] = "answered"]
    /\ report' = [report EXCEPT ![r] = serving]
    /\ UNCHANGED <<service, known, tries, calls>>

(* Silence takes nothing back.                                             *)
Update(limits) == known' = IF limits = Unreported THEN known ELSE limits

Learns(r) ==
    /\ list[r] = "answered"
    /\ list' = [list EXCEPT ![r] = "done"]
    /\ Update(report[r])
    /\ UNCHANGED <<service, tries, report, calls>>

(* The call or its answer is lost: asked again, until out of attempts.     *)
ListLost(r) ==
    /\ list[r] \in {"asked", "answered"}
    /\ \/ /\ Retried("ListDomains") /\ tries[r] < Attempts
          /\ tries' = [tries EXCEPT ![r] = @ + 1]
          /\ list' = [list EXCEPT ![r] = "asked"]
       \/ list' = [list EXCEPT ![r] = "failed"] /\ UNCHANGED tries
    /\ UNCHANGED <<service, known, report, calls>>

ServiceChanges ==
    /\ changes < MaxChanges
    /\ changes' = changes + 1
    /\ serving' \in Reports \ {serving}
    /\ UNCHANGED <<known, lists, calls>>

----------------------------------------------------------------------------
(* importMemoriesRequests(): the next group, and what refuses it.          *)

Within(n, cap) == cap = 0 \/ n <= cap

Grouped(pending, limits) ==
    IF limits = Unreported \/ limits.memories = 0 \/ pending = <<>>
    THEN pending
    ELSE SubSeq(pending, 1, IF Len(pending) < limits.memories
                            THEN Len(pending) ELSE limits.memories)

(* checkImportMemories(): no field is missing or blank.                    *)
Whole(memory) == memory.whole

(* The counts are held to the limits taken as the generator began, the     *)
(* text to those known now.                                                *)
CountsFit(memory, limits) == Within(memory.entries, limits.entries)
TextFits(memory) == Within(memory.text, known.text)

Acceptable_CountsOnly(taken, limits) ==
    \A k \in DOMAIN taken :
        Whole(taken[k]) /\ (limits # Unreported => CountsFit(taken[k], limits))
Acceptable(taken, limits) ==
    \A k \in DOMAIN taken :
        /\ Whole(taken[k])
        /\ limits # Unreported => CountsFit(taken[k], limits) /\ TextFits(taken[k])

Sends(i) ==
    /\ wire' = [wire EXCEPT ![i] = 1]
    /\ sends' = [sends EXCEPT ![i] = 1]
    /\ reply' = [reply EXCEPT ![i] = NoReply]
    /\ at' = [at EXCEPT ![i] = "sent"]
    /\ UNCHANGED result

(* toImportResult(): every outcome moved to its place in the batch.        *)
Renumbered_InGroup(call) ==
    [k \in DOMAIN call.results |->
        [index |-> call.results[k].index, status |-> call.results[k].status]]
Renumbered(call) ==
    [k \in DOMAIN call.results |->
        [index |-> call.offset + call.results[k].index,
         status |-> call.results[k].status]]
ToImportResult(replies) ==
    FlattenSeq([n \in DOMAIN replies |-> Renumbered(replies[n])])

(* One turn of importMemories(): asks the generator for a request and      *)
(* sends it, unless there is none or it throws.                            *)
NextGroup(i, from, limits, done) ==
    LET taken == Grouped(SubSeq(batch'[i], from + 1, Len(batch'[i])), limits)
    IN  /\ offset' = [offset EXCEPT ![i] = from]
        /\ answered' = [answered EXCEPT ![i] = done]
        /\ group' = [group EXCEPT ![i] =
                        IF Acceptable(taken, limits) THEN taken ELSE <<>>]
        /\ \/ /\ taken # <<>> /\ Acceptable(taken, limits)
              /\ Sends(i)
           \/ /\ taken = <<>> /\ from > 0
              /\ at' = [at EXCEPT ![i] = "returned"]
              /\ result' = [result EXCEPT ![i] = ToImportResult(done)]
              /\ UNCHANGED <<wire, sends, reply>>
           \/ /\ (taken = <<>> /\ from = 0) \/ ~Acceptable(taken, limits)
              /\ at' = [at EXCEPT ![i] = "failed"]
              /\ UNCHANGED <<wire, sends, reply, result>>

----------------------------------------------------------------------------
(* importMemories().                                                       *)

Import(i, memories) ==
    /\ at[i] = "idle"
    /\ batch' = [batch EXCEPT ![i] = memories]
    /\ caps' = [caps EXCEPT ![i] = known]
    /\ NextGroup(i, 0, known, <<>>)
    /\ UNCHANGED <<service, known, lists, judged>>

Answered(i) ==
    /\ at[i] = "sent" /\ reply[i] # NoReply
    /\ UNCHANGED <<batch, caps>>
    /\ \/ /\ reply[i] # Refusal
          /\ NextGroup(i, offset[i] + Len(group[i]), caps[i],
                       Append(answered[i], [offset |-> offset[i],
                                            results |-> reply[i]]))
       \/ /\ reply[i] = Refusal
          /\ at' = [at EXCEPT ![i] = "failed"]
          /\ UNCHANGED <<offset, group, wire, sends, reply, answered, result>>
    /\ UNCHANGED <<service, known, lists, judged>>

(* The call or its answer is lost, or its deadline passes.                 *)
ImportLost(i) ==
    /\ at[i] = "sent"
    /\ \/ /\ Retried("ImportMemories") /\ sends[i] < Attempts
          /\ wire' = [wire EXCEPT ![i] = @ + 1]
          /\ sends' = [sends EXCEPT ![i] = @ + 1]
          /\ reply' = [reply EXCEPT ![i] = NoReply]
          /\ UNCHANGED at
       \/ /\ at' = [at EXCEPT ![i] = "failed"]
          /\ UNCHANGED <<wire, sends, reply>>
    /\ UNCHANGED <<service, known, lists, batch, caps, offset, group,
                   answered, result, judged>>

(* The service.  A call over the cap on memories is refused.  Otherwise    *)
(* every memory is judged on its own: one over a cap of its own is         *)
(* rejected, unless the service refuses the whole call for it, and one     *)
(* that has landed is not written again but answered as a duplicate, which *)
(* another client's import may make of any.  A call its caller has given   *)
(* up on may still reach the service.                                      *)
FewEnough(memories) ==
    serving # Unreported => Within(Len(memories), serving.memories)
Usable(memory) ==
    serving # Unreported => /\ Within(memory.entries, serving.entries)
                            /\ Within(memory.text, serving.text)
Honoured(memories) ==
    FewEnough(memories) /\ \A k \in DOMAIN memories : Usable(memories[k])

Landed(entries) ==
    {entries[k].memory :
        k \in {n \in DOMAIN entries :
                  entries[n].status \in {"queued", "duplicate"}}}
Entries(memories, status) ==
    [k \in DOMAIN memories |-> [memory |-> memories[k], status |-> status[k]]]
Judges(memories, status, before) ==
    \A k \in DOMAIN memories :
        /\ ~Usable(memories[k]) => status[k] = "rejected"
        /\ status[k] = "queued" =>
              memories[k] \notin
                  Landed(before \o SubSeq(Entries(memories, status), 1, k - 1))

Arrives(i) ==
    /\ wire[i] > 0
    /\ wire' = [wire EXCEPT ![i] = @ - 1]
    /\ \/ /\ FewEnough(group[i])
          /\ \E status \in [DOMAIN group[i] -> Statuses] :
                /\ Judges(group[i], status, judged[i])
                /\ judged' = [judged EXCEPT ![i] =
                      @ \o Entries(group[i], status)]
                /\ reply' = [reply EXCEPT ![i] =
                      [k \in DOMAIN group[i] |->
                          [index |-> k - 1, status |-> status[k]]]]
       \/ /\ ~Honoured(group[i])
          /\ reply' = [reply EXCEPT ![i] = Refusal]
          /\ UNCHANGED judged
    /\ UNCHANGED <<service, known, lists, at, batch, caps, offset, group,
                   sends, answered, result>>

----------------------------------------------------------------------------

Next ==
    \/ \E r \in Readers :
          Ask(r) \/ ServiceReports(r) \/ Learns(r) \/ ListLost(r)
    \/ ServiceChanges
    \/ \E i \in Imports :
          \/ \E memories \in Batches : Import(i, memories)
          \/ Answered(i) \/ ImportLost(i) \/ Arrives(i)

Spec == Init /\ [][Next]_vars

----------------------------------------------------------------------------
(* Properties.                                                             *)

(* "One outcome per memory, in the order they were given", each indexing   *)
(* the array passed in "whatever the service's batch limit happens to be"  *)
(* (operations.ts:980): the result of an import names the verdict the      *)
(* service gave on every memory of the batch, at its place in it.          *)
Verdicts(entries) ==
    [k \in DOMAIN entries |-> [index |-> k - 1, status |-> entries[k].status]]
OutcomesMatch ==
    \A i \in Imports : at[i] = "returned" =>
        /\ [k \in DOMAIN judged[i] |-> judged[i][k].memory] = batch[i]
        /\ result[i] = Verdicts(judged[i])

(* Groups are "sent in order rather than concurrently" (operations.ts:1002)*)
(* and no group twice, for "the second attempt reports what the first      *)
(* already landed as DUPLICATE" (channel.ts:59): whatever is rejected,     *)
(* refused, lost or late, the service has judged the memories of a batch   *)
(* from its start, in order, each once, and no more than the SDK has sent. *)
JudgedOnceInOrder ==
    \A i \in Imports :
        /\ Len(judged[i]) <= offset[i] + Len(group[i])
        /\ offset[i] + Len(group[i]) <= Len(batch[i])
        /\ \A k \in DOMAIN judged[i] : judged[i][k].memory = batch[i][k]

(* Limits are published "so a client can check its input before spending a *)
(* round trip on a call that would be refused" (memory.proto:174): while   *)
(* the service keeps to the limits the generator took, it refuses no call. *)
CheckedBeforeSent ==
    \A i \in Imports :
        changes = 0 /\ caps[i] # Unreported => reply[i] # Refusal

----------------------------------------------------------------------------
(* The inductive invariant behind the three: what the service has judged,  *)
(* against the call under way and how far it has got.                      *)
Progress(i) ==
    /\ offset[i] + Len(group[i]) <= Len(batch[i])
    /\ \A k \in 1 .. Len(group[i]) : group[i][k] = batch[i][offset[i] + k]
    /\ \A k \in 1 .. Len(judged[i]) : judged[i][k].memory = batch[i][k]
    /\ Len(judged[i]) <= offset[i] + Len(group[i])
    /\ wire[i] > 0 => wire[i] = 1 /\ Len(judged[i]) = offset[i]
    /\ at[i] = "idle" =>
          /\ wire[i] = 0 /\ Len(judged[i]) = 0
          /\ offset[i] = 0 /\ reply[i] = NoReply
    /\ at[i] = "sent" /\ reply[i] # NoReply =>
          /\ wire[i] = 0
          /\ reply[i] # Refusal =>
                Len(judged[i]) = offset[i] + Len(group[i])

(* What the caller is told, against what was judged: the answers filed so  *)
(* far are the verdicts up to offset, the reply those on the group.        *)
Told(i) ==
    /\ at[i] = "sent" =>
          /\ ToImportResult(answered[i]) =
                Verdicts(SubSeq(judged[i], 1, offset[i]))
          /\ reply[i] \notin {NoReply, Refusal} =>
                reply[i] = [k \in 1 .. Len(group[i]) |->
                    [index |-> k - 1,
                     status |-> judged[i][offset[i] + k].status]]
    /\ at[i] = "returned" =>
          /\ wire[i] = 0 /\ Len(judged[i]) = Len(batch[i])
          /\ result[i] = Verdicts(judged[i])

(* Until the service changes its limits, whoever knows any knows those,    *)
(* and once one does Known does: what was checked would be honoured.       *)
Published ==
    changes = 0 =>
        /\ known \in {Unreported, serving}
        /\ \A r \in Readers : report[r] \in {Unreported, serving}
        /\ \A i \in Imports : caps[i] # Unreported =>
              /\ caps[i] = serving /\ known = serving
              /\ Honoured(group[i]) /\ reply[i] # Refusal

IInv ==
    /\ TypeOK /\ Published
    /\ \A i \in Imports : Progress(i) /\ Told(i)
=============================================================================
