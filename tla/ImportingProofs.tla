--------------------------- MODULE ImportingProofs ---------------------------
(***************************************************************************)
(* What TLAPS proves of Importing, for any imports, batches, limits and    *)
(* answers lost: the service judges the memories of a batch from its start,*)
(* in order and each once; an import that returns names the verdict on     *)
(* each; and what was checked against the limits in force is not refused.  *)
(***************************************************************************)
EXTENDS Importing, SequenceTheorems, WellFoundedInduction, TLAPS

----------------------------------------------------------------------------
(* Flattening.                                                             *)

(* Induction over the natural numbers, for a set.                          *)
LEMMA SetInduction ==
    ASSUME NEW S, 0 \in S, \A n \in Nat : n \in S => n + 1 \in S
    PROVE  \A n \in Nat : n \in S
<1> DEFINE T == {n \in Nat : n \notin S}
           Less == {pair \in Nat \X Nat : pair[1] < pair[2]}
<1> SUFFICES ASSUME T # {} PROVE FALSE
  OBVIOUS
<1>1. IsWellFoundedOn(Less, Nat)
  BY NatLessThanWellFounded DEF OpToRel
<1>2. T \subseteq Nat
  OBVIOUS
<1> HIDE DEF T, Less
<1>3. PICK x \in T : \A y \in T : ~(<<y, x>> \in Less)
  BY <1>1, <1>2, WFMin
<1>4. \A y \in T : ~(y < x)
  BY <1>2, <1>3 DEF Less
<1>5. x \in Nat /\ x # 0
  BY <1>2 DEF T
<1>6. x - 1 \in Nat /\ x - 1 < x /\ (x - 1) + 1 = x
  BY <1>5
<1>7. x - 1 \notin T
  BY <1>4, <1>6
<1> QED BY <1>5, <1>6, <1>7 DEF T

(* What FlattenSeq builds from the first n sequences of s, one by one.     *)
Flattens(f, s, n) ==
    f = [k \in 1 .. n |-> IF k = 1 THEN s[k] ELSE f[k - 1] \o s[k]]

LEMMA FlattensAt ==
    ASSUME NEW f, NEW s, NEW n, Flattens(f, s, n), NEW k \in 1 .. n
    PROVE  f[k] = IF k = 1 THEN s[k] ELSE f[k - 1] \o s[k]
BY DEF Flattens

LEMMA FlattensExists ==
    ASSUME NEW s
    PROVE  \A n \in Nat : \E f : Flattens(f, s, n)
<1> DEFINE S == {n \in Nat : \E f : Flattens(f, s, n)}
<1>1. 0 \in S
  <2>1. Flattens([k \in 1 .. 0 |-> s], s, 0)
    BY DEF Flattens
  <2> QED BY <2>1
<1>2. ASSUME NEW n \in Nat, n \in S PROVE n + 1 \in S
  <2>1. PICK f : Flattens(f, s, n)
    BY <1>2
  <2> DEFINE g == [k \in 1 .. n + 1 |->
                      IF k = 1 THEN s[k] ELSE f[k - 1] \o s[k]]
  <2>2. ASSUME NEW k \in 1 .. n PROVE g[k] = f[k]
    <3>1. k \in 1 .. n + 1
      OBVIOUS
    <3>2. f[k] = IF k = 1 THEN s[k] ELSE f[k - 1] \o s[k]
      BY <2>1, FlattensAt
    <3> QED BY <3>1, <3>2
  <2>3. ASSUME NEW k \in 1 .. n + 1
        PROVE  g[k] = IF k = 1 THEN s[k] ELSE g[k - 1] \o s[k]
    <3>1. CASE k = 1
      BY <3>1
    <3>2. CASE k # 1
      <4>1. k - 1 \in 1 .. n
        BY <3>2
      <4> QED BY <2>2, <3>2, <4>1
    <3> QED BY <3>1, <3>2
  <2>4. Flattens(g, s, n + 1)
    BY <2>3 DEF Flattens
  <2> QED BY <2>4
<1> HIDE DEF S
<1>3. \A n \in Nat : n \in S
  BY <1>1, <1>2, SetInduction
<1> QED BY <1>3 DEF S

(* It depends on no sequence beyond.                                       *)
LEMMA FlattensAgree ==
    ASSUME NEW s, NEW t, NEW m \in Nat, NEW n \in Nat, m <= n,
           NEW f, NEW g, Flattens(f, s, m), Flattens(g, t, n),
           \A k \in 1 .. m : s[k] = t[k]
    PROVE  \A k \in 1 .. m : f[k] = g[k]
<1> DEFINE S == {k \in Nat : k \in 1 .. m => f[k] = g[k]}
<1>1. 0 \in S
  OBVIOUS
<1>2. ASSUME NEW k \in Nat, k \in S PROVE k + 1 \in S
  <2> SUFFICES ASSUME k + 1 \in 1 .. m PROVE f[k + 1] = g[k + 1]
    OBVIOUS
  <2>1. f[k + 1] = IF k + 1 = 1 THEN s[k + 1] ELSE f[(k + 1) - 1] \o s[k + 1]
    BY FlattensAt
  <2>2. k + 1 \in 1 .. n
    OBVIOUS
  <2>3. g[k + 1] = IF k + 1 = 1 THEN t[k + 1] ELSE g[(k + 1) - 1] \o t[k + 1]
    BY <2>2, FlattensAt
  <2>4. s[k + 1] = t[k + 1] /\ (k + 1) - 1 = k
    OBVIOUS
  <2>5. k + 1 # 1 => f[k] = g[k]
    BY <1>2
  <2> QED BY <2>1, <2>3, <2>4, <2>5
<1> HIDE DEF S
<1>3. \A k \in Nat : k \in S
  BY <1>1, <1>2, SetInduction
<1> QED BY <1>3 DEF S

LEMMA FlattenSeqIs ==
    ASSUME NEW s, Len(s) \in Nat \ {0}, NEW f, Flattens(f, s, Len(s))
    PROVE  FlattenSeq(s) = f[Len(s)]
<1> DEFINE g == CHOOSE h : Flattens(h, s, Len(s))
<1>1. FlattenSeq(s) = g[Len(s)]
  BY DEF FlattenSeq, Flattens
<1>2. Flattens(g, s, Len(s))
  OBVIOUS
<1> HIDE DEF g
<1>3. \A k \in 1 .. Len(s) : f[k] = g[k]
  BY <1>2, FlattensAgree
<1> QED BY <1>1, <1>3

(* A sequence more is concatenated to what there was.                      *)
LEMMA FlattenSeqOneMore ==
    ASSUME NEW s, NEW t, NEW n \in Nat \ {0}, Len(s) = n, Len(t) = n + 1,
           \A k \in 1 .. n : s[k] = t[k]
    PROVE  FlattenSeq(t) = FlattenSeq(s) \o t[n + 1]
<1>1. PICK m : m = n + 1 /\ m \in Nat
  OBVIOUS
<1>2. PICK f : Flattens(f, s, n)
  BY FlattensExists
<1>3. PICK g : Flattens(g, t, m)
  BY <1>1, FlattensExists
<1>4. FlattenSeq(s) = f[n] /\ FlattenSeq(t) = g[m]
  BY <1>1, <1>2, <1>3, FlattenSeqIs
<1>5. g[m] = IF m = 1 THEN t[m] ELSE g[m - 1] \o t[m]
  <2>1. m \in 1 .. m
    BY <1>1
  <2> QED BY <1>3, <2>1, FlattensAt
<1>6. f[n] = g[n]
  <2>1. n \in Nat /\ n <= m /\ n \in 1 .. n
    BY <1>1
  <2>2. \A k \in 1 .. n : f[k] = g[k]
    BY <1>1, <1>2, <1>3, <2>1, FlattensAgree
  <2> QED BY <2>1, <2>2
<1>7. m # 1 /\ m - 1 = n
  BY <1>1
<1> QED BY <1>1, <1>4, <1>5, <1>6, <1>7

LEMMA FlattenSeqAppend ==
    ASSUME NEW S, NEW s \in Seq(Seq(S)), NEW x \in Seq(S)
    PROVE  FlattenSeq(Append(s, x)) = FlattenSeq(s) \o x
<1>1. PICK t, n : t = Append(s, x) /\ n = Len(s)
  OBVIOUS
<1>2. /\ n \in Nat /\ Len(t) = n + 1
      /\ \A k \in 1 .. n : s[k] = t[k]
      /\ t[n + 1] = x
  BY <1>1, LenProperties, AppendProperties
<1>3. CASE n = 0
  <2>1. FlattenSeq(s) = <<>>
    BY <1>1, <1>3, EmptySeq DEF FlattenSeq
  <2>2. <<>> \o x = x
    BY ConcatEmptySeq
  <2>3. Len(t) = 1 /\ t[1] = x
    BY <1>2, <1>3
  <2>4. PICK f : Flattens(f, t, 1)
    BY FlattensExists
  <2>5. f[1] = t[1]
    BY <2>4, FlattensAt
  <2>6. FlattenSeq(t) = f[1]
    <3>1. Len(t) \in Nat \ {0} /\ Flattens(f, t, Len(t))
      BY <2>3, <2>4
    <3>2. FlattenSeq(t) = f[Len(t)]
      BY ONLY <3>1, FlattenSeqIs
    <3> QED BY <2>3, <3>2
  <2> QED BY <1>1, <2>1, <2>2, <2>3, <2>5, <2>6
<1>4. CASE n # 0
  <2>1. PICK r : r = s
    OBVIOUS
  <2>2. /\ n \in Nat \ {0} /\ Len(r) = n /\ Len(t) = n + 1
        /\ \A k \in 1 .. n : r[k] = t[k]
    BY <1>1, <1>2, <1>4, <2>1
  <2>3. FlattenSeq(t) = FlattenSeq(r) \o t[n + 1]
    BY ONLY <2>2, FlattenSeqOneMore
  <2> QED BY <1>1, <1>2, <2>1, <2>3
<1> QED BY <1>2, <1>3, <1>4

----------------------------------------------------------------------------
(* The next group.                                                         *)

(* A batch is a sequence of memories.                                      *)
LEMMA BatchesAreSequences == Batches \subseteq Seq(Memories)
BY DEF Batches

(* A prefix of a sequence, and what is left of it.                         *)
LEMMA PrefixOf ==
    ASSUME NEW s \in Seq(Memories), NEW n \in 0 .. Len(s)
    PROVE  /\ SubSeq(s, 1, n) \in Seq(Memories) /\ Len(SubSeq(s, 1, n)) = n
           /\ \A k \in 1 .. n : SubSeq(s, 1, n)[k] = s[k]
BY SubSeqProperties

LEMMA RestOf ==
    ASSUME NEW s \in Seq(Memories), NEW n \in 0 .. Len(s)
    PROVE  /\ SubSeq(s, n + 1, Len(s)) \in Seq(Memories)
           /\ Len(SubSeq(s, n + 1, Len(s))) = Len(s) - n
           /\ \A k \in 1 .. Len(s) - n :
                 SubSeq(s, n + 1, Len(s))[k] = s[n + k]
BY SubSeqProperties

(* The generator's next group is what follows in the batch, up to the cap. *)
LEMMA GroupIsNext ==
    ASSUME NEW b \in Seq(Memories), NEW from \in 0 .. Len(b),
           NEW limits \in Reports,
           NEW taken, taken = Grouped(SubSeq(b, from + 1, Len(b)), limits)
    PROVE  /\ taken \in Seq(Memories)
           /\ from + Len(taken) <= Len(b)
           /\ \A k \in 1 .. Len(taken) : taken[k] = b[from + k]
<1>1. PICK rest : rest = SubSeq(b, from + 1, Len(b))
  OBVIOUS
<1>2. /\ rest \in Seq(Memories) /\ Len(rest) = Len(b) - from
      /\ \A k \in 1 .. Len(rest) : rest[k] = b[from + k]
  BY <1>1, RestOf
<1>3. CASE taken = rest
  BY <1>2, <1>3
<1>4. CASE limits # Unreported /\ limits.memories # 0 /\ rest # <<>>
  <2>1. PICK n \in 0 .. Len(rest) : taken = SubSeq(rest, 1, n)
    <3>1. limits.memories \in Nat
      BY <1>4, LimitsAssumption DEF Reports
    <3>2. Len(rest) \in Nat
      BY <1>2, LenProperties
    <3>3. taken = IF Len(rest) < limits.memories
                  THEN SubSeq(rest, 1, Len(rest))
                  ELSE SubSeq(rest, 1, limits.memories)
      BY <1>1, <1>4 DEF Grouped
    <3>4. CASE Len(rest) < limits.memories
      BY <3>2, <3>3, <3>4
    <3>5. CASE ~(Len(rest) < limits.memories)
      <4>1. limits.memories \in 0 .. Len(rest)
        BY <3>1, <3>2, <3>5
      <4> QED BY <3>3, <3>5, <4>1
    <3> QED BY <3>4, <3>5
  <2>2. /\ taken \in Seq(Memories) /\ Len(taken) = n
        /\ \A k \in 1 .. n : taken[k] = rest[k]
    BY <1>2, <2>1, PrefixOf
  <2> QED BY <1>2, <2>2
<1> QED BY <1>1, <1>3, <1>4 DEF Grouped

----------------------------------------------------------------------------
(* What the service has judged, against how far the import has come.       *)

Books == TypeOK /\ \A i \in Imports : Progress(i)

(* Nothing is sent, and nothing judged, before an import begins.         *)
LEMMA InitBooks == Init => Books
<1> SUFFICES ASSUME Init PROVE Books
  OBVIOUS
<1>1. TypeOK
  BY BatchAssumption DEF Init, TypeOK, Reports, NoReply, Replies
<1>2. ASSUME NEW i \in Imports PROVE Progress(i)
  BY <1>2 DEF Init, Progress
<1> QED BY <1>1, <1>2 DEF Books

(* A turn of importMemories(): the next group follows what was judged.   *)
LEMMA NextGroupKeepsBooks ==
    ASSUME Books, NEW i \in Imports, NEW from, NEW limits \in Reports, NEW done,
           NextGroup(i, from, limits, done),
           from \in 0 .. Len(batch'[i]), from = Len(judged[i]),
           wire[i] = 0,
           batch'[i] \in Seq(Memories),
           \A k \in 1 .. from : judged[i][k].memory = batch'[i][k],
           batch' \in [Imports -> Seq(Memories)], caps' \in [Imports -> Reports],
           \A j \in Imports \ {i} : batch'[j] = batch[j],
           done \in Seq([offset : Nat, results : Replies]),
           UNCHANGED <<service, known, lists, judged>>
    PROVE  Books'
<1> DEFINE taken == Grouped(SubSeq(batch'[i], from + 1, Len(batch'[i])), limits)
           kept == IF Acceptable(taken, limits) THEN taken ELSE <<>>
<1>0. Len(batch'[i]) \in Nat /\ from \in Nat
  BY LenProperties
<1>1. /\ taken \in Seq(Memories)
      /\ from + Len(taken) <= Len(batch'[i])
      /\ \A k \in 1 .. Len(taken) : taken[k] = batch'[i][from + k]
  <2>1. PICK b : b = batch'[i]
    OBVIOUS
  <2>2. b \in Seq(Memories) /\ from \in 0 .. Len(b) /\ limits \in Reports
    BY <2>1
  <2>3. taken = Grouped(SubSeq(b, from + 1, Len(b)), limits)
    BY <2>1
  <2> HIDE DEF taken
  <2>4. /\ taken \in Seq(Memories)
        /\ from + Len(taken) <= Len(b)
        /\ \A k \in 1 .. Len(taken) : taken[k] = b[from + k]
    BY ONLY <2>2, <2>3, GroupIsNext
  <2> QED BY <2>1, <2>4
<1>2. /\ kept \in Seq(Memories)
      /\ from + Len(kept) <= Len(batch'[i])
      /\ \A k \in 1 .. Len(kept) : kept[k] = batch'[i][from + k]
  <2> HIDE DEF taken
  <2>1. kept = taken \/ (kept = <<>> /\ Len(kept) = 0)
    OBVIOUS
  <2>2. <<>> \in Seq(Memories)
    OBVIOUS
  <2> HIDE DEF kept
  <2>3. CASE kept = taken
    BY <1>1, <2>3
  <2>4. CASE kept = <<>> /\ Len(kept) = 0
    <3>1. kept \in Seq(Memories) /\ Len(kept) = 0
      BY <2>2, <2>4
    <3> HIDE <2>4
    <3> QED BY <1>0, <3>1
  <2> QED BY <2>1, <2>3, <2>4
<1>3. /\ offset' = [offset EXCEPT ![i] = from]
      /\ group' = [group EXCEPT ![i] = kept]
  BY DEF NextGroup
<1>4. \/ /\ wire' = [wire EXCEPT ![i] = 1] /\ sends' = [sends EXCEPT ![i] = 1]
         /\ reply' = [reply EXCEPT ![i] = NoReply]
         /\ at' = [at EXCEPT ![i] = "sent"]
      \/ /\ UNCHANGED <<wire, sends, reply>>
         /\ \/ at' = [at EXCEPT ![i] = "returned"]
            \/ at' = [at EXCEPT ![i] = "failed"]
  BY DEF NextGroup, Sends
<1> HIDE DEF taken, kept
<1>5. TypeOK'
  <2>1. offset' \in [Imports -> Nat] /\ group' \in [Imports -> Seq(Memories)]
    BY <1>2, <1>3 DEF Books, TypeOK
  <2>2. /\ at' \in [Imports -> {"idle", "sent", "returned", "failed"}]
        /\ wire' \in [Imports -> Nat] /\ sends' \in [Imports -> Nat]
        /\ reply' \in [Imports -> Replies]
    <3>1. NoReply \in Replies
      BY DEF NoReply, Replies
    <3>2. CASE UNCHANGED <<wire, sends, reply>>
      BY <1>4, <3>2 DEF Books, TypeOK
    <3>3. CASE wire' = [wire EXCEPT ![i] = 1]
               /\ sends' = [sends EXCEPT ![i] = 1]
               /\ reply' = [reply EXCEPT ![i] = NoReply]
               /\ at' = [at EXCEPT ![i] = "sent"]
      <4>1. wire' \in [Imports -> Nat] /\ sends' \in [Imports -> Nat]
        BY <3>3 DEF Books, TypeOK
      <4>2. reply' \in [Imports -> Replies]
        BY <3>1, <3>3 DEF Books, TypeOK
      <4>3. at' \in [Imports -> {"idle", "sent", "returned", "failed"}]
        BY <3>3 DEF Books, TypeOK
      <4> QED BY <4>1, <4>2, <4>3
    <3> QED BY <1>4, <3>2, <3>3
  <2>3. /\ answered' \in [Imports -> Seq([offset : Nat, results : Replies])]
        /\ DOMAIN result' = Imports
    BY DEF NextGroup, Sends, Books, TypeOK
  <2> QED BY <2>1, <2>2, <2>3 DEF Books, TypeOK, service, lists
<1>6. Progress(i)'
  <2>1. /\ offset'[i] = from /\ group'[i] = kept /\ judged'[i] = judged[i]
        /\ judged[i] \in Seq(Judgement)
    BY <1>3 DEF Books, TypeOK
  <2>2. /\ wire'[i] = 1 \/ wire'[i] = 0
        /\ at'[i] # "idle"
        /\ at'[i] = "sent" => reply'[i] = NoReply
    BY <1>4 DEF Books, TypeOK
  <2> QED BY <1>2, <2>1, <2>2, LenProperties DEF Progress
<1>7. ASSUME NEW j \in Imports \ {i} PROVE Progress(j)'
  <2>1. /\ offset'[j] = offset[j] /\ group'[j] = group[j]
        /\ wire'[j] = wire[j] /\ reply'[j] = reply[j] /\ at'[j] = at[j]
        /\ batch'[j] = batch[j] /\ judged'[j] = judged[j]
    BY <1>3, <1>4 DEF Books, TypeOK
  <2> QED BY <2>1 DEF Books, Progress
<1> QED BY <1>5, <1>6, <1>7 DEF Books

LEMMA ImportKeepsBooks ==
    ASSUME Books, NEW i \in Imports, NEW memories \in Batches,
           Import(i, memories)
    PROVE  Books'
<1>1. memories \in Seq(Memories) /\ known \in Reports
  BY BatchesAreSequences DEF Books, TypeOK
<1>2. batch' = [batch EXCEPT ![i] = memories] /\ caps' = [caps EXCEPT ![i] = known]
  BY DEF Import
<1>3. /\ batch'[i] \in Seq(Memories)
      /\ batch' \in [Imports -> Seq(Memories)] /\ caps' \in [Imports -> Reports]
      /\ \A j \in Imports \ {i} : batch'[j] = batch[j]
  BY <1>1, <1>2 DEF Books, TypeOK
<1>4. wire[i] = 0 /\ Len(judged[i]) = 0
  BY DEF Books, Progress, Import
<1>5. /\ NextGroup(i, 0, known, <<>>)
      /\ UNCHANGED <<service, known, lists, judged>>
  BY DEF Import
<1>6. 0 \in 0 .. Len(batch'[i])
  BY <1>3, LenProperties
<1>7. \A k \in 1 .. 0 : judged[i][k].memory = batch'[i][k]
  OBVIOUS
<1>8. <<>> \in Seq([offset : Nat, results : Replies])
  OBVIOUS
<1> QED BY <1>1, <1>3, <1>4, <1>5, <1>6, <1>7, <1>8, NextGroupKeepsBooks

(* The answer is filed with the place its group began at.                  *)
LEMMA AnsweredIsFiled ==
    ASSUME Books, NEW i \in Imports
    PROVE  Append(answered[i], [offset |-> offset[i], results |-> reply[i]])
              \in Seq([offset : Nat, results : Replies])
<1>1. PICK F : F = [offset : Nat, results : Replies]
  OBVIOUS
<1>2. PICK call : call = [offset |-> offset[i], results |-> reply[i]]
  OBVIOUS
<1>3. answered[i] \in Seq(F)
  BY <1>1 DEF Books, TypeOK
<1>4. offset[i] \in Nat /\ reply[i] \in Replies
  BY DEF Books, TypeOK
<1>5. call \in F
  BY <1>1, <1>2, <1>4
<1>6. Append(answered[i], call) \in Seq(F)
  BY <1>3, <1>5, AppendProperties
<1> QED BY <1>1, <1>2, <1>6

LEMMA AnsweredKeepsBooks ==
    ASSUME Books, NEW i \in Imports, Answered(i)
    PROVE  Books'
<1>1. /\ offset[i] \in Nat /\ group[i] \in Seq(Memories)
      /\ batch[i] \in Seq(Memories) /\ judged[i] \in Seq(Judgement)
      /\ Len(group[i]) \in Nat /\ Len(batch[i]) \in Nat
  BY LenProperties DEF Books, TypeOK
<1>2. CASE reply[i] # Refusal
  <2> DEFINE from == offset[i] + Len(group[i])
             done == Append(answered[i], [offset |-> offset[i],
                                          results |-> reply[i]])
  <2>1. /\ NextGroup(i, from, caps[i], done)
        /\ UNCHANGED <<batch, caps>>
        /\ UNCHANGED <<service, known, lists, judged>>
    BY <1>2 DEF Answered
  <2>2. wire[i] = 0 /\ Len(judged[i]) = from
    BY <1>2 DEF Books, Progress, Answered
  <2>3. from \in 0 .. Len(batch'[i])
    BY <1>1, <2>1 DEF Books, Progress
  <2>4. \A k \in 1 .. from : judged[i][k].memory = batch'[i][k]
    BY <2>1, <2>2 DEF Books, Progress
  <2>5. /\ batch'[i] \in Seq(Memories) /\ caps[i] \in Reports
        /\ batch' \in [Imports -> Seq(Memories)] /\ caps' \in [Imports -> Reports]
        /\ \A j \in Imports \ {i} : batch'[j] = batch[j]
    BY <1>1, <2>1 DEF Books, TypeOK
  <2>6. done \in Seq([offset : Nat, results : Replies])
    BY AnsweredIsFiled
  <2> HIDE DEF from, done
  <2> QED BY <2>1, <2>2, <2>3, <2>4, <2>5, <2>6, NextGroupKeepsBooks
<1>3. CASE reply[i] = Refusal
  <2>1. at' = [at EXCEPT ![i] = "failed"]
        /\ UNCHANGED <<service, known, lists, batch, caps, offset, group, wire,
                       sends, reply, answered, result, judged>>
    BY <1>3 DEF Answered
  <2>2. TypeOK'
    BY <2>1 DEF Books, TypeOK, service, lists
  <2>3. ASSUME NEW j \in Imports PROVE Progress(j)'
    BY <2>1, <2>3 DEF Books, TypeOK, Progress
  <2> QED BY <2>2, <2>3 DEF Books
<1> QED BY <1>2, <1>3

(* An import is not retried: what is lost is over.                         *)
LEMMA ImportLostKeepsBooks ==
    ASSUME Books, NEW i \in Imports, ImportLost(i)
    PROVE  Books'
<1>1. ~Retried("ImportMemories")
  BY DEF Retried
<1>2. at' = [at EXCEPT ![i] = "failed"]
      /\ UNCHANGED <<service, known, lists, batch, caps, offset, group, wire,
                     sends, reply, answered, result, judged>>
  BY <1>1 DEF ImportLost
<1>3. TypeOK'
  BY <1>2 DEF Books, TypeOK, service, lists
<1>4. ASSUME NEW j \in Imports PROVE Progress(j)'
  BY <1>2, <1>4 DEF Books, TypeOK, Progress
<1> QED BY <1>3, <1>4 DEF Books

(* What a call adds to the record.                                         *)
LEMMA AppendedAfter ==
    ASSUME NEW T, NEW r \in Seq(T), NEW n \in Nat, NEW more \in [1 .. n -> T]
    PROVE  /\ r \o more \in Seq(T)
           /\ Len(r \o more) = Len(r) + n
           /\ \A k \in 1 .. Len(r) : (r \o more)[k] = r[k]
           /\ \A k \in 1 .. n : (r \o more)[Len(r) + k] = more[k]
<1>1. more \in Seq(T)
  BY SeqDef
<1>2. Len(more) = n
  BY ONLY <1>1, n \in Nat, more \in [1 .. n -> T], LenProperties
<1>3. /\ r \o more \in Seq(T)
      /\ Len(r \o more) = Len(r) + Len(more)
      /\ \A k \in 1 .. Len(r) + Len(more) :
            (r \o more)[k] = IF k <= Len(r) THEN r[k] ELSE more[k - Len(r)]
  BY <1>1, ConcatProperties
<1>4. Len(r) \in Nat
  BY LenProperties
<1>5. \A k \in 1 .. Len(r) : (r \o more)[k] = r[k]
  BY <1>2, <1>3, <1>4
<1>6. ASSUME NEW k \in 1 .. n PROVE (r \o more)[Len(r) + k] = more[k]
  <2>1. Len(r) + k \in 1 .. Len(r) + n /\ ~(Len(r) + k <= Len(r))
        /\ (Len(r) + k) - Len(r) = k
    BY <1>4
  <2> QED BY <1>2, <1>3, <2>1
<1> QED BY <1>2, <1>3, <1>5, <1>6

(* A call that reaches the service is judged, memory by memory, or refused.*)
Judged(i) ==
    \E status \in [DOMAIN group[i] -> Statuses] :
        /\ judged' = [judged EXCEPT ![i] = @ \o Entries(group[i], status)]
        /\ reply' = [reply EXCEPT ![i] =
              [k \in DOMAIN group[i] |-> [index |-> k - 1, status |-> status[k]]]]
Refused(i) ==
    /\ ~Honoured(group[i])
    /\ reply' = [reply EXCEPT ![i] = Refusal] /\ judged' = judged

LEMMA ArrivesIsOneOfTwo ==
    ASSUME NEW i, Arrives(i)
    PROVE  Judged(i) \/ Refused(i)
BY DEF Arrives, Judged, Refused

LEMMA ArrivesKeepsBooks ==
    ASSUME Books, NEW i \in Imports, Arrives(i)
    PROVE  Books'
<1>1. /\ offset[i] \in Nat /\ group[i] \in Seq(Memories)
      /\ batch[i] \in Seq(Memories) /\ judged[i] \in Seq(Judgement)
      /\ Len(group[i]) \in Nat /\ DOMAIN group[i] = 1 .. Len(group[i])
      /\ Len(batch[i]) \in Nat /\ Len(judged[i]) \in Nat
  BY LenProperties DEF Books, TypeOK
<1>2. /\ wire[i] = 1 /\ Len(judged[i]) = offset[i] /\ at[i] # "idle"
  BY DEF Books, TypeOK, Progress, Arrives
<1>3. /\ wire' = [wire EXCEPT ![i] = 0]
      /\ UNCHANGED <<service, known, lists, at, batch, caps, offset, group,
                     sends, answered, result>>
  BY <1>2 DEF Arrives, Books, TypeOK
<1>4. /\ judged' \in [Imports -> Seq(Judgement)]
      /\ reply' \in [Imports -> Replies]
      /\ \A j \in Imports \ {i} :
            judged'[j] = judged[j] /\ reply'[j] = reply[j]
      /\ \/ judged'[i] = judged[i] /\ reply'[i] = Refusal
         \/ /\ Len(judged'[i]) = offset[i] + Len(group[i])
            /\ \A k \in 1 .. offset[i] : judged'[i][k] = judged[i][k]
            /\ \A k \in 1 .. Len(group[i]) :
                  judged'[i][offset[i] + k].memory = group[i][k]
  <2>1. CASE Judged(i)
    <3>1. PICK status \in [DOMAIN group[i] -> Statuses] :
             /\ judged' = [judged EXCEPT ![i] = @ \o Entries(group[i], status)]
             /\ reply' = [reply EXCEPT ![i] =
                   [k \in DOMAIN group[i] |->
                       [index |-> k - 1, status |-> status[k]]]]
      BY <2>1 DEF Judged
    <3> DEFINE more == Entries(group[i], status)
               said == [k \in DOMAIN group[i] |->
                           [index |-> k - 1, status |-> status[k]]]
    <3>2. /\ judged[i] \o more \in Seq(Judgement)
          /\ Len(judged[i] \o more) = offset[i] + Len(group[i])
          /\ \A k \in 1 .. offset[i] :
                (judged[i] \o more)[k] = judged[i][k]
          /\ \A k \in 1 .. Len(group[i]) :
                (judged[i] \o more)[offset[i] + k].memory = group[i][k]
      <4>1. PICK r, n, T, q :
               /\ r = judged[i] /\ n = Len(group[i])
               /\ T = Judgement /\ q = more
        OBVIOUS
      <4>2. r \in Seq(T) /\ n \in Nat /\ q \in [1 .. n -> T]
        BY <1>1, <4>1, ElementOfSeq DEF Entries, Judgement
      <4>3. /\ r \o q \in Seq(T)
            /\ Len(r \o q) = Len(r) + n
            /\ \A k \in 1 .. Len(r) : (r \o q)[k] = r[k]
            /\ \A k \in 1 .. n : (r \o q)[Len(r) + k] = q[k]
        BY ONLY <4>2, AppendedAfter
      <4>4. \A k \in 1 .. n : q[k].memory = group[i][k]
        BY <1>1, <4>1 DEF Entries
      <4>5. Len(r) = offset[i]
        BY <1>2, <4>1
      <4> HIDE DEF more
      <4>6. judged[i] \o more = r \o q
        BY <4>1
      <4>7. \A k \in 1 .. n :
               (r \o q)[offset[i] + k].memory = group[i][k]
        BY <4>3, <4>4, <4>5
      <4>8. \A k \in 1 .. offset[i] : (r \o q)[k] = judged[i][k]
        BY <4>1, <4>3, <4>5
      <4> QED BY ONLY <4>1, <4>3, <4>5, <4>6, <4>7, <4>8
    <3>3. said \in Replies
      <4>1. said \in [1 .. Len(group[i]) ->
                         [index : Nat, status : Statuses \cup {"refused"}]]
        BY <1>1
      <4>2. PICK S : S = [index : Nat, status : Statuses \cup {"refused"}]
        OBVIOUS
      <4> HIDE DEF said
      <4>3. said \in [1 .. Len(group[i]) -> S]
        BY <4>1, <4>2
      <4>4. PICK n \in Nat : n = Len(group[i])
        BY <1>1
      <4>5. said \in Seq(S)
        BY ONLY <4>3, <4>4, SeqDef
      <4> QED BY <4>2, <4>5 DEF Replies
    <3>4. judged' = [judged EXCEPT ![i] = judged[i] \o more]
          /\ reply' = [reply EXCEPT ![i] = said]
      BY <3>1
    <3> HIDE DEF more, said
    <3> QED BY <3>2, <3>3, <3>4 DEF Books, TypeOK
  <2>2. CASE Refused(i)
    <3>1. reply' = [reply EXCEPT ![i] = Refusal] /\ judged' = judged
      BY <2>2 DEF Refused
    <3>2. Refusal \in Replies
      BY DEF Refusal, Replies
    <3> QED BY <3>1, <3>2 DEF Books, TypeOK
  <2> QED BY <2>1, <2>2, ArrivesIsOneOfTwo
<1>5. TypeOK'
  BY <1>3, <1>4 DEF Books, TypeOK, service, lists
<1>6. Progress(i)'
  <2>1. /\ wire'[i] = 0 /\ at'[i] = at[i] /\ batch'[i] = batch[i]
        /\ offset'[i] = offset[i] /\ group'[i] = group[i]
    BY <1>3 DEF Books, TypeOK
  <2>2. CASE judged'[i] = judged[i] /\ reply'[i] = Refusal
    BY <1>1, <1>2, <2>1, <2>2 DEF Books, Progress
  <2>3. CASE /\ Len(judged'[i]) = offset[i] + Len(group[i])
             /\ \A k \in 1 .. offset[i] : judged'[i][k] = judged[i][k]
             /\ \A k \in 1 .. Len(group[i]) :
                   judged'[i][offset[i] + k].memory = group[i][k]
    <3>1. /\ \A k \in 1 .. Len(group[i]) : group[i][k] = batch[i][offset[i] + k]
          /\ \A k \in 1 .. offset[i] : judged[i][k].memory = batch[i][k]
          /\ offset[i] + Len(group[i]) <= Len(batch[i])
      BY <1>2 DEF Books, Progress
    <3>2. ASSUME NEW k \in 1 .. Len(judged'[i])
          PROVE  judged'[i][k].memory = batch[i][k]
      <4>1. CASE k \in 1 .. offset[i]
        BY <2>3, <3>1, <4>1
      <4>2. CASE k \notin 1 .. offset[i]
        <5>1. /\ k - offset[i] \in 1 .. Len(group[i])
              /\ offset[i] + (k - offset[i]) = k
          BY <1>1, <2>3, <4>2
        <5> QED BY <2>3, <3>1, <5>1
      <4> QED BY <4>1, <4>2
    <3>3. \A k \in 1 .. Len(group'[i]) :
             group'[i][k] = batch'[i][offset'[i] + k]
      BY <2>1, <3>1
    <3>4. \A k \in 1 .. Len(judged'[i]) : judged'[i][k].memory = batch'[i][k]
      BY <2>1, <3>2
    <3>5. /\ offset'[i] + Len(group'[i]) <= Len(batch'[i])
          /\ Len(judged'[i]) = offset'[i] + Len(group'[i])
          /\ wire'[i] = 0 /\ at'[i] # "idle"
      BY <1>2, <2>1, <2>3, <3>1
    <3>6. Len(judged'[i]) <= offset'[i] + Len(group'[i])
      BY <1>1, <2>1, <3>5
    <3> QED BY <3>3, <3>4, <3>5, <3>6 DEF Progress
  <2> QED BY <1>4, <2>2, <2>3
<1>7. ASSUME NEW j \in Imports \ {i} PROVE Progress(j)'
  <2>1. /\ offset'[j] = offset[j] /\ group'[j] = group[j]
        /\ wire'[j] = wire[j] /\ reply'[j] = reply[j] /\ at'[j] = at[j]
        /\ batch'[j] = batch[j] /\ judged'[j] = judged[j]
    BY <1>3, <1>4 DEF Books, TypeOK
  <2> QED BY <2>1 DEF Books, Progress
<1> QED BY <1>5, <1>6, <1>7 DEF Books

(* What leaves the imports alone: listDomains(), and the service.          *)
LEMMA OthersKeepBooks ==
    ASSUME Books, UNCHANGED calls,
           \/ \E r \in Readers :
                 Ask(r) \/ ServiceReports(r) \/ Learns(r) \/ ListLost(r)
           \/ ServiceChanges
           \/ UNCHANGED <<service, known, lists>>
    PROVE  Books'
<1>1. TypeOK'
  <2>1. ASSUME NEW r \in Readers, Ask(r) PROVE TypeOK'
    BY <2>1 DEF Books, TypeOK, Ask, service, calls
  <2>2. ASSUME NEW r \in Readers, ServiceReports(r) PROVE TypeOK'
    BY <2>2 DEF Books, TypeOK, ServiceReports, service, calls
  <2>3. ASSUME NEW r \in Readers, Learns(r) PROVE TypeOK'
    BY <2>3 DEF Books, TypeOK, Learns, Update, service, calls
  <2>4. ASSUME NEW r \in Readers, ListLost(r) PROVE TypeOK'
    <3>1. tries' \in [Readers -> Nat]
      <4>1. tries \in [Readers -> Nat]
        BY DEF Books, TypeOK
      <4>2. tries' = tries \/ tries' = [tries EXCEPT ![r] = @ + 1]
        BY <2>4 DEF ListLost
      <4> QED BY <4>1, <4>2
    <3>2. list' \in [Readers -> {"idle", "asked", "answered", "done", "failed"}]
      BY <2>4 DEF Books, TypeOK, ListLost
    <3> QED BY <2>4, <3>1, <3>2 DEF Books, TypeOK, ListLost, service, calls
  <2>5. ASSUME ServiceChanges PROVE TypeOK'
    <3>1. changes' \in 0 .. MaxChanges /\ serving' \in Reports
      <4>1. changes \in 0 .. MaxChanges
        BY DEF Books, TypeOK
      <4> QED BY <2>5, <4>1, BatchAssumption DEF ServiceChanges
    <3> QED BY <2>5, <3>1 DEF Books, TypeOK, ServiceChanges, lists, calls
  <2>6. ASSUME UNCHANGED <<service, known, lists>> PROVE TypeOK'
    BY <2>6 DEF Books, TypeOK, service, lists, calls
  <2> QED BY <2>1, <2>2, <2>3, <2>4, <2>5, <2>6
<1>2. ASSUME NEW i \in Imports PROVE Progress(i)'
  BY <1>2 DEF Books, Progress, calls
<1> QED BY <1>1, <1>2 DEF Books

----------------------------------------------------------------------------
(* What the caller is told, against what was judged.                       *)

(* One call more: its outcomes follow those of the calls before it.        *)
Outcome == [index : Nat, status : Statuses \cup {"refused"}]

LEMMA RenumberedType ==
    ASSUME NEW call \in [offset : Nat, results : Replies]
    PROVE  Renumbered(call) \in Seq(Outcome)
<1>1. call.offset \in Nat /\ call.results \in Seq(Outcome)
  BY DEF Replies, Outcome
<1>2. PICK n \in Nat : n = Len(call.results)
  BY <1>1, LenProperties
<1>3. /\ DOMAIN call.results = 1 .. n
      /\ \A k \in 1 .. n : call.results[k] \in Outcome
  BY <1>1, <1>2, LenProperties, ElementOfSeq
<1>4. PICK f : f = Renumbered(call)
  OBVIOUS
<1>5. f \in [1 .. n -> Outcome]
  BY <1>1, <1>3, <1>4 DEF Renumbered, Outcome
<1>6. f \in Seq(Outcome)
  BY ONLY <1>5, n \in Nat, SeqDef
<1> QED BY <1>4, <1>6

LEMMA ToImportResultAppend ==
    ASSUME NEW replies \in Seq([offset : Nat, results : Replies]),
           NEW call \in [offset : Nat, results : Replies]
    PROVE  ToImportResult(Append(replies, call)) =
              ToImportResult(replies) \o Renumbered(call)
<1>1. PICK n \in Nat : n = Len(replies)
  BY LenProperties
<1>2. /\ DOMAIN replies = 1 .. n
      /\ \A k \in 1 .. n : replies[k] \in [offset : Nat, results : Replies]
  BY <1>1, LenProperties, ElementOfSeq
<1>3. PICK more : more = Append(replies, call)
  OBVIOUS
<1>4. /\ DOMAIN more = 1 .. n + 1
      /\ \A k \in 1 .. n : more[k] = replies[k]
      /\ more[n + 1] = call
  BY <1>1, <1>3, AppendProperties, LenProperties
<1>5. PICK before : before = [k \in DOMAIN replies |-> Renumbered(replies[k])]
  OBVIOUS
<1>6. before \in Seq(Seq(Outcome)) /\ Len(before) = n
  <2>1. before \in [1 .. n -> Seq(Outcome)]
    BY <1>2, <1>5, RenumberedType
  <2>2. PICK U : U = Seq(Outcome)
    OBVIOUS
  <2>3. before \in [1 .. n -> U]
    BY <2>1, <2>2
  <2>4. before \in Seq(U)
    BY ONLY <2>3, n \in Nat, SeqDef
  <2>5. Len(before) = n
    BY ONLY <2>3, <2>4, n \in Nat, LenProperties
  <2> QED BY <2>2, <2>4, <2>5
<1>7. PICK x : x = Renumbered(call)
  OBVIOUS
<1>8. x \in Seq(Outcome)
  BY <1>7, RenumberedType
<1>9. [k \in DOMAIN more |-> Renumbered(more[k])] = Append(before, x)
  <2>1. PICK after : after = Append(before, x)
    OBVIOUS
  <2>2. /\ after \in [1 .. n + 1 -> Seq(Outcome)]
        /\ \A k \in 1 .. n : after[k] = before[k]
        /\ after[n + 1] = x
    <3>1. PICK U : U = Seq(Outcome)
      OBVIOUS
    <3>2. before \in Seq(U) /\ x \in U /\ Len(before) = n
      BY <1>6, <1>8, <3>1
    <3>3. /\ after \in Seq(U) /\ Len(after) = n + 1
          /\ \A k \in 1 .. n : after[k] = before[k]
          /\ after[n + 1] = x
      BY ONLY <2>1, <3>2, AppendProperties
    <3>4. after \in [1 .. n + 1 -> U]
      BY ONLY <3>3, LenProperties
    <3> QED BY <3>1, <3>3, <3>4
  <2>3. \A k \in 1 .. n + 1 : after[k] = Renumbered(more[k])
    <3>1. ASSUME NEW k \in 1 .. n + 1, k \in 1 .. n
          PROVE  after[k] = Renumbered(more[k])
      BY <1>2, <1>4, <1>5, <2>2, <3>1
    <3>2. ASSUME NEW k \in 1 .. n + 1, k \notin 1 .. n
          PROVE  after[k] = Renumbered(more[k])
      <4>1. k = n + 1
        BY <3>2
      <4> QED BY <1>4, <1>7, <2>2, <4>1
    <3> QED BY <3>1, <3>2
  <2>4. after = [k \in 1 .. n + 1 |-> Renumbered(more[k])]
    BY <2>2, <2>3
  <2> QED BY <1>4, <2>1, <2>4
<1>10. FlattenSeq(Append(before, x)) = FlattenSeq(before) \o x
  BY <1>6, <1>8, FlattenSeqAppend
<1> QED BY <1>3, <1>5, <1>7, <1>9, <1>10 DEF ToImportResult

(* A call that answers the last size memories of those judged.             *)
AnswersTheRest(call, r, from, size) ==
    /\ r \in Seq(Judgement) /\ from \in Nat /\ size \in Nat
    /\ Len(r) = from + size
    /\ call \in [offset : Nat, results : Replies]
    /\ call.offset = from /\ DOMAIN call.results = 1 .. size
    /\ \A k \in 1 .. size :
          call.results[k] = [index |-> k - 1, status |-> r[from + k].status]

(* The verdicts on a group, moved to its place, follow those before it.    *)
LEMMA VerdictsFollow ==
    ASSUME NEW r, NEW from, NEW size, NEW call,
           AnswersTheRest(call, r, from, size)
    PROVE  Verdicts(SubSeq(r, 1, from)) \o Renumbered(call) = Verdicts(r)
<1> USE DEF AnswersTheRest
<1>1. /\ DOMAIN r = 1 .. from + size
      /\ \A k \in 1 .. from + size : r[k].status \in Statuses
  <2>1. \A k \in 1 .. from + size : r[k] \in Judgement
    BY ElementOfSeq
  <2> QED BY <2>1, LenProperties DEF Judgement
<1>2. PICK all : all = Verdicts(r)
  OBVIOUS
<1>3. PICK first : first = Verdicts(SubSeq(r, 1, from))
  OBVIOUS
<1>4. PICK last : last = Renumbered(call)
  OBVIOUS
<1>5. all \in Seq(Outcome) /\ Len(all) = from + size
  <2>1. all \in [1 .. from + size -> Outcome]
    BY <1>1, <1>2 DEF Verdicts, Outcome
  <2>2. PICK n \in Nat : n = from + size
    OBVIOUS
  <2>3. all \in Seq(Outcome)
    BY <2>1, <2>2, SeqDef
  <2> QED BY ONLY <2>1, <2>2, <2>3, LenProperties
<1>6. /\ first \in Seq(Outcome) /\ Len(first) = from
      /\ \A k \in 1 .. from : first[k] = [index |-> k - 1, status |-> r[k].status]
  <2>1. PICK s : s = SubSeq(r, 1, from)
    OBVIOUS
  <2>2. PICK T : T = Judgement
    OBVIOUS
  <2>3. \A k \in 1 .. from : r[k] \in T
    BY <1>1, <2>2, ElementOfSeq
  <2>4. /\ s \in Seq(T) /\ Len(s) = from
        /\ \A k \in 1 .. from : s[k] = r[k]
    BY <2>1, <2>3, SubSeqProperties
  <2>5. DOMAIN s = 1 .. from
    BY <2>4, LenProperties
  <2>6. first = [k \in 1 .. from |-> [index |-> k - 1, status |-> s[k].status]]
    BY <1>3, <2>1, <2>5 DEF Verdicts
  <2>7. \A k \in 1 .. from : s[k].status \in Statuses
    BY <1>1, <2>4
  <2>8. first \in [1 .. from -> Outcome]
    BY <2>6, <2>7 DEF Outcome
  <2>9. first \in Seq(Outcome)
    BY ONLY <2>8, from \in Nat, SeqDef
  <2>10. Len(first) = from
    BY ONLY <2>8, <2>9, from \in Nat, LenProperties
  <2> QED BY <2>4, <2>6, <2>9, <2>10
<1>7. /\ last \in Seq(Outcome) /\ Len(last) = size
      /\ \A k \in 1 .. size :
            last[k] = [index |-> from + k - 1, status |-> r[from + k].status]
  <2>1. last \in Seq(Outcome)
    BY <1>4, RenumberedType
  <2>2. DOMAIN call.results = 1 .. size
    OBVIOUS
  <2>3. DOMAIN last = 1 .. size
    BY <1>4, <2>2 DEF Renumbered
  <2>4. Len(last) = size
    BY <2>1, <2>3, LenProperties
  <2>5. ASSUME NEW k \in 1 .. size
        PROVE  last[k] = [index |-> from + k - 1, status |-> r[from + k].status]
    <3>1. call.results[k] = [index |-> k - 1, status |-> r[from + k].status]
      OBVIOUS
    <3>2. last[k] = [index |-> from + (k - 1), status |-> r[from + k].status]
      BY <1>4, <2>2, <3>1 DEF Renumbered
    <3>3. from + (k - 1) = from + k - 1
      OBVIOUS
    <3> QED BY <3>2, <3>3
  <2> QED BY <2>1, <2>4, <2>5
<1>8. /\ first \o last \in Seq(Outcome)
      /\ Len(first \o last) = from + size
      /\ \A k \in 1 .. from + size : (first \o last)[k] =
            IF k <= from THEN first[k] ELSE last[k - from]
  BY <1>6, <1>7, ConcatProperties
<1>9. ASSUME NEW k \in 1 .. from + size
      PROVE  (first \o last)[k] = all[k]
  <2>1. all[k] = [index |-> k - 1, status |-> r[k].status]
    BY <1>1, <1>2 DEF Verdicts
  <2>2. CASE k <= from
    BY <1>6, <1>8, <2>1, <2>2
  <2>3. CASE ~(k <= from)
    <3>1. k - from \in 1 .. size /\ from + (k - from) = k
      BY <2>3
    <3>2. last[k - from] = [index |-> k - 1, status |-> r[k].status]
      BY <1>7, <3>1
    <3> QED BY <1>8, <2>1, <2>3, <3>2
  <2> QED BY <2>2, <2>3
<1>10. first \o last = all
  BY <1>5, <1>8, <1>9, SeqEqual
<1> QED BY <1>2, <1>3, <1>4, <1>10

(* The generator ends only where the batch does: a cap lets one through.   *)
LEMMA EmptyGroupIsLast ==
    ASSUME NEW b \in Seq(Memories), NEW from \in 0 .. Len(b),
           NEW limits \in Reports,
           Grouped(SubSeq(b, from + 1, Len(b)), limits) = <<>>
    PROVE  from = Len(b)
<1>1. PICK rest : rest = SubSeq(b, from + 1, Len(b))
  OBVIOUS
<1>2. rest \in Seq(Memories) /\ Len(rest) = Len(b) - from /\ Len(b) \in Nat
  BY <1>1, RestOf, LenProperties
<1>3. CASE rest = <<>>
  BY <1>2, <1>3, EmptySeq
<1>4. CASE rest # <<>>
  <2>1. Len(rest) \in Nat \ {0}
    BY <1>2, <1>4, EmptySeq
  <2>2. limits # Unreported /\ limits.memories # 0
    BY <1>1, <1>4 DEF Grouped
  <2>3. limits.memories \in Nat \ {0}
    BY <2>2, LimitsAssumption DEF Reports
  <2>4. PICK n \in 1 .. Len(rest) : SubSeq(rest, 1, n) = <<>>
    <3>1. SubSeq(rest, 1, IF Len(rest) < limits.memories
                          THEN Len(rest) ELSE limits.memories) = <<>>
      BY <1>1, <1>4, <2>2 DEF Grouped
    <3> QED BY <2>1, <2>3, <3>1
  <2>5. Len(SubSeq(rest, 1, n)) = n
    BY <1>2, <2>1, <2>4, PrefixOf
  <2> QED BY <2>1, <2>4, <2>5
<1> QED BY <1>3, <1>4

(* A turn of importMemories() files what was told so far, or resolves with *)
(* it.                                                                     *)
LEMMA NextGroupKeepsTold ==
    ASSUME Books, \A j \in Imports : Told(j),
           NEW i \in Imports, NEW from, NEW limits \in Reports, NEW done,
           NextGroup(i, from, limits, done),
           from \in 0 .. Len(batch'[i]), from = Len(judged[i]),
           wire[i] = 0, at[i] \in {"idle", "sent"},
           batch'[i] \in Seq(Memories),
           ToImportResult(done) = Verdicts(judged[i]),
           \A j \in Imports \ {i} : batch'[j] = batch[j],
           UNCHANGED judged
    PROVE  \A j \in Imports : Told(j)'
<1> DEFINE taken == Grouped(SubSeq(batch'[i], from + 1, Len(batch'[i])), limits)
<1>1. /\ offset' = [offset EXCEPT ![i] = from]
      /\ answered' = [answered EXCEPT ![i] = done]
      /\ \E g : group' = [group EXCEPT ![i] = g]
  BY DEF NextGroup
<1>2. \/ /\ at' = [at EXCEPT ![i] = "sent"]
         /\ wire' = [wire EXCEPT ![i] = 1]
         /\ reply' = [reply EXCEPT ![i] = NoReply]
         /\ UNCHANGED result
      \/ /\ taken = <<>>
         /\ at' = [at EXCEPT ![i] = "returned"]
         /\ result' = [result EXCEPT ![i] = ToImportResult(done)]
         /\ UNCHANGED <<wire, reply>>
      \/ /\ at' = [at EXCEPT ![i] = "failed"]
         /\ UNCHANGED <<wire, reply, result>>
  BY DEF NextGroup, Sends
<1> HIDE DEF taken
<1>3. ASSUME NEW j \in Imports \ {i} PROVE Told(j)'
  <2>1. /\ offset'[j] = offset[j] /\ group'[j] = group[j]
        /\ answered'[j] = answered[j] /\ batch'[j] = batch[j]
        /\ judged'[j] = judged[j]
    BY <1>1 DEF Books, TypeOK
  <2>2. /\ at'[j] = at[j] /\ wire'[j] = wire[j] /\ reply'[j] = reply[j]
        /\ result'[j] = result[j]
    BY <1>2 DEF Books, TypeOK
  <2>3. Told(j)
    OBVIOUS
  <2> QED BY <2>1, <2>2, <2>3 DEF Told
<1>4. Told(i)'
  <2>1. /\ offset'[i] = from /\ answered'[i] = done
        /\ judged'[i] = judged[i]
    BY <1>1 DEF Books, TypeOK
  <2>2. CASE /\ at' = [at EXCEPT ![i] = "sent"]
             /\ reply' = [reply EXCEPT ![i] = NoReply]
    <3>1. at'[i] = "sent" /\ reply'[i] = NoReply
      BY <2>2 DEF Books, TypeOK
    <3>2. SubSeq(judged[i], 1, from) = judged[i]
      BY SubSeqFull DEF Books, TypeOK
    <3> QED BY <2>1, <3>1, <3>2 DEF Told
  <2>3. CASE /\ taken = <<>>
             /\ at' = [at EXCEPT ![i] = "returned"]
             /\ result' = [result EXCEPT ![i] = ToImportResult(done)]
             /\ UNCHANGED <<wire, reply>>
    <3>1. at'[i] = "returned" /\ wire'[i] = 0
          /\ result'[i] = Verdicts(judged[i])
      BY <2>3 DEF Books, TypeOK
    <3>2. from = Len(batch'[i])
      <4>1. PICK b : b = batch'[i]
        OBVIOUS
      <4>2. /\ b \in Seq(Memories) /\ from \in 0 .. Len(b)
            /\ Grouped(SubSeq(b, from + 1, Len(b)), limits) = <<>>
        BY <2>3, <4>1 DEF taken
      <4>3. from = Len(b)
        BY ONLY <4>2, limits \in Reports, EmptyGroupIsLast
      <4> QED BY <4>1, <4>3
    <3> QED BY <2>1, <3>1, <3>2 DEF Told
  <2>4. CASE at' = [at EXCEPT ![i] = "failed"]
    <3>1. at'[i] = "failed"
      BY <2>4 DEF Books, TypeOK
    <3> QED BY <3>1 DEF Told
  <2> QED BY <1>2, <2>2, <2>3, <2>4
<1> QED BY <1>3, <1>4

LEMMA ImportKeepsTold ==
    ASSUME Books, \A j \in Imports : Told(j), NEW i \in Imports,
           NEW memories \in Batches, Import(i, memories)
    PROVE  \A j \in Imports : Told(j)'
<1>1. memories \in Seq(Memories) /\ known \in Reports
  BY BatchesAreSequences DEF Books, TypeOK
<1>2. batch' = [batch EXCEPT ![i] = memories]
  BY DEF Import
<1>3. batch'[i] \in Seq(Memories) /\ \A j \in Imports \ {i} : batch'[j] = batch[j]
  BY <1>1, <1>2 DEF Books, TypeOK
<1>4. wire[i] = 0 /\ Len(judged[i]) = 0 /\ at[i] = "idle"
  BY DEF Books, Progress, Import
<1>5. NextGroup(i, 0, known, <<>>) /\ UNCHANGED judged
  BY DEF Import
<1>6. 0 \in 0 .. Len(batch'[i])
  BY <1>3, LenProperties
<1>7. ToImportResult(<<>>) = Verdicts(judged[i])
  <2>1. PICK r : r = judged[i]
    OBVIOUS
  <2>2. r = <<>>
    BY <1>4, <2>1, EmptySeq DEF Books, TypeOK
  <2>3. Verdicts(r) = <<>>
    BY <2>2 DEF Verdicts
  <2>4. ToImportResult(<<>>) = <<>>
    <3>1. [n \in DOMAIN <<>> |-> Renumbered(<<>>[n])] = <<>>
      OBVIOUS
    <3>2. FlattenSeq(<<>>) = <<>>
      BY EmptySeq DEF FlattenSeq
    <3> QED BY <3>1, <3>2 DEF ToImportResult
  <2> QED BY <2>1, <2>3, <2>4
<1>8. 0 = Len(judged[i])
  BY <1>4
<1> QED BY <1>1, <1>3, <1>4, <1>5, <1>6, <1>7, <1>8, NextGroupKeepsTold

LEMMA AnsweredKeepsTold ==
    ASSUME Books, \A j \in Imports : Told(j), NEW i \in Imports, Answered(i)
    PROVE  \A j \in Imports : Told(j)'
<1>1. /\ offset[i] \in Nat /\ group[i] \in Seq(Memories)
      /\ batch[i] \in Seq(Memories) /\ judged[i] \in Seq(Judgement)
      /\ Len(group[i]) \in Nat /\ Len(batch[i]) \in Nat
      /\ answered[i] \in Seq([offset : Nat, results : Replies])
      /\ reply[i] \in Replies
  BY LenProperties DEF Books, TypeOK
<1>2. CASE reply[i] # Refusal
  <2>1. PICK from, done, call :
            /\ from = offset[i] + Len(group[i])
            /\ call = [offset |-> offset[i], results |-> reply[i]]
            /\ done = Append(answered[i], call)
    OBVIOUS
  <2>2. /\ NextGroup(i, from, caps[i], done)
        /\ UNCHANGED <<batch, caps, judged>>
    BY <1>2, <2>1 DEF Answered
  <2>3. wire[i] = 0 /\ Len(judged[i]) = from /\ at[i] = "sent"
    BY <1>2, <2>1 DEF Books, Progress, Answered
  <2>4. from \in 0 .. Len(batch'[i])
    BY <1>1, <2>1, <2>2 DEF Books, Progress
  <2>5. /\ batch'[i] \in Seq(Memories) /\ caps[i] \in Reports
        /\ \A j \in Imports \ {i} : batch'[j] = batch[j]
    BY <1>1, <2>2 DEF Books, TypeOK
  <2>6. ToImportResult(done) = Verdicts(judged[i])
    <3>1. call \in [offset : Nat, results : Replies]
      BY <1>1, <2>1
    <3>2. ToImportResult(done) = ToImportResult(answered[i]) \o Renumbered(call)
      BY <1>1, <2>1, <3>1, ToImportResultAppend
    <3>3. /\ ToImportResult(answered[i]) =
                Verdicts(SubSeq(judged[i], 1, offset[i]))
          /\ reply[i] = [k \in 1 .. Len(group[i]) |->
                [index |-> k - 1, status |-> judged[i][offset[i] + k].status]]
      BY <1>2, <2>3 DEF Told, Answered
    <3>4. PICK r, o, n : r = judged[i] /\ o = offset[i] /\ n = Len(group[i])
      OBVIOUS
    <3>5. /\ r \in Seq(Judgement) /\ o \in Nat /\ n \in Nat
          /\ Len(r) = o + n /\ call.offset = o
          /\ DOMAIN call.results = 1 .. n
          /\ \A k \in 1 .. n :
                call.results[k] = [index |-> k - 1, status |-> r[o + k].status]
      BY <1>1, <2>1, <2>3, <3>3, <3>4
    <3>6. Verdicts(SubSeq(r, 1, o)) \o Renumbered(call) = Verdicts(r)
      <4>1. AnswersTheRest(call, r, o, n)
        BY <3>1, <3>5 DEF AnswersTheRest
      <4> QED BY ONLY <4>1, VerdictsFollow
    <3> QED BY <3>2, <3>3, <3>4, <3>6
  <2> QED BY <2>2, <2>3, <2>4, <2>5, <2>6, NextGroupKeepsTold
<1>3. CASE reply[i] = Refusal
  <2>1. at' = [at EXCEPT ![i] = "failed"]
        /\ UNCHANGED <<batch, offset, group, wire, reply, answered, result,
                       judged>>
    BY <1>3 DEF Answered
  <2>2. ASSUME NEW j \in Imports PROVE Told(j)'
    <3>1. at'[j] = at[j] \/ at'[j] = "failed"
      BY <2>1 DEF Books, TypeOK
    <3> QED BY <2>1, <3>1 DEF Told
  <2> QED BY <2>2
<1> QED BY <1>2, <1>3

LEMMA ImportLostKeepsTold ==
    ASSUME Books, \A j \in Imports : Told(j), NEW i \in Imports, ImportLost(i)
    PROVE  \A j \in Imports : Told(j)'
<1>1. ~Retried("ImportMemories")
  BY DEF Retried
<1>2. at' = [at EXCEPT ![i] = "failed"]
      /\ UNCHANGED <<batch, offset, group, wire, reply, answered, result,
                     judged>>
  BY <1>1 DEF ImportLost
<1>3. ASSUME NEW j \in Imports PROVE Told(j)'
  <2>1. at'[j] = at[j] \/ at'[j] = "failed"
    BY <1>2 DEF Books, TypeOK
  <2> QED BY <1>2, <2>1 DEF Told
<1> QED BY <1>3

(* The service adds its verdicts on the group to those it gave.            *)
LEMMA ArrivesKeepsTold ==
    ASSUME Books, \A j \in Imports : Told(j), NEW i \in Imports, Arrives(i)
    PROVE  \A j \in Imports : Told(j)'
<1>1. /\ offset[i] \in Nat /\ group[i] \in Seq(Memories)
      /\ judged[i] \in Seq(Judgement)
      /\ Len(group[i]) \in Nat /\ DOMAIN group[i] = 1 .. Len(group[i])
  BY LenProperties DEF Books, TypeOK
<1>2. wire[i] = 1 /\ Len(judged[i]) = offset[i]
  BY DEF Books, TypeOK, Progress, Arrives
<1>3. UNCHANGED <<at, batch, offset, group, answered, result>>
  BY DEF Arrives
<1>4. \A j \in Imports \ {i} :
         wire'[j] = wire[j] /\ reply'[j] = reply[j] /\ judged'[j] = judged[j]
  BY DEF Arrives, Books, TypeOK
<1>5. ASSUME NEW j \in Imports \ {i} PROVE Told(j)'
  <2>1. Told(j)
    OBVIOUS
  <2> QED BY <1>3, <1>4, <2>1 DEF Told
<1>6. Told(i)'
  <2>1. at[i] # "returned"
    <3>1. Told(i)
      OBVIOUS
    <3> QED BY <1>2, <3>1 DEF Told
  <2>2. CASE Judged(i)
    <3>1. PICK status \in [DOMAIN group[i] -> Statuses] :
             /\ judged' = [judged EXCEPT ![i] = @ \o Entries(group[i], status)]
             /\ reply' = [reply EXCEPT ![i] =
                   [k \in DOMAIN group[i] |->
                       [index |-> k - 1, status |-> status[k]]]]
      BY <2>2 DEF Judged
    <3>2. PICK r, n, more, T :
             /\ r = judged[i] /\ n = Len(group[i])
             /\ T = Judgement
             /\ more = Entries(group[i], status)
      OBVIOUS
    <3>3. /\ r \in Seq(T) /\ n \in Nat /\ Len(r) \in Nat
          /\ DOMAIN group[i] = 1 .. n
          /\ more \in [1 .. n -> T]
          /\ \A k \in 1 .. n : more[k].status = status[k]
      <4>1. /\ r \in Seq(T) /\ n \in Nat /\ Len(r) \in Nat
            /\ DOMAIN group[i] = 1 .. n
            /\ \A k \in 1 .. n : group[i][k] \in Memories
        BY <1>1, <1>2, <3>2, ElementOfSeq
      <4>2. more = [k \in 1 .. n |->
                       [memory |-> group[i][k], status |-> status[k]]]
        BY <3>2, <4>1 DEF Entries
      <4>3. \A k \in 1 .. n : status[k] \in Statuses
        BY <3>1, <4>1
      <4>4. more \in [1 .. n -> Judgement]
        BY ONLY <4>1, <4>2, <4>3 DEF Judgement
      <4>5. \A k \in 1 .. n : more[k].status = status[k]
        BY ONLY <4>2
      <4> QED BY <3>2, <4>1, <4>4, <4>5
    <3>4. /\ r \o more \in Seq(T)
          /\ Len(r \o more) = Len(r) + n
          /\ \A k \in 1 .. Len(r) : (r \o more)[k] = r[k]
          /\ \A k \in 1 .. n : (r \o more)[Len(r) + k] = more[k]
      <4>1. r \in Seq(T) /\ n \in Nat /\ more \in [1 .. n -> T]
        BY <3>3
      <4> QED BY ONLY <4>1, AppendedAfter
    <3>5. \A k \in 1 .. n : (r \o more)[Len(r) + k].status = status[k]
      BY <3>3, <3>4
    <3>6. SubSeq(r \o more, 1, Len(r)) = SubSeq(r, 1, Len(r))
      <4>1. PICK q, m : q = r \o more /\ m = Len(r)
        OBVIOUS
      <4>2. /\ q \in Seq(T) /\ r \in Seq(T) /\ m \in Nat /\ m <= Len(q)
            /\ \A k \in 1 .. m : q[k] = r[k]
            /\ \A k \in 1 .. m : q[k] \in T
            /\ \A k \in 1 .. m : r[k] \in T
        BY <3>3, <3>4, <4>1, ElementOfSeq
      <4>3. /\ SubSeq(q, 1, m) \in Seq(T) /\ Len(SubSeq(q, 1, m)) = m
            /\ \A k \in 1 .. m : SubSeq(q, 1, m)[k] = q[k]
        BY ONLY <4>2, SubSeqProperties
      <4>4. /\ SubSeq(r, 1, m) \in Seq(T) /\ Len(SubSeq(r, 1, m)) = m
            /\ \A k \in 1 .. m : SubSeq(r, 1, m)[k] = r[k]
        BY ONLY <4>2, SubSeqProperties
      <4>5. SubSeq(q, 1, m) = SubSeq(r, 1, m)
        BY ONLY <4>2, <4>3, <4>4, SeqEqual
      <4> QED BY <4>1, <4>5
    <3>7. /\ judged'[i] = r \o more
          /\ reply'[i] = [k \in 1 .. n |->
                [index |-> k - 1, status |-> status[k]]]
      BY <3>1, <3>2, <3>3 DEF Books, TypeOK
    <3>8. reply'[i] = [k \in 1 .. Len(group'[i]) |->
             [index |-> k - 1,
              status |-> judged'[i][offset'[i] + k].status]]
      <4>1. \A k \in 1 .. n : judged'[i][offset[i] + k].status = status[k]
        BY <1>2, <3>2, <3>5, <3>7
      <4>2. offset'[i] = offset[i] /\ Len(group'[i]) = n
        BY <1>3, <3>2
      <4>3. [k \in 1 .. n |-> [index |-> k - 1, status |-> status[k]]] =
            [k \in 1 .. n |->
                [index |-> k - 1, status |-> judged'[i][offset[i] + k].status]]
        BY <4>1
      <4> QED BY <3>7, <4>2, <4>3
    <3>9. SubSeq(judged'[i], 1, offset'[i]) = SubSeq(judged[i], 1, offset[i])
      BY <1>2, <1>3, <3>2, <3>6, <3>7
    <3>10. at'[i] = at[i] /\ answered'[i] = answered[i]
      BY <1>3
    <3> QED BY <2>1, <3>8, <3>9, <3>10 DEF Told
  <2>3. CASE Refused(i)
    <3>1. reply'[i] = Refusal /\ judged' = judged
      BY <2>3 DEF Refused, Books, TypeOK
    <3> QED BY <1>3, <2>1, <3>1 DEF Told
  <2> QED BY <2>2, <2>3, ArrivesIsOneOfTwo
<1> QED BY <1>5, <1>6

----------------------------------------------------------------------------
(* What was checked against the limits in force would be honoured.         *)

(* A group that the generator lets through, under the limits the service   *)
(* enforces, is one the service takes.                                     *)
LEMMA AcceptableIsHonoured ==
    ASSUME NEW rest \in Seq(Memories), NEW limits, limits \in LimitSets,
           limits = serving, limits = known,
           Acceptable(Grouped(rest, limits), limits)
    PROVE  Honoured(Grouped(rest, limits))
<1>1. PICK taken : taken = Grouped(rest, limits)
  OBVIOUS
<1>2. limits # Unreported /\ limits.memories \in Nat
  BY LimitsAssumption
<1>3. Within(Len(taken), limits.memories)
  <2>1. CASE limits.memories = 0
    BY <2>1 DEF Within
  <2>2. CASE limits.memories # 0 /\ rest = <<>>
    <3>1. taken = rest /\ Len(rest) = 0
      BY <1>1, <2>2, EmptySeq DEF Grouped
    <3> QED BY <1>2, <3>1 DEF Within
  <2>3. CASE limits.memories # 0 /\ rest # <<>>
    <3>1. Len(rest) \in Nat \ {0}
      BY <2>3, EmptySeq, LenProperties
    <3>2. PICK n \in 1 .. Len(rest) :
             n <= limits.memories /\ taken = SubSeq(rest, 1, n)
      <4>1. taken = IF Len(rest) < limits.memories
                    THEN SubSeq(rest, 1, Len(rest))
                    ELSE SubSeq(rest, 1, limits.memories)
        BY <1>1, <1>2, <2>3 DEF Grouped
      <4>2. CASE Len(rest) < limits.memories
        <5>1. Len(rest) \in 1 .. Len(rest) /\ Len(rest) <= limits.memories
          BY <1>2, <3>1, <4>2
        <5> QED BY <4>1, <4>2, <5>1
      <4>3. CASE ~(Len(rest) < limits.memories)
        <5>1. /\ limits.memories \in 1 .. Len(rest)
              /\ limits.memories <= limits.memories
          BY <1>2, <2>3, <3>1, <4>3
        <5> QED BY <4>1, <4>3, <5>1
      <4> QED BY <4>2, <4>3
    <3>3. Len(taken) = n
      BY <3>1, <3>2, PrefixOf
    <3> QED BY <3>2, <3>3 DEF Within
  <2> QED BY <2>1, <2>2, <2>3
<1>4. ASSUME NEW k \in DOMAIN taken
      PROVE  /\ Within(taken[k].entries, limits.entries)
             /\ Within(taken[k].text, limits.text)
  <2>1. CountsFit(taken[k], limits) /\ TextFits(taken[k])
    BY <1>1, <1>2 DEF Acceptable
  <2> QED BY <2>1 DEF CountsFit, TextFits
<1>5. Honoured(taken)
  BY <1>3, <1>4 DEF Honoured, FewEnough, Usable
<1> QED BY <1>1, <1>5

LEMMA NothingIsHonoured == TypeOK => Honoured(<<>>)
<1>1. ASSUME TypeOK, serving # Unreported
      PROVE  Within(Len(<<>>), serving.memories)
  <2>1. serving.memories \in Nat
    BY <1>1, LimitsAssumption DEF TypeOK, Reports
  <2> QED BY <2>1 DEF Within
<1> QED BY <1>1 DEF Honoured, FewEnough, Usable

(* What Published says of one import.                                      *)
Sound(i) ==
    caps[i] # Unreported =>
        /\ caps[i] = serving /\ known = serving
        /\ Honoured(group[i]) /\ reply[i] # Refusal

LEMMA NextGroupKeepsPublished ==
    ASSUME Books, Published,
           NEW i \in Imports, NEW from, NEW done,
           NextGroup(i, from, caps'[i], done),
           from \in 0 .. Len(batch'[i]), batch'[i] \in Seq(Memories),
           reply[i] # Refusal,
           caps'[i] \in {caps[i], known},
           \A j \in Imports \ {i} : caps'[j] = caps[j],
           UNCHANGED <<service, known, lists>>
    PROVE  Published'
<1> SUFFICES ASSUME changes' = 0 PROVE Published'
  BY DEF Published
<1>0. /\ serving' = serving /\ changes = 0 /\ known' = known
      /\ report' = report
  BY DEF service, lists
<1>1. /\ known \in {Unreported, serving}
      /\ \A r \in Readers : report[r] \in {Unreported, serving}
      /\ \A j \in Imports : Sound(j)
  BY <1>0 DEF Published, Sound
<1> DEFINE taken == Grouped(SubSeq(batch'[i], from + 1, Len(batch'[i])), caps'[i])
<1>2. /\ group' = [group EXCEPT ![i] =
                      IF Acceptable(taken, caps'[i]) THEN taken ELSE <<>>]
      /\ reply' = reply \/ reply' = [reply EXCEPT ![i] = NoReply]
  BY DEF NextGroup, Sends
<1>3. ASSUME NEW j \in Imports \ {i} PROVE Sound(j)'
  <2>1. /\ caps'[j] = caps[j] /\ group'[j] = group[j] /\ reply'[j] = reply[j]
    BY <1>2 DEF Books, TypeOK
  <2> QED BY <1>0, <1>1, <2>1 DEF Sound, Honoured, FewEnough, Usable
<1>4. Sound(i)'
  <2> SUFFICES ASSUME caps'[i] # Unreported PROVE Sound(i)'
    BY DEF Sound
  <2>1. caps'[i] = serving /\ known = serving
    BY <1>1 DEF Sound
  <2>2. NoReply # Refusal
    BY DEF NoReply, Refusal
  <2>3. reply'[i] # Refusal
    BY <1>2, <2>2 DEF Books, TypeOK
  <2>4. Honoured(group'[i])
    <3>1. PICK b, rest, limits :
             /\ b = batch'[i] /\ rest = SubSeq(b, from + 1, Len(b))
             /\ limits = caps'[i]
      OBVIOUS
    <3>2. rest \in Seq(Memories)
      BY <3>1, RestOf
    <3>3. limits \in LimitSets /\ limits = serving /\ limits = known
      BY <2>1, <3>1 DEF Books, TypeOK, Reports
    <3>4. CASE Acceptable(taken, caps'[i])
      <4>1. Acceptable(Grouped(rest, limits), limits)
        BY <3>1, <3>4
      <4>2. Honoured(Grouped(rest, limits))
        BY <3>2, <3>3, <4>1, AcceptableIsHonoured
      <4>3. group'[i] = Grouped(rest, limits)
        BY <1>2, <3>1, <3>4 DEF Books, TypeOK
      <4> QED BY <4>2, <4>3
    <3>5. CASE ~Acceptable(taken, caps'[i])
      <4>1. group'[i] = <<>>
        BY <1>2, <3>5 DEF Books, TypeOK
      <4> QED BY <4>1, NothingIsHonoured DEF Books
    <3> QED BY <3>4, <3>5
  <2>5. Honoured(group[i])'
    BY <1>0, <2>4 DEF Honoured, FewEnough, Usable
  <2> QED BY <1>0, <2>1, <2>3, <2>5 DEF Sound
<1> QED BY <1>0, <1>1, <1>3, <1>4 DEF Published, Sound

LEMMA ImportKeepsPublished ==
    ASSUME Books, Published, NEW i \in Imports, NEW memories \in Batches,
           Import(i, memories)
    PROVE  Published'
<1>1. /\ caps' = [caps EXCEPT ![i] = known]
      /\ batch' = [batch EXCEPT ![i] = memories]
      /\ NextGroup(i, 0, known, <<>>)
      /\ UNCHANGED <<service, known, lists>>
  BY DEF Import
<1>2. caps'[i] = known /\ \A j \in Imports \ {i} : caps'[j] = caps[j]
  BY <1>1 DEF Books, TypeOK
<1>3. batch'[i] \in Seq(Memories) /\ 0 \in 0 .. Len(batch'[i])
  BY <1>1, BatchesAreSequences, LenProperties DEF Books, TypeOK
<1>4. reply[i] # Refusal
  <2>1. reply[i] = NoReply
    BY DEF Books, Progress, Import
  <2>2. NoReply # Refusal
    BY DEF NoReply, Refusal
  <2> QED BY <2>1, <2>2
<1>5. NextGroup(i, 0, caps'[i], <<>>)
  BY <1>1, <1>2
<1> QED BY <1>1, <1>2, <1>3, <1>4, <1>5, NextGroupKeepsPublished

LEMMA AnsweredKeepsPublished ==
    ASSUME Books, Published, NEW i \in Imports, Answered(i)
    PROVE  Published'
<1>1. UNCHANGED <<service, known, lists, batch, caps>>
  BY DEF Answered
<1>2. CASE reply[i] # Refusal
  <2>1. PICK from, done :
            /\ from = offset[i] + Len(group[i])
            /\ done = Append(answered[i], [offset |-> offset[i],
                                           results |-> reply[i]])
    OBVIOUS
  <2>2. NextGroup(i, from, caps'[i], done)
    BY <1>1, <1>2, <2>1 DEF Answered
  <2>3. batch'[i] \in Seq(Memories) /\ from \in 0 .. Len(batch'[i])
    BY <1>1, <2>1, LenProperties DEF Books, TypeOK, Progress
  <2> QED BY <1>1, <1>2, <2>2, <2>3, NextGroupKeepsPublished
<1>3. CASE reply[i] = Refusal
  <2>1. UNCHANGED <<group, reply>>
    BY <1>3 DEF Answered
  <2> QED BY <1>1, <2>1 DEF Published, Honoured, FewEnough, Usable, service, lists
<1> QED BY <1>2, <1>3

LEMMA ImportLostKeepsPublished ==
    ASSUME Published, NEW i \in Imports, ImportLost(i)
    PROVE  Published'
<1>1. ~Retried("ImportMemories")
  BY DEF Retried
<1>2. UNCHANGED <<service, known, lists, caps, group, reply>>
  BY <1>1 DEF ImportLost
<1> QED BY <1>2 DEF Published, Honoured, FewEnough, Usable, service, lists

LEMMA ArrivesKeepsPublished ==
    ASSUME Books, Published, NEW i \in Imports, Arrives(i)
    PROVE  Published'
<1> SUFFICES ASSUME changes' = 0 PROVE Published'
  BY DEF Published
<1>1. UNCHANGED <<service, known, lists, caps, group>>
  BY DEF Arrives
<1>2. \A j \in Imports \ {i} : reply'[j] = reply[j]
  BY DEF Arrives, Books, TypeOK
<1>3. ASSUME Honoured(group[i]) PROVE reply'[i] # Refusal
  <2>1. PICK status \in [DOMAIN group[i] -> Statuses] :
           reply'[i] = [k \in DOMAIN group[i] |->
                           [index |-> k - 1, status |-> status[k]]]
    BY <1>3, ArrivesIsOneOfTwo DEF Judged, Refused, Books, TypeOK
  <2>2. CASE 1 \in DOMAIN group[i]
    <3>1. reply'[i][1].status \in Statuses
      BY <2>1, <2>2
    <3> QED BY <3>1 DEF Refusal, Statuses
  <2>3. CASE 1 \notin DOMAIN group[i]
    <3>1. 1 \notin DOMAIN reply'[i]
      BY <2>1, <2>3
    <3> QED BY <3>1 DEF Refusal
  <2> QED BY <2>2, <2>3
<1>4. changes = 0
  BY <1>1 DEF service
<1>5. ASSUME NEW j \in Imports PROVE Sound(j)'
  <2>1. Sound(j)
    BY <1>4 DEF Published, Sound
  <2>2. CASE j = i
    BY <1>1, <1>3, <2>1, <2>2 DEF Sound, Honoured, FewEnough, Usable, service
  <2>3. CASE j # i
    BY <1>1, <1>2, <2>1, <2>3 DEF Sound, Honoured, FewEnough, Usable, service
  <2> QED BY <2>2, <2>3
<1>6. /\ known' \in {Unreported, serving'}
      /\ \A r \in Readers : report'[r] \in {Unreported, serving'}
  BY <1>1, <1>4 DEF Published, service, lists
<1> QED BY <1>5, <1>6 DEF Published, Sound

(* listDomains() hears the limits in force, and Known is told of those     *)
(* alone; once the service has changed them nothing is promised.           *)
LEMMA OthersKeepPublished ==
    ASSUME Books, Published, UNCHANGED calls,
           \/ \E r \in Readers :
                 Ask(r) \/ ServiceReports(r) \/ Learns(r) \/ ListLost(r)
           \/ ServiceChanges
           \/ UNCHANGED <<service, known, lists>>
    PROVE  Published'
<1> SUFFICES ASSUME changes' = 0 PROVE Published'
  BY DEF Published
<1>1. ~ServiceChanges
  BY BatchAssumption DEF ServiceChanges, Books, TypeOK
<1>2. UNCHANGED service
  BY <1>1 DEF Ask, ServiceReports, Learns, ListLost
<1>3. /\ changes = 0 /\ serving' = serving
      /\ \A i \in Imports : Sound(i)
      /\ known \in {Unreported, serving}
      /\ \A r \in Readers : report[r] \in {Unreported, serving}
  BY <1>2 DEF Published, Sound, service
<1>4. \A r \in Readers : report'[r] \in {Unreported, serving}
  <2>1. ASSUME NEW q \in Readers, ServiceReports(q)
        PROVE  \A r \in Readers : report'[r] \in {Unreported, serving}
    BY <1>3, <2>1 DEF ServiceReports, Books, TypeOK
  <2>2. UNCHANGED report \/ \E q \in Readers : ServiceReports(q)
    BY <1>1 DEF Ask, Learns, ListLost, lists
  <2> QED BY <1>3, <2>1, <2>2
<1>5. known' = known \/ known' = serving
  <2>1. UNCHANGED known \/ \E q \in Readers : Learns(q)
    BY <1>1 DEF Ask, ServiceReports, ListLost
  <2> QED BY <1>3, <2>1 DEF Learns, Update
<1>6. ASSUME NEW i \in Imports PROVE Sound(i)'
  <2>1. Sound(i)
    BY <1>3
  <2> QED BY <1>3, <1>5, <2>1 DEF Sound, Honoured, FewEnough, Usable, calls
<1> QED BY <1>3, <1>4, <1>5, <1>6 DEF Published, Sound

----------------------------------------------------------------------------
(* The theorems.                                                           *)

LEMMA InitIInv == Init => IInv
<1> SUFFICES ASSUME Init PROVE IInv
  OBVIOUS
<1>1. Books
  BY InitBooks
<1>2. ASSUME NEW i \in Imports PROVE Progress(i) /\ Told(i)
  BY <1>1 DEF Books, Init, Told
<1>3. Published
  BY DEF Init, Published
<1> QED BY <1>1, <1>2, <1>3 DEF IInv, Books

(* Type correctness, and the invariant that ties what the service has      *)
(* judged to how far importMemories() has got and to what it was told,     *)
(* whatever is lost, refused or late.                                      *)
THEOREM ImportingInvariant == Spec => []IInv
<1>1. ASSUME IInv, [Next]_vars PROVE IInv'
  <2>1. Books /\ Published /\ \A i \in Imports : Told(i)
    BY <1>1 DEF IInv, Books
  <2>2. CASE \E i \in Imports :
               \/ \E memories \in Batches : Import(i, memories)
               \/ Answered(i) \/ ImportLost(i) \/ Arrives(i)
    <3>1. Books'
      BY <2>1, <2>2, ImportKeepsBooks, AnsweredKeepsBooks,
         ImportLostKeepsBooks, ArrivesKeepsBooks
    <3>2. Published'
      BY <2>1, <2>2, ImportKeepsPublished, AnsweredKeepsPublished,
         ImportLostKeepsPublished, ArrivesKeepsPublished
    <3>3. \A i \in Imports : Told(i)'
      BY <2>1, <2>2, ImportKeepsTold, AnsweredKeepsTold,
         ImportLostKeepsTold, ArrivesKeepsTold
    <3> QED BY <3>1, <3>2, <3>3 DEF IInv, Books
  <2>3. CASE /\ UNCHANGED calls
             /\ \/ \E r \in Readers :
                      \/ Ask(r) \/ ServiceReports(r)
                      \/ Learns(r) \/ ListLost(r)
                \/ ServiceChanges
                \/ UNCHANGED <<service, known, lists>>
    <3>1. Books' /\ Published'
      BY <2>1, <2>3, OthersKeepBooks, OthersKeepPublished
    <3>2. ASSUME NEW i \in Imports PROVE Told(i)'
      BY <2>1, <2>3 DEF Told, calls
    <3> QED BY <3>1, <3>2 DEF IInv, Books
  <2>4. \/ \E i \in Imports :
              \/ \E memories \in Batches : Import(i, memories)
              \/ Answered(i) \/ ImportLost(i) \/ Arrives(i)
        \/ /\ UNCHANGED calls
           /\ \/ \E r \in Readers :
                    \/ Ask(r) \/ ServiceReports(r)
                    \/ Learns(r) \/ ListLost(r)
              \/ ServiceChanges
              \/ UNCHANGED <<service, known, lists>>
    <3>1. CASE Next
      BY <3>1 DEF Next, Ask, ServiceReports, Learns, ListLost, ServiceChanges
    <3>2. CASE UNCHANGED vars
      BY <3>2 DEF vars
    <3> QED BY <1>1, <3>1, <3>2
  <2> QED BY <2>2, <2>3, <2>4
<1> QED BY <1>1, InitIInv, PTL DEF Spec

(* The service judges each memory of a batch at most once, in the order    *)
(* given, whatever it rejects or refuses and whatever answers are lost: no *)
(* import is sent again, so no outcome is that of a replay (channel.ts:59).*)
THEOREM ImportsInOrder == Spec => []JudgedOnceInOrder
<1>1. ASSUME IInv PROVE JudgedOnceInOrder
  <2>1. ASSUME NEW i \in Imports
        PROVE  /\ Len(judged[i]) <= offset[i] + Len(group[i])
               /\ offset[i] + Len(group[i]) <= Len(batch[i])
               /\ \A k \in DOMAIN judged[i] : judged[i][k].memory = batch[i][k]
    <3>1. DOMAIN judged[i] = 1 .. Len(judged[i])
      BY <1>1, <2>1, LenProperties DEF IInv, TypeOK
    <3> QED BY <1>1, <2>1, <3>1 DEF IInv, Progress
  <2> QED BY <2>1 DEF JudgedOnceInOrder
<1> QED BY <1>1, ImportingInvariant, PTL

(* An import that returns has had every memory of its batch judged, and    *)
(* names the service's verdict on each at its own index, however many      *)
(* calls the batch was cut into (operations.ts:980).                       *)
THEOREM OutcomesAreFiled == Spec => []OutcomesMatch
<1>1. ASSUME IInv, NEW i \in Imports, at[i] = "returned"
      PROVE  /\ [k \in DOMAIN judged[i] |-> judged[i][k].memory] = batch[i]
             /\ result[i] = Verdicts(judged[i])
  <2>1. /\ judged[i] \in Seq(Judgement)
        /\ batch[i] \in Seq(Memories)
    BY <1>1 DEF IInv, TypeOK
  <2>2. /\ Len(judged[i]) = Len(batch[i])
        /\ result[i] = Verdicts(judged[i])
        /\ \A k \in 1 .. Len(judged[i]) : judged[i][k].memory = batch[i][k]
    BY <1>1 DEF IInv, Told, Progress
  <2>3. PICK n, b : n = Len(batch[i]) /\ b = batch[i]
    OBVIOUS
  <2>4. DOMAIN judged[i] = 1 .. n /\ b \in [1 .. n -> Memories]
    BY <2>1, <2>2, <2>3, LenProperties
  <2>5. [k \in 1 .. n |-> judged[i][k].memory] = b
    BY <2>2, <2>3, <2>4
  <2> QED BY <2>2, <2>3, <2>4, <2>5
<1>2. IInv => OutcomesMatch
  BY <1>1 DEF OutcomesMatch
<1> QED BY <1>2, ImportingInvariant, PTL

(* While the service keeps to the limits it published, a call checked      *)
(* against them is never refused: the check before the round trip is as    *)
(* strict as the service's own (memory.proto:174).                         *)
THEOREM CheckedIsHonoured == Spec => []CheckedBeforeSent
<1>1. IInv => CheckedBeforeSent
  BY DEF IInv, Published, CheckedBeforeSent
<1> QED BY <1>1, ImportingInvariant, PTL
=============================================================================
