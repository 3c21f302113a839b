--------------------------- MODULE NetworksProofs ---------------------------
(***************************************************************************)
(* What TLAPS proves of Networks, for any callers, names, page size and    *)
(* changes by other clients: a caller that loses the race for a name finds *)
(* the winner's network, unless one was renamed or deleted meanwhile.      *)
(***************************************************************************)
EXTENDS Networks, SequenceTheorems, TLAPS

----------------------------------------------------------------------------
(* Sequences.                                                              *)

LEMMA SliceOf ==
    ASSUME NEW S, NEW s \in Seq(S), NEW m \in 1 .. Len(s) + 1,
           NEW n \in 0 .. Len(s), m <= n + 1
    PROVE  /\ SubSeq(s, m, n) \in Seq(S) /\ Len(SubSeq(s, m, n)) = n - m + 1
           /\ \A j \in 1 .. n - m + 1 : SubSeq(s, m, n)[j] = s[m + j - 1]
<1>1. \A j \in m .. n : s[j] \in S
  BY ElementOfSeq, LenProperties
<1> QED BY <1>1, SubSeqProperties, LenProperties

Insertable(S, s, k, e) == s \in Seq(S) /\ k \in 1 .. Len(s) + 1 /\ e \in S

LEMMA InsertAtProperties ==
    ASSUME NEW S, NEW s, NEW k, NEW e, Insertable(S, s, k, e)
    PROVE  /\ InsertAt(s, k, e) \in Seq(S)
           /\ Len(InsertAt(s, k, e)) = Len(s) + 1
           /\ InsertAt(s, k, e)[k] = e
           /\ \A j \in 1 .. Len(s) + 1 : j # k =>
                 InsertAt(s, k, e)[j] = s[IF j < k THEN j ELSE j - 1]
<1>0. s \in Seq(S) /\ k \in 1 .. Len(s) + 1 /\ e \in S
  BY DEF Insertable
<1>1. PICK n \in Nat : n = Len(s) /\ k \in 1 .. n + 1
  BY <1>0, LenProperties
<1>2. PICK a, b, d : /\ a = SubSeq(s, 1, k - 1) /\ b = <<e>>
                     /\ d = SubSeq(s, k, n)
  OBVIOUS
<1>3. /\ a \in Seq(S) /\ Len(a) = k - 1
      /\ \A j \in 1 .. k - 1 : a[j] = s[j]
  <2>1. 1 \in 1 .. Len(s) + 1 /\ k - 1 \in 0 .. Len(s) /\ 1 <= (k - 1) + 1
    BY <1>1
  <2> QED BY <1>0, <1>1, <1>2, <2>1, SliceOf
<1>4. /\ d \in Seq(S) /\ Len(d) = n - k + 1
      /\ \A j \in 1 .. n - k + 1 : d[j] = s[k + j - 1]
  <2>1. n \in 0 .. Len(s) /\ k <= n + 1
    BY <1>1
  <2> QED BY <1>0, <1>1, <1>2, <2>1, SliceOf
<1>5. b \in Seq(S) /\ Len(b) = 1 /\ b[1] = e
  BY <1>0, <1>2
<1>6. /\ a \o b \in Seq(S) /\ Len(a \o b) = k
      /\ \A j \in 1 .. k :
            (a \o b)[j] = IF j <= k - 1 THEN a[j] ELSE b[j - (k - 1)]
  <2>1. /\ a \o b \in Seq(S) /\ Len(a \o b) = Len(a) + Len(b)
        /\ \A j \in 1 .. Len(a) + Len(b) :
              (a \o b)[j] = IF j <= Len(a) THEN a[j] ELSE b[j - Len(a)]
    BY <1>3, <1>5, ConcatProperties
  <2>2. Len(a) + Len(b) = k
    BY <1>1, <1>3, <1>5
  <2> QED BY <1>3, <2>1, <2>2
<1>7. PICK ab : ab = a \o b
  OBVIOUS
<1>8. /\ ab \o d \in Seq(S) /\ Len(ab \o d) = n + 1
      /\ \A j \in 1 .. n + 1 : (ab \o d)[j] = IF j <= k THEN ab[j] ELSE d[j - k]
  <2>1. ab \in Seq(S) /\ d \in Seq(S) /\ Len(ab) = k
    BY <1>4, <1>6, <1>7
  <2>2. /\ ab \o d \in Seq(S) /\ Len(ab \o d) = Len(ab) + Len(d)
        /\ \A j \in 1 .. Len(ab) + Len(d) :
              (ab \o d)[j] = IF j <= Len(ab) THEN ab[j] ELSE d[j - Len(ab)]
    BY ONLY <2>1, ConcatProperties
  <2>3. Len(ab) + Len(d) = n + 1
    BY <1>1, <1>4, <2>1
  <2> QED BY <2>1, <2>2, <2>3
<1>9. InsertAt(s, k, e) = ab \o d
  BY <1>1, <1>2, <1>7 DEF InsertAt
<1>10. ASSUME NEW j \in 1 .. n + 1
       PROVE  (ab \o d)[j] =
                 IF j = k THEN e ELSE s[IF j < k THEN j ELSE j - 1]
  <2>1. CASE j < k
    BY <1>1, <1>3, <1>6, <1>7, <1>8, <2>1
  <2>2. CASE j = k
    <3>1. ab[k] = b[1]
      <4>1. k \in 1 .. k /\ ~(k <= k - 1) /\ k - (k - 1) = 1
        BY <1>1
      <4> QED BY <1>6, <1>7, <4>1
    <3> QED BY <1>1, <1>5, <1>8, <2>2, <3>1
  <2>3. CASE ~(j < k) /\ j # k
    <3>1. j - k \in 1 .. n - k + 1 /\ k + (j - k) - 1 = j - 1
      BY <1>1, <2>3
    <3>2. d[j - k] = s[j - 1]
      BY <1>4, <3>1
    <3>3. ~(j <= k)
      BY <1>1, <2>3
    <3> QED BY <1>8, <2>3, <3>2, <3>3
  <2> QED BY <2>1, <2>2, <2>3
<1> QED BY <1>1, <1>8, <1>9, <1>10

LEMMA RemoveAtProperties ==
    ASSUME NEW S, NEW s \in Seq(S), NEW k \in 1 .. Len(s)
    PROVE  /\ RemoveAt(s, k) \in Seq(S)
           /\ Len(RemoveAt(s, k)) = Len(s) - 1
           /\ \A j \in 1 .. Len(s) - 1 : RemoveAt(s, k)[j] =
                 IF j < k THEN s[j] ELSE s[j + 1]
<1>1. PICK n \in Nat : n = Len(s)
  BY LenProperties
<1>2. PICK a, d : a = SubSeq(s, 1, k - 1) /\ d = SubSeq(s, k + 1, n)
  OBVIOUS
<1>3. /\ a \in Seq(S) /\ Len(a) = k - 1
      /\ \A j \in 1 .. k - 1 : a[j] = s[j]
  <2>1. 1 \in 1 .. Len(s) + 1 /\ k - 1 \in 0 .. Len(s) /\ 1 <= (k - 1) + 1
    BY <1>1
  <2> QED BY <1>1, <1>2, <2>1, SliceOf
<1>4. /\ d \in Seq(S) /\ Len(d) = n - k
      /\ \A j \in 1 .. n - k : d[j] = s[k + j]
  <2>1. /\ n \in 0 .. Len(s) /\ k + 1 \in 1 .. Len(s) + 1 /\ k + 1 <= n + 1
        /\ n - (k + 1) + 1 = n - k
    BY <1>1
  <2>2. /\ d \in Seq(S) /\ Len(d) = n - (k + 1) + 1
        /\ \A j \in 1 .. n - (k + 1) + 1 : d[j] = s[(k + 1) + j - 1]
    BY <1>1, <1>2, <2>1, SliceOf
  <2> QED BY <1>1, <2>1, <2>2
<1>5. /\ a \o d \in Seq(S) /\ Len(a \o d) = n - 1
      /\ \A j \in 1 .. n - 1 :
            (a \o d)[j] = IF j <= k - 1 THEN a[j] ELSE d[j - (k - 1)]
  <2>1. a \in Seq(S) /\ d \in Seq(S)
    BY <1>3, <1>4
  <2>2. /\ a \o d \in Seq(S) /\ Len(a \o d) = Len(a) + Len(d)
        /\ \A j \in 1 .. Len(a) + Len(d) :
              (a \o d)[j] = IF j <= Len(a) THEN a[j] ELSE d[j - Len(a)]
    BY ONLY <2>1, ConcatProperties
  <2>3. Len(a) + Len(d) = n - 1
    BY <1>1, <1>3, <1>4
  <2> QED BY <1>3, <2>2, <2>3
<1>6. RemoveAt(s, k) = a \o d
  BY <1>1, <1>2 DEF RemoveAt
<1>7. ASSUME NEW j \in 1 .. n - 1
      PROVE  (a \o d)[j] = IF j < k THEN s[j] ELSE s[j + 1]
  <2>1. CASE j < k
    BY <1>1, <1>3, <1>5, <2>1
  <2>2. CASE ~(j < k)
    <3>1. j - (k - 1) \in 1 .. n - k /\ k + (j - (k - 1)) = j + 1
      BY <1>1, <2>2
    <3>2. d[j - (k - 1)] = s[j + 1]
      BY <1>4, <3>1
    <3> QED BY <1>1, <1>5, <2>2, <3>2
  <2> QED BY <2>1, <2>2
<1> QED BY <1>1, <1>5, <1>6, <1>7

----------------------------------------------------------------------------
(* Pages.                                                                  *)

(* A page begins where the one before it ends.                             *)
LEMMA PagesFollow ==
    ASSUME NEW p \in Nat \ {0}
    PROVE  /\ (p - 1) * PageSize \in Nat /\ p * PageSize \in Nat
           /\ p * PageSize = (p - 1) * PageSize + PageSize
           /\ p - 1 <= (p - 1) * PageSize
BY PagesAssumption

LEMMA ListingIs ==
    ASSUME TypeOK, NEW p \in Nat \ {0}
    PROVE  /\ Len(Listing(p)) \in 0 .. PageSize
           /\ Listing(p) = <<>> <=> Len(networks) <= (p - 1) * PageSize
           /\ ToSet(Listing(p)) \subseteq ToSet(networks)
           /\ \A k \in DOMAIN networks :
                 (p - 1) * PageSize < k /\ k <= p * PageSize
                    => networks[k] \in ToSet(Listing(p))
<1>1. PICK s, n : s = networks /\ n = Len(networks)
  OBVIOUS
<1>2. /\ s \in Seq(Networks) /\ n \in Nat /\ n = Len(s) /\ DOMAIN s = 1 .. n
  BY <1>1, LenProperties DEF TypeOK
<1>3. PICK from, to : /\ from = (p - 1) * PageSize
                      /\ to = IF p * PageSize < n THEN p * PageSize ELSE n
  OBVIOUS
<1>4. /\ from \in Nat /\ to \in Nat /\ to <= n /\ to <= from + PageSize
      /\ \A k \in 1 .. n : k <= p * PageSize => k <= to
      /\ from < n => from < to
      /\ n <= from => to = n
  BY <1>2, <1>3, PagesFollow, PagesAssumption
<1>5. Listing(p) = SubSeq(s, from + 1, to)
  BY <1>1, <1>3 DEF Listing
<1>6. CASE n <= from
  <2>1. Listing(p) = <<>>
    BY <1>2, <1>4, <1>5, <1>6, SubSeqEmpty
  <2>2. Len(Listing(p)) = 0 /\ ToSet(Listing(p)) = {}
    BY <2>1 DEF ToSet
  <2>3. \A k \in DOMAIN networks : ~(from < k)
    BY <1>1, <1>2, <1>4, <1>6
  <2> QED BY <1>1, <1>3, <1>6, <2>1, <2>2, <2>3, PagesAssumption
<1>7. CASE from < n
  <2>1. from + 1 \in 1 .. Len(s) + 1 /\ to \in 0 .. Len(s) /\ from + 1 <= to + 1
    BY <1>2, <1>4, <1>7
  <2>2. PICK l : l = Listing(p)
    OBVIOUS
  <2>3. /\ l \in Seq(Networks) /\ Len(l) = to - from
        /\ \A j \in 1 .. to - from : l[j] = s[from + j]
    <3>1. /\ l \in Seq(Networks) /\ Len(l) = to - (from + 1) + 1
          /\ \A j \in 1 .. to - (from + 1) + 1 : l[j] = s[(from + 1) + j - 1]
      BY <1>2, <1>5, <2>1, <2>2, SliceOf
    <3>2. to - (from + 1) + 1 = to - from
      BY <1>4
    <3>3. \A j \in 1 .. to - from : (from + 1) + j - 1 = from + j
      BY <1>4
    <3> QED BY <3>1, <3>2, <3>3
  <2>4. DOMAIN l = 1 .. to - from
    BY <2>3, LenProperties
  <2>5. l # <<>>
    BY <1>4, <1>7, <2>3, EmptySeq
  <2>6. ASSUME NEW x \in ToSet(l) PROVE x \in ToSet(s)
    <3>1. PICK j \in 1 .. to - from : x = l[j]
      BY <2>4 DEF ToSet
    <3>2. x = s[from + j]
      BY <2>3, <3>1
    <3>3. from + j \in 1 .. n
      BY <1>2, <1>4, <3>1
    <3> QED BY <1>2, <3>2, <3>3 DEF ToSet
  <2>7. ASSUME NEW k \in 1 .. n, from < k, k <= p * PageSize
        PROVE  s[k] \in ToSet(l)
    <3>1. k - from \in 1 .. to - from /\ from + (k - from) = k
      BY <1>4, <2>7
    <3>2. s[k] = l[k - from]
      BY <2>3, <3>1
    <3> QED BY <2>4, <3>1, <3>2 DEF ToSet
  <2>8. to - from \in 0 .. PageSize
    BY <1>4, <1>7, PagesAssumption
  <2> QED BY <1>1, <1>2, <1>3, <1>4, <1>7, <2>2, <2>3, <2>5, <2>6, <2>7, <2>8
<1> QED BY <1>2, <1>4, <1>6, <1>7
----------------------------------------------------------------------------
(* What becomes of the networks in a step.                                 *)

ListOK ==
    /\ networks \in Seq(Networks) /\ created \in 0 .. MaxNetworks
    /\ NamesUnique /\ Len(networks) <= created

(* No network comes to be listed earlier, or under another name.           *)
PushedBack ==
    \A j \in DOMAIN networks : \E k \in DOMAIN networks' :
        k >= j /\ networks'[k].name = networks[j].name

LEMMA CreatesPushesBack ==
    ASSUME ListOK, NEW name \in Names, NEW owner \in Owners \cup {None},
           NEW scope \in Scopes \cup {None}, ~Held(name),
           Creates([id |-> created + 1, name |-> name, owner |-> owner,
                    scope |-> scope])
    PROVE  ListOK' /\ PushedBack
<1>1. PICK s, t, n, e :
         /\ s = networks /\ t = networks' /\ n = Len(s)
         /\ e = [id |-> created + 1, name |-> name, owner |-> owner,
                 scope |-> scope]
  OBVIOUS
<1>2. /\ s \in Seq(Networks) /\ n \in Nat /\ DOMAIN s = 1 .. n
      /\ n <= created /\ created \in 0 .. MaxNetworks
      /\ created < MaxNetworks /\ created' = created + 1
  BY <1>1, LenProperties DEF ListOK, Creates
<1>3. e \in Networks /\ e.name = name
  BY <1>1, <1>2, BoundsAssumption DEF Networks
<1>4. PICK k \in 1 .. n + 1 : t = InsertAt(s, k, e)
  BY <1>1 DEF Creates
<1>5. /\ t \in Seq(Networks) /\ Len(t) = n + 1
      /\ t[k] = e
      /\ \A j \in 1 .. n + 1 : j # k =>
            t[j] = s[IF j < k THEN j ELSE j - 1]
  <2>1. Insertable(Networks, s, k, e)
    BY <1>1, <1>2, <1>3 DEF Insertable
  <2>2. /\ InsertAt(s, k, e) \in Seq(Networks)
        /\ Len(InsertAt(s, k, e)) = Len(s) + 1
        /\ InsertAt(s, k, e)[k] = e
        /\ \A j \in 1 .. Len(s) + 1 : j # k =>
              InsertAt(s, k, e)[j] = s[IF j < k THEN j ELSE j - 1]
    BY ONLY <2>1, InsertAtProperties
  <2>3. n = Len(s)
    BY <1>1
  <2> QED BY <1>4, <2>2, <2>3
<1>6. DOMAIN t = 1 .. n + 1
  BY <1>5, LenProperties
<1>7. \A j \in 1 .. n : s[j].name # name
  BY <1>1, <1>2 DEF Held, ToSet
<1>8. PICK was : was = [j \in 1 .. n + 1 |-> IF j < k THEN j ELSE j - 1]
  OBVIOUS
<1>9. ASSUME NEW j \in 1 .. n + 1, j # k
      PROVE  was[j] \in 1 .. n /\ t[j] = s[was[j]]
  <2>1. CASE j < k
    BY <1>2, <1>5, <1>8, <2>1
  <2>2. CASE ~(j < k)
    BY <1>2, <1>5, <1>8, <1>9, <2>2
  <2> QED BY <2>1, <2>2
<1>10. \A i, j \in 1 .. n : s[i].name = s[j].name => i = j
  BY <1>1, <1>2 DEF ListOK, NamesUnique
<1>11. ASSUME NEW i \in 1 .. n + 1, NEW j \in 1 .. n + 1,
              t[i].name = t[j].name
       PROVE  i = j
  <2>1. CASE i # k /\ j # k
    <3>1. was[i] = was[j]
      BY <1>9, <1>10, <1>11, <2>1
    <3> QED BY <1>2, <1>8, <2>1, <3>1
  <2>2. CASE i = k /\ j # k
    <3>1. t[i] = e /\ t[j] = s[was[j]] /\ was[j] \in 1 .. n
      BY <1>2, <1>5, <1>9, <2>2
    <3> QED BY <1>3, <1>7, <1>11, <3>1
  <2>3. CASE i # k /\ j = k
    <3>1. t[j] = e /\ t[i] = s[was[i]] /\ was[i] \in 1 .. n
      BY <1>2, <1>5, <1>9, <2>3
    <3> QED BY <1>3, <1>7, <1>11, <3>1
  <2> QED BY <2>1, <2>2, <2>3
<1>12. NamesUnique'
  BY <1>1, <1>6, <1>11 DEF NamesUnique
<1>13. ListOK'
  BY <1>1, <1>2, <1>5, <1>12, BoundsAssumption DEF ListOK
<1>14. ASSUME NEW j \in 1 .. n
       PROVE  \E i \in 1 .. n + 1 : i >= j /\ t[i].name = s[j].name
  <2>1. CASE j < k
    <3>1. j \in 1 .. n + 1 /\ j >= j /\ t[j] = s[j]
      BY <1>2, <1>5, <2>1
    <3> QED BY <3>1
  <2>2. CASE ~(j < k)
    <3>1. j + 1 \in 1 .. n + 1 /\ j + 1 >= j /\ ~(j + 1 < k) /\ j + 1 # k
          /\ (j + 1) - 1 = j
      BY <1>2, <2>2
    <3>2. t[j + 1] = s[j]
      BY <1>5, <3>1
    <3> QED BY <3>1, <3>2
  <2> QED BY <2>1, <2>2
<1>15. PushedBack
  BY <1>1, <1>2, <1>6, <1>14 DEF PushedBack
<1> QED BY <1>13, <1>15

(* An update renames a network, or leaves every name where it was.         *)
LEMMA UpdateKeepsList ==
    ASSUME ListOK, NEW k \in DOMAIN networks, NEW name \in Names,
           NEW owner \in Owners \cup {None}, Update(k, name, owner)
    PROVE  /\ ListOK'
           /\ "renamed" \notin (IF name = networks[k].name
                                THEN {} ELSE {"renamed"}) => PushedBack
<1>1. PICK s, t, n : s = networks /\ t = networks' /\ n = Len(s)
  OBVIOUS
<1>2. /\ s \in Seq(Networks) /\ n \in Nat /\ DOMAIN s = 1 .. n /\ k \in 1 .. n
      /\ s \in [1 .. n -> Networks]
  BY <1>1, LenProperties DEF ListOK
<1>3. /\ t = [s EXCEPT ![k].name = name, ![k].owner = owner]
      /\ s[k].name = name \/ ~Held(name)
      /\ UNCHANGED created
  BY <1>1 DEF Update
<1>4. /\ DOMAIN t = 1 .. n
      /\ \A j \in 1 .. n : j # k => t[j] = s[j]
      /\ t[k] = [s[k] EXCEPT !.name = name, !.owner = owner]
  BY <1>2, <1>3
<1>5. s[k] \in Networks
  BY <1>2
<1>6. t[k] \in Networks /\ t[k].name = name
  BY <1>4, <1>5 DEF Networks
<1>7. t \in [1 .. n -> Networks]
  <2>1. t = [j \in 1 .. n |-> t[j]]
    BY <1>2, <1>3
  <2>2. \A j \in 1 .. n : t[j] \in Networks
    BY <1>2, <1>4, <1>6
  <2> QED BY <2>1, <2>2
<1>8. t \in Seq(Networks) /\ Len(t) = n
  <2>1. t \in Seq(Networks)
    BY <1>2, <1>7, SeqDef
  <2> QED BY <1>2, <1>4, <2>1, LenProperties
<1>9. \A i, j \in 1 .. n : s[i].name = s[j].name => i = j
  BY <1>1, <1>2 DEF ListOK, NamesUnique
<1>10. \A j \in 1 .. n : j # k => s[j].name # name
  <2>1. CASE s[k].name = name
    BY <1>2, <1>9, <2>1
  <2>2. CASE ~Held(name)
    BY <1>1, <1>2, <2>2 DEF Held, ToSet
  <2> QED BY <1>3, <2>1, <2>2
<1>11. ASSUME NEW i \in 1 .. n, NEW j \in 1 .. n, t[i].name = t[j].name
       PROVE  i = j
  BY <1>4, <1>6, <1>9, <1>10, <1>11
<1>12. NamesUnique'
  BY <1>1, <1>4, <1>11 DEF NamesUnique
<1>13. ListOK'
  BY <1>1, <1>3, <1>8, <1>12 DEF ListOK
<1>14. ASSUME name = s[k].name PROVE PushedBack
  <2>1. ASSUME NEW j \in 1 .. n PROVE j >= j /\ t[j].name = s[j].name
    <3>1. CASE j = k
      BY <1>2, <1>6, <1>14, <3>1
    <3>2. CASE j # k
      BY <1>2, <1>4, <3>2
    <3> QED BY <3>1, <3>2
  <2> QED BY <1>1, <1>2, <1>4, <2>1 DEF PushedBack
<1> QED BY <1>1, <1>13, <1>14

LEMMA DeleteKeepsList ==
    ASSUME ListOK, NEW k \in DOMAIN networks, Delete(k)
    PROVE  ListOK'
<1>1. PICK s, t, n : s = networks /\ t = networks' /\ n = Len(s)
  OBVIOUS
<1>2. /\ s \in Seq(Networks) /\ n \in Nat /\ DOMAIN s = 1 .. n
      /\ k \in 1 .. Len(s) /\ n <= created /\ created \in 0 .. MaxNetworks
  BY <1>1, LenProperties DEF ListOK
<1>3. /\ t \in Seq(Networks) /\ Len(t) = n - 1
      /\ \A j \in 1 .. n - 1 : t[j] = IF j < k THEN s[j] ELSE s[j + 1]
  BY <1>1, <1>2, RemoveAtProperties DEF Delete
<1>4. DOMAIN t = 1 .. n - 1
  BY <1>3, LenProperties
<1>5. \A i, j \in 1 .. n : s[i].name = s[j].name => i = j
  BY <1>1, <1>2 DEF ListOK, NamesUnique
<1>6. PICK was : was = [j \in 1 .. n - 1 |-> IF j < k THEN j ELSE j + 1]
  OBVIOUS
<1>7. \A j \in 1 .. n - 1 : was[j] \in 1 .. n /\ t[j] = s[was[j]]
  BY <1>2, <1>3, <1>6
<1>8. ASSUME NEW i \in 1 .. n - 1, NEW j \in 1 .. n - 1,
             t[i].name = t[j].name
      PROVE  i = j
  <2>1. was[i] = was[j]
    BY <1>5, <1>7, <1>8
  <2> QED BY <1>2, <1>6, <2>1
<1>9. NamesUnique'
  BY <1>1, <1>4, <1>8 DEF NamesUnique
<1>10. UNCHANGED created
  BY DEF Delete
<1> QED BY <1>1, <1>2, <1>3, <1>9, <1>10 DEF ListOK
----------------------------------------------------------------------------
(* The calls.                                                              *)

(* What a step does to a call it is not about: others push back the holder *)
(* of the name it searches for, or own up to having renamed or deleted.    *)
LEMMA AheadStays ==
    ASSUME NEW c, Ahead(c),
           at'[c] = at[c], want'[c] = want[c], page'[c] = page[c],
           seen'[c] = seen[c],
           at[c] = "listing" /\ since'[c] = {} => since[c] = {} /\ PushedBack,
           networks \in Seq(Networks), networks' \in Seq(Networks),
           ListedBefore(c) \in Nat
    PROVE  Ahead(c)'
<1>1. ListedBefore(c)' = ListedBefore(c)
  BY DEF ListedBefore
<1>2. ASSUME at'[c] = "listing", since'[c] = {}
      PROVE  \E k \in DOMAIN networks' :
                k > ListedBefore(c)' /\ networks'[k].name = want'[c].name
  <2>1. at[c] = "listing" /\ since[c] = {} /\ PushedBack
    BY <1>2
  <2>2. PICK j \in DOMAIN networks :
           j > ListedBefore(c) /\ networks[j].name = want[c].name
    BY <2>1 DEF Ahead
  <2>3. PICK k \in DOMAIN networks' :
           k >= j /\ networks'[k].name = networks[j].name
    BY <2>1, <2>2 DEF PushedBack
  <2>4. j \in Nat /\ k \in Nat
    BY LenProperties, <2>2, <2>3
  <2>5. k > ListedBefore(c)
    BY <2>2, <2>3, <2>4
  <2> QED BY <1>1, <2>2, <2>3, <2>5
<1> QED BY <1>1, <1>2 DEF Ahead

LEMMA MadeStays ==
    ASSUME NEW c, MadeAsAsked(c), at[c] # "idle" => at'[c] # "idle",
           at[c] # "idle" => want'[c] = want[c], made'[c] = made[c]
    PROVE  MadeAsAsked(c)'
BY DEF MadeAsAsked

LEMMA ListIsOK == IInv => ListOK
BY DEF IInv, TypeOK, ListOK

LEMMA ListedIsNat ==
    ASSUME IInv, NEW c \in Calls
    PROVE  /\ page[c] \in Nat \ {0} /\ ListedBefore(c) \in Nat
           /\ seen[c] \in Nat
<1>1. page[c] \in Nat \ {0} /\ seen[c] \in Nat
  BY DEF IInv, TypeOK, Ahead
<1> QED BY <1>1, PagesFollow DEF ListedBefore

LEMMA InitIInv == Init => IInv
<1> SUFFICES ASSUME Init PROVE IInv
  OBVIOUS
<1>1. TypeOK
  BY BoundsAssumption DEF Init, TypeOK, service
<1>2. NamesUnique /\ Len(networks) <= created
  BY DEF Init, NamesUnique
<1>3. ASSUME NEW c \in Calls PROVE MadeAsAsked(c) /\ Ahead(c)
  <2>1. (1 - 1) * PageSize = 0
    BY PagesAssumption
  <2> QED BY <2>1 DEF Init, MadeAsAsked, Ahead, ListedBefore
<1> QED BY <1>1, <1>2, <1>3 DEF IInv

LEMMA BeginKeepsIInv ==
    ASSUME IInv, NEW c \in Calls, NEW options \in Options, Begin(c, options)
    PROVE  IInv'
<1>1. /\ at[c] = "idle"
      /\ at' = [at EXCEPT ![c] = "creating"]
      /\ want' = [want EXCEPT ![c] = options]
      /\ UNCHANGED <<networks, created, changes, page, seen, got, made, since>>
  BY DEF Begin, service
<1>2. TypeOK'
  BY <1>1 DEF IInv, TypeOK
<1>3. ASSUME NEW d \in Calls PROVE MadeAsAsked(d)' /\ Ahead(d)'
  BY <1>1 DEF IInv, TypeOK, MadeAsAsked, Ahead, ListedBefore
<1>4. NamesUnique' /\ (Len(networks) <= created)'
  BY <1>1 DEF IInv, NamesUnique
<1> QED BY <1>2, <1>3, <1>4 DEF IInv

LEMMA CreateLandsKeepsIInv ==
    ASSUME IInv, NEW c \in Calls, CreateLands(c)
    PROVE  IInv'
<1>1. PICK network : network = [id |-> created + 1, name |-> want[c].name,
                                owner |-> want[c].owner,
                                scope |-> want[c].scope]
  OBVIOUS
<1>2. /\ at[c] = "creating" /\ ~Held(want[c].name) /\ Creates(network)
      /\ made' = [made EXCEPT ![c] = network]
      /\ \/ /\ at' = [at EXCEPT ![c] = "returned"]
            /\ got' = [got EXCEPT ![c] = network]
         \/ at' = [at EXCEPT ![c] = "failed"] /\ UNCHANGED got
      /\ UNCHANGED <<changes, want, page, seen, since>>
  BY <1>1 DEF CreateLands
<1>3. want[c] \in Options
  BY <1>2 DEF IInv, TypeOK
<1>4. /\ want[c].name \in Names /\ want[c].owner \in Owners \cup {None}
      /\ want[c].scope \in Scopes \cup {None}
  BY <1>3 DEF Options
<1>5. ListOK' /\ PushedBack
  <2>1. ListOK
    BY ListIsOK
  <2> QED BY <1>1, <1>2, <1>4, <2>1, CreatesPushesBack
<1>6. network \in Networks
  <2>1. created + 1 \in 1 .. MaxNetworks
    BY <1>2, BoundsAssumption DEF Creates, IInv, TypeOK
  <2> QED BY <1>1, <1>4, <2>1 DEF Networks
<1>7. TypeOK'
  <2>1. at' \in [Calls -> {"idle", "creating", "listing"} \cup Settled]
    BY <1>2 DEF IInv, TypeOK, Settled
  <2>2. /\ got' \in [Calls -> Networks \cup {NoNetwork}]
        /\ made' \in [Calls -> Networks \cup {NoNetwork}]
    BY <1>2, <1>6 DEF IInv, TypeOK
  <2>3. \A d \in Calls : at'[d] # "idle" => want'[d] \in Options
    BY <1>2, <1>3 DEF IInv, TypeOK
  <2> QED BY <1>2, <1>5, <2>1, <2>2, <2>3 DEF IInv, TypeOK, ListOK
<1>8. /\ at'[c] \in {"returned", "failed"} /\ made'[c] = network
      /\ \A d \in Calls \ {c} : at'[d] = at[d] /\ made'[d] = made[d]
  BY <1>2 DEF IInv, TypeOK
<1>9. MadeAsAsked(c)' /\ Ahead(c)'
  BY <1>1, <1>2, <1>8 DEF IInv, MadeAsAsked, Ahead, ListedBefore
<1>10. ASSUME NEW d \in Calls \ {c} PROVE MadeAsAsked(d)' /\ Ahead(d)'
  <2>1. networks \in Seq(Networks) /\ networks' \in Seq(Networks)
    BY <1>5 DEF IInv, TypeOK, ListOK
  <2>2. MadeAsAsked(d) /\ Ahead(d) /\ ListedBefore(d) \in Nat
    BY ListedIsNat DEF IInv
  <2> QED BY <1>2, <1>5, <1>8, <2>1, <2>2, AheadStays, MadeStays
<1> QED BY <1>5, <1>7, <1>9, <1>10 DEF IInv, ListOK

(* A caller told the name is taken begins its search at the first page,    *)
(* with the name on one of them.                                           *)
LEMMA CreateRefusedKeepsIInv ==
    ASSUME IInv, NEW c \in Calls, CreateRefused(c)
    PROVE  IInv'
<1>1. /\ at[c] = "creating"
      /\ \/ Held(want[c].name) /\ at' = [at EXCEPT ![c] = "listing"]
         \/ at' = [at EXCEPT ![c] = "failed"]
      /\ UNCHANGED <<networks, created, changes, want, page, seen, got, made,
                     since>>
  BY DEF CreateRefused, service
<1>2. TypeOK'
  BY <1>1 DEF IInv, TypeOK, Settled
<1>3. ASSUME NEW d \in Calls \ {c} PROVE MadeAsAsked(d)' /\ Ahead(d)'
  BY <1>1 DEF IInv, TypeOK, MadeAsAsked, Ahead, ListedBefore
<1>4. MadeAsAsked(c)'
  BY <1>1 DEF IInv, TypeOK, MadeAsAsked
<1>5. Ahead(c)'
  <2>1. page[c] = 1 /\ ListedBefore(c) = 0 /\ ListedBefore(c)' = 0
    BY <1>1, PagesAssumption DEF IInv, Ahead, ListedBefore
  <2>2. at'[c] = "listing" => Held(want[c].name)
    BY <1>1 DEF IInv, TypeOK
  <2>3. Held(want[c].name) =>
           \E k \in DOMAIN networks : k > 0 /\ networks[k].name = want[c].name
    <3>1. DOMAIN networks = 1 .. Len(networks)
      BY LenProperties DEF IInv, TypeOK
    <3> QED BY <3>1 DEF Held, ToSet
  <2>4. at'[c] \in {"listing", "failed"} /\ Ahead(c)
    BY <1>1 DEF IInv, TypeOK
  <2> QED BY <1>1, <2>1, <2>2, <2>3, <2>4 DEF Ahead
<1>6. NamesUnique' /\ (Len(networks) <= created)'
  BY <1>1 DEF IInv, NamesUnique
<1> QED BY <1>2, <1>3, <1>4, <1>5, <1>6 DEF IInv

LEMMA ListFailsKeepsIInv ==
    ASSUME IInv, NEW c \in Calls, ListFails(c)
    PROVE  IInv'
<1>1. /\ at[c] = "listing" /\ at' = [at EXCEPT ![c] = "failed"]
      /\ UNCHANGED <<networks, created, changes, want, page, seen, got, made,
                     since>>
  BY DEF ListFails, service
<1>2. TypeOK'
  BY <1>1 DEF IInv, TypeOK, Settled
<1>3. ASSUME NEW d \in Calls PROVE MadeAsAsked(d)' /\ Ahead(d)'
  BY <1>1 DEF IInv, TypeOK, MadeAsAsked, Ahead, ListedBefore
<1>4. NamesUnique' /\ (Len(networks) <= created)'
  BY <1>1 DEF IInv, NamesUnique
<1> QED BY <1>2, <1>3, <1>4 DEF IInv

(* An undisturbed search does not end on a page without the name: the page *)
(* after it holds the name, so this one is full and the count of what was  *)
(* listed falls short of any total.                                        *)
LEMMA UndisturbedGoesOn ==
    ASSUME IInv, NEW c \in Calls, at[c] = "listing", since[c] = {},
           \A n \in ToSet(Listing(page[c])) : n.name # want[c].name
    PROVE  /\ \E k \in DOMAIN networks :
                 k > page[c] * PageSize /\ networks[k].name = want[c].name
           /\ ~LastPage(Listing(page[c]), seen[c] + Len(Listing(page[c])),
                        Len(networks))
           /\ ~LastPage(Listing(page[c]), seen[c] + Len(Listing(page[c])),
                        Len(networks) + 1)
<1>1. PICK p, from : p = page[c] /\ from = (p - 1) * PageSize
  OBVIOUS
<1>2. p \in Nat \ {0} /\ seen[c] \in Nat /\ from \in Nat /\ seen[c] <= from
  BY <1>1, ListedIsNat DEF ListedBefore, IInv, Ahead
<1>3. p * PageSize = from + PageSize /\ p * PageSize \in Nat
  BY <1>1, <1>2, PagesFollow
<1>4. PICK k \in DOMAIN networks : k > from /\ networks[k].name = want[c].name
  BY <1>1 DEF IInv, Ahead, ListedBefore
<1>5. TypeOK
  BY DEF IInv
<1>6. /\ Len(Listing(p)) \in 0 .. PageSize
      /\ Listing(p) = <<>> <=> Len(networks) <= from
      /\ from < k /\ k <= p * PageSize => networks[k] \in ToSet(Listing(p))
  BY <1>1, <1>2, <1>4, <1>5, ListingIs
<1>7. DOMAIN networks = 1 .. Len(networks) /\ Len(networks) \in Nat
  BY <1>5, LenProperties DEF TypeOK
<1>8. k > p * PageSize
  BY <1>1, <1>3, <1>4, <1>6, <1>7
<1>9. Len(networks) > p * PageSize
  BY <1>3, <1>4, <1>7, <1>8
<1>10. Listing(p) # <<>>
  BY <1>2, <1>3, <1>6, <1>7, <1>9, PagesAssumption
<1>11. ~(seen[c] + Len(Listing(p)) >= Len(networks))
       /\ ~(seen[c] + Len(Listing(p)) >= Len(networks) + 1)
  BY <1>2, <1>3, <1>6, <1>7, <1>9, PagesAssumption
<1> QED BY <1>1, <1>4, <1>8, <1>10, <1>11 DEF LastPage

LEMMA ListPageKeepsIInv ==
    ASSUME IInv, NEW c \in Calls, ListPage(c)
    PROVE  IInv'
<1> DEFINE listing == Listing(page[c])
           listed == seen[c] + Len(listing)
<1>1. /\ at[c] = "listing"
      /\ UNCHANGED <<networks, created, changes, want, made, since>>
  BY DEF ListPage, service
<1>2. PICK p, from : p = page[c] /\ from = (p - 1) * PageSize
  OBVIOUS
<1>3. p \in Nat \ {0} /\ seen[c] \in Nat /\ from \in Nat /\ seen[c] <= from
  BY <1>2, ListedIsNat DEF ListedBefore, IInv, Ahead
<1>4. TypeOK
  BY DEF IInv
<1>5. /\ Len(listing) \in 0 .. PageSize
      /\ listing = <<>> <=> Len(networks) <= from
      /\ ToSet(listing) \subseteq ToSet(networks)
  BY <1>2, <1>3, <1>4, ListingIs
<1>6. NamesUnique' /\ (Len(networks) <= created)'
  BY <1>1 DEF IInv, NamesUnique
<1>7. CASE /\ \/ /\ at' = [at EXCEPT ![c] = "returned"]
                 /\ \E n \in ToSet(listing) : got' = [got EXCEPT ![c] = n]
              \/ at' = [at EXCEPT ![c] = "taken"] /\ UNCHANGED got
           /\ UNCHANGED <<page, seen>>
  <2>1. ToSet(networks) \subseteq Networks
    BY <1>4, ElementOfSeq, LenProperties DEF TypeOK, ToSet
  <2>2. got' \in [Calls -> Networks \cup {NoNetwork}]
    BY <1>4, <1>5, <1>7, <2>1 DEF TypeOK
  <2>3. TypeOK'
    BY <1>1, <1>4, <1>7, <2>2 DEF TypeOK, Settled
  <2>4. ASSUME NEW d \in Calls PROVE MadeAsAsked(d)' /\ Ahead(d)'
    <3>1. d # c => at'[d] = at[d]
      BY <1>4, <1>7 DEF TypeOK
    <3>2. at'[c] \in {"returned", "taken"}
      BY <1>4, <1>7 DEF TypeOK
    <3> QED
      BY <1>1, <1>7, <3>1, <3>2 DEF IInv, MadeAsAsked, Ahead, ListedBefore
  <2> QED BY <1>6, <2>3, <2>4 DEF IInv
<1>8. CASE /\ \A n \in ToSet(listing) : n.name # want[c].name
           /\ \E total \in {Len(networks), Len(networks) + 1} :
                 ~LastPage(listing, listed, total)
           /\ seen' = [seen EXCEPT ![c] = listed]
           /\ page' = [page EXCEPT ![c] = IF @ > MaxNetworks THEN @ ELSE @ + 1]
           /\ UNCHANGED <<at, got>>
  <2>1. listing # <<>>
    BY <1>8 DEF LastPage
  <2>2. Len(networks) <= MaxNetworks /\ Len(networks) \in Nat
    BY <1>4, BoundsAssumption, LenProperties DEF IInv, TypeOK
  <2>3. ~(p > MaxNetworks)
    <3>1. from < MaxNetworks
      BY <1>3, <1>5, <2>1, <2>2, BoundsAssumption
    <3>2. p - 1 <= from
      BY <1>2, <1>3, PagesFollow
    <3> QED BY <1>3, <3>1, <3>2, BoundsAssumption
  <2>4. page'[c] = p + 1 /\ seen'[c] = listed
    BY <1>2, <1>4, <1>8, <2>3 DEF TypeOK
  <2>5. /\ page'[c] \in Nat \ {0}
        /\ (page'[c] - 1) * PageSize = p * PageSize
        /\ p * PageSize = from + PageSize
    <3>1. (p + 1) - 1 = p
      BY <1>3
    <3>2. page'[c] \in Nat \ {0} /\ page'[c] - 1 = p
      BY ONLY <1>3, <2>4, <3>1
    <3>3. p * PageSize = from + PageSize
      BY ONLY <1>2, <1>3, PagesFollow
    <3>4. (page'[c] - 1) * PageSize = p * PageSize
      BY ONLY <3>2
    <3> QED BY ONLY <3>2, <3>3, <3>4
  <2>6. listed \in Nat /\ listed <= from + PageSize
    BY <1>3, <1>5, PagesAssumption
  <2>7. TypeOK'
    <3>1. seen' \in [Calls -> Nat]
      BY <1>4, <1>8, <2>6 DEF TypeOK
    <3>2. page' \in [Calls -> Nat]
      <4>1. PICK next : page' = [page EXCEPT ![c] = next]
        BY <1>8
      <4>2. page \in [Calls -> Nat] /\ page'[c] \in Nat
        BY <1>4, <2>5 DEF TypeOK
      <4> QED BY ONLY <4>1, <4>2, c \in Calls
    <3> QED BY <1>1, <1>4, <1>8, <3>1, <3>2 DEF TypeOK
  <2>8. Ahead(c)'
    <3>1. ListedBefore(c)' = p * PageSize
      BY <2>5 DEF ListedBefore
    <3>2. page'[c] >= 1 /\ seen'[c] <= ListedBefore(c)'
      BY <2>4, <2>5, <2>6, <3>1
    <3>3. since[c] = {} => \E k \in DOMAIN networks :
             k > p * PageSize /\ networks[k].name = want[c].name
      BY <1>1, <1>2, <1>8, UndisturbedGoesOn
    <3>4. since'[c] = {} => \E k \in DOMAIN networks' :
             k > ListedBefore(c)' /\ networks'[k].name = want'[c].name
      BY <1>1, <3>1, <3>3
    <3>5. at'[c] = "listing"
      BY <1>1, <1>8
    <3> HIDE DEF listed, listing
    <3> QED BY ONLY <3>2, <3>4, <3>5 DEF Ahead
  <2>9. ASSUME NEW d \in Calls PROVE MadeAsAsked(d)'
    BY <1>1, <1>8 DEF IInv, MadeAsAsked
  <2>10. ASSUME NEW d \in Calls \ {c} PROVE Ahead(d)'
    <3>1. page'[d] = page[d] /\ seen'[d] = seen[d]
      BY <1>4, <1>8 DEF TypeOK
    <3> QED BY <1>1, <1>8, <3>1 DEF IInv, Ahead, ListedBefore
  <2> QED BY <1>6, <2>7, <2>8, <2>9, <2>10 DEF IInv
<1>9. \/ /\ \/ /\ at' = [at EXCEPT ![c] = "returned"]
               /\ \E n \in ToSet(listing) : got' = [got EXCEPT ![c] = n]
            \/ at' = [at EXCEPT ![c] = "taken"] /\ UNCHANGED got
         /\ UNCHANGED <<page, seen>>
      \/ /\ \A n \in ToSet(listing) : n.name # want[c].name
         /\ \E total \in {Len(networks), Len(networks) + 1} :
               ~LastPage(listing, listed, total)
         /\ seen' = [seen EXCEPT ![c] = listed]
         /\ page' = [page EXCEPT ![c] = IF @ > MaxNetworks THEN @ ELSE @ + 1]
         /\ UNCHANGED <<at, got>>
  BY DEF ListPage
<1> HIDE DEF listing, listed
<1> QED BY <1>7, <1>8, <1>9
(* What the other clients do: every search under way is told of what may   *)
(* cost it the holder of its name.                                         *)
LEMMA OthersKeepIInv ==
    ASSUME IInv, NEW done, done \subseteq {"renamed", "deleted"}, Others(done),
           ListOK', done = {} => PushedBack
    PROVE  IInv'
<1>1. /\ changes < MaxChanges /\ changes' = changes + 1
      /\ since' = [c \in Calls |->
                      IF at[c] = "listing" THEN since[c] \cup done ELSE since[c]]
      /\ UNCHANGED <<at, want, page, seen, got, made>>
  BY DEF Others
<1>2. TypeOK'
  <2>1. since' \in [Calls -> SUBSET {"renamed", "deleted"}]
    BY <1>1 DEF IInv, TypeOK
  <2>2. changes' \in 0 .. MaxChanges
    BY <1>1, BoundsAssumption DEF IInv, TypeOK
  <2> QED BY <1>1, <2>1, <2>2 DEF IInv, TypeOK, ListOK
<1>3. ASSUME NEW c \in Calls PROVE MadeAsAsked(c)' /\ Ahead(c)'
  <2>1. at[c] = "listing" /\ since'[c] = {} => since[c] = {} /\ PushedBack
    <3>1. at[c] = "listing" => since'[c] = since[c] \cup done
      BY <1>1
    <3> QED BY <3>1
  <2>2. networks \in Seq(Networks) /\ networks' \in Seq(Networks)
    BY DEF IInv, TypeOK, ListOK
  <2>3. Ahead(c)'
    BY <1>1, <2>1, <2>2, ListedIsNat, AheadStays DEF IInv
  <2>4. MadeAsAsked(c)'
    BY <1>1 DEF IInv, MadeAsAsked
  <2> QED BY <2>3, <2>4
<1> QED BY <1>2, <1>3 DEF IInv, ListOK

LEMMA CreateKeepsIInv ==
    ASSUME IInv, NEW name \in Names, NEW owner \in Owners \cup {None},
           Create(name, owner)
    PROVE  IInv'
<1>1. /\ ~Held(name) /\ Others({})
      /\ Creates([id |-> created + 1, name |-> name, owner |-> owner,
                  scope |-> None])
  BY DEF Create
<1>2. None \in Scopes \cup {None}
  OBVIOUS
<1>3. ListOK' /\ PushedBack
  BY <1>1, <1>2, ListIsOK, CreatesPushesBack
<1> QED BY <1>1, <1>3, OthersKeepIInv

LEMMA UpdateKeepsIInv ==
    ASSUME IInv, NEW k \in DOMAIN networks, NEW name \in Names,
           NEW owner \in Owners \cup {None}, Update(k, name, owner)
    PROVE  IInv'
<1>1. PICK done : done = IF name = networks[k].name THEN {} ELSE {"renamed"}
  OBVIOUS
<1>2. Others(done)
  BY <1>1 DEF Update
<1>3. ListOK' /\ ("renamed" \notin done => PushedBack)
  BY <1>1, ListIsOK, UpdateKeepsList
<1>4. done \subseteq {"renamed", "deleted"} /\ (done = {} => PushedBack)
  BY <1>1, <1>3
<1> QED BY <1>2, <1>3, <1>4, OthersKeepIInv

LEMMA DeleteKeepsIInv ==
    ASSUME IInv, NEW k \in DOMAIN networks, Delete(k)
    PROVE  IInv'
<1>1. Others({"deleted"})
  BY DEF Delete
<1>2. ListOK'
  BY ListIsOK, DeleteKeepsList
<1> QED BY <1>1, <1>2, OthersKeepIInv

----------------------------------------------------------------------------
(* The theorems.                                                           *)

(* The inductive invariant: names stay unique, what was made for a call is *)
(* what it asked for, and an undisturbed search has yet to come to the     *)
(* holder of its name.                                                     *)
THEOREM NetworksInvariant == Spec => []IInv
<1>1. ASSUME IInv, [Next]_vars PROVE IInv'
  <2>1. ASSUME NEW c \in Calls,
               CreateAnswered(c) \/ ListPage(c) \/ ListFails(c)
        PROVE  IInv'
    BY <1>1, <2>1, CreateLandsKeepsIInv, CreateRefusedKeepsIInv,
       ListPageKeepsIInv, ListFailsKeepsIInv DEF CreateAnswered
  <2>2. ASSUME NEW c \in Calls, NEW options \in Options, Begin(c, options)
        PROVE  IInv'
    BY <1>1, <2>2, BeginKeepsIInv
  <2>3. ASSUME NEW name \in Names, NEW owner \in Owners \cup {None},
               \/ Create(name, owner)
               \/ \E k \in DOMAIN networks : Update(k, name, owner)
        PROVE  IInv'
    BY <1>1, <2>3, CreateKeepsIInv, UpdateKeepsIInv
  <2>4. ASSUME NEW k \in DOMAIN networks, Delete(k) PROVE IInv'
    BY <1>1, <2>4, DeleteKeepsIInv
  <2>5. CASE UNCHANGED vars
    BY <1>1, <2>5
    DEF vars, service, IInv, TypeOK, NamesUnique, MadeAsAsked, Ahead,
        ListedBefore
  <2> QED BY <1>1, <2>1, <2>2, <2>3, <2>4, <2>5 DEF Next
<1> QED BY <1>1, InitIInv, PTL DEF Spec

(* A search that ends with "taken", undisturbed, ended on the holder of    *)
(* the name: were that the network made for a call with the same options,  *)
(* it would have been handed over.                                         *)
LEMMA TakenByAnother ==
    ASSUME IInv, NEW c \in Calls, ListPage(c), CallsTaken(c), since[c] = {},
           NEW d \in Calls, want[d] = want[c], made[d] \in ToSet(networks)
    PROVE  FALSE
<1>1. TypeOK
  BY DEF IInv
<1>2. \E n \in ToSet(Listing(page[c])) :
         n.name = want[c].name /\ ~Asked(c, n)
  <2>1. ASSUME \A n \in ToSet(Listing(page[c])) : n.name # want[c].name
        PROVE  FALSE
    <3>1. at[c] = "listing"
      BY DEF CallsTaken
    <3>2. \A total \in {Len(networks), Len(networks) + 1} :
             ~LastPage(Listing(page[c]), seen[c] + Len(Listing(page[c])), total)
      BY <2>1, <3>1, UndisturbedGoesOn
    <3>3. UNCHANGED at
      BY <2>1, <3>2 DEF ListPage
    <3> QED BY <3>3 DEF CallsTaken
  <2>2. ASSUME NEW n \in ToSet(Listing(page[c])), n.name = want[c].name,
               Asked(c, n), at' = [at EXCEPT ![c] = "returned"]
        PROVE  FALSE
    BY <1>1, <2>2 DEF CallsTaken, TypeOK
  <2>3. PICK n \in ToSet(Listing(page[c])) : n.name = want[c].name
    BY <2>1
  <2>4. \E m \in ToSet(Listing(page[c])) :
           /\ m.name = want[c].name
           /\ Asked(c, m) => at' = [at EXCEPT ![c] = "returned"]
    BY <2>3 DEF ListPage
  <2> QED BY <2>2, <2>4
<1>3. PICK n \in ToSet(Listing(page[c])) :
         n.name = want[c].name /\ ~Asked(c, n)
  BY <1>2
<1>4. n \in ToSet(networks)
  <2>1. page[c] \in Nat \ {0}
    BY ListedIsNat
  <2> QED BY <1>1, <1>3, <2>1, ListingIs
<1>5. /\ made[d].name = want[c].name /\ made[d].owner = want[c].owner
      /\ made[d].scope = want[c].scope
  <2>1. ToSet(networks) \subseteq Networks
    BY <1>1, ElementOfSeq, LenProperties DEF TypeOK, ToSet
  <2>2. made[d] # NoNetwork
    BY <2>1 DEF Networks, NoNetwork
  <2> QED BY <2>2 DEF IInv, MadeAsAsked
<1>6. n = made[d]
  BY <1>3, <1>4, <1>5 DEF IInv, NamesUnique, ToSet
<1> QED BY <1>3, <1>5, <1>6 DEF Asked

(* A createOrGet() that loses the race for a name is handed the winner's   *)
(* network and is not told the name is taken, unless the other clients     *)
(* rename or delete networks while it searches (administration.ts:362).    *)
THEOREM LoserIsHandedTheWinners == Spec => UndisturbedLoserGetsWinner
<1>1. ASSUME IInv, [Next]_vars, NEW c \in Calls, CallsTaken(c), since[c] = {}
      PROVE  ~TakenWhileHeld(c)
  <2>1. ListPage(c)
    <3>1. at'[c] # at[c] /\ at[c] = "listing" /\ at'[c] = "taken"
      BY <1>1 DEF CallsTaken
    <3>2. at \in [Calls -> {"idle", "creating", "listing"} \cup Settled]
      BY <1>1 DEF IInv, TypeOK
    <3>3. ASSUME NEW d \in Calls,
                 \/ CreateAnswered(d) \/ ListFails(d)
                 \/ \E options \in Options : Begin(d, options)
          PROVE  FALSE
      <4>1. \/ at[d] = "creating" \/ at[d] = "idle"
            \/ at' = [at EXCEPT ![d] = "failed"]
        BY <3>3 DEF CreateAnswered, CreateLands, CreateRefused, ListFails, Begin
      <4>2. \A e \in Calls \ {d} : at'[e] = at[e]
        BY <3>2, <3>3
        DEF CreateAnswered, CreateLands, CreateRefused, ListFails, Begin
      <4> QED BY <3>1, <3>2, <4>1, <4>2
    <3>4. ASSUME NEW d \in Calls \ {c}, ListPage(d) PROVE FALSE
      <4>1. at'[c] = at[c]
        BY <3>2, <3>4 DEF ListPage
      <4> QED BY <3>1, <4>1
    <3>5. ASSUME \/ \E name \in Names, owner \in Owners \cup {None} :
                       \/ Create(name, owner)
                       \/ \E k \in DOMAIN networks : Update(k, name, owner)
                 \/ \E k \in DOMAIN networks : Delete(k)
                 \/ UNCHANGED vars
          PROVE  FALSE
      <4>1. UNCHANGED at
        BY <3>5 DEF Create, Update, Delete, Others, vars
      <4> QED BY <3>1, <4>1
    <3> QED BY <1>1, <3>3, <3>4, <3>5 DEF Next
  <2> QED BY <1>1, <2>1, TakenByAnother DEF TakenWhileHeld
<1>2. IInv /\ [Next]_vars =>
         [\A c \in Calls :
             CallsTaken(c) /\ since[c] = {} => ~TakenWhileHeld(c)]_vars
  BY <1>1
<1> QED BY <1>2, NetworksInvariant, PTL DEF Spec, UndisturbedLoserGetsWinner
=============================================================================
