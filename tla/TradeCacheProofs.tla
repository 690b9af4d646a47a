-------------------------- MODULE TradeCacheProofs --------------------------
(***************************************************************************)
(* Proofs about the account cache (TradeCache), for every number of fills, *)
(* readers, crashes, faults and prunes.                                    *)
(*                                                                         *)
(* The order is that of the layers of TradeCacheInv: lemmas about rows,    *)
(* then StateInv, then CoverInv and FileInv on top of it, then the         *)
(* theorems about the properties the runs check.                           *)
(***************************************************************************)
EXTENDS TradeCacheInv, SetLemmas

USE DEF Ids, Torn, NoPrev, NoJob, NoMarker, NoPermit, Resting, NoUndo, Executed
--------------------------------------------------------------------------------
(* Rows *)

\* Ascending lists every number of a finite set once, each behind the smaller ones.
LEMMA AscendingLists ==
  ASSUME NEW S \in SUBSET Int, IsFiniteSet(S)
  PROVE  /\ Ascending(S) \in Seq(S)
         /\ Len(Ascending(S)) = Cardinality(S)
         /\ Range(Ascending(S)) = S
         /\ IsInjective(Ascending(S))
         /\ \A i \in 1..Cardinality(S) :
              Cardinality({j \in S : j < Ascending(S)[i]}) = i - 1
BY SortedLists DEF Ascending, Sorted

\* Rows without repetition are no more than the fills there may be.
LEMMA RowsFit ==
  ASSUME NEW rows \in Seq(Ids), IsInjective(rows)
  PROVE  Len(rows) <= MaxFills
<1>1. MaxFills \in Nat
  BY BoundAssumption
<1>2. IsFiniteSet(Ids) /\ Cardinality(Ids) = MaxFills
  BY <1>1, FS_Interval
<1>3. Len(rows) \in Nat /\ rows \in [1..Len(rows) -> Ids]
  BY LenProperties
<1>4. rows \in Injection(1..Len(rows), Ids)
  BY <1>3 DEF Injection
<1>5. Cardinality(1..Len(rows)) = Len(rows)
  <2>1. \A n \in Nat : Cardinality(1..n) = n
    <3> TAKE n \in Nat
    <3>1. Cardinality(1..n) = IF 1 > n THEN 0 ELSE n - 1 + 1
      BY FS_Interval
    <3> QED BY <3>1
  <2> QED BY <1>3, <2>1
<1>6. Cardinality(1..Len(rows)) <= Cardinality(Ids)
  BY <1>2, <1>4, FS_Injection
<1> QED BY <1>2, <1>5, <1>6

\* What is not saved yet: the rows behind the counted ones.
LEMMA UnsavedRows ==
  ASSUME cache.rows \in Seq(Ids), cache.counts \in Nat, cache.counts <= Len(cache.rows)
  PROVE  /\ Unsaved \in Seq(Ids)
         /\ Len(Unsaved) = Len(cache.rows) - cache.counts
         /\ \A i \in 1..Len(Unsaved) : Unsaved[i] = cache.rows[cache.counts + i]
         /\ \A k : k \in Range(Unsaved) <=>
              \E i \in DOMAIN cache.rows : i > cache.counts /\ cache.rows[i] = k
<1> DEFINE n == Len(cache.rows)
<1>1. n \in Nat /\ DOMAIN cache.rows = 1..n
  BY LenProperties
<1>2. /\ Unsaved \in Seq(Ids)
      /\ Len(Unsaved) = n - cache.counts
      /\ \A i \in 1..Len(Unsaved) : Unsaved[i] = cache.rows[cache.counts + i]
  <2>1. Unsaved = SubSeq(cache.rows, cache.counts + 1, n)
    BY DEF Unsaved
  <2>2. cache.counts + 1 \in Int /\ n \in Int
    BY <1>1
  <2>3. \A i \in (cache.counts + 1)..n : i \in 1..n
    BY <1>1
  <2>4. \A i \in (cache.counts + 1)..n : cache.rows[i] \in Ids
    BY <2>3, ElementOfSeq
  <2>5. /\ Unsaved \in Seq(Ids)
        /\ Len(Unsaved) =
             IF cache.counts + 1 <= n THEN n - (cache.counts + 1) + 1 ELSE 0
        /\ \A i \in 1..(n - (cache.counts + 1) + 1) :
             Unsaved[i] = cache.rows[(cache.counts + 1) + i - 1]
    <3> DEFINE c == cache.rows
               b == cache.counts + 1
               u == SubSeq(c, b, n)
    <3>1. b \in Int /\ n \in Int /\ \A i \in b..n : c[i] \in Ids
      BY <2>2, <2>4
    <3> HIDE DEF n, c, b
    <3>2. /\ SubSeq(c, b, n) \in Seq(Ids)
          /\ Len(SubSeq(c, b, n)) = IF b <= n THEN n - b + 1 ELSE 0
          /\ \A i \in 1..(n - b + 1) : SubSeq(c, b, n)[i] = c[b + i - 1]
      BY <3>1, SubSeqProperties
    <3> HIDE DEF u
    <3>3. /\ u \in Seq(Ids) /\ Len(u) = IF b <= n THEN n - b + 1 ELSE 0
          /\ \A i \in 1..(n - b + 1) : u[i] = c[b + i - 1]
      BY <3>2 DEF u
    <3>4. Unsaved = u
      BY <2>1 DEF u, c, b
    <3> QED BY <3>3, <3>4 DEF c, b
  <2>6. /\ n - (cache.counts + 1) + 1 = n - cache.counts
        /\ cache.counts + 1 <= n \/ n - cache.counts = 0
        /\ \A i \in 1..(n - cache.counts) : (cache.counts + 1) + i - 1 = cache.counts + i
    BY <1>1
  <2>7. Len(Unsaved) = n - cache.counts
    BY <2>5, <2>6
  <2> HIDE DEF n
  <2> QED BY <2>5, <2>6, <2>7
<1>3. DOMAIN Unsaved = 1..(n - cache.counts)
  BY <1>2, LenProperties
<1>4. ASSUME NEW k
      PROVE  k \in Range(Unsaved) <=>
               \E i \in DOMAIN cache.rows : i > cache.counts /\ cache.rows[i] = k
  <2>1. k \in Range(Unsaved) =>
          \E i \in DOMAIN cache.rows : i > cache.counts /\ cache.rows[i] = k
    <3> SUFFICES ASSUME NEW j \in 1..(n - cache.counts), k = Unsaved[j]
                 PROVE  \E i \in DOMAIN cache.rows : i > cache.counts /\ cache.rows[i] = k
      BY <1>3 DEF Range
    <3>1. cache.counts + j \in 1..n /\ cache.counts + j > cache.counts
      BY <1>1
    <3> QED BY <1>1, <1>2, <3>1
  <2>2. ASSUME NEW i \in DOMAIN cache.rows, i > cache.counts, cache.rows[i] = k
        PROVE  k \in Range(Unsaved)
    <3>1. i - cache.counts \in 1..(n - cache.counts) /\ cache.counts + (i - cache.counts) = i
      BY <1>1, <2>2
    <3>2. Unsaved[i - cache.counts] = k
      BY <1>2, <2>2, <3>1
    <3> QED BY <1>3, <3>1, <3>2 DEF Range
  <2> QED BY <2>1, <2>2
<1> QED BY <1>2, <1>4

\* Rows behind rows
LEMMA Joined ==
  ASSUME NEW S, NEW s \in Seq(S), NEW t \in Seq(S)
  PROVE  /\ s \o t \in Seq(S)
         /\ Range(s \o t) = Range(s) \cup Range(t)
         /\ Len(s \o t) = Len(s) + Len(t)
         /\ \A i \in 1..Len(s) : (s \o t)[i] = s[i]
         /\ \A i \in 1..Len(s \o t) : i > Len(s) => (s \o t)[i] = t[i - Len(s)]
         /\ Len(s) <= Len(s \o t) /\ SubSeq(s \o t, 1, Len(s)) = s
         /\ IsInjective(s) /\ IsInjective(t) /\ Range(s) \cap Range(t) = {}
              => IsInjective(s \o t)
<1>0. /\ Len(s) \in Nat /\ Len(t) \in Nat
      /\ DOMAIN s = 1..Len(s) /\ DOMAIN t = 1..Len(t)
  BY LenProperties
<1>1. /\ s \o t \in Seq(S) /\ Len(s \o t) = Len(s) + Len(t)
      /\ DOMAIN (s \o t) = 1..(Len(s) + Len(t))
      /\ \A i \in 1..Len(s) : (s \o t)[i] = s[i]
      /\ \A i \in 1..(Len(s) + Len(t)) : i > Len(s) => (s \o t)[i] = t[i - Len(s)]
  BY <1>0
<1>2. Range(s \o t) = Range(s) \cup Range(t)
  <2>1. \A i \in 1..(Len(s) + Len(t)) :
          \/ i \in 1..Len(s)
          \/ i > Len(s) /\ i - Len(s) \in 1..Len(t)
    BY <1>0
  <2>2. \A i \in 1..Len(s) : i \in 1..(Len(s) + Len(t))
    BY <1>0
  <2>3. \A i \in 1..Len(t) :
          i + Len(s) \in 1..(Len(s) + Len(t)) /\ i + Len(s) > Len(s) /\ (i + Len(s)) - Len(s) = i
    BY <1>0
  <2>4. Range(s \o t) \subseteq Range(s) \cup Range(t)
    BY <1>0, <1>1, <2>1 DEF Range
  <2>5. Range(s) \subseteq Range(s \o t)
    BY <1>0, <1>1, <2>2 DEF Range
  <2>6. \A i \in 1..Len(t) : (s \o t)[i + Len(s)] = t[i]
    BY <1>1, <2>3
  <2>7. Range(t) \subseteq Range(s \o t)
    <3>1. \A i \in DOMAIN t : i + Len(s) \in DOMAIN (s \o t)
      BY <1>0, <1>1, <2>3
    <3>2. \A i \in DOMAIN t : t[i] \in {(s \o t)[j] : j \in DOMAIN (s \o t)}
      BY <1>0, <2>6, <3>1
    <3> QED BY <3>2 DEF Range
  <2> QED BY <2>4, <2>5, <2>7
<1>3. Len(s) <= Len(s \o t)
  BY <1>0, <1>1
<1>4. SubSeq(s \o t, 1, Len(s)) = s
  BY SubSeqOfConcat1, SubSeqFull, <1>0
<1>5. ASSUME IsInjective(s), IsInjective(t), Range(s) \cap Range(t) = {}
      PROVE  IsInjective(s \o t)
  <2> SUFFICES ASSUME NEW i \in 1..(Len(s) + Len(t)), NEW j \in 1..(Len(s) + Len(t)),
                      (s \o t)[i] = (s \o t)[j]
               PROVE  i = j
    BY <1>1 DEF IsInjective
  <2>1. CASE i <= Len(s) /\ j <= Len(s)
    BY <1>0, <1>1, <1>5, <2>1 DEF IsInjective
  <2>2. CASE i > Len(s) /\ j > Len(s)
    <3>1. i - Len(s) \in 1..Len(t) /\ j - Len(s) \in 1..Len(t)
      BY <1>0, <2>2
    <3>2. t[i - Len(s)] = t[j - Len(s)]
      BY <1>1, <2>2
    <3>3. i - Len(s) = j - Len(s)
      BY <1>0, <1>5, <3>1, <3>2 DEF IsInjective
    <3> QED BY <1>0, <3>3
  <2>3. CASE i <= Len(s) /\ j > Len(s)
    <3>1. i \in 1..Len(s) /\ j - Len(s) \in 1..Len(t)
      BY <1>0, <2>3
    <3>2. s[i] = t[j - Len(s)]
      BY <1>1, <2>3, <3>1
    <3> QED BY <1>0, <1>5, <3>1, <3>2 DEF Range
  <2>4. CASE j <= Len(s) /\ i > Len(s)
    <3>1. j \in 1..Len(s) /\ i - Len(s) \in 1..Len(t)
      BY <1>0, <2>4
    <3>2. s[j] = t[i - Len(s)]
      BY <1>1, <2>4, <3>1
    <3> QED BY <1>0, <1>5, <3>1, <3>2 DEF Range
  <2> QED BY <1>0, <2>1, <2>2, <2>3, <2>4
<1> QED BY <1>1, <1>2, <1>3, <1>4, <1>5

\* What _persist_items does to memory: nothing is lost or doubled, what counts as
\* saved stays where it is, and what does not is old unsaved rows and new ones.
LEMMA MergedRows ==
  ASSUME NEW c \in Caches, IsInjective(c.rows), NEW new \in SUBSET Ids, now \in Nat
  PROVE  /\ Merged(c, new).rows \in Seq(Ids)
         /\ Range(Merged(c, new).rows) = Range(c.rows) \cup new
         /\ IsInjective(Merged(c, new).rows)
         /\ c.counts <= Len(c.rows) => c.counts <= Len(Merged(c, new).rows)
         /\ \A i \in DOMAIN Merged(c, new).rows :
              /\ i <= c.counts /\ c.counts <= Len(c.rows) =>
                   i \in DOMAIN c.rows /\ Merged(c, new).rows[i] = c.rows[i]
              /\ i > c.counts =>
                   \/ Merged(c, new).rows[i] \in new \ Range(c.rows)
                   \/ \E j \in DOMAIN c.rows :
                        j > c.counts /\ Merged(c, new).rows[i] = c.rows[j]
         /\ Merged(c, new) \in [rows : Seq(Ids), counts : {c.counts}, cursor : {c.cursor},
                               seen : {c.seen, now}, rewrite : {c.rewrite}]
         /\ c.seen <= Merged(c, new).seen
<1> DEFINE add == new \ Range(c.rows)
           len == Len(c.rows)
           tail == add \cup {c.rows[i] : i \in (c.counts + 1)..len}
           n == Min2(c.counts, len)
           head == SubSeq(c.rows, 1, n)
           m == Merged(c, new)
<1>0. /\ c.rows \in Seq(Ids) /\ c.counts \in Nat /\ c.seen \in Nat
      /\ c = [rows |-> c.rows, counts |-> c.counts, cursor |-> c.cursor,
              seen |-> c.seen, rewrite |-> c.rewrite]
  BY BoundAssumption DEF Caches, Rows
<1>1. len \in Nat /\ DOMAIN c.rows = 1..len /\ \A i \in 1..len : c.rows[i] \in Ids
  BY <1>0, LenProperties, ElementOfSeq
<1>2. /\ n \in Nat /\ n <= len /\ n <= c.counts
      /\ c.counts <= len => n = c.counts
      /\ c.counts > len => n = len
  BY <1>0, <1>1 DEF Min2
<1>3. CASE add = {}
  <2>1. m = c
    BY <1>3 DEF Merged
  <2>2. new \subseteq Range(c.rows)
    BY <1>3
  <2> HIDE DEF m
  <2>3. m.rows = c.rows /\ m.seen = c.seen
    BY <2>1
  <2>4. c.seen <= c.seen
    BY <1>0
  <2>5. Range(m.rows) = Range(c.rows) \cup new
    BY <2>1, <2>2
  <2>6. m \in [rows : Seq(Ids), counts : {c.counts}, cursor : {c.cursor},
               seen : {c.seen, now}, rewrite : {c.rewrite}]
    BY <1>0, <2>1
  <2>7. \A i \in DOMAIN m.rows :
          /\ i <= c.counts /\ c.counts <= len => i \in DOMAIN c.rows /\ m.rows[i] = c.rows[i]
          /\ i > c.counts => \E j \in DOMAIN c.rows : j > c.counts /\ m.rows[i] = c.rows[j]
    BY <2>3
  <2> QED BY <1>0, <2>1, <2>3, <2>4, <2>5, <2>6, <2>7 DEF m
<1>4. CASE add # {}
  <2>1. tail \in SUBSET Ids
    BY <1>1, <1>0
  <2>2. IsFiniteSet(Ids) /\ Ids \in SUBSET Int
    BY BoundAssumption, FS_Interval
  <2>3. IsFiniteSet(tail) /\ tail \in SUBSET Int
    <3> HIDE DEF tail
    <3> QED BY <2>1, <2>2, FS_Subset
  <2>4. /\ Ascending(tail) \in Seq(tail) /\ Range(Ascending(tail)) = tail
        /\ IsInjective(Ascending(tail))
    <3> HIDE DEF tail
    <3> QED BY <2>3, AscendingLists
  <2>5. Ascending(tail) \in Seq(Ids)
    <3> HIDE DEF tail
    <3> QED BY <2>1, <2>4, SeqMonotonic
  <2>6. /\ head \in Seq(Ids) /\ Len(head) = n
        /\ \A i \in 1..n : head[i] = c.rows[i]
    <3>1. \A i \in 1..n : i \in 1..len
      BY <1>1, <1>2
    <3>2. \A i \in 1..n : c.rows[i] \in Ids
      BY <1>1, <3>1
    <3>3. /\ head \in Seq(Ids)
          /\ Len(head) = IF 1 <= n THEN n - 1 + 1 ELSE 0
          /\ \A i \in 1..(n - 1 + 1) : head[i] = c.rows[1 + i - 1]
      <4> HIDE DEF n
      <4> QED BY <1>2, <3>2, SubSeqProperties
    <3> HIDE DEF n, head
    <3> QED BY <1>2, <3>3
  <2>7. DOMAIN head = 1..n /\ Range(head) = {c.rows[i] : i \in 1..n}
    <3> HIDE DEF head, n
    <3>1. DOMAIN head = 1..n
      BY <2>6, LenProperties
    <3> QED BY <2>6, <3>1 DEF Range
  <2>8. Range(head) \cap tail = {}
    <3>1. \A i \in 1..n : i \in DOMAIN c.rows /\ c.rows[i] \notin add
      BY <1>1, <1>2 DEF Range
    <3>2. \A i \in 1..n, j \in (c.counts + 1)..len : c.rows[i] # c.rows[j]
      <4> TAKE i \in 1..n, j \in (c.counts + 1)..len
      <4>1. i \in DOMAIN c.rows /\ j \in DOMAIN c.rows /\ i # j
        BY <1>0, <1>1, <1>2
      <4> QED BY <4>1 DEF IsInjective
    <3> QED BY <2>7, <3>1, <3>2
  <2>9. IsInjective(head)
    <3>1. \A i \in 1..n : i \in DOMAIN c.rows
      BY <1>1, <1>2
    <3> HIDE DEF head, n
    <3> QED BY <2>6, <2>7, <3>1 DEF IsInjective
  <2>10. /\ m.rows = head \o Ascending(tail) /\ m.seen = Max2(c.seen, now)
         /\ m = [rows |-> head \o Ascending(tail), counts |-> c.counts, cursor |-> c.cursor,
                 seen |-> Max2(c.seen, now), rewrite |-> c.rewrite]
    <3>1. m = [c EXCEPT !.rows = head \o Ascending(tail), !.seen = Max2(c.seen, now)]
      BY <1>4 DEF Merged
    <3> HIDE DEF m, head, tail
    <3> QED BY <1>0, <3>1
  <2>11. /\ m.rows \in Seq(Ids) /\ IsInjective(m.rows)
         /\ Range(m.rows) = Range(head) \cup tail
    <3> HIDE DEF m, head, tail
    <3> QED BY <2>4, <2>5, <2>6, <2>8, <2>9, <2>10, Joined
  <2>12. Range(m.rows) = Range(c.rows) \cup new
    <3>1. \A i \in 1..len : i \in 1..n \/ i \in (c.counts + 1)..len
      BY <1>0, <1>1, <1>2
    <3>2. Range(c.rows) = {c.rows[i] : i \in 1..len}
      BY <1>1 DEF Range
    <3>3. Range(c.rows) \subseteq Range(head) \cup tail
      BY <2>7, <3>1, <3>2
    <3>4. /\ \A i \in 1..n : i \in 1..len
          /\ \A i \in (c.counts + 1)..len : i \in 1..len
      BY <1>0, <1>1, <1>2
    <3>5. Range(head) \subseteq Range(c.rows) /\ tail \subseteq Range(c.rows) \cup new
      BY <2>7, <3>2, <3>4
    <3>6. new \subseteq Range(c.rows) \cup tail
      OBVIOUS
    <3> QED BY <2>11, <3>3, <3>5, <3>6
  <2>13. /\ DOMAIN m.rows = 1..Len(m.rows) /\ Len(m.rows) \in Nat
         /\ \A i \in 1..n : i \in DOMAIN m.rows /\ m.rows[i] = c.rows[i]
         /\ \A i \in DOMAIN m.rows : i > n => m.rows[i] \in tail
    <3>1. DOMAIN m.rows = 1..Len(m.rows) /\ Len(m.rows) \in Nat
      <4> HIDE DEF m
      <4> QED BY <2>11, LenProperties
    <3>2. /\ Len(m.rows) = n + Len(Ascending(tail))
          /\ \A i \in 1..n : m.rows[i] = head[i]
          /\ \A i \in 1..Len(m.rows) : i > n => m.rows[i] = Ascending(tail)[i - n]
          /\ Len(Ascending(tail)) \in Nat /\ DOMAIN Ascending(tail) = 1..Len(Ascending(tail))
      <4> DEFINE t == Ascending(tail)
      <4> HIDE DEF m, head, n, t
      <4>1. t \in Seq(Ids) /\ m.rows = head \o t
        BY <2>5, <2>10 DEF t
      <4>2. /\ Len(m.rows) = n + Len(t)
            /\ \A i \in 1..n : m.rows[i] = head[i]
            /\ \A i \in 1..Len(m.rows) : i > n => m.rows[i] = t[i - n]
        <5>1. /\ Len(head \o t) = Len(head) + Len(t)
              /\ \A i \in 1..Len(head) : (head \o t)[i] = head[i]
              /\ \A i \in 1..Len(head \o t) : i > Len(head) => (head \o t)[i] = t[i - Len(head)]
          <6>1. head \in Seq(Ids) /\ t \in Seq(Ids)
            BY <2>6, <4>1
          <6> QED BY <6>1, Joined, SMTT(30)
        <5> QED BY <2>6, <4>1, <5>1
      <4>3. Len(t) \in Nat /\ DOMAIN t = 1..Len(t)
        BY <4>1, LenProperties
      <4> QED BY <4>2, <4>3 DEF t
    <3>3. \A i \in 1..n : i \in DOMAIN m.rows
      BY <1>2, <3>1, <3>2
    <3>4. ASSUME NEW i \in DOMAIN m.rows, i > n PROVE m.rows[i] \in tail
      <4> HIDE DEF m, tail, n
      <4>1. i - n \in DOMAIN Ascending(tail)
        BY <1>2, <3>1, <3>2, <3>4
      <4>2. Ascending(tail)[i - n] \in Range(Ascending(tail))
        BY <4>1 DEF Range
      <4> QED BY <2>4, <3>1, <3>2, <3>4, <4>2
    <3> QED BY <2>6, <3>1, <3>2, <3>3, <3>4
  <2>14. /\ c.seen <= m.seen
         /\ m \in [rows : Seq(Ids), counts : {c.counts}, cursor : {c.cursor},
                   seen : {c.seen, now}, rewrite : {c.rewrite}]
    <3>1. c.seen <= Max2(c.seen, now) /\ Max2(c.seen, now) \in {c.seen, now}
      BY <1>0 DEF Max2
    <3> HIDE DEF m, head, tail
    <3> QED BY <2>10, <2>11, <3>1
  <2>15. c.counts <= len => c.counts <= Len(m.rows)
    <3> HIDE DEF m, tail
    <3>1. CASE c.counts = 0
      BY <2>13, <3>1
    <3>2. CASE c.counts <= len /\ c.counts # 0
      BY <1>0, <1>2, <2>13, <3>2
    <3> QED BY <3>1, <3>2
  <2>16. \A i \in DOMAIN m.rows :
           /\ i <= c.counts /\ c.counts <= len => i \in DOMAIN c.rows /\ m.rows[i] = c.rows[i]
           /\ i > c.counts =>
                \/ m.rows[i] \in add
                \/ \E j \in DOMAIN c.rows : j > c.counts /\ m.rows[i] = c.rows[j]
    <3> TAKE i \in DOMAIN m.rows
    <3>0. i \in Nat /\ i >= 1
      BY <2>13
    <3>1. ASSUME i <= c.counts, c.counts <= len
          PROVE  i \in DOMAIN c.rows /\ m.rows[i] = c.rows[i]
      <4>1. i \in 1..n /\ i \in 1..len
        BY <1>0, <1>1, <1>2, <3>0, <3>1
      <4> QED BY <1>1, <2>13, <4>1
    <3>2. ASSUME i > c.counts
          PROVE  \/ m.rows[i] \in add
                 \/ \E j \in DOMAIN c.rows : j > c.counts /\ m.rows[i] = c.rows[j]
      <4>1. i > n
        BY <1>0, <1>2, <3>0, <3>2
      <4>2. m.rows[i] \in tail
        BY <2>13, <4>1
      <4>3. \A j \in (c.counts + 1)..len : j \in DOMAIN c.rows /\ j > c.counts
        BY <1>0, <1>1
      <4> HIDE DEF m
      <4> QED BY <4>2, <4>3
    <3> QED BY <3>1, <3>2
  <2> QED
    <3> HIDE DEF m, tail, head, n
    <3> QED BY <2>10, <2>11, <2>12, <2>14, <2>15, <2>16 DEF m
<1> QED BY <1>3, <1>4

\* What the retention pass keeps: the rows that have not expired, none twice and
\* none further back than it was.
LEMMA KeptRows ==
  ASSUME cache.rows \in Seq(Ids), IsInjective(cache.rows)
  PROVE  /\ Kept \in Seq(Ids)
         /\ IsInjective(Kept)
         /\ \A k : k \in Range(Kept) <=> k \in Range(cache.rows) /\ ~Expired(k)
         /\ \A j \in DOMAIN Kept :
              \E i \in DOMAIN cache.rows : j <= i /\ Kept[j] = cache.rows[i]
<1> DEFINE len == Len(cache.rows)
           S == {i \in DOMAIN cache.rows : ~Expired(cache.rows[i])}
           at == Ascending(S)
<1>1. len \in Nat /\ DOMAIN cache.rows = 1..len /\ \A i \in 1..len : cache.rows[i] \in Ids
  BY LenProperties, ElementOfSeq
<1>2. S \in SUBSET (1..len) /\ S \in SUBSET Int
  BY <1>1
<1>3. IsFiniteSet(S)
  <2>1. IsFiniteSet(1..len)
    BY <1>1, FS_Interval
  <2> HIDE DEF S, len
  <2> QED BY <1>2, <2>1, FS_Subset
<1>4. /\ at \in Seq(S) /\ Len(at) = Cardinality(S) /\ Range(at) = S /\ IsInjective(at)
      /\ \A j \in 1..Cardinality(S) : Cardinality({i \in S : i < at[j]}) = j - 1
  <2> HIDE DEF S
  <2> QED BY <1>2, <1>3, AscendingLists
<1>5. Len(at) \in Nat /\ DOMAIN at = 1..Len(at) /\ \A j \in 1..Len(at) : at[j] \in S
  <2> HIDE DEF at, S
  <2> QED BY <1>4, LenProperties, ElementOfSeq
<1>6. Kept = [j \in 1..Len(at) |-> cache.rows[at[j]]]
  BY <1>5 DEF Kept
<1>7. \A j \in 1..Len(at) : cache.rows[at[j]] \in Ids
  BY <1>1, <1>2, <1>5
<1>8. Kept \in Seq(Ids) /\ DOMAIN Kept = 1..Len(at)
  <2> HIDE DEF at
  <2> QED BY <1>5, <1>6, <1>7, IsASeq
<1>9. \A j \in 1..Len(at) : Kept[j] = cache.rows[at[j]]
  BY <1>6
<1>10. IsInjective(Kept)
  <2> SUFFICES ASSUME NEW i \in 1..Len(at), NEW j \in 1..Len(at), Kept[i] = Kept[j] PROVE i = j
    BY <1>8 DEF IsInjective
  <2>1. at[i] \in DOMAIN cache.rows /\ at[j] \in DOMAIN cache.rows
    BY <1>5
  <2>2. at[i] = at[j]
    BY <1>9, <2>1 DEF IsInjective
  <2> HIDE DEF at
  <2> QED BY <1>4, <1>5, <2>2 DEF IsInjective
<1>11. ASSUME NEW k PROVE k \in Range(Kept) <=> k \in Range(cache.rows) /\ ~Expired(k)
  <2>1. ASSUME k \in Range(Kept) PROVE k \in Range(cache.rows) /\ ~Expired(k)
    <3>1. PICK j \in 1..Len(at) : Kept[j] = k
      BY <1>8, <2>1 DEF Range
    <3>2. at[j] \in DOMAIN cache.rows /\ ~Expired(cache.rows[at[j]]) /\ k = cache.rows[at[j]]
      BY <1>5, <1>9, <3>1
    <3> HIDE DEF at
    <3> QED BY <3>2 DEF Range
  <2>2. ASSUME k \in Range(cache.rows), ~Expired(k) PROVE k \in Range(Kept)
    <3>1. PICK i \in DOMAIN cache.rows : cache.rows[i] = k
      BY <2>2 DEF Range
    <3>2. i \in S
      BY <2>2, <3>1
    <3>3. PICK j \in 1..Len(at) : at[j] = i
      <4> HIDE DEF at, S
      <4> QED BY <1>4, <1>5, <3>2 DEF Range
    <3>4. Kept[j] = k /\ j \in DOMAIN Kept
      BY <1>8, <1>9, <3>1, <3>3
    <3> QED BY <3>4 DEF Range
  <2> QED BY <2>1, <2>2
<1>12. ASSUME NEW j \in 1..Len(at)
       PROVE  \E i \in DOMAIN cache.rows : j <= i /\ Kept[j] = cache.rows[i]
  <2> DEFINE below == {i \in S : i < at[j]}
  <2>1. at[j] \in 1..len /\ at[j] \in S
    BY <1>1, <1>2, <1>5
  <2>2. Cardinality(below) = j - 1
    BY <1>4
  <2>3. below \in SUBSET (1..(at[j] - 1))
    <3>1. \A i \in 1..len : i < at[j] => i \in 1..(at[j] - 1)
      BY <1>1, <2>1
    <3> HIDE DEF at
    <3> QED BY <1>1, <3>1
  <2>4. IsFiniteSet(1..(at[j] - 1)) /\ Cardinality(1..(at[j] - 1)) = at[j] - 1
    <3> DEFINE b == at[j] - 1
    <3>1. b \in Nat
      BY <1>1, <2>1
    <3>2. IsFiniteSet(1..b) /\ Cardinality(1..b) = IF 1 > b THEN 0 ELSE b - 1 + 1
      <4> HIDE DEF b
      <4> QED BY <3>1, FS_Interval
    <3> HIDE DEF b
    <3>3. IsFiniteSet(1..b) /\ Cardinality(1..b) = b
      BY <3>1, <3>2
    <3> QED BY <3>3 DEF b
  <2>5. Cardinality(below) <= at[j] - 1
    <3> DEFINE upTo == 1..(at[j] - 1)
    <3>1. /\ below \in SUBSET upTo /\ IsFiniteSet(upTo)
          /\ Cardinality(upTo) = at[j] - 1
      BY <2>3, <2>4
    <3> HIDE DEF below, at, upTo
    <3>2. Cardinality(below) <= Cardinality(upTo)
      BY <3>1, FS_Subset
    <3> QED BY <3>1, <3>2
  <2>6. j <= at[j]
    <3> HIDE DEF below, at
    <3> QED BY <1>1, <1>5, <2>1, <2>2, <2>5
  <2> QED BY <1>1, <1>9, <2>1, <2>6
<1> QED BY <1>8, <1>10, <1>11, <1>12

\* A file that starts with the certified rows certifies them, whatever follows.
LEMMA StartsCertified ==
  ASSUME NEW S, NEW f \in Seq(S), NEW m, m.rows \in Seq(S)
  PROVE  Certifies(m.rows \o f, m) /\ Certifies(m.rows, m)
<1>1. Len(m.rows) \in Nat
  BY LenProperties
<1>2. SubSeq(m.rows, 1, Len(m.rows)) = m.rows
  BY <1>1, SubSeqFull
<1>3. Len(m.rows) <= Len(m.rows \o f) /\ SubSeq(m.rows \o f, 1, Len(m.rows)) = m.rows
  BY Joined
<1> QED BY <1>1, <1>2, <1>3 DEF Certifies

--------------------------------------------------------------------------------
(* StateInv: what a step leaves alone *)

LEMMA ReaderFrame ==
  ASSUME ReaderInv, UNCHANGED <<now, meta, marker, reader>>
  PROVE  ReaderInv'
BY DEF ReaderInv, VersionsPast, ReadersMatch, LoadedIsAsked, PermitBounded, Version

LEMMA ThreadFrame ==
  ASSUME ThreadInv, UNCHANGED <<venue, memory, threads, job, meta, marker, up>>
  PROVE  ThreadInv'
BY DEF ThreadInv, Stopped, JobShape, JobThread, AppendFits, Requests, Undoable, Clocks,
       CursorAfter, Sound, venue, memory, threads

LEMMA MemoryFrame ==
  ASSUME MemoryInv, UNCHANGED <<venue, memory, threads, job, meta, up>>
  PROVE  MemoryInv'
BY DEF MemoryInv, RowsSound, MemoryHasFile, UnsavedIsNew, CountedIsSaved, CommitSaves,
       FileNotAhead, Committed, Sound, Expired, venue, memory, threads

LEMMA StoredFrame ==
  ASSUME StoredInv, UNCHANGED <<job, data, meta, up>>, cache'.rewrite = cache.rewrite,
         job = NoJob \/ cache' = cache
  PROVE  StoredInv'
<1>1. FileReady'
  BY DEF StoredInv, FileReady, Committed, Certifies
<1>2. CASE job = NoJob
  BY <1>1, <1>2 DEF StoredInv, Written
<1>3. CASE cache' = cache
  BY <1>1, <1>3 DEF StoredInv, Written, Unsaved
<1> QED BY <1>2, <1>3

LEMMA NumbersTyped ==
  /\ MaxFills \in Nat /\ MaxNow \in Nat /\ MaxNow > 0
  /\ MaxAge \in Nat /\ PermitTtl \in Nat /\ PermitTtl <= MaxAge /\ Retention \in Nat
BY BoundAssumption, TimeAssumption

\* Types, without the files, the readers and the budget
CoreTyped ==
  /\ now \in 1..MaxNow /\ fills \in Seq(1..MaxNow) /\ Len(fills) <= MaxFills
  /\ cache \in Caches /\ undo \in Caches
  /\ sync \in [at : {"wait", "asked", "served", "merged", "synced", "saved", "pruned"},
               asked : 0..MaxNow, got : SUBSET Ids]
  /\ ws \in BOOLEAN /\ up \in BOOLEAN
  /\ job \in [by : {"none", "sync", "ws", "prune"}, kind : {"none", "append", "compact"},
              step : {"none", "rows", "stage", "data", "meta", "discard", "remember", "publish"}]
  /\ meta \in [stream : Nat, rev : Nat, rows : Rows, cursor : 0..MaxNow, seen : 0..MaxNow]
  /\ marker \in [stream : Nat, rev : Nat, time : 0..MaxNow]

FilesTyped ==
  /\ data \in Seq(Ids \cup {Torn})
  /\ prev \in [at : {"none", "link", "copy"}, rows : Seq(Ids \cup {Torn})]

ReadersTyped ==
  reader \in [Readers -> [at : {"free", "asked", "loaded"}, rows : Rows, ver : Versions,
                          evidence : [stream : Nat, rev : Nat, time : 0..MaxNow],
                          permit : [expires : Nat]]]

SpentTyped == spent \in [{"crash", "append", "compact", "prune"} -> Nat]

LEMMA TypeParts ==
  /\ TypeOK <=> CoreTyped /\ FilesTyped /\ ReadersTyped /\ SpentTyped
  /\ TypeOK' <=> CoreTyped' /\ FilesTyped' /\ ReadersTyped' /\ SpentTyped'
BY DEF TypeOK, CoreTyped, FilesTyped, ReadersTyped, SpentTyped

\* The types, field by field
LEMMA CoreFacts ==
  ASSUME CoreTyped
  PROVE  /\ now \in 1..MaxNow /\ now \in Nat /\ now <= MaxNow
         /\ Executed \subseteq Ids /\ Len(fills) \in Nat /\ Executed = 1..Len(fills)
         /\ \A k \in Executed : fills[k] \in Nat
         /\ cache.rows \in Seq(Ids) /\ cache.counts \in 0..MaxFills /\ cache.counts \in Nat
         /\ cache.cursor \in 0..MaxNow /\ cache.cursor \in Nat
         /\ cache.seen \in 0..MaxNow /\ cache.seen \in Nat /\ cache.rewrite \in BOOLEAN
         /\ undo.rows \in Seq(Ids) /\ undo.counts \in 0..MaxFills
         /\ undo.cursor \in 0..MaxNow /\ undo.cursor \in Nat
         /\ undo.seen \in 0..MaxNow /\ undo.seen \in Nat /\ undo.rewrite \in BOOLEAN
         /\ sync.asked \in 0..MaxNow /\ sync.asked \in Nat /\ sync.got \in SUBSET Ids
         /\ meta.stream \in Nat /\ meta.rev \in Nat /\ meta.rows \in Seq(Ids)
         /\ meta.cursor \in 0..MaxNow /\ meta.cursor \in Nat
         /\ meta.seen \in 0..MaxNow /\ meta.seen \in Nat
         /\ marker.stream \in Nat /\ marker.rev \in Nat
         /\ marker.time \in 0..MaxNow /\ marker.time \in Nat
<1>1. now \in 1..MaxNow /\ now \in Nat /\ now <= MaxNow
  BY NumbersTyped DEF CoreTyped
<1>2. /\ Executed \subseteq Ids /\ Len(fills) \in Nat /\ Executed = 1..Len(fills)
      /\ \A k \in Executed : fills[k] \in Nat
  <2>1. fills \in Seq(1..MaxNow) /\ Len(fills) <= MaxFills
    BY DEF CoreTyped
  <2>2. /\ Len(fills) \in Nat /\ Executed = 1..Len(fills)
        /\ \A k \in 1..Len(fills) : fills[k] \in 1..MaxNow
    BY <2>1, LenProperties, ElementOfSeq
  <2> QED BY <2>1, <2>2, NumbersTyped
<1>3. /\ cache.rows \in Seq(Ids) /\ cache.counts \in 0..MaxFills /\ cache.cursor \in 0..MaxNow
      /\ cache.seen \in 0..MaxNow /\ cache.rewrite \in BOOLEAN
  BY DEF CoreTyped, Caches, Rows
<1>4. /\ undo.rows \in Seq(Ids) /\ undo.counts \in 0..MaxFills /\ undo.cursor \in 0..MaxNow
      /\ undo.seen \in 0..MaxNow /\ undo.rewrite \in BOOLEAN
  BY DEF CoreTyped, Caches, Rows
<1>5. sync.asked \in 0..MaxNow /\ sync.got \in SUBSET Ids
  BY DEF CoreTyped
<1>6. /\ meta.stream \in Nat /\ meta.rev \in Nat /\ meta.rows \in Seq(Ids)
      /\ meta.cursor \in 0..MaxNow /\ meta.seen \in 0..MaxNow
      /\ marker.stream \in Nat /\ marker.rev \in Nat /\ marker.time \in 0..MaxNow
  BY DEF CoreTyped, Rows
<1>7. \A x : (x \in 0..MaxNow => x \in Nat) /\ (x \in 0..MaxFills => x \in Nat)
  BY NumbersTyped
<1> QED BY <1>1, <1>2, <1>3, <1>4, <1>5, <1>6, <1>7

LEMMA CoreFrame ==
  ASSUME CoreTyped, UNCHANGED <<venue, memory, threads, job, meta, marker, up>>
  PROVE  CoreTyped'
BY DEF CoreTyped, venue, memory, threads

LEMMA FilesFrame == FilesTyped /\ UNCHANGED <<data, prev>> => FilesTyped'
BY DEF FilesTyped

LEMMA ReadersFrame == ReadersTyped /\ UNCHANGED reader => ReadersTyped'
BY DEF ReadersTyped

LEMMA SpentFrame ==
  SpentTyped => /\ UNCHANGED spent => SpentTyped'
                /\ \A what \in {"crash", "append", "compact", "prune"} :
                     Spend(what) => SpentTyped'
BY DEF SpentTyped, Spend

--------------------------------------------------------------------------------
(* StateInv: the venue and the sync thread *)

LEMMA StateInit == Init => StateInv
<1> SUFFICES ASSUME Init PROVE StateInv
  OBVIOUS
<1> USE NumbersTyped DEF Init
<1>1. CoreTyped
  <2>1. /\ <<>> \in Seq(Ids) /\ <<>> \in Seq(1..MaxNow) /\ Len(<<>>) = 0
        /\ 0 \in 0..MaxFills /\ 0 \in 0..MaxNow /\ 1 \in 1..MaxNow
    OBVIOUS
  <2>2. NoUndo \in Caches
    BY <2>1 DEF Caches, Rows
  <2>3. /\ now \in 1..MaxNow /\ fills \in Seq(1..MaxNow) /\ Len(fills) <= MaxFills
        /\ cache \in Caches /\ undo \in Caches /\ ws \in BOOLEAN /\ up \in BOOLEAN
    <3>1. now \in 1..MaxNow /\ ws \in BOOLEAN /\ up \in BOOLEAN
      BY <2>1
    <3>2. fills \in Seq(1..MaxNow) /\ Len(fills) <= MaxFills
      BY <2>1
    <3>3. cache \in Caches /\ undo \in Caches
      BY <2>2
    <3> QED BY <3>1, <3>2, <3>3
  <2>4. sync \in [at : {"wait", "asked", "served", "merged", "synced", "saved", "pruned"},
                  asked : 0..MaxNow, got : SUBSET Ids]
    BY <2>1
  <2>5. job \in [by : {"none", "sync", "ws", "prune"}, kind : {"none", "append", "compact"},
                 step : {"none", "rows", "stage", "data", "meta", "discard", "remember", "publish"}]
    OBVIOUS
  <2>6. /\ meta \in [stream : Nat, rev : Nat, rows : Rows, cursor : 0..MaxNow, seen : 0..MaxNow]
        /\ marker \in [stream : Nat, rev : Nat, time : 0..MaxNow]
    BY <2>1 DEF Rows
  <2> QED BY <2>3, <2>4, <2>5, <2>6 DEF CoreTyped
<1>2. FilesTyped /\ ReadersTyped /\ SpentTyped
  <2>1. FilesTyped
    BY DEF FilesTyped
  <2>2. ReadersTyped
    BY DEF ReadersTyped, Rows, Versions
  <2>3. SpentTyped
    BY DEF SpentTyped
  <2> QED BY <2>1, <2>2, <2>3
<1>3. ThreadInv
  BY DEF ThreadInv, Stopped, JobShape, JobThread, AppendFits, Requests, Undoable, Clocks,
         Sound, IsInjective, Range
<1>4. MemoryInv
  BY DEF MemoryInv, RowsSound, MemoryHasFile, UnsavedIsNew, CountedIsSaved, CommitSaves,
         FileNotAhead, Committed, Sound, IsInjective, Range
<1>5. ReaderInv
  BY DEF ReaderInv, VersionsPast, ReadersMatch, LoadedIsAsked, PermitBounded, Version, Older
<1>6. StoredInv
  <2>1. Len(<<>>) = 0 /\ SubSeq(<<>>, 1, 0) = <<>>
    OBVIOUS
  <2> QED BY <2>1 DEF StoredInv, FileReady, Written, Certifies
<1> QED BY <1>1, <1>2, <1>3, <1>4, <1>5, <1>6, TypeParts DEF StateInv

LEMMA TickState ==
  ASSUME StateInv, Tick
  PROVE  StateInv'
<1> USE NumbersTyped
<1>1. CoreTyped /\ FilesTyped /\ ReadersTyped /\ SpentTyped
  BY TypeParts DEF StateInv
<1>2. now' = now + 1 /\ now' <= MaxNow /\ now \in Nat /\ UNCHANGED <<fills, memory, threads, job, files, marker, up, reader, spent>>
  BY <1>1 DEF Tick, CoreTyped
<1>3. TypeOK'
  <2>1. CoreTyped'
    BY <1>1, <1>2 DEF CoreTyped, memory, threads, files
  <2>2. UNCHANGED <<data, prev>>
    BY <1>2 DEF files
  <2> QED BY <1>1, <1>2, <2>1, <2>2, FilesFrame, ReadersFrame, SpentFrame, TypeParts
<1>4. ThreadInv'
  <2>1. Stopped' /\ JobShape' /\ JobThread' /\ AppendFits' /\ Undoable'
    BY <1>2 DEF StateInv, ThreadInv, Stopped, JobShape, JobThread, AppendFits, Undoable, Sound,
                memory, threads
  <2>2. Requests'
    <3>1. sync.asked <= now + 1
      BY <1>1, <1>2 DEF StateInv, ThreadInv, Requests, CoreTyped
    <3> QED BY <1>2, <3>1 DEF StateInv, ThreadInv, Requests, CursorAfter, memory, threads
  <2>3. Clocks'
    <3>1. meta.cursor < now + 1 /\ cache.cursor < now + 1
      <4>1. Clocks
        BY DEF StateInv, ThreadInv
      <4>2. meta.cursor \in Nat /\ cache.cursor \in Nat /\ now \in Nat
        BY <1>1, CoreFacts
      <4> QED BY <4>1, <4>2 DEF Clocks
    <3> QED BY <1>2, <3>1 DEF StateInv, ThreadInv, Clocks, memory, files
  <2> QED BY <2>1, <2>2, <2>3 DEF ThreadInv
<1>5. \A k \in Executed : Expired(k) => Expired(k)'
  <2>1. \A k \in Executed : fills[k] \in Nat
    BY <1>1 DEF CoreTyped
  <2> QED BY <1>2, <2>1 DEF Expired
<1>6. MemoryInv'
  <2>1. \A k \in Range(meta.rows) : Expired(k) => Expired(k)'
    BY <1>5 DEF StateInv, MemoryInv, RowsSound, Sound
  <2> QED BY <1>2, <2>1 DEF StateInv, MemoryInv, RowsSound, MemoryHasFile, UnsavedIsNew, CountedIsSaved,
         CommitSaves, FileNotAhead, Committed, Sound, memory, threads, files
<1>7. ReaderInv'
  <2>1. \A r \in Readers : reader[r].permit.expires \in Nat
    BY <1>1 DEF ReadersTyped
  <2> QED BY <1>2, <2>1 DEF StateInv, ReaderInv, VersionsPast, ReadersMatch, LoadedIsAsked, PermitBounded,
         Version, files
<1>8. StoredInv'
  BY <1>2, StoredFrame DEF StateInv, memory, files
<1> QED BY <1>3, <1>4, <1>6, <1>7, <1>8 DEF StateInv

LEMMA FillState ==
  ASSUME StateInv, Fill
  PROVE  StateInv'
<1> USE NumbersTyped
<1>1. CoreTyped /\ FilesTyped /\ ReadersTyped /\ SpentTyped
  BY TypeParts DEF StateInv
<1>2. /\ fills' = Append(fills, now) /\ Len(fills) < MaxFills
      /\ UNCHANGED <<now, memory, threads, job, files, marker, up, reader, spent>>
  BY DEF Fill
<1>3. /\ Executed \subseteq Executed'
      /\ \A k \in Executed : fills'[k] = fills[k]
      /\ fills' \in Seq(1..MaxNow) /\ Len(fills') <= MaxFills
  <2>1. fills \in Seq(1..MaxNow) /\ now \in 1..MaxNow
    BY <1>1 DEF CoreTyped
  <2>2. /\ fills' \in Seq(1..MaxNow) /\ Len(fills') = Len(fills) + 1 /\ Len(fills) \in Nat
        /\ DOMAIN fills = 1..Len(fills) /\ DOMAIN fills' = 1..Len(fills')
        /\ \A k \in 1..Len(fills) : fills'[k] = fills[k]
    BY <1>2, <2>1, LenProperties, AppendProperties
  <2> QED BY <1>2, <2>2
<1>4. TypeOK'
  <2>1. CoreTyped'
    BY <1>1, <1>2, <1>3 DEF CoreTyped, memory, threads, files
  <2>2. UNCHANGED <<data, prev>>
    BY <1>2 DEF files
  <2> QED BY <1>1, <1>2, <2>1, <2>2, FilesFrame, ReadersFrame, SpentFrame, TypeParts
<1>5. ThreadInv'
  BY <1>2, <1>3 DEF StateInv, ThreadInv, Stopped, JobShape, JobThread, AppendFits, Requests,
         Undoable, Clocks, Sound, CursorAfter, memory, threads, files
<1>6. MemoryInv'
  <2>1. \A k \in Range(meta.rows) : k \in Executed /\ (Expired(k) => Expired(k)')
    BY <1>2, <1>3 DEF StateInv, MemoryInv, RowsSound, Sound, Expired
  <2> QED BY <1>2, <1>3, <2>1 DEF StateInv, MemoryInv, RowsSound, MemoryHasFile, UnsavedIsNew, CountedIsSaved,
         CommitSaves, FileNotAhead, Committed, Sound, memory, threads, files
<1>7. ReaderInv'
  BY <1>2, ReaderFrame DEF StateInv, files
<1>8. StoredInv'
  BY <1>2, StoredFrame DEF StateInv, memory, files
<1> QED BY <1>4, <1>5, <1>6, <1>7, <1>8 DEF StateInv

\* Steps of the sync thread that touch nothing else, outside saves and pruning.
LEMMA SyncOnly ==
  ASSUME StateInv, up,
         sync.at \in {"wait", "asked", "served", "saved"},
         sync'.at \in {"wait", "asked", "served", "synced"},
         sync' \in [at : {"wait", "asked", "served", "merged", "synced", "saved", "pruned"},
                    asked : 0..MaxNow, got : SUBSET Ids],
         Requests',
         UNCHANGED <<venue, memory, ws, job, files, marker, up, reader, spent>>
  PROVE  StateInv'
<1>1. UNCHANGED <<now, fills, cache, undo, ws, job, data, prev, meta, marker, up, reader, spent>>
  BY DEF venue, memory, files
<1>2. TypeOK'
  <2>1. CoreTyped'
    BY <1>1, TypeParts DEF StateInv, CoreTyped
  <2> QED BY <1>1, <2>1, TypeParts, FilesFrame, ReadersFrame, SpentFrame DEF StateInv
<1>3. ThreadInv'
  <2>1. Stopped' /\ JobShape' /\ JobThread' /\ AppendFits'
    BY <1>1 DEF StateInv, ThreadInv, Stopped, JobShape, JobThread, AppendFits
  <2>2. Undoable' /\ Clocks'
    BY <1>1 DEF StateInv, ThreadInv, Undoable, Clocks, Sound
  <2> QED BY <2>1, <2>2 DEF ThreadInv
<1>4. MemoryInv'
  BY <1>1 DEF StateInv, MemoryInv, RowsSound, MemoryHasFile, UnsavedIsNew, CountedIsSaved,
              CommitSaves, FileNotAhead, Committed, Sound
<1>5. ReaderInv'
  BY <1>1, ReaderFrame DEF StateInv
<1>6. StoredInv'
  BY <1>1, StoredFrame DEF StateInv
<1> QED BY <1>2, <1>3, <1>4, <1>5, <1>6 DEF StateInv

LEMMA RequestState ==
  ASSUME StateInv, Ask \/ Serve \/ RestFails \/ Rest
  PROVE  StateInv'
<1> USE NumbersTyped
<1>0. /\ CoreTyped /\ now \in 1..MaxNow /\ cache.cursor \in Nat /\ cache.cursor < now
      /\ Requests /\ sync.asked \in 0..MaxNow /\ Executed \subseteq Ids
      /\ sync = [at |-> sync.at, asked |-> sync.asked, got |-> sync.got]
  <2>1. CoreTyped
    BY TypeParts DEF StateInv
  <2>2. Executed \subseteq Ids
    BY <2>1, LenProperties DEF CoreTyped
  <2>3. now \in 1..MaxNow /\ cache.cursor \in Nat /\ sync.asked \in 0..MaxNow
    BY <2>1 DEF CoreTyped, Caches
  <2>4. sync = [at |-> sync.at, asked |-> sync.asked, got |-> sync.got]
    BY <2>1 DEF CoreTyped
  <2> QED BY <2>1, <2>2, <2>3, <2>4 DEF StateInv, ThreadInv, Clocks
<1>1. CASE Ask
  <2>1. sync' = [at |-> "asked", asked |-> now, got |-> {}] /\ sync.at = "wait" /\ up
    BY <1>1 DEF Ask
  <2>2. UNCHANGED <<venue, memory, ws, job, files, marker, up, reader, spent>>
    BY <1>1 DEF Ask
  <2>3. Requests'
    BY <1>0, <2>1, <2>2 DEF Requests, venue, memory
  <2> QED BY <1>0, <2>1, <2>2, <2>3, SyncOnly
<1>2. CASE Serve
  <2> DEFINE got == {k \in Executed : fills[k] >= RestStart}
  <2>1. sync' = [at |-> "served", asked |-> sync.asked, got |-> got] /\ sync.at = "asked" /\ up
    BY <1>0, <1>2 DEF Serve
  <2>2. UNCHANGED <<venue, memory, ws, job, files, marker, up, reader, spent>>
    BY <1>2 DEF Serve
  <2>3. got \subseteq Executed
    OBVIOUS
  <2> HIDE DEF got
  <2>4. Requests'
    BY <1>0, <2>1, <2>2, <2>3 DEF Requests, venue, memory
  <2> QED BY <1>0, <2>1, <2>2, <2>3, <2>4, SyncOnly
<1>3. CASE RestFails \/ Rest
  <2>1. sync' = [at |-> "wait", asked |-> 0, got |-> {}] /\ up
        /\ sync.at \in {"asked", "served", "saved"}
    BY <1>3 DEF RestFails, Rest
  <2>2. UNCHANGED <<venue, memory, ws, job, files, marker, up, reader, spent>>
    BY <1>3 DEF RestFails, Rest
  <2>3. Requests'
    BY <1>0, <2>1, <2>2 DEF Requests, venue, memory
  <2> QED BY <1>0, <2>1, <2>2, <2>3, SyncOnly
<1> QED BY <1>1, <1>2, <1>3

--------------------------------------------------------------------------------
(* StateInv: rows come to memory *)

LEMMA RowsAdded ==
  ASSUME StateInv, up, job = NoJob,
         NEW new \in SUBSET Executed,
         \A k \in new : sync.at = "pruned" => ~Expired(k),
         cache'.rows = Merged(cache, new).rows, cache'.counts = cache.counts,
         cache'.rewrite = cache.rewrite, cache.seen <= cache'.seen, cache'.seen \in Nat,
         sync'.at = "pruned" <=> sync.at = "pruned",
         UNCHANGED <<venue, job, meta, up>>
  PROVE  MemoryInv'
<1> DEFINE rows == Merged(cache, new).rows
<1>0. /\ CoreTyped /\ cache \in Caches /\ IsInjective(cache.rows) /\ now \in Nat
      /\ new \in SUBSET Ids /\ RowsSound /\ cache.counts \in Nat
      /\ cache.seen \in Nat /\ meta.seen \in Nat
  <2>1. CoreTyped
    BY TypeParts DEF StateInv
  <2>2. cache \in Caches
    BY <2>1 DEF CoreTyped
  <2>3. RowsSound /\ IsInjective(cache.rows)
    BY DEF StateInv, MemoryInv, RowsSound, Sound
  <2> QED BY <2>1, <2>2, <2>3, CoreFacts
<1>1. /\ rows \in Seq(Ids) /\ IsInjective(rows)
      /\ Range(rows) = Range(cache.rows) \cup new
      /\ cache.counts <= Len(cache.rows) => cache.counts <= Len(rows)
      /\ \A i \in DOMAIN rows :
           /\ i <= cache.counts /\ cache.counts <= Len(cache.rows) =>
                i \in DOMAIN cache.rows /\ rows[i] = cache.rows[i]
           /\ i > cache.counts =>
                \/ rows[i] \in new \ Range(cache.rows)
                \/ \E j \in DOMAIN cache.rows :
                     j > cache.counts /\ rows[i] = cache.rows[j]
  BY <1>0, MergedRows
<1>2. cache'.rows = rows /\ UNCHANGED <<now, fills, job, meta, up>>
  BY DEF venue
<1> HIDE DEF rows
<1>3. RowsSound'
  BY <1>0, <1>1, <1>2 DEF RowsSound, Sound
<1>4. MemoryHasFile'
  BY <1>1, <1>2 DEF StateInv, MemoryInv, MemoryHasFile, Expired
<1>5. UnsavedIsNew'
  <2> SUFFICES ASSUME ~cache.rewrite, NEW i \in DOMAIN rows, i > cache.counts,
                      rows[i] \in Range(meta.rows)
               PROVE  FALSE
    BY <1>2 DEF UnsavedIsNew
  <2>1. CASE rows[i] \in new \ Range(cache.rows)
    BY <2>1 DEF StateInv, MemoryInv, MemoryHasFile
  <2>2. CASE \E j \in DOMAIN cache.rows : j > cache.counts /\ rows[i] = cache.rows[j]
    BY <2>2 DEF StateInv, MemoryInv, UnsavedIsNew, Committed
  <2> QED BY <1>1, <2>1, <2>2
<1>6. CountedIsSaved'
  <2> SUFFICES ASSUME ~cache.rewrite, sync.at # "pruned"
               PROVE  /\ cache.counts <= Len(rows)
                      /\ \A i \in DOMAIN rows : i <= cache.counts => rows[i] \in Range(meta.rows)
    BY <1>2 DEF CountedIsSaved
  <2>1. /\ cache.counts <= Len(cache.rows)
        /\ \A i \in DOMAIN cache.rows : i <= cache.counts => cache.rows[i] \in Range(meta.rows)
    BY DEF StateInv, MemoryInv, CountedIsSaved
  <2> QED BY <1>1, <2>1
<1>7. CommitSaves'
  BY <1>2 DEF CommitSaves, Committed
<1>8. FileNotAhead'
  BY <1>0, <1>2 DEF StateInv, MemoryInv, FileNotAhead
<1> QED BY <1>3, <1>4, <1>5, <1>6, <1>7, <1>8 DEF MemoryInv

LEMMA MergeState ==
  ASSUME StateInv, Merge
  PROVE  StateInv'
<1> USE NumbersTyped
<1> DEFINE m == Merged(cache, sync.got)
<1>0. CoreTyped /\ FilesTyped /\ ReadersTyped /\ SpentTyped
  BY TypeParts DEF StateInv
<1>1. /\ up /\ sync.at = "served" /\ job = NoJob /\ cache' = m
      /\ sync' = [at |-> "merged", asked |-> sync.asked, got |-> {}]
      /\ UNCHANGED <<now, fills, undo, ws, job, data, prev, meta, marker, up, reader, spent>>
  <2>1. sync' = [sync EXCEPT !.at = "merged", !.got = {}]
    BY DEF Merge
  <2>2. sync' = [at |-> "merged", asked |-> sync.asked, got |-> {}]
    BY <1>0, <2>1 DEF CoreTyped
  <2> QED BY <2>2 DEF Merge, Free, venue, files
<1>2. /\ cache \in Caches /\ IsInjective(cache.rows) /\ now \in Nat /\ now <= MaxNow
      /\ sync.got \in SUBSET Ids /\ sync.got \in SUBSET Executed /\ cache.seen \in 0..MaxNow
      /\ cache.cursor < sync.asked /\ sync.asked <= now /\ sync.asked \in 0..MaxNow
  <2>1. cache \in Caches
    BY <1>0 DEF CoreTyped
  <2>2. IsInjective(cache.rows)
    BY DEF StateInv, MemoryInv, RowsSound, Sound
  <2>3. cache.cursor < sync.asked /\ sync.asked <= now /\ sync.got \in SUBSET Executed
    BY <1>1 DEF StateInv, ThreadInv, Requests
  <2> QED BY <1>0, <2>1, <2>2, <2>3, CoreFacts
<1>3. /\ m \in [rows : Seq(Ids), counts : {cache.counts}, cursor : {cache.cursor},
                seen : {cache.seen, now}, rewrite : {cache.rewrite}]
      /\ cache.seen <= m.seen
  BY <1>2, MergedRows
<1> HIDE DEF m
<1>4. m.seen \in 0..MaxNow /\ m.seen \in Nat
  BY <1>2, <1>3
<1>5. /\ cache'.rows = m.rows /\ cache'.counts = cache.counts /\ cache'.cursor = cache.cursor
      /\ cache'.rewrite = cache.rewrite /\ cache'.seen = m.seen
  BY <1>1, <1>3
<1>6. TypeOK'
  <2>1. cache' \in Caches
    BY <1>0, <1>1, <1>3, <1>4, CoreFacts DEF Caches, Rows
  <2>2. CoreTyped'
    BY <1>0, <1>1, <1>2, <2>1 DEF CoreTyped
  <2> QED BY <1>0, <1>1, <2>2, TypeParts, FilesFrame, ReadersFrame, SpentFrame
<1>7. ThreadInv'
  <2>1. Stopped' /\ JobShape' /\ JobThread' /\ AppendFits'
    BY <1>1, <1>5 DEF StateInv, ThreadInv, Stopped, JobShape, JobThread, AppendFits
  <2>2. Requests' /\ Undoable' /\ Clocks'
    BY <1>1, <1>2, <1>5 DEF StateInv, ThreadInv, Requests, Undoable, Clocks, Sound
  <2> QED BY <2>1, <2>2 DEF ThreadInv
<1>8. MemoryInv'
  <2>1. cache'.rows = Merged(cache, sync.got).rows
    BY <1>5 DEF m
  <2>2. UNCHANGED <<venue, job, meta, up>> /\ sync.at # "pruned" /\ sync'.at # "pruned"
    BY <1>1 DEF venue
  <2> QED BY <1>1, <1>2, <1>3, <1>4, <1>5, <2>1, <2>2, RowsAdded
<1>9. ReaderInv'
  BY <1>1, ReaderFrame DEF StateInv
<1>10. StoredInv'
  BY <1>1, <1>5, StoredFrame DEF StateInv
<1> QED BY <1>6, <1>7, <1>8, <1>9, <1>10 DEF StateInv

LEMMA AdvanceState ==
  ASSUME StateInv, Advance
  PROVE  StateInv'
<1> USE NumbersTyped
<1> DEFINE cursor == CursorAfter(sync.asked)
<1>0. CoreTyped /\ FilesTyped /\ ReadersTyped /\ SpentTyped
  BY TypeParts DEF StateInv
<1>1. /\ up /\ sync.at = "merged" /\ job = NoJob
      /\ cache' = [cache EXCEPT !.cursor = cursor, !.seen = Max2(@, cursor)]
      /\ sync' = [sync EXCEPT !.at = "synced"]
      /\ UNCHANGED <<now, fills, undo, ws, job, data, prev, meta, marker, up, reader, spent>>
  BY DEF Advance, Free, venue, files
<1>2. /\ cache \in Caches /\ now \in Nat /\ now <= MaxNow
      /\ cache.seen \in 0..MaxNow /\ cache.seen \in Nat /\ cache.cursor \in Nat
      /\ cache.cursor < sync.asked /\ sync.asked <= now /\ sync.asked \in 0..MaxNow
  <2>1. cache.cursor < sync.asked /\ sync.asked <= now
    BY <1>1 DEF StateInv, ThreadInv, Requests
  <2> QED BY <1>0, <2>1, CoreFacts DEF CoreTyped
<1>3. cursor = sync.asked - 1 /\ cursor \in 0..MaxNow /\ cursor < now /\ cache.cursor <= cursor
  BY <1>2 DEF CursorAfter
<1> HIDE DEF cursor
<1>4. Max2(cache.seen, cursor) \in 0..MaxNow /\ cache.seen <= Max2(cache.seen, cursor)
  BY <1>2, <1>3 DEF Max2
<1>5. /\ cache'.rows = cache.rows /\ cache'.counts = cache.counts /\ cache'.cursor = cursor
      /\ cache'.rewrite = cache.rewrite /\ cache'.seen = Max2(cache.seen, cursor)
  BY <1>1, <1>2 DEF Caches
<1>6. sync' = [at |-> "synced", asked |-> sync.asked, got |-> sync.got]
  BY <1>0, <1>1 DEF CoreTyped
<1>7. TypeOK'
  <2>1. cache' \in Caches
    BY <1>1, <1>2, <1>3, <1>4 DEF Caches
  <2>2. CoreTyped'
    BY <1>0, <1>1, <1>2, <1>6, <2>1 DEF CoreTyped
  <2> QED BY <1>0, <1>1, <2>2, TypeParts, FilesFrame, ReadersFrame, SpentFrame
<1>8. ThreadInv'
  <2>1. Stopped' /\ JobShape' /\ JobThread' /\ AppendFits'
    BY <1>1, <1>5, <1>6 DEF StateInv, ThreadInv, Stopped, JobShape, JobThread, AppendFits
  <2>2. Requests'
    BY <1>1, <1>2, <1>3, <1>5, <1>6 DEF StateInv, ThreadInv, Requests, CursorAfter, cursor
  <2>3. Undoable'
    BY <1>1, <1>6 DEF StateInv, ThreadInv, Undoable, Sound
  <2>4. Clocks'
    <3>1. meta.cursor \in Nat
      BY <1>0 DEF CoreTyped
    <3> QED BY <1>1, <1>2, <1>3, <1>5, <3>1 DEF StateInv, ThreadInv, Clocks
  <2> QED BY <2>1, <2>2, <2>3, <2>4 DEF ThreadInv
<1>9. MemoryInv'
  <2>1. RowsSound' /\ MemoryHasFile' /\ UnsavedIsNew' /\ CountedIsSaved' /\ CommitSaves'
    BY <1>1, <1>5, <1>6 DEF StateInv, MemoryInv, RowsSound, MemoryHasFile, UnsavedIsNew,
                            CountedIsSaved, CommitSaves, Committed, Sound, Expired
  <2>2. FileNotAhead'
    <3>1. meta.seen \in Nat
      BY <1>0 DEF CoreTyped
    <3> QED BY <1>1, <1>2, <1>3, <1>4, <1>5, <3>1 DEF StateInv, MemoryInv, FileNotAhead
  <2> QED BY <2>1, <2>2 DEF MemoryInv
<1>10. ReaderInv'
  BY <1>1, ReaderFrame DEF StateInv
<1>11. StoredInv'
  BY <1>1, <1>5, StoredFrame DEF StateInv
<1> QED BY <1>7, <1>8, <1>9, <1>10, <1>11 DEF StateInv

LEMMA PushState ==
  ASSUME StateInv, NEW k \in Ids, Push(k)
  PROVE  StateInv'
<1> USE NumbersTyped
<1> DEFINE m == Merged(cache, {k})
<1>0. CoreTyped /\ FilesTyped /\ ReadersTyped /\ SpentTyped
  BY TypeParts DEF StateInv
<1>1. /\ up /\ job = NoJob /\ k \in Executed /\ ~Expired(k) /\ cache' = m /\ ws' = TRUE
      /\ UNCHANGED <<now, fills, undo, sync, job, data, prev, meta, marker, up, reader, spent>>
  BY DEF Push, Free, venue, files
<1>2. /\ cache \in Caches /\ IsInjective(cache.rows) /\ now \in Nat /\ now <= MaxNow
      /\ {k} \in SUBSET Ids /\ {k} \in SUBSET Executed /\ cache.seen \in 0..MaxNow
  <2>1. cache \in Caches
    BY <1>0 DEF CoreTyped
  <2>2. IsInjective(cache.rows)
    BY DEF StateInv, MemoryInv, RowsSound, Sound
  <2> QED BY <1>0, <1>1, <2>1, <2>2, CoreFacts
<1>3. /\ m \in [rows : Seq(Ids), counts : {cache.counts}, cursor : {cache.cursor},
                seen : {cache.seen, now}, rewrite : {cache.rewrite}]
      /\ cache.seen <= m.seen
  BY <1>2, MergedRows
<1> HIDE DEF m
<1>4. m.seen \in 0..MaxNow /\ m.seen \in Nat
  BY <1>2, <1>3
<1>5. /\ cache'.rows = m.rows /\ cache'.counts = cache.counts /\ cache'.cursor = cache.cursor
      /\ cache'.rewrite = cache.rewrite /\ cache'.seen = m.seen
  BY <1>1, <1>3
<1>6. TypeOK'
  <2>1. cache' \in Caches
    BY <1>0, <1>1, <1>3, <1>4, CoreFacts DEF Caches, Rows
  <2>2. CoreTyped'
    BY <1>0, <1>1, <2>1 DEF CoreTyped
  <2> QED BY <1>0, <1>1, <2>2, TypeParts, FilesFrame, ReadersFrame, SpentFrame
<1>7. ThreadInv'
  BY <1>1, <1>5 DEF StateInv, ThreadInv, Stopped, JobShape, JobThread, AppendFits, Requests,
                    Undoable, Clocks, Sound, CursorAfter
<1>8. MemoryInv'
  <2>1. cache'.rows = Merged(cache, {k}).rows
    BY <1>5 DEF m
  <2>2. UNCHANGED <<venue, job, meta, up>> /\ sync' = sync
    BY <1>1 DEF venue
  <2> QED BY <1>1, <1>2, <1>3, <1>4, <1>5, <2>1, <2>2, RowsAdded
<1>9. ReaderInv'
  BY <1>1, ReaderFrame DEF StateInv
<1>10. StoredInv'
  BY <1>1, <1>5, StoredFrame DEF StateInv
<1> QED BY <1>6, <1>7, <1>8, <1>9, <1>10 DEF StateInv

--------------------------------------------------------------------------------
(* StateInv: saves, up to the manifest *)

Syncs == [at : {"wait", "asked", "served", "merged", "synced", "saved", "pruned"},
          asked : 0..MaxNow, got : SUBSET Ids]
Jobs == [by : {"none", "sync", "ws", "prune"}, kind : {"none", "append", "compact"},
         step : {"none", "rows", "stage", "data", "meta", "discard", "remember", "publish"}]

\* Steps of a save that change neither memory nor the manifest.
LEMMA SaveMoves ==
  ASSUME StateInv, up, ~Committed, ~Committed',
         sync' \in Syncs, ws' \in BOOLEAN, job' \in Jobs,
         JobShape', JobThread', AppendFits', Requests',
         sync'.at = "pruned" <=> sync.at = "pruned",
         FilesTyped', SpentTyped', StoredInv',
         UNCHANGED <<venue, memory, meta, marker, up, reader>>
  PROVE  StateInv'
<1>1. UNCHANGED <<now, fills, cache, undo, meta, marker, up, reader>>
  BY DEF venue, memory
<1>2. TypeOK'
  <2>1. CoreTyped'
    BY <1>1, TypeParts DEF StateInv, CoreTyped, Syncs, Jobs
  <2>2. ReadersTyped'
    BY <1>1, TypeParts, ReadersFrame DEF StateInv
  <2> QED BY <2>1, <2>2, TypeParts
<1>3. ThreadInv'
  <2>1. Stopped'
    BY <1>1 DEF Stopped
  <2>2. Undoable' /\ Clocks'
    BY <1>1 DEF StateInv, ThreadInv, Undoable, Clocks, Sound
  <2> QED BY <2>1, <2>2 DEF ThreadInv
<1>4. MemoryInv'
  <2>1. CommitSaves'
    BY DEF CommitSaves
  <2>2. RowsSound' /\ MemoryHasFile' /\ UnsavedIsNew' /\ CountedIsSaved' /\ FileNotAhead'
    BY <1>1 DEF StateInv, MemoryInv, RowsSound, MemoryHasFile, UnsavedIsNew, CountedIsSaved,
                FileNotAhead, Sound, Expired
  <2> QED BY <2>1, <2>2 DEF MemoryInv
<1>5. ReaderInv'
  BY <1>1, ReaderFrame DEF StateInv
<1> QED BY <1>2, <1>3, <1>4, <1>5 DEF StateInv

\* What the end of a save does to the threads
LEMMA Returns ==
  ASSUME CoreTyped, ThreadInv, NEW by \in {"sync", "ws", "prune"}, NEW ok, Return(by, ok),
         by = "sync" => sync.at = "synced",
         by = "prune" => sync.at = "pruned"
  PROVE  /\ job' = NoJob /\ job' \in Jobs /\ sync' \in Syncs /\ ws' \in BOOLEAN
         /\ ~Committed' /\ JobShape' /\ JobThread' /\ AppendFits'
         /\ UNCHANGED <<now, cache, fills>> => Requests'
         /\ sync' = sync \/ sync' = [at |-> "saved", asked |-> 0, got |-> {}]
                         \/ sync' = [at |-> "wait", asked |-> 0, got |-> {}]
         /\ by = "ws" => sync' = sync
         /\ by # "ws" => sync'.at \in {"wait", "saved"} /\ sync'.asked = 0 /\ sync'.got = {}
         /\ by # "prune" => (sync'.at = "pruned" <=> sync.at = "pruned")
         /\ by = "prune" => sync'.at = "wait"
         /\ by = "sync" => sync'.at = "saved"
<1> USE NumbersTyped
<1>1. job' = NoJob /\ ws' = (ws /\ by # "ws")
  BY DEF Return
<1>2. /\ by = "ws" => sync' = sync
      /\ by = "sync" => sync' = [at |-> "saved", asked |-> 0, got |-> {}]
      /\ by = "prune" => sync' = [at |-> "wait", asked |-> 0, got |-> {}]
  BY DEF Return
<1>3. sync \in Syncs /\ ws \in BOOLEAN
  BY DEF CoreTyped, Syncs
<1>4. job' \in Jobs /\ sync' \in Syncs /\ ws' \in BOOLEAN
  <2>1. 0 \in 0..MaxNow
    OBVIOUS
  <2> QED BY <1>1, <1>2, <1>3, <2>1 DEF Jobs, Syncs
<1>5. ~Committed' /\ JobShape' /\ JobThread' /\ AppendFits'
  BY <1>1 DEF Committed, JobShape, JobThread, AppendFits
<1>6. ASSUME UNCHANGED <<now, cache, fills>> PROVE Requests'
  <2>1. CASE by = "ws"
    BY <1>2, <1>6, <2>1 DEF ThreadInv, Requests, CursorAfter
  <2>2. CASE by # "ws"
    <3>1. sync'.at \in {"wait", "saved"} /\ sync'.asked = 0 /\ sync'.got = {}
      BY <1>2, <2>2
    <3>2. 0 <= now
      BY CoreFacts
    <3> QED BY <1>6, <3>1, <3>2 DEF Requests
  <2> QED BY <2>1, <2>2
<1> QED BY <1>1, <1>2, <1>4, <1>5, <1>6

LEMMA SaveState ==
  ASSUME StateInv, NEW by \in {"sync", "ws"}, Save(by)
  PROVE  StateInv'
<1>0. CoreTyped /\ FilesTyped /\ SpentTyped /\ ThreadInv /\ MemoryInv /\ StoredInv
  BY TypeParts DEF StateInv
<1>1. /\ up /\ job = NoJob
      /\ by = "sync" => sync.at = "synced"
      /\ UNCHANGED <<venue, memory, meta, marker, up, reader, data, prev, spent>>
      /\ UNCHANGED <<now, cache, fills>>
  BY DEF Save, Free, files, venue, memory
<1>2. FilesTyped' /\ SpentTyped' /\ ~Committed
  BY <1>0, <1>1, FilesFrame, SpentFrame DEF Committed
<1>3. CASE meta.seen > cache.seen
  <2>1. Return(by, FALSE)
    BY <1>3 DEF Save
  <2>2. /\ job' = NoJob /\ job' \in Jobs /\ sync' \in Syncs /\ ws' \in BOOLEAN
        /\ ~Committed' /\ JobShape' /\ JobThread' /\ AppendFits' /\ Requests'
        /\ sync'.at = "pruned" <=> sync.at = "pruned"
    BY <1>0, <1>1, <2>1, Returns
  <2>3. StoredInv'
    BY <1>0, <1>1, <2>2, StoredFrame
  <2> QED BY <1>1, <1>2, <2>2, <2>3, SaveMoves
<1>4. CASE ~(meta.seen > cache.seen)
  <2>1. /\ job' = [by |-> by, kind |-> Kind, step |-> FirstStep(Kind)]
        /\ sync' = sync /\ ws' = ws
    BY <1>4 DEF Save, threads
  <2>2. \/ Kind = "append" /\ FirstStep(Kind) = "rows" /\ ~cache.rewrite
                          /\ ~(cache.counts > Len(cache.rows))
        \/ Kind = "compact" /\ FirstStep(Kind) = "stage"
    BY DEF Kind, FirstStep
  <2>3. job' \in Jobs /\ ~Committed' /\ JobShape' /\ JobThread'
    BY <1>1, <2>1, <2>2 DEF Jobs, Committed, JobShape, JobThread
  <2>4. AppendFits'
    <3>1. Len(cache.rows) \in Nat /\ cache.counts \in Nat
      BY <1>0, CoreFacts, LenProperties
    <3> QED BY <1>1, <2>1, <2>2, <3>1 DEF AppendFits
  <2>5. Requests' /\ sync' \in Syncs /\ ws' \in BOOLEAN
    BY <1>0, <1>1, <2>1 DEF ThreadInv, Requests, CursorAfter, CoreTyped, Syncs
  <2>6. StoredInv'
    BY <1>0, <1>1, <2>1, <2>2 DEF StoredInv, FileReady, Written, Committed, Certifies
  <2> QED BY <1>1, <1>2, <2>1, <2>3, <2>4, <2>5, <2>6, SaveMoves
<1> QED BY <1>3, <1>4

\* An append finds the certified rows in the file, and leaves them there however
\* it ends.
LEMMA AppendFiles ==
  ASSUME StateInv, job.kind = "append", job.step \in {"rows", "meta"}
  PROVE  /\ up /\ job.by \in {"sync", "ws"} /\ ~cache.rewrite /\ ~Committed
         /\ cache.counts <= Len(cache.rows)
         /\ Certifies(data, meta) /\ Boundary = meta.rows /\ Unsaved \in Seq(Ids)
         /\ \A f \in PartialAppends \cup {Boundary, Boundary \o Unsaved} :
              f \in Seq(Ids \cup {Torn}) /\ Certifies(f, meta)
<1> DEFINE R == Ids \cup {Torn}
<1>0. CoreTyped /\ FilesTyped /\ ThreadInv /\ StoredInv
  BY TypeParts DEF StateInv
<1>1. up /\ job.by \in {"sync", "ws"} /\ ~cache.rewrite /\ cache.counts <= Len(cache.rows)
      /\ ~Committed
  BY <1>0 DEF ThreadInv, Stopped, JobShape, AppendFits, Committed
<1>2. Certifies(data, meta) /\ Boundary = meta.rows
  BY <1>0, <1>1 DEF StoredInv, FileReady, Certifies, Boundary
<1>3. /\ meta.rows \in Seq(Ids) /\ Unsaved \in Seq(Ids) /\ data \in Seq(R)
      /\ Len(Unsaved) \in Nat /\ \A i \in 1..Len(Unsaved) : Unsaved[i] \in Ids
  <2>1. Unsaved \in Seq(Ids)
    BY <1>0, <1>1, CoreFacts, UnsavedRows
  <2> QED BY <1>0, <2>1, CoreFacts, LenProperties, ElementOfSeq DEF FilesTyped
<1>4. Seq(Ids) \subseteq Seq(R)
  BY SeqMonotonic
<1>5. \A f \in Seq(R) : meta.rows \o f \in Seq(R) /\ Certifies(meta.rows \o f, meta)
  BY <1>3, <1>4, StartsCertified, Joined
<1>6. \A i \in 0..Len(Unsaved) : SubSeq(Unsaved, 1, i) \in Seq(R)
  <2> TAKE i \in 0..Len(Unsaved)
  <2> DEFINE u == Unsaved
  <2>1. 1 \in Int /\ i \in Int /\ \A j \in 1..i : u[j] \in Ids
    BY <1>3
  <2>2. SubSeq(u, 1, i) \in Seq(Ids)
    <3> HIDE DEF u
    <3> QED BY <2>1, SubSeqProperties
  <2> QED BY <1>4, <2>2
<1>7. <<Torn>> \in Seq(R)
  OBVIOUS
<1>8. ASSUME NEW i \in 0..Len(Unsaved)
      PROVE  /\ Boundary \o SubSeq(Unsaved, 1, i) \in Seq(R)
             /\ Certifies(Boundary \o SubSeq(Unsaved, 1, i), meta)
             /\ Boundary \o SubSeq(Unsaved, 1, i) \o <<Torn>> \in Seq(R)
             /\ Certifies(Boundary \o SubSeq(Unsaved, 1, i) \o <<Torn>>, meta)
  <2> DEFINE s == SubSeq(Unsaved, 1, i)
  <2>1. s \in Seq(R) /\ s \o <<Torn>> \in Seq(R) /\ meta.rows \in Seq(R)
    BY <1>3, <1>4, <1>6, <1>7, Joined
  <2>2. Boundary \o s \o <<Torn>> = meta.rows \o (s \o <<Torn>>)
    <3> DEFINE t == <<Torn>>
               m == meta.rows
    <3>1. t \in Seq(R) /\ m \in Seq(R) /\ s \in Seq(R)
      BY <1>7, <2>1
    <3> HIDE DEF s, t, m, R
    <3>2. (m \o s) \o t = m \o (s \o t)
      BY <3>1, ConcatAssociative, SMTT(30)
    <3> USE DEF t, m
    <3> QED BY <1>2, <3>2
  <2> HIDE DEF s
  <2>3. Boundary \o s \in Seq(R) /\ Certifies(Boundary \o s, meta)
    BY <1>2, <1>5, <2>1
  <2>4. Boundary \o s \o <<Torn>> \in Seq(R) /\ Certifies(Boundary \o s \o <<Torn>>, meta)
    BY <1>5, <2>1, <2>2
  <2> QED BY <2>3, <2>4 DEF s
<1>9. \A f \in PartialAppends : f \in Seq(R) /\ Certifies(f, meta)
  <2> SUFFICES ASSUME NEW f \in PartialAppends PROVE f \in Seq(R) /\ Certifies(f, meta)
    OBVIOUS
  <2>1. CASE f = data
    BY <1>2, <1>3, <2>1
  <2>2. CASE \E i \in 0..Len(Unsaved) : f = Boundary \o SubSeq(Unsaved, 1, i)
    BY <1>8, <2>2
  <2>3. CASE \E i \in 0..(Len(Unsaved) - 1) : f = Boundary \o SubSeq(Unsaved, 1, i) \o <<Torn>>
    <3>1. \A i \in 0..(Len(Unsaved) - 1) : i \in 0..Len(Unsaved)
      BY <1>3
    <3> QED BY <1>8, <2>3, <3>1
  <2> QED BY <2>1, <2>2, <2>3 DEF PartialAppends
<1>10. /\ meta.rows \in Seq(R) /\ Certifies(meta.rows, meta)
       /\ meta.rows \o Unsaved \in Seq(R) /\ Certifies(meta.rows \o Unsaved, meta)
  <2>1. Unsaved \in Seq(R) /\ meta.rows \in Seq(R)
    BY <1>3, <1>4
  <2> QED BY <1>5, <2>1, StartsCertified
<1> QED BY <1>1, <1>2, <1>3, <1>9, <1>10

LEMMA AppendRowsState ==
  ASSUME StateInv, AppendRows
  PROVE  StateInv'
<1>0. CoreTyped /\ FilesTyped /\ SpentTyped /\ ThreadInv /\ StoredInv
  BY TypeParts DEF StateInv
<1>1. /\ up /\ job.step = "rows" /\ data' = Boundary \o Unsaved
      /\ job' = [job EXCEPT !.step = "meta"]
      /\ UNCHANGED <<venue, memory, now, fills, cache, undo, sync, ws, prev, meta, marker, up,
                     reader, spent>>
  BY DEF AppendRows, venue, memory, threads
<1>2. job.kind = "append" /\ job.by \in {"sync", "ws"}
  BY <1>0, <1>1 DEF ThreadInv, JobShape
<1>3. job \in Jobs /\ sync \in Syncs /\ ws \in BOOLEAN
  BY <1>0 DEF CoreTyped, Jobs, Syncs
<1>4. job'.by = job.by /\ job'.kind = "append" /\ job'.step = "meta" /\ job' \in Jobs
  BY <1>1, <1>2, <1>3 DEF Jobs
<1>5. /\ ~Committed /\ Boundary = meta.rows
      /\ data' \in Seq(Ids \cup {Torn}) /\ Certifies(data', meta)
  BY <1>1, <1>2, AppendFiles
<1>6. ~Committed' /\ JobShape' /\ JobThread' /\ AppendFits' /\ Requests'
  BY <1>0, <1>1, <1>2, <1>4 DEF ThreadInv, Committed, JobShape, JobThread, AppendFits,
     Requests, CursorAfter
<1>7. FilesTyped' /\ SpentTyped'
  BY <1>0, <1>1, <1>5, SpentFrame DEF FilesTyped
<1>8. StoredInv'
  <2>1. FileReady'
    BY <1>1, <1>5 DEF FileReady, Certifies
  <2>2. Written'
    BY <1>1, <1>4, <1>5 DEF Written, Unsaved
  <2> QED BY <2>1, <2>2 DEF StoredInv
<1> QED BY <1>1, <1>3, <1>4, <1>5, <1>6, <1>7, <1>8, SaveMoves

LEMMA AppendFailsState ==
  ASSUME StateInv, AppendFails
  PROVE  StateInv'
<1>0. CoreTyped /\ FilesTyped /\ SpentTyped /\ ThreadInv /\ StoredInv
  BY TypeParts DEF StateInv
<1>1. /\ up /\ job.kind = "append" /\ job.step \in {"rows", "meta"}
      /\ Spend("append") /\ Return(job.by, FALSE)
      /\ data' \in PartialAppends \cup {Boundary, data}
      /\ UNCHANGED <<venue, memory, now, fills, cache, undo, prev, meta, marker, up, reader>>
  BY DEF AppendFails, venue, memory
<1>2. /\ job.by \in {"sync", "ws"} /\ ~Committed
      /\ data' \in Seq(Ids \cup {Torn}) /\ Certifies(data', meta)
  <2>1. data \in PartialAppends
    BY DEF PartialAppends
  <2> QED BY <1>1, <2>1, AppendFiles
<1>3. job.by = "sync" => sync.at = "synced"
  BY <1>0 DEF ThreadInv, JobThread
<1>4. /\ job' = NoJob /\ job' \in Jobs /\ sync' \in Syncs /\ ws' \in BOOLEAN
      /\ ~Committed' /\ JobShape' /\ JobThread' /\ AppendFits' /\ Requests'
      /\ sync'.at = "pruned" <=> sync.at = "pruned"
  BY <1>0, <1>1, <1>2, <1>3, Returns
<1>5. FilesTyped' /\ SpentTyped'
  BY <1>0, <1>1, <1>2, SpentFrame DEF FilesTyped
<1>6. StoredInv'
  BY <1>1, <1>2, <1>4 DEF StoredInv, FileReady, Written, Certifies
<1> QED BY <1>1, <1>2, <1>4, <1>5, <1>6, SaveMoves

LEMMA CompactPrunedState ==
  ASSUME StateInv, CompactPruned
  PROVE  StateInv'
<1>0. CoreTyped /\ FilesTyped /\ SpentTyped /\ ThreadInv /\ StoredInv
  BY TypeParts DEF StateInv
<1>1. /\ up /\ sync.at = "pruned" /\ job = NoJob
      /\ job' = [by |-> "prune", kind |-> "compact", step |-> "stage"]
      /\ UNCHANGED <<venue, memory, now, fills, cache, undo, sync, ws, data, prev, meta, marker,
                     up, reader, spent>>
  BY DEF CompactPruned, Free, venue, memory, threads, files
<1>2. ~Committed /\ ~Committed' /\ JobShape' /\ JobThread' /\ AppendFits' /\ Requests'
  BY <1>0, <1>1 DEF ThreadInv, Committed, JobShape, JobThread, AppendFits, Requests, CursorAfter
<1>3. job' \in Jobs /\ sync' \in Syncs /\ ws' \in BOOLEAN
  BY <1>0, <1>1 DEF CoreTyped, Jobs, Syncs
<1>4. FilesTyped' /\ SpentTyped'
  BY <1>0, <1>1, FilesFrame, SpentFrame
<1>5. StoredInv'
  BY <1>0, <1>1 DEF StoredInv, FileReady, Written, Committed, Certifies
<1> QED BY <1>1, <1>2, <1>3, <1>4, <1>5, SaveMoves

\* Whatever is recoverable is in the data file once it was read.
LEMMA Recovered ==
  ASSUME FilesTyped, Recoverable
  PROVE  /\ DataRecovered \in Seq(Ids \cup {Torn}) /\ Certifies(DataRecovered, meta)
         /\ PrevRecovered \in [at : {"none", "link", "copy"}, rows : Seq(Ids \cup {Torn})]
<1>1. PrevRows \in Seq(Ids \cup {Torn}) /\ NoPrev \in [at : {"none", "link", "copy"}, rows : Seq(Ids \cup {Torn})]
  BY DEF FilesTyped, PrevRows
<1> HIDE DEF NoPrev
<1>2. DataRecovered \in Seq(Ids \cup {Torn}) /\ Certifies(DataRecovered, meta)
  BY <1>1 DEF FilesTyped, DataRecovered, Recoverable
<1>3. PrevRecovered \in [at : {"none", "link", "copy"}, rows : Seq(Ids \cup {Torn})]
  BY <1>1 DEF FilesTyped, PrevRecovered
<1> QED BY <1>2, <1>3

\* A compaction that fails, for whatever reason
LEMMA FailureState ==
  ASSUME StateInv, up, job.kind = "compact", CompactionFailed,
         FilesTyped', SpentTyped',
         UNCHANGED <<venue, meta, marker, up, reader>>
  PROVE  StateInv'
<1> USE NumbersTyped
<1>0. CoreTyped /\ ThreadInv /\ MemoryInv /\ ReadersTyped
  BY TypeParts DEF StateInv
<1>1. /\ UNCHANGED <<now, fills, meta, marker, up, reader>>
      /\ Return(job.by, FALSE)
      /\ job.by \in {"sync", "ws", "prune"}
      /\ job.by = "sync" => sync.at = "synced"
      /\ job.by = "prune" => sync.at = "pruned"
  <2>1. job.by \in {"sync", "ws", "prune"}
    BY <1>0 DEF ThreadInv, JobShape
  <2>2. (job.by = "sync" => sync.at = "synced") /\ (job.by = "prune" => sync.at = "pruned")
    BY <1>0 DEF ThreadInv, JobThread
  <2> QED BY <2>1, <2>2 DEF CompactionFailed, venue
<1>2. /\ job' = NoJob /\ job' \in Jobs /\ sync' \in Syncs /\ ws' \in BOOLEAN
      /\ ~Committed' /\ JobShape' /\ JobThread' /\ AppendFits'
      /\ job.by = "ws" => sync' = sync
      /\ job.by # "ws" => sync'.at \in {"wait", "saved"} /\ sync'.asked = 0 /\ sync'.got = {}
  BY <1>0, <1>1, Returns
<1>3. /\ cache' \in Caches /\ cache'.rewrite = TRUE /\ cache'.cursor = cache.cursor
      /\ cache'.rows \in {cache.rows, undo.rows}
  <2>1. cache \in Caches /\ undo \in Caches
    BY <1>0 DEF CoreTyped
  <2>2. CASE job.by = "prune"
    <3>1. cache' = [undo EXCEPT !.rewrite = TRUE]
      BY <2>2 DEF CompactionFailed
    <3>2. undo.cursor = cache.cursor
      BY <1>0, <1>1, <2>2 DEF ThreadInv, Undoable
    <3> QED BY <2>1, <3>1, <3>2 DEF Caches
  <2>3. CASE job.by # "prune"
    <3>1. cache' = [cache EXCEPT !.rewrite = TRUE]
      BY <2>3 DEF CompactionFailed
    <3> QED BY <2>1, <3>1 DEF Caches
  <2> QED BY <2>2, <2>3
<1>4. /\ undo' \in Caches /\ Sound(undo'.rows)
      /\ job.by # "prune" => undo' = undo
  <2>1. NoUndo \in Caches /\ Sound(NoUndo.rows)
    <3>1. <<>> \in Seq(Ids) /\ 0 \in 0..MaxFills /\ 0 \in 0..MaxNow
      OBVIOUS
    <3> QED BY <3>1 DEF Caches, Rows, Sound, IsInjective, Range
  <2>2. undo \in Caches /\ Sound(undo.rows)
    BY <1>0 DEF CoreTyped, ThreadInv, Undoable
  <2>3. undo' = IF job.by = "prune" THEN NoUndo ELSE undo
    BY DEF CompactionFailed
  <2> HIDE DEF NoUndo
  <2>4. undo' \in {undo, NoUndo} /\ (job.by # "prune" => undo' = undo)
    BY <2>3
  <2> QED BY <2>1, <2>2, <2>4
<1>5. TypeOK'
  <2>1. CoreTyped'
    BY <1>0, <1>1, <1>2, <1>3, <1>4 DEF CoreTyped, Syncs, Jobs
  <2>2. ReadersTyped'
    BY <1>0, <1>1, ReadersFrame
  <2> QED BY <2>1, <2>2, TypeParts
<1>6. ThreadInv'
  <2>1. Stopped'
    BY <1>1 DEF Stopped
  <2>2. Requests'
    <3>1. CASE job.by = "ws"
      BY <1>0, <1>1, <1>2, <1>3, <3>1 DEF ThreadInv, Requests, CursorAfter
    <3>2. CASE job.by # "ws"
      <4>1. 0 <= now
        BY <1>0, CoreFacts
      <4> QED BY <1>1, <1>2, <3>2, <4>1 DEF Requests
    <3> QED BY <3>1, <3>2
  <2>3. Undoable'
    <3>1. Sound(undo.rows)' <=> Sound(undo'.rows)
      BY <1>1 DEF Sound
    <3>2. sync'.at = "pruned" => sync.at = "pruned" /\ undo' = undo
      BY <1>1, <1>2, <1>4
    <3> QED BY <1>0, <1>3, <1>4, <3>1, <3>2 DEF ThreadInv, Undoable
  <2>4. Clocks'
    BY <1>0, <1>1, <1>3 DEF ThreadInv, Clocks
  <2> QED BY <1>2, <2>1, <2>2, <2>3, <2>4 DEF ThreadInv
<1>7. MemoryInv'
  <2>1. Sound(cache'.rows) /\ Sound(meta.rows)
    BY <1>0, <1>3 DEF ThreadInv, Undoable, MemoryInv, RowsSound
  <2>2. RowsSound'
    BY <1>1, <2>1 DEF RowsSound, Sound
  <2>3. /\ MemoryHasFile' /\ UnsavedIsNew' /\ CountedIsSaved' /\ FileNotAhead'
    BY <1>3 DEF MemoryHasFile, UnsavedIsNew, CountedIsSaved, FileNotAhead
  <2>4. CommitSaves'
    BY <1>2 DEF CommitSaves
  <2> QED BY <2>2, <2>3, <2>4 DEF MemoryInv
<1>8. ReaderInv'
  BY <1>1, ReaderFrame DEF StateInv
<1>9. StoredInv'
  BY <1>2, <1>3 DEF StoredInv, FileReady, Written
<1> QED BY <1>5, <1>6, <1>7, <1>8, <1>9 DEF StateInv

LEMMA CompactStageState ==
  ASSUME StateInv, CompactStage
  PROVE  StateInv'
<1>0. CoreTyped /\ FilesTyped /\ SpentTyped /\ ThreadInv /\ StoredInv
  BY TypeParts DEF StateInv
<1>1. /\ up /\ job.step = "stage"
      /\ UNCHANGED <<venue, now, fills, meta, marker, up, reader, spent>>
  BY DEF CompactStage, venue
<1>2. job.kind = "compact" /\ ~Committed /\ SpentTyped'
  BY <1>0, <1>1, SpentFrame DEF ThreadInv, JobShape, Committed
<1>3. CASE ~Recoverable
  <2>1. CompactionFailed /\ UNCHANGED <<data, prev>>
    BY <1>3 DEF CompactStage
  <2> QED BY <1>0, <1>1, <1>2, <2>1, FilesFrame, FailureState
<1>4. CASE Recoverable
  <2>1. /\ data' = DataRecovered /\ prev' = Staged /\ job' = [job EXCEPT !.step = "data"]
        /\ UNCHANGED <<memory, cache, undo, sync, ws>>
    BY <1>4 DEF CompactStage, memory, threads
  <2>2. data' \in Seq(Ids \cup {Torn}) /\ Certifies(data', meta)
    BY <1>0, <1>4, <2>1, Recovered
  <2>3. job \in Jobs /\ sync \in Syncs /\ ws \in BOOLEAN
    BY <1>0 DEF CoreTyped, Jobs, Syncs
  <2>4. job'.by = job.by /\ job'.kind = "compact" /\ job'.step = "data" /\ job' \in Jobs
    BY <1>2, <2>1, <2>3 DEF Jobs
  <2>5. ~Committed' /\ JobShape' /\ JobThread' /\ AppendFits' /\ Requests'
    BY <1>0, <1>1, <1>2, <2>1, <2>4 DEF ThreadInv, Committed, JobShape, JobThread, AppendFits,
       Requests, CursorAfter
  <2>6. FilesTyped'
    <3>1. Staged \in [at : {"none", "link", "copy"}, rows : Seq(Ids \cup {Torn})]
      BY DEF Staged
    <3> QED BY <2>1, <2>2, <3>1 DEF FilesTyped
  <2>7. StoredInv'
    BY <1>1, <2>2, <2>4 DEF StoredInv, FileReady, Written, Certifies
  <2> QED BY <1>1, <1>2, <2>1, <2>3, <2>4, <2>5, <2>6, <2>7, SaveMoves
<1> QED BY <1>3, <1>4

LEMMA CompactDataState ==
  ASSUME StateInv, CompactData
  PROVE  StateInv'
<1>0. CoreTyped /\ FilesTyped /\ SpentTyped /\ ThreadInv
  BY TypeParts DEF StateInv
<1>1. /\ up /\ job.step = "data" /\ data' = cache.rows
      /\ prev' = (IF prev.at = "link" THEN [at |-> "copy", rows |-> data] ELSE prev)
      /\ job' = [job EXCEPT !.step = "meta"]
      /\ UNCHANGED <<venue, memory, now, fills, cache, undo, sync, ws, meta, marker, up,
                     reader, spent>>
  BY DEF CompactData, venue, memory, threads
<1>2. job.kind = "compact" /\ ~Committed /\ SpentTyped'
  BY <1>0, <1>1, SpentFrame DEF ThreadInv, JobShape, Committed
<1>3. job \in Jobs /\ sync \in Syncs /\ ws \in BOOLEAN
  BY <1>0 DEF CoreTyped, Jobs, Syncs
<1>4. job'.by = job.by /\ job'.kind = "compact" /\ job'.step = "meta" /\ job' \in Jobs
  BY <1>1, <1>2, <1>3 DEF Jobs
<1>5. ~Committed' /\ JobShape' /\ JobThread' /\ AppendFits' /\ Requests'
  BY <1>0, <1>1, <1>2, <1>4 DEF ThreadInv, Committed, JobShape, JobThread, AppendFits,
     Requests, CursorAfter
<1>6. FilesTyped'
  <2>1. cache.rows \in Seq(Ids \cup {Torn})
    <3>1. cache.rows \in Seq(Ids)
      BY <1>0, CoreFacts
    <3>2. Seq(Ids) \subseteq Seq(Ids \cup {Torn})
      BY SeqMonotonic
    <3> QED BY <3>1, <3>2
  <2>2. prev' \in [at : {"none", "link", "copy"}, rows : Seq(Ids \cup {Torn})]
    BY <1>0, <1>1 DEF FilesTyped
  <2> QED BY <1>1, <2>1, <2>2 DEF FilesTyped
<1>7. StoredInv'
  BY <1>1, <1>4 DEF StoredInv, FileReady, Written
<1> QED BY <1>1, <1>2, <1>3, <1>4, <1>5, <1>6, <1>7, SaveMoves

LEMMA CompactFailsState ==
  ASSUME StateInv, CompactFails
  PROVE  StateInv'
<1>0. FilesTyped /\ SpentTyped
  BY TypeParts DEF StateInv
<1>1. /\ up /\ job.kind = "compact" /\ Spend("compact") /\ CompactionFailed
      /\ data' \in {data, prev.rows} /\ prev' \in {prev, NoPrev}
      /\ UNCHANGED <<venue, meta, marker, up, reader>>
  <2>1. /\ up /\ job.kind = "compact" /\ Spend("compact") /\ CompactionFailed
        /\ job.step \in {"stage", "data", "meta"}
        /\ UNCHANGED <<venue, meta, marker, up, reader>>
    BY DEF CompactFails
  <2>2. data' \in {data, prev.rows} /\ prev' \in {prev, NoPrev}
    <3>1. CASE job.step = "stage"
      BY <3>1 DEF CompactFails
    <3>2. CASE job.step = "data"
      BY <3>2 DEF CompactFails
    <3>3. CASE job.step = "meta"
      BY <3>3 DEF CompactFails
    <3> QED BY <2>1, <3>1, <3>2, <3>3
  <2> QED BY <2>1, <2>2
<1>2. FilesTyped' /\ SpentTyped'
  <2>1. NoPrev \in [at : {"none", "link", "copy"}, rows : Seq(Ids \cup {Torn})]
    OBVIOUS
  <2> HIDE DEF NoPrev
  <2>2. FilesTyped'
    BY <1>0, <1>1, <2>1 DEF FilesTyped
  <2> QED BY <1>0, <1>1, <2>2, SpentFrame
<1> QED BY <1>1, <1>2, FailureState

--------------------------------------------------------------------------------
(* StateInv: the manifest, and what follows it *)

\* A manifest that names the data file, at a version nobody has seen
LEMMA CommitState ==
  ASSUME StateInv, up, job.step = "meta", job.kind # "none",
         job' = [job EXCEPT !.step = IF job.kind = "append" THEN "remember" ELSE "discard"],
         meta' \in [stream : Nat, rev : Nat, rows : Rows, cursor : 0..MaxNow, seen : 0..MaxNow],
         meta'.stream > 0, meta'.rev > 0,
         meta'.cursor = cache.cursor, meta'.seen = cache.seen, meta'.rows = data,
         Sound(meta'.rows),
         Range(meta'.rows) \subseteq Range(meta.rows) \cup Range(cache.rows),
         sync.at # "pruned" => Range(cache.rows) \subseteq Range(meta'.rows),
         job.kind = "compact" => meta'.rows = cache.rows,
         \A v \in Versions : Older(v, Version(meta)) =>
           Older(v, Version(meta)') /\ (v = Version(meta)' => v = Version(meta) /\ meta'.rows = meta.rows),
         UNCHANGED <<venue, memory, threads, data, prev, marker, up, reader, spent>>
  PROVE  StateInv'
<1> USE NumbersTyped
<1>0. CoreTyped /\ FilesTyped /\ ReadersTyped /\ SpentTyped /\ ThreadInv /\ MemoryInv /\ ReaderInv
  BY TypeParts DEF StateInv
<1>1. UNCHANGED <<now, fills, cache, undo, sync, ws, data, prev, marker, up, reader, spent>>
  BY DEF venue, memory, threads
<1>2. /\ job \in Jobs /\ job' \in Jobs /\ job'.by = job.by /\ job'.kind = job.kind
      /\ job'.step = (IF job.kind = "append" THEN "remember" ELSE "discard")
  <2>1. job \in Jobs
    BY <1>0 DEF CoreTyped, Jobs
  <2> QED BY <2>1 DEF Jobs
<1>3. Committed' /\ job'.step \notin {"meta", "publish"}
  BY <1>2 DEF Committed
<1>4. TypeOK'
  <2>1. CoreTyped'
    BY <1>0, <1>1, <1>2 DEF CoreTyped, Jobs
  <2> QED BY <1>0, <1>1, <2>1, TypeParts, FilesFrame, ReadersFrame, SpentFrame
<1>5. ThreadInv'
  <2>1. Stopped' /\ JobShape' /\ JobThread' /\ AppendFits'
    BY <1>0, <1>1, <1>2, <1>3 DEF ThreadInv, Stopped, JobShape, JobThread, AppendFits
  <2>2. Requests' /\ Undoable'
    BY <1>0, <1>1 DEF ThreadInv, Requests, CursorAfter, Undoable, Sound
  <2>3. Clocks'
    <3>1. Clocks
      BY <1>0 DEF ThreadInv
    <3>2. meta.cursor \in Nat /\ cache.cursor \in Nat /\ now \in Nat /\ marker.time \in Nat
      BY <1>0, CoreFacts
    <3> QED BY <1>1, <3>1, <3>2 DEF Clocks
  <2> QED BY <2>1, <2>2, <2>3 DEF ThreadInv
<1>6. MemoryInv'
  <2>1. RowsSound'
    BY <1>0, <1>1 DEF MemoryInv, RowsSound, Sound
  <2>2. MemoryHasFile'
    BY <1>0, <1>1 DEF MemoryInv, MemoryHasFile, Expired
  <2>3. UnsavedIsNew'
    BY <1>3 DEF UnsavedIsNew
  <2>4. CountedIsSaved'
    <3>1. \A i \in DOMAIN cache.rows : cache.rows[i] \in Range(cache.rows)
      BY DEF Range
    <3> QED BY <1>0, <1>1, <3>1 DEF MemoryInv, CountedIsSaved
  <2>5. CommitSaves'
    BY <1>1, <1>2, <1>3 DEF CommitSaves
  <2>6. FileNotAhead'
    <3>1. cache.seen \in Nat
      BY <1>0, CoreFacts
    <3> QED BY <1>1, <3>1 DEF FileNotAhead
  <2> QED BY <2>1, <2>2, <2>3, <2>4, <2>5, <2>6 DEF MemoryInv
<1>7. ReaderInv'
  <2>1. \A r \in Readers : reader[r].ver \in Versions /\ reader[r].permit.expires \in Nat
    BY <1>0 DEF ReadersTyped
  <2>2. Version(marker) \in Versions /\ Version(marker)' = Version(marker)
    BY <1>0, <1>1, CoreFacts DEF Version, Versions
  <2>3. VersionsPast'
    BY <1>0, <1>1, <2>1, <2>2 DEF ReaderInv, VersionsPast
  <2>4. ReadersMatch'
    BY <1>0, <1>1, <2>1 DEF ReaderInv, VersionsPast, ReadersMatch
  <2>5. LoadedIsAsked'
    BY <1>0, <1>1 DEF ReaderInv, LoadedIsAsked, Version
  <2>6. PermitBounded'
    <3>1. meta.cursor <= cache.cursor
      BY <1>0 DEF ThreadInv, Clocks
    <3>2. meta.cursor \in Nat /\ cache.cursor \in Nat
      BY <1>0, CoreFacts
    <3>3. meta.cursor + 1 + MaxAge <= cache.cursor + 1 + MaxAge
      BY <3>1, <3>2
    <3>4. \A r \in Readers : reader[r].permit.expires <= cache.cursor + 1 + MaxAge
      <4> SUFFICES ASSUME NEW r \in Readers
                   PROVE  reader[r].permit.expires <= cache.cursor + 1 + MaxAge
        OBVIOUS
      <4>1. reader[r].permit.expires <= meta.cursor + 1 + MaxAge
        BY <1>0 DEF ReaderInv, PermitBounded
      <4>2. reader[r].permit.expires \in Nat
        BY <2>1
      <4> QED BY <3>2, <3>3, <4>1, <4>2
    <3> QED BY <1>0, <1>1, <3>4 DEF ReaderInv, PermitBounded
  <2> QED BY <2>3, <2>4, <2>5, <2>6 DEF ReaderInv
<1>8. StoredInv'
  <2>1. data \in Seq(Ids) /\ Len(data) \in Nat
    BY LenProperties DEF Rows
  <2>2. SubSeq(data, 1, Len(data)) = data
    BY <2>1, SubSeqFull
  <2>3. Certifies(data, meta)'
    BY <1>1, <2>1, <2>2 DEF Certifies
  <2> QED BY <1>3, <2>3 DEF StoredInv, FileReady, Written
<1> QED BY <1>4, <1>5, <1>6, <1>7, <1>8 DEF StateInv

LEMMA AppendMetaState ==
  ASSUME StateInv, AppendMeta
  PROVE  StateInv'
<1> DEFINE un == Unsaved
<1>0. CoreTyped /\ FilesTyped /\ ThreadInv /\ MemoryInv /\ StoredInv
  BY TypeParts DEF StateInv
<1>1. /\ up /\ job.kind = "append" /\ job.step = "meta"
      /\ meta' = [stream |-> meta.stream, rev |-> NextRev, rows |-> meta.rows \o un,
                  cursor |-> cache.cursor, seen |-> cache.seen]
      /\ job' = [job EXCEPT !.step = "remember"]
      /\ UNCHANGED <<venue, memory, threads, data, prev, marker, up, reader, spent>>
  BY DEF AppendMeta
<1>2. /\ ~cache.rewrite /\ ~Committed /\ cache.counts <= Len(cache.rows)
      /\ un \in Seq(Ids) /\ data = meta.rows \o un
  BY <1>0, <1>1, AppendFiles DEF StoredInv, Written
<1>3. /\ cache.rows \in Seq(Ids) /\ cache.counts \in Nat /\ meta.rows \in Seq(Ids)
      /\ meta.stream \in Nat /\ meta.rev \in Nat
      /\ cache.cursor \in 0..MaxNow /\ cache.seen \in 0..MaxNow
  BY <1>0, CoreFacts
<1>4. /\ Len(un) = Len(cache.rows) - cache.counts
      /\ \A i \in 1..Len(un) : un[i] = cache.rows[cache.counts + i]
      /\ \A k : k \in Range(un) <=>
           \E i \in DOMAIN cache.rows : i > cache.counts /\ cache.rows[i] = k
  BY <1>2, <1>3, UnsavedRows
<1> HIDE DEF un
<1>5. /\ DOMAIN cache.rows = 1..Len(cache.rows) /\ Len(cache.rows) \in Nat
      /\ DOMAIN un = 1..Len(un)
  BY <1>2, <1>3, LenProperties
<1>6. IsInjective(un)
  <2> SUFFICES ASSUME NEW i \in 1..Len(un), NEW j \in 1..Len(un), un[i] = un[j] PROVE i = j
    BY <1>5 DEF IsInjective
  <2>1. cache.counts + i \in DOMAIN cache.rows /\ cache.counts + j \in DOMAIN cache.rows
    <3>1. /\ cache.counts \in Nat /\ Len(cache.rows) \in Nat
          /\ Len(un) = Len(cache.rows) - cache.counts
          /\ DOMAIN cache.rows = 1..Len(cache.rows)
      BY <1>3, <1>4, <1>5
    <3> QED BY <3>1
  <2>2. cache.rows[cache.counts + i] = cache.rows[cache.counts + j]
    BY <1>4
  <2>3. cache.counts + i = cache.counts + j
    BY <1>0, <2>1, <2>2 DEF MemoryInv, RowsSound, Sound, IsInjective
  <2> QED BY <1>3, <2>3
<1>7. Range(un) \subseteq Range(cache.rows) /\ Range(un) \cap Range(meta.rows) = {}
  <2> SUFFICES ASSUME NEW k \in Range(un)
               PROVE  k \in Range(cache.rows) /\ k \notin Range(meta.rows)
    OBVIOUS
  <2>1. PICK i \in DOMAIN cache.rows : i > cache.counts /\ cache.rows[i] = k
    BY <1>4
  <2>2. cache.rows[i] \in Range(cache.rows)
    BY DEF Range
  <2>3. cache.rows[i] \notin Range(meta.rows)
    BY <1>0, <1>2, <2>1 DEF MemoryInv, UnsavedIsNew
  <2> QED BY <2>1, <2>2, <2>3
<1>8. /\ meta.rows \o un \in Seq(Ids) /\ IsInjective(meta.rows \o un)
      /\ Range(meta.rows \o un) = Range(meta.rows) \cup Range(un)
  BY <1>0, <1>2, <1>3, <1>6, <1>7, Joined DEF MemoryInv, RowsSound, Sound
<1>9. Sound(meta.rows \o un)
  BY <1>0, <1>7, <1>8 DEF MemoryInv, RowsSound, Sound
<1>10. ASSUME sync.at # "pruned"
       PROVE  Range(cache.rows) \subseteq Range(meta.rows \o un)
  <2> SUFFICES ASSUME NEW i \in DOMAIN cache.rows
               PROVE  cache.rows[i] \in Range(meta.rows) \cup Range(un)
    BY <1>8 DEF Range
  <2>1. CASE i <= cache.counts
    BY <1>0, <1>2, <1>10, <2>1 DEF MemoryInv, CountedIsSaved
  <2>2. CASE i > cache.counts
    BY <1>4, <2>2
  <2> QED BY <1>3, <1>5, <2>1, <2>2
<1>11. /\ NextRev \in Nat /\ NextRev > 0 /\ meta.stream > 0
       /\ un = <<>> => NextRev = meta.rev
       /\ un # <<>> => NextRev = meta.rev + 1
  BY <1>0, <1>3 DEF NextRev, ThreadInv, Clocks, un
<1>12. /\ meta' \in [stream : Nat, rev : Nat, rows : Rows, cursor : 0..MaxNow, seen : 0..MaxNow]
       /\ meta'.stream = meta.stream /\ meta'.rev = NextRev /\ meta'.rows = meta.rows \o un
       /\ meta'.cursor = cache.cursor /\ meta'.seen = cache.seen
  BY <1>1, <1>3, <1>8, <1>11 DEF Rows
<1>13. Version(meta)' = <<meta.stream, NextRev>>
  BY <1>12 DEF Version
<1>14. ASSUME NEW v \in Versions, Older(v, Version(meta))
       PROVE  /\ Older(v, Version(meta)')
              /\ v = Version(meta)' => v = Version(meta) /\ meta'.rows = meta.rows
  <2>1. v[1] \in Nat /\ v[2] \in Nat /\ v = <<v[1], v[2]>>
    BY DEF Versions
  <2>2. v[1] < meta.stream \/ (v[1] = meta.stream /\ v[2] <= meta.rev)
    BY <1>14 DEF Older, Version
  <2>3. CASE un = <<>>
    <3>1. NextRev = meta.rev /\ meta'.rows = meta.rows
      BY <1>3, <1>11, <1>12, <2>3, ConcatEmptySeq
    <3> QED BY <1>13, <1>14, <3>1 DEF Version
  <2>4. CASE un # <<>>
    <3>1. NextRev = meta.rev + 1
      BY <1>11, <2>4
    <3>2. Older(v, Version(meta)')
      BY <1>3, <1>13, <2>1, <2>2, <3>1 DEF Older
    <3>3. v # Version(meta)'
      <4> SUFFICES ASSUME v[1] = meta.stream, v[2] = NextRev PROVE FALSE
        BY <1>13
      <4> QED BY <1>3, <2>1, <2>2, <3>1
    <3> QED BY <3>2, <3>3
  <2> QED BY <2>3, <2>4
<1>15. job' = [job EXCEPT !.step = IF job.kind = "append" THEN "remember" ELSE "discard"]
  BY <1>1
<1>16. meta'.rows = data /\ Sound(meta'.rows) /\ meta'.stream > 0 /\ meta'.rev > 0
       /\ Range(meta'.rows) \subseteq Range(meta.rows) \cup Range(cache.rows)
       /\ (sync.at # "pruned" => Range(cache.rows) \subseteq Range(meta'.rows))
       /\ (job.kind = "compact" => meta'.rows = cache.rows) /\ job.kind # "none"
  BY <1>1, <1>2, <1>7, <1>8, <1>9, <1>10, <1>11, <1>12
<1> QED BY <1>1, <1>12, <1>14, <1>15, <1>16, CommitState

LEMMA CompactMetaState ==
  ASSUME StateInv, CompactMeta
  PROVE  StateInv'
<1>0. CoreTyped /\ ThreadInv /\ MemoryInv /\ StoredInv
  BY TypeParts DEF StateInv
<1>1. /\ up /\ job.kind = "compact" /\ job.step = "meta"
      /\ meta' = [stream |-> meta.stream + 1, rev |-> 1, rows |-> cache.rows,
                  cursor |-> cache.cursor, seen |-> cache.seen]
      /\ job' = [job EXCEPT !.step = "discard"]
      /\ UNCHANGED <<venue, memory, threads, data, prev, marker, up, reader, spent>>
  BY DEF CompactMeta
<1>2. /\ cache.rows \in Seq(Ids) /\ meta.stream \in Nat /\ meta.rev \in Nat
      /\ cache.cursor \in 0..MaxNow /\ cache.seen \in 0..MaxNow
      /\ data = cache.rows /\ Sound(cache.rows)
  BY <1>0, <1>1, CoreFacts DEF StoredInv, Written, MemoryInv, RowsSound
<1>3. /\ meta' \in [stream : Nat, rev : Nat, rows : Rows, cursor : 0..MaxNow, seen : 0..MaxNow]
      /\ meta'.stream = meta.stream + 1 /\ meta'.rev = 1 /\ meta'.rows = cache.rows
      /\ meta'.cursor = cache.cursor /\ meta'.seen = cache.seen
  BY <1>1, <1>2 DEF Rows
<1>4. ASSUME NEW v \in Versions, Older(v, Version(meta))
      PROVE  /\ Older(v, Version(meta)')
             /\ v = Version(meta)' => v = Version(meta) /\ meta'.rows = meta.rows
  <2>1. v[1] \in Nat /\ v[1] < meta.stream + 1
    BY <1>2, <1>4 DEF Older, Version, Versions
  <2>2. Version(meta)' = <<meta.stream + 1, 1>>
    BY <1>3 DEF Version
  <2>3. v # Version(meta)'
    BY <1>2, <2>1, <2>2
  <2> QED BY <2>1, <2>2, <2>3 DEF Older
<1>5. job' = [job EXCEPT !.step = IF job.kind = "append" THEN "remember" ELSE "discard"]
  BY <1>1
<1>6. meta'.rows = data /\ Sound(meta'.rows) /\ meta'.stream > 0 /\ meta'.rev > 0
      /\ Range(meta'.rows) \subseteq Range(meta.rows) \cup Range(cache.rows)
      /\ (sync.at # "pruned" => Range(cache.rows) \subseteq Range(meta'.rows))
      /\ (job.kind = "compact" => meta'.rows = cache.rows) /\ job.kind # "none"
  BY <1>1, <1>2, <1>3
<1> QED BY <1>1, <1>3, <1>4, <1>5, <1>6, CommitState

LEMMA CompactDiscardState ==
  ASSUME StateInv, CompactDiscard
  PROVE  StateInv'
<1>0. CoreTyped /\ FilesTyped /\ ReadersTyped /\ SpentTyped /\ ThreadInv /\ MemoryInv /\ StoredInv
  BY TypeParts DEF StateInv
<1>1. /\ up /\ job.step = "discard" /\ prev' = NoPrev /\ job' = [job EXCEPT !.step = "remember"]
      /\ UNCHANGED <<now, fills, cache, undo, sync, ws, data, meta, marker, up, reader, spent>>
  BY DEF CompactDiscard, venue, memory, threads
<1>2. job \in Jobs /\ job' \in Jobs /\ job'.by = job.by /\ job'.kind = job.kind /\ job'.step = "remember"
  <2>1. job \in Jobs
    BY <1>0 DEF CoreTyped, Jobs
  <2> QED BY <1>1, <2>1 DEF Jobs
<1>3. TypeOK'
  <2>1. CoreTyped'
    BY <1>0, <1>1, <1>2 DEF CoreTyped, Jobs
  <2>2. FilesTyped'
    BY <1>0, <1>1 DEF FilesTyped
  <2> QED BY <1>0, <1>1, <2>1, <2>2, TypeParts, ReadersFrame, SpentFrame
<1>4. ThreadInv'
  <2>1. Stopped' /\ JobShape' /\ JobThread' /\ AppendFits'
    BY <1>0, <1>1, <1>2 DEF ThreadInv, Stopped, JobShape, JobThread, AppendFits
  <2>2. Requests' /\ Undoable' /\ Clocks'
    BY <1>0, <1>1 DEF ThreadInv, Requests, CursorAfter, Undoable, Sound, Clocks
  <2> QED BY <2>1, <2>2 DEF ThreadInv
<1>5. MemoryInv'
  <2>1. Committed /\ Committed'
    BY <1>1, <1>2 DEF Committed
  <2> QED BY <1>0, <1>1, <1>2, <2>1 DEF MemoryInv, RowsSound, MemoryHasFile, UnsavedIsNew, CountedIsSaved,
       CommitSaves, FileNotAhead, Sound, Expired
<1>6. ReaderInv'
  BY <1>1, ReaderFrame DEF StateInv
<1>7. StoredInv'
  BY <1>0, <1>1, <1>2 DEF StoredInv, FileReady, Written, Committed, Certifies
<1> QED BY <1>3, <1>4, <1>5, <1>6, <1>7 DEF StateInv

LEMMA RememberState ==
  ASSUME StateInv, Remember
  PROVE  StateInv'
<1> USE NumbersTyped
<1>0. CoreTyped /\ FilesTyped /\ ReadersTyped /\ SpentTyped /\ ThreadInv /\ MemoryInv /\ ReaderInv
      /\ StoredInv
  BY TypeParts DEF StateInv
<1>1. /\ up /\ job.step = "remember"
      /\ cache' = [cache EXCEPT !.counts = Len(cache.rows), !.rewrite = FALSE]
      /\ undo' = (IF job.by = "prune" THEN NoUndo ELSE undo)
      /\ marker' = [marker EXCEPT !.stream = meta.stream, !.rev = meta.rev]
      /\ UNCHANGED <<now, fills, data, prev, meta, up, reader, spent>>
  BY DEF Remember, venue, files
<1>2. Committed /\ job \in Jobs /\ job.by \in {"sync", "ws", "prune"} /\ job.kind \in {"append", "compact"}
  BY <1>0, <1>1 DEF Committed, CoreTyped, Jobs, ThreadInv, JobShape
<1>3. /\ cache' \in Caches /\ cache'.rows = cache.rows /\ cache'.counts = Len(cache.rows)
      /\ cache'.rewrite = FALSE /\ cache'.cursor = cache.cursor /\ cache'.seen = cache.seen
      /\ DOMAIN cache.rows = 1..Len(cache.rows) /\ Len(cache.rows) \in Nat
  <2>1. cache \in Caches /\ cache.rows \in Seq(Ids) /\ IsInjective(cache.rows)
    BY <1>0, CoreFacts DEF CoreTyped, MemoryInv, RowsSound, Sound
  <2>2. Len(cache.rows) \in Nat /\ Len(cache.rows) <= MaxFills /\ DOMAIN cache.rows = 1..Len(cache.rows)
    BY <2>1, RowsFit, LenProperties
  <2>3. Len(cache.rows) \in 0..MaxFills
    BY <2>2
  <2> QED BY <1>1, <2>1, <2>2, <2>3 DEF Caches
<1>4. /\ undo' \in Caches /\ Sound(undo'.rows)
      /\ job.by # "prune" => undo' = undo
  <2>1. NoUndo \in Caches /\ Sound(NoUndo.rows)
    <3>1. <<>> \in Seq(Ids) /\ 0 \in 0..MaxFills /\ 0 \in 0..MaxNow
      OBVIOUS
    <3> QED BY <3>1 DEF Caches, Rows, Sound, IsInjective, Range
  <2>2. undo \in Caches /\ Sound(undo.rows)
    BY <1>0 DEF CoreTyped, ThreadInv, Undoable
  <2> HIDE DEF NoUndo
  <2>4. undo' \in {undo, NoUndo} /\ (job.by # "prune" => undo' = undo)
    BY <1>1
  <2> QED BY <2>1, <2>2, <2>4
<1>5. /\ marker' \in [stream : Nat, rev : Nat, time : 0..MaxNow] /\ marker'.time = marker.time
      /\ Version(marker)' = Version(meta)
  BY <1>0, <1>1 DEF CoreTyped, Version
<1>6. /\ job' \in Jobs /\ sync' \in Syncs /\ ws' \in BOOLEAN
      /\ JobShape' /\ JobThread' /\ AppendFits' /\ Requests'
      /\ sync'.at = "pruned" => sync.at = "pruned" /\ job.by = "ws"
      /\ Committed' => job'.step = "publish" /\ job'.kind = job.kind /\ sync' = sync
      /\ job'.step \in {"none", "publish"}
      /\ job.by = "prune" \/ (sync'.at = "pruned" <=> sync.at = "pruned")
      /\ job.by = "prune" => sync'.at = "wait"
  <2>1. CASE job.by = "sync" /\ sync.asked > 0
    <3>1. job' = [job EXCEPT !.step = "publish"] /\ sync' = sync /\ ws' = ws /\ sync.at = "synced"
      BY <1>0, <2>1 DEF Remember, threads, ThreadInv, JobThread
    <3>2. job' \in Jobs /\ job'.step = "publish" /\ job'.kind = job.kind /\ job'.by = job.by
      BY <1>2, <3>1 DEF Jobs
    <3>3. sync' \in Syncs /\ ws' \in BOOLEAN
      BY <1>0, <3>1 DEF CoreTyped, Syncs
    <3>4. JobShape' /\ JobThread' /\ Requests'
      BY <1>0, <1>1, <1>2, <1>3, <2>1, <3>1, <3>2 DEF ThreadInv, JobShape, JobThread, Requests, CursorAfter
    <3>5. AppendFits'
      BY <1>3 DEF AppendFits
    <3> QED BY <2>1, <3>1, <3>2, <3>3, <3>4, <3>5
  <2>2. CASE ~(job.by = "sync" /\ sync.asked > 0)
    <3>1. Return(job.by, TRUE)
      BY <2>2 DEF Remember
    <3>2. (job.by = "sync" => sync.at = "synced") /\ (job.by = "prune" => sync.at = "pruned")
      BY <1>0 DEF ThreadInv, JobThread
    <3>3. /\ job' = NoJob /\ job' \in Jobs /\ sync' \in Syncs /\ ws' \in BOOLEAN
          /\ ~Committed' /\ JobShape' /\ JobThread' /\ AppendFits'
          /\ job.by = "ws" => sync' = sync
          /\ job.by # "ws" => sync'.at \in {"wait", "saved"} /\ sync'.asked = 0 /\ sync'.got = {}
          /\ job.by # "prune" => (sync'.at = "pruned" <=> sync.at = "pruned")
          /\ job.by = "prune" => sync'.at = "wait"
      BY <1>0, <1>2, <3>1, <3>2, Returns
    <3>4. Requests'
      <4>1. CASE job.by = "ws"
        BY <1>0, <1>1, <1>3, <3>3, <4>1 DEF ThreadInv, Requests, CursorAfter
      <4>2. CASE job.by # "ws"
        <5>1. 0 <= now
          BY <1>0, CoreFacts
        <5> QED BY <1>1, <3>3, <4>2, <5>1 DEF Requests
      <4> QED BY <4>1, <4>2
    <3>5. job'.step = "none"
      BY <3>3
    <3>6. /\ sync'.at = "pruned" => sync.at = "pruned" /\ job.by = "ws"
          /\ job.by = "prune" \/ (sync'.at = "pruned" <=> sync.at = "pruned")
      BY <1>2, <3>3
    <3>7. job' \in Jobs /\ sync' \in Syncs /\ ws' \in BOOLEAN /\ JobShape' /\ JobThread' /\ AppendFits'
      BY <3>3
    <3>8. ~Committed' /\ (job.by = "prune" => sync'.at = "wait")
      BY <3>3
    <3> QED BY <3>4, <3>5, <3>6, <3>7, <3>8
  <2> QED BY <2>1, <2>2
<1>7. TypeOK'
  <2>1. CoreTyped'
    BY <1>0, <1>1, <1>3, <1>4, <1>5, <1>6 DEF CoreTyped, Syncs, Jobs
  <2> QED BY <1>0, <1>1, <2>1, TypeParts, FilesFrame, ReadersFrame, SpentFrame
<1>8. ThreadInv'
  <2>1. Stopped'
    BY <1>1 DEF Stopped
  <2>2. Undoable'
    <3>1. Sound(undo.rows)' <=> Sound(undo'.rows)
      BY <1>1 DEF Sound
    <3> QED BY <1>0, <1>3, <1>4, <1>6, <3>1 DEF ThreadInv, Undoable
  <2>3. Clocks'
    BY <1>0, <1>1, <1>3, <1>5 DEF ThreadInv, Clocks
  <2> QED BY <1>6, <2>1, <2>2, <2>3 DEF ThreadInv
<1>9. MemoryInv'
  <2>1. RowsSound'
    BY <1>0, <1>1, <1>3 DEF MemoryInv, RowsSound, Sound
  <2>2. CommitSaves
    BY <1>0 DEF MemoryInv
  <2>3. job.kind = "append" => ~cache.rewrite
    BY <1>0 DEF ThreadInv, AppendFits
  <2>4. job.kind = "append" => job.by # "prune"
    BY <1>0 DEF ThreadInv, JobShape
  <2>5. MemoryHasFile'
    <3>1. CASE job.kind = "compact"
      BY <1>1, <1>2, <1>3, <2>2, <3>1 DEF CommitSaves, MemoryHasFile
    <3>2. CASE job.kind = "append"
      BY <1>0, <1>1, <1>3, <1>6, <2>3, <2>4, <3>2 DEF MemoryInv, MemoryHasFile, Expired
    <3> QED BY <1>2, <3>1, <3>2
  <2>6. UnsavedIsNew'
    BY <1>3 DEF UnsavedIsNew
  <2>7. CountedIsSaved'
    <3> SUFFICES ASSUME sync'.at # "pruned", NEW i \in DOMAIN cache.rows
                 PROVE  cache.rows[i] \in Range(meta.rows)
      BY <1>1, <1>3 DEF CountedIsSaved
    <3>1. cache.rows[i] \in Range(cache.rows)
      BY DEF Range
    <3>2. Range(cache.rows) \subseteq Range(meta.rows)
      BY <1>2, <1>6, <2>2, <2>4 DEF CommitSaves
    <3> QED BY <3>1, <3>2
  <2>8. CommitSaves'
    <3> SUFFICES ASSUME Committed' PROVE CommitSaves'
      BY DEF CommitSaves
    <3> QED BY <1>1, <1>2, <1>3, <1>6, <2>2 DEF CommitSaves
  <2>9. FileNotAhead'
    <3>1. meta.seen = cache.seen /\ cache.seen \in Nat
      BY <1>0, <1>2, <2>2, CoreFacts DEF CommitSaves
    <3> QED BY <1>1, <1>3, <3>1 DEF FileNotAhead
  <2> QED BY <2>1, <2>5, <2>6, <2>7, <2>8, <2>9 DEF MemoryInv
<1>10. ReaderInv'
  <2>1. Older(Version(meta), Version(meta))
    BY <1>0, CoreFacts DEF Older, Version
  <2>2. VersionsPast'
    BY <1>0, <1>1, <1>5, <2>1 DEF ReaderInv, VersionsPast, Version
  <2> QED BY <1>0, <1>1, <2>2 DEF ReaderInv, ReadersMatch, LoadedIsAsked, PermitBounded, Version
<1>11. StoredInv'
  <2>1. Certifies(data, meta)
    BY <1>0, <1>1, <1>2 DEF StoredInv, FileReady
  <2>2. FileReady'
    BY <1>1, <2>1 DEF FileReady, Certifies
  <2> QED BY <1>6, <2>2 DEF StoredInv, Written
<1> QED BY <1>7, <1>8, <1>9, <1>10, <1>11 DEF StateInv

LEMMA PublishState ==
  ASSUME StateInv, Publish
  PROVE  StateInv'
<1> USE NumbersTyped
<1>0. CoreTyped /\ FilesTyped /\ ReadersTyped /\ SpentTyped /\ ThreadInv /\ MemoryInv /\ ReaderInv
      /\ StoredInv
  BY TypeParts DEF StateInv
<1>1. /\ up /\ job.step = "publish" /\ Return(job.by, TRUE)
      /\ marker' = [stream |-> meta.stream, rev |-> meta.rev, time |-> sync.asked]
      /\ UNCHANGED <<now, fills, cache, undo, data, prev, meta, up, reader, spent>>
  BY DEF Publish, SyncTime, venue, memory, files
<1>2. job.by = "sync" /\ sync.at = "synced" /\ sync.asked > 0 /\ Committed
  BY <1>0, <1>1 DEF ThreadInv, JobThread, Committed
<1>3. /\ job' = NoJob /\ job' \in Jobs /\ sync' \in Syncs /\ ws' \in BOOLEAN
      /\ ~Committed' /\ JobShape' /\ JobThread' /\ AppendFits' /\ Requests'
      /\ sync'.at = "saved"
  BY <1>0, <1>1, <1>2, Returns
<1>4. /\ marker' \in [stream : Nat, rev : Nat, time : 0..MaxNow] /\ marker'.time = sync.asked
      /\ Version(marker)' = Version(meta)
  BY <1>0, <1>1, CoreFacts DEF Version
<1>5. TypeOK'
  <2>1. CoreTyped'
    BY <1>0, <1>1, <1>3, <1>4 DEF CoreTyped, Syncs, Jobs
  <2> QED BY <1>0, <1>1, <2>1, TypeParts, FilesFrame, ReadersFrame, SpentFrame
<1>6. ThreadInv'
  <2>1. Stopped' /\ Undoable'
    BY <1>0, <1>1, <1>3 DEF Stopped, ThreadInv, Undoable, Sound
  <2>2. sync.asked <= meta.cursor + 1
    <3>1. meta.cursor = sync.asked - 1
      BY <1>0, <1>2 DEF MemoryInv, CommitSaves, ThreadInv, Requests, CursorAfter
    <3>2. meta.cursor \in Nat /\ sync.asked \in Nat
      BY <1>0, CoreFacts
    <3> QED BY <3>1, <3>2
  <2>3. Clocks'
    BY <1>0, <1>1, <1>4, <2>2 DEF ThreadInv, Clocks
  <2> QED BY <1>3, <2>1, <2>3 DEF ThreadInv
<1>7. MemoryInv'
  <2>1. cache.counts = Len(cache.rows) /\ DOMAIN cache.rows = 1..Len(cache.rows) /\ Len(cache.rows) \in Nat
    BY <1>0, <1>1, <1>2, CoreFacts, LenProperties DEF MemoryInv, CommitSaves
  <2>2. UnsavedIsNew'
    BY <1>1, <2>1 DEF UnsavedIsNew
  <2> QED BY <1>0, <1>1, <1>2, <1>3, <2>2 DEF MemoryInv, RowsSound, MemoryHasFile, CountedIsSaved, CommitSaves,
       FileNotAhead, Sound
<1>8. ReaderInv'
  <2>1. Older(Version(meta), Version(meta))
    BY <1>0, CoreFacts DEF Older, Version
  <2>2. VersionsPast'
    BY <1>0, <1>1, <1>4, <2>1 DEF ReaderInv, VersionsPast, Version
  <2> QED BY <1>0, <1>1, <2>2 DEF ReaderInv, ReadersMatch, LoadedIsAsked, PermitBounded, Version
<1>9. StoredInv'
  <2>1. Certifies(data, meta)
    BY <1>0, <1>1, <1>2 DEF StoredInv, FileReady
  <2>2. FileReady'
    BY <1>1, <2>1 DEF FileReady, Certifies
  <2> QED BY <1>3, <2>2 DEF StoredInv, Written
<1> QED BY <1>5, <1>6, <1>7, <1>8, <1>9 DEF StateInv

--------------------------------------------------------------------------------
(* StateInv: memory read from the file, pruned, and lost *)

\* Memory is what the manifest names: after a restart, or when it is behind.
LEMMA ReadBack ==
  ASSUME StateInv, job' = NoJob, Recoverable,
         cache' \in [rows : {meta.rows}, counts : {Len(meta.rows)}, cursor : {meta.cursor},
                     seen : {meta.seen}, rewrite : BOOLEAN],
         data' = DataRecovered, prev' = PrevRecovered,
         UNCHANGED <<now, fills, meta, spent>>
  PROVE  cache' \in Caches /\ FilesTyped' /\ SpentTyped' /\ MemoryInv' /\ StoredInv'
<1>0. CoreTyped /\ FilesTyped /\ SpentTyped /\ MemoryInv
  BY TypeParts DEF StateInv
<1>1. /\ cache'.rows = meta.rows /\ cache'.counts = Len(meta.rows)
      /\ cache'.cursor = meta.cursor /\ cache'.seen = meta.seen
  OBVIOUS
<1>2. /\ meta.rows \in Seq(Ids) /\ Len(meta.rows) \in 0..MaxFills /\ Len(meta.rows) \in Nat
      /\ DOMAIN meta.rows = 1..Len(meta.rows) /\ meta.cursor \in 0..MaxNow
      /\ meta.seen \in 0..MaxNow /\ meta.seen \in Nat
  <2>1. meta.rows \in Seq(Ids) /\ IsInjective(meta.rows) /\ meta.cursor \in 0..MaxNow
        /\ meta.seen \in 0..MaxNow /\ meta.seen \in Nat
    BY <1>0, CoreFacts DEF MemoryInv, RowsSound, Sound
  <2>2. Len(meta.rows) \in Nat /\ Len(meta.rows) <= MaxFills /\ DOMAIN meta.rows = 1..Len(meta.rows)
    BY <2>1, RowsFit, LenProperties
  <2> QED BY <2>1, <2>2, NumbersTyped
<1>3. cache' \in Caches
  BY <1>2 DEF Caches, Rows
<1>4. FilesTyped' /\ SpentTyped' /\ Certifies(data', meta)
  BY <1>0, Recovered, SpentFrame DEF FilesTyped
<1>5. MemoryInv'
  <2>1. RowsSound' /\ CommitSaves'
    BY <1>0, <1>1 DEF MemoryInv, RowsSound, Sound, CommitSaves, Committed
  <2>2. MemoryHasFile' /\ UnsavedIsNew' /\ CountedIsSaved' /\ FileNotAhead'
    BY <1>1, <1>2 DEF MemoryHasFile, UnsavedIsNew, CountedIsSaved, FileNotAhead, Range
  <2> QED BY <2>1, <2>2 DEF MemoryInv
<1>6. StoredInv'
  BY <1>4 DEF StoredInv, FileReady, Written, Certifies
<1> QED BY <1>3, <1>4, <1>5, <1>6

LEMMA ResyncState ==
  ASSUME StateInv, Resync
  PROVE  StateInv'
<1> USE NumbersTyped
<1>0. CoreTyped /\ ReadersTyped /\ ThreadInv
  BY TypeParts DEF StateInv
<1>1. /\ up /\ sync.at = "saved" /\ job = NoJob
      /\ UNCHANGED <<venue, now, fills, undo, ws, job, meta, marker, up, reader, spent>>
  BY DEF Resync, Free, venue
<1>2. CASE meta.seen > cache.seen
  <2>1. /\ Recoverable /\ data' = DataRecovered /\ prev' = PrevRecovered /\ sync' = sync
        /\ cache' = [cache EXCEPT !.rows = meta.rows, !.counts = Len(meta.rows),
                                  !.cursor = meta.cursor, !.seen = meta.seen]
    BY <1>2 DEF Resync
  <2>2. cache' \in [rows : {meta.rows}, counts : {Len(meta.rows)}, cursor : {meta.cursor},
                    seen : {meta.seen}, rewrite : BOOLEAN]
    BY <1>0, <2>1 DEF CoreTyped, Caches
  <2>3. cache' \in Caches /\ FilesTyped' /\ SpentTyped' /\ MemoryInv' /\ StoredInv'
    BY <1>1, <2>1, <2>2, ReadBack
  <2>4. cache'.cursor = meta.cursor
    BY <2>2
  <2>5. TypeOK'
    <3>1. CoreTyped'
      BY <1>0, <1>1, <2>1, <2>3 DEF CoreTyped
    <3> QED BY <1>0, <1>1, <2>3, <3>1, TypeParts, ReadersFrame
  <2>6. ThreadInv'
    <3>1. Stopped' /\ JobShape' /\ JobThread' /\ AppendFits'
      BY <1>1 DEF Stopped, JobShape, JobThread, AppendFits
    <3>2. Requests' /\ Undoable'
      BY <1>0, <1>1, <2>1 DEF ThreadInv, Requests, Undoable, Sound
    <3>3. Clocks'
      <4>1. meta.cursor \in Nat
        BY <1>0, CoreFacts
      <4> QED BY <1>0, <1>1, <2>4, <4>1 DEF ThreadInv, Clocks
    <3> QED BY <3>1, <3>2, <3>3 DEF ThreadInv
  <2>7. ReaderInv'
    BY <1>1, ReaderFrame DEF StateInv
  <2> QED BY <2>3, <2>5, <2>6, <2>7 DEF StateInv
<1>3. CASE ~(meta.seen > cache.seen)
  <2>1. sync' = [sync EXCEPT !.at = "synced", !.asked = 0] /\ UNCHANGED <<data, prev, cache>>
    BY <1>3 DEF Resync
  <2>2. UNCHANGED <<venue, memory, ws, job, files, marker, up, reader, spent>>
    BY <1>1, <2>1 DEF memory, files
  <2>3. sync' = [at |-> "synced", asked |-> 0, got |-> sync.got]
    BY <1>0, <2>1 DEF CoreTyped
  <2>4. /\ 0 \in 0..MaxNow /\ 0 <= now /\ sync.got \in SUBSET Ids
    <3>1. now \in 1..MaxNow /\ now \in Nat /\ sync.got \in SUBSET Ids
      BY <1>0, CoreFacts
    <3> QED BY <3>1, NumbersTyped
  <2>5. Requests'
    BY <1>0, <1>1, <2>1, <2>3, <2>4 DEF ThreadInv, Requests
  <2> QED BY <1>1, <2>2, <2>3, <2>4, <2>5, SyncOnly
<1> QED BY <1>2, <1>3

LEMMA PruneState ==
  ASSUME StateInv, Prune
  PROVE  StateInv'
<1> USE NumbersTyped
<1>0. CoreTyped /\ FilesTyped /\ ReadersTyped /\ SpentTyped /\ ThreadInv /\ MemoryInv
  BY TypeParts DEF StateInv
<1>1. /\ up /\ sync.at = "saved" /\ job = NoJob
      /\ spent.prune < MaxPrunes /\ Spend("prune")
      /\ undo' = cache /\ cache' = [cache EXCEPT !.rows = Kept]
      /\ sync' = [sync EXCEPT !.at = "pruned"]
      /\ UNCHANGED <<now, fills, ws, job, data, prev, meta, marker, up, reader>>
  BY DEF Prune, Free, venue, files
<1>2. /\ cache \in Caches /\ cache.rows \in Seq(Ids) /\ IsInjective(cache.rows)
      /\ cache.counts \in Nat
  BY <1>0, CoreFacts DEF CoreTyped, MemoryInv, RowsSound, Sound
<1>3. /\ Kept \in Seq(Ids) /\ IsInjective(Kept)
      /\ \A k : k \in Range(Kept) <=> k \in Range(cache.rows) /\ ~Expired(k)
      /\ \A j \in DOMAIN Kept :
           \E i \in DOMAIN cache.rows : j <= i /\ Kept[j] = cache.rows[i]
  BY <1>2, KeptRows
<1>4. /\ cache' \in Caches /\ cache'.rows = Kept /\ cache'.counts = cache.counts
      /\ cache'.cursor = cache.cursor /\ cache'.seen = cache.seen /\ cache'.rewrite = cache.rewrite
  BY <1>1, <1>2, <1>3 DEF Caches, Rows
<1>5. sync' \in Syncs /\ sync'.at = "pruned" /\ sync'.asked = 0 /\ sync'.got = sync.got
  BY <1>0, <1>1 DEF CoreTyped, Syncs, ThreadInv, Requests
<1>6. TypeOK'
  <2>1. CoreTyped'
    BY <1>0, <1>1, <1>2, <1>4, <1>5 DEF CoreTyped, Syncs
  <2> QED BY <1>0, <1>1, <2>1, TypeParts, FilesFrame, ReadersFrame, SpentFrame
<1>7. ThreadInv'
  <2>1. Stopped' /\ JobShape' /\ JobThread' /\ AppendFits'
    BY <1>1 DEF Stopped, JobShape, JobThread, AppendFits
  <2>2. Requests'
    BY <1>0, <1>1, <1>5, CoreFacts DEF ThreadInv, Requests
  <2>3. Undoable'
    <3>1. MaxPrunes # 0
      <4>1. spent.prune \in Nat
        BY <1>0 DEF SpentTyped
      <4> QED BY <1>1, <4>1
    <3> QED BY <1>0, <1>1, <1>4, <3>1 DEF MemoryInv, RowsSound, Undoable, Sound
  <2>4. Clocks'
    BY <1>0, <1>1, <1>4 DEF ThreadInv, Clocks
  <2> QED BY <2>1, <2>2, <2>3, <2>4 DEF ThreadInv
<1>8. MemoryInv'
  <2>1. RowsSound'
    BY <1>0, <1>1, <1>3, <1>4 DEF MemoryInv, RowsSound, Sound
  <2>2. MemoryHasFile'
    <3> SUFFICES ASSUME ~cache.rewrite, NEW k \in Range(meta.rows)
                 PROVE  k \in Range(Kept) \/ Expired(k)
      BY <1>1, <1>4, <1>5 DEF MemoryHasFile, Expired
    <3>1. k \in Range(cache.rows)
      BY <1>0, <1>1 DEF MemoryInv, MemoryHasFile
    <3> QED BY <1>3, <3>1
  <2>3. UnsavedIsNew'
    <3> SUFFICES ASSUME ~cache.rewrite, NEW j \in DOMAIN Kept, j > cache.counts
                 PROVE  Kept[j] \notin Range(meta.rows)
      BY <1>1, <1>4 DEF UnsavedIsNew
    <3>1. PICK i \in DOMAIN cache.rows : j <= i /\ Kept[j] = cache.rows[i]
      BY <1>3
    <3>2. i \in Nat /\ j \in Nat
      <4>1. DOMAIN Kept = 1..Len(Kept) /\ DOMAIN cache.rows = 1..Len(cache.rows)
        BY <1>2, <1>3, LenProperties
      <4> QED BY <4>1
    <3>3. i > cache.counts
      BY <1>2, <3>1, <3>2
    <3> QED BY <1>0, <1>1, <3>1, <3>3 DEF MemoryInv, UnsavedIsNew, Committed
  <2>4. CountedIsSaved' /\ CommitSaves' /\ FileNotAhead'
    BY <1>0, <1>1, <1>4, <1>5 DEF MemoryInv, CountedIsSaved, CommitSaves, FileNotAhead, Committed
  <2> QED BY <2>1, <2>2, <2>3, <2>4 DEF MemoryInv
<1>9. ReaderInv'
  BY <1>1, ReaderFrame DEF StateInv
<1>10. StoredInv'
  BY <1>1, <1>4, StoredFrame DEF StateInv
<1> QED BY <1>6, <1>7, <1>8, <1>9, <1>10 DEF StateInv

LEMMA CrashState ==
  ASSUME StateInv, Crash
  PROVE  StateInv'
<1> USE NumbersTyped
<1>0. CoreTyped /\ FilesTyped /\ ReadersTyped /\ SpentTyped /\ ThreadInv /\ MemoryInv
  BY TypeParts DEF StateInv
<1>1. /\ up /\ Spend("crash") /\ up' = FALSE
      /\ cache' = NoUndo /\ undo' = NoUndo
      /\ sync' = Resting /\ ws' = FALSE /\ job' = NoJob
      /\ data' \in (IF job.step = "rows" THEN PartialAppends ELSE {data})
      /\ UNCHANGED <<now, fills, prev, meta, marker, reader>>
  BY DEF Crash, venue
<1>2. FilesTyped' /\ SpentTyped'
  <2>1. data' \in Seq(Ids \cup {Torn})
    <3>1. CASE job.step = "rows"
      <4>1. job.kind = "append"
        BY <1>0, <3>1 DEF ThreadInv, JobShape
      <4> QED BY <1>1, <3>1, <4>1, AppendFiles
    <3>2. CASE job.step # "rows"
      BY <1>0, <1>1, <3>2 DEF FilesTyped
    <3> QED BY <3>1, <3>2
  <2>2. FilesTyped'
    BY <1>0, <1>1, <2>1 DEF FilesTyped
  <2> QED BY <1>0, <1>1, <2>2, SpentFrame
<1>3. <<>> \in Seq(Ids) /\ Len(<<>>) = 0 /\ 0 \in 0..MaxFills /\ 0 \in 0..MaxNow /\ Sound(<<>>)
  BY DEF Sound, IsInjective, Range
<1>4. TypeOK'
  <2>1. cache' \in Caches /\ undo' \in Caches
    BY <1>1, <1>3 DEF Caches, Rows
  <2>2. sync' \in Syncs /\ job' \in Jobs /\ ws' \in BOOLEAN /\ up' \in BOOLEAN
    BY <1>1, <1>3 DEF Syncs, Jobs
  <2>3. CoreTyped'
    <3> HIDE DEF NoUndo, NoJob, Resting
    <3> QED BY <1>0, <1>1, <2>1, <2>2 DEF CoreTyped, Syncs, Jobs
  <2> QED BY <1>0, <1>1, <1>2, <2>3, TypeParts, ReadersFrame
<1>5. ThreadInv'
  <2>1. Stopped' /\ JobShape' /\ JobThread' /\ AppendFits'
    BY <1>1 DEF Stopped, JobShape, JobThread, AppendFits
  <2>2. 0 <= now /\ 0 < now
    BY <1>0, CoreFacts
  <2>3. Requests' /\ Undoable'
    BY <1>1, <1>3, <2>2 DEF Requests, Undoable, Sound
  <2>4. Clocks'
    BY <1>0, <1>1, <2>2 DEF ThreadInv, Clocks
  <2> QED BY <2>1, <2>3, <2>4 DEF ThreadInv
<1>6. MemoryInv'
  <2>1. RowsSound'
    BY <1>0, <1>1, <1>3 DEF MemoryInv, RowsSound, Sound
  <2>2. cache'.rows = <<>> /\ cache'.counts = 0
    BY <1>1
  <2>3. DOMAIN cache'.rows = {} /\ Len(cache'.rows) = 0
    BY <2>2
  <2> QED BY <1>1, <2>1, <2>2, <2>3 DEF MemoryInv, MemoryHasFile, UnsavedIsNew, CountedIsSaved,
       CommitSaves, FileNotAhead, Committed
<1>7. ReaderInv'
  BY <1>1, ReaderFrame DEF StateInv
<1>8. StoredInv'
  BY <1>1 DEF StoredInv, FileReady, Written
<1> QED BY <1>4, <1>5, <1>6, <1>7, <1>8 DEF StateInv

LEMMA RestartState ==
  ASSUME StateInv, Restart
  PROVE  StateInv'
<1> USE NumbersTyped
<1>0. CoreTyped /\ ReadersTyped /\ ThreadInv /\ ReaderInv
  BY TypeParts DEF StateInv
<1>1. /\ ~up /\ up' = TRUE /\ Recoverable
      /\ data' = DataRecovered /\ prev' = PrevRecovered /\ marker' = Announced
      /\ cache' = [rows |-> meta.rows, counts |-> Len(meta.rows), cursor |-> meta.cursor,
                   seen |-> meta.seen, rewrite |-> FALSE]
      /\ UNCHANGED <<now, fills, undo, sync, ws, job, meta, reader, spent>>
  BY DEF Restart, venue, threads
<1>2. job = NoJob /\ sync = Resting /\ undo = NoUndo /\ ~ws
  BY <1>0, <1>1 DEF ThreadInv, Stopped
<1>3. /\ cache' \in [rows : {meta.rows}, counts : {Len(meta.rows)}, cursor : {meta.cursor},
                    seen : {meta.seen}, rewrite : BOOLEAN]
      /\ cache'.cursor = meta.cursor
  BY <1>1
<1>4. cache' \in Caches /\ FilesTyped' /\ SpentTyped' /\ MemoryInv' /\ StoredInv'
  BY <1>1, <1>2, <1>3, ReadBack
<1>5. /\ marker' \in [stream : Nat, rev : Nat, time : 0..MaxNow]
      /\ marker'.time \in {0, meta.cursor}
      /\ Version(marker)' = Version(meta) \/ Version(marker)' = <<0, 0>>
  <2>1. /\ meta.stream \in Nat /\ meta.rev \in Nat /\ meta.cursor \in 0..MaxNow
        /\ 0 \in 0..MaxNow
    BY <1>0, CoreFacts
  <2> QED BY <1>1, <2>1 DEF Announced, Version
<1>6. TypeOK'
  <2>1. CoreTyped'
    BY <1>0, <1>1, <1>4, <1>5 DEF CoreTyped
  <2> QED BY <1>0, <1>1, <1>4, <2>1, TypeParts, ReadersFrame
<1>7. ThreadInv'
  <2>1. Stopped' /\ JobShape' /\ JobThread' /\ AppendFits'
    BY <1>1, <1>2 DEF Stopped, JobShape, JobThread, AppendFits
  <2>2. Requests' /\ Undoable'
    BY <1>0, <1>1, <1>2 DEF ThreadInv, Requests, Undoable, Sound
  <2>3. Clocks'
    <3>1. meta.cursor \in Nat
      BY <1>0, CoreFacts
    <3>2. meta.cursor <= meta.cursor + 1 /\ 0 <= meta.cursor + 1 /\ meta.cursor <= meta.cursor
      BY <3>1
    <3> QED BY <1>0, <1>1, <1>3, <1>5, <3>2 DEF ThreadInv, Clocks
  <2> QED BY <2>1, <2>2, <2>3 DEF ThreadInv
<1>8. ReaderInv'
  <2>1. /\ meta.stream \in Nat /\ meta.rev \in Nat /\ meta.stream > 0
    BY <1>0, CoreFacts DEF ThreadInv, Clocks
  <2>2. Older(Version(meta), Version(meta)) /\ Older(<<0, 0>>, Version(meta))
    BY <2>1 DEF Older, Version
  <2>3. VersionsPast'
    BY <1>0, <1>1, <1>5, <2>2 DEF ReaderInv, VersionsPast, Version
  <2> QED BY <1>0, <1>1, <2>3 DEF ReaderInv, ReadersMatch, LoadedIsAsked, PermitBounded, Version
<1> QED BY <1>4, <1>6, <1>7, <1>8 DEF StateInv

--------------------------------------------------------------------------------
(* StateInv: readers, and all steps together *)

ReaderRecords == [at : {"free", "asked", "loaded"}, rows : Rows, ver : Versions,
                  evidence : [stream : Nat, rev : Nat, time : 0..MaxNow],
                  permit : [expires : Nat]]

\* One reader moves; nothing else does, but for the files it may have put right.
LEMMA ReaderMoves ==
  ASSUME StateInv, NEW r \in Readers, NEW x \in ReaderRecords,
         reader' = [reader EXCEPT ![r] = x],
         \/ x.ver = reader[r].ver /\ x.rows = reader[r].rows
         \/ x.ver = Version(meta) /\ x.rows = meta.rows,
         x.at = "loaded" => x.ver = Version(x.evidence),
         \/ x.permit = reader[r].permit
         \/ /\ x.permit.expires <= now + PermitTtl
            /\ x.permit.expires <= meta.cursor + 1 + MaxAge,
         FilesTyped',
         data' = data \/ (job = NoJob /\ Certifies(data', meta)),
         UNCHANGED <<venue, memory, threads, job, meta, marker, up, spent>>
  PROVE  StateInv'
<1>0. CoreTyped /\ ReadersTyped /\ SpentTyped /\ ThreadInv /\ MemoryInv /\ ReaderInv /\ StoredInv
  BY TypeParts DEF StateInv
<1>1. UNCHANGED <<now, fills, cache, undo, sync, ws, job, meta, marker, up, spent>>
  BY DEF venue, memory, threads
<1>2. /\ reader \in [Readers -> ReaderRecords] /\ reader' \in [Readers -> ReaderRecords]
      /\ reader'[r] = x
      /\ \A q \in Readers : q # r => reader'[q] = reader[q]
  BY <1>0 DEF ReadersTyped, ReaderRecords
<1>3. TypeOK'
  <2>1. CoreTyped'
    BY <1>0, CoreFrame
  <2>2. ReadersTyped'
    BY <1>2 DEF ReadersTyped, ReaderRecords
  <2> QED BY <1>0, <1>1, <2>1, <2>2, TypeParts, SpentFrame
<1>4. ThreadInv' /\ MemoryInv'
  BY <1>0, ThreadFrame, MemoryFrame
<1>5. ReaderInv'
  <2>1. Version(meta) \in Versions /\ Older(Version(meta), Version(meta))
    BY <1>0, CoreFacts DEF Version, Versions, Older
  <2>2. VersionsPast'
    BY <1>0, <1>1, <1>2, <2>1 DEF ReaderInv, VersionsPast, Version
  <2>3. ReadersMatch'
    BY <1>0, <1>1, <1>2 DEF ReaderInv, ReadersMatch, Version
  <2>4. LoadedIsAsked'
    BY <1>0, <1>1, <1>2 DEF ReaderInv, LoadedIsAsked, Version
  <2>5. PermitBounded'
    BY <1>0, <1>1, <1>2 DEF ReaderInv, PermitBounded
  <2> QED BY <2>2, <2>3, <2>4, <2>5 DEF ReaderInv
<1>6. StoredInv'
  <2>1. CASE data' = data
    BY <1>0, <1>1, <2>1, StoredFrame
  <2>2. CASE job = NoJob /\ Certifies(data', meta)
    BY <1>1, <2>2 DEF StoredInv, FileReady, Written, Certifies
  <2> QED BY <2>1, <2>2
<1> QED BY <1>3, <1>4, <1>5, <1>6 DEF StateInv

LEMMA LoadState ==
  ASSUME StateInv, NEW r \in Readers, NEW ver \in Versions, NEW then \in {"free", "loaded"},
         then = "loaded" => ver = Version(reader[r].evidence),
         Load(r, ver, then)
  PROVE  StateInv'
<1> DEFINE rr == reader[r]
<1>0. CoreTyped /\ FilesTyped /\ ReadersTyped
  BY TypeParts DEF StateInv
<1>1. UNCHANGED <<venue, memory, threads, job, meta, marker, up, spent>>
  BY DEF Load
<1>2. /\ reader \in [Readers -> ReaderRecords] /\ rr \in ReaderRecords
      /\ meta.rows \in Seq(Ids)
  BY <1>0, CoreFacts DEF ReadersTyped, ReaderRecords
<1>3. CASE rr.ver = ver
  <2>1. reader' = [reader EXCEPT ![r].at = then] /\ UNCHANGED <<data, prev>>
    BY <1>3 DEF Load
  <2> DEFINE x == [rr EXCEPT !.at = then]
  <2>2. /\ x \in ReaderRecords /\ x.at = then /\ x.rows = rr.rows /\ x.ver = rr.ver
        /\ x.evidence = rr.evidence /\ x.permit = rr.permit
    BY <1>2 DEF ReaderRecords
  <2>3. reader' = [reader EXCEPT ![r] = x]
    BY <1>2, <2>1
  <2> HIDE DEF x
  <2> QED BY <1>0, <1>1, <1>3, <2>1, <2>2, <2>3, FilesFrame, ReaderMoves DEF Version
<1>4. CASE rr.ver # ver /\ Version(meta) = ver /\ (SuffixFits(rr) \/ Recoverable)
  <2>1. /\ job = NoJob
        /\ reader' = [reader EXCEPT ![r].at = then, ![r].rows = meta.rows, ![r].ver = ver]
        /\ \/ data' = data /\ prev' = NoPrev
           \/ Recoverable /\ data' = DataRecovered /\ prev' = PrevRecovered
    BY <1>4 DEF Load, Free
  <2> DEFINE x == [rr EXCEPT !.at = then, !.rows = meta.rows, !.ver = ver]
  <2>2. /\ x \in ReaderRecords /\ x.at = then /\ x.rows = meta.rows /\ x.ver = ver
        /\ x.evidence = rr.evidence /\ x.permit = rr.permit
    BY <1>2 DEF ReaderRecords, Rows
  <2>3. reader' = [reader EXCEPT ![r] = x]
    BY <1>2, <2>1
  <2> HIDE DEF x
  <2>4. FilesTyped' /\ (data' = data \/ Certifies(data', meta))
    <3>1. CASE data' = data /\ prev' = NoPrev
      BY <1>0, <3>1 DEF FilesTyped
    <3>2. CASE Recoverable /\ data' = DataRecovered /\ prev' = PrevRecovered
      BY <1>0, <3>2, Recovered DEF FilesTyped
    <3> QED BY <2>1, <3>1, <3>2
  <2>5. /\ x.ver = Version(meta) /\ x.rows = meta.rows /\ x.permit = rr.permit
        /\ x.at = "loaded" => x.ver = Version(x.evidence)
    BY <1>4, <2>2 DEF Version
  <2>6. data' = data \/ (job = NoJob /\ Certifies(data', meta))
    BY <2>1, <2>4
  <2>7. FilesTyped' /\ x \in ReaderRecords
    BY <2>2, <2>4
  <2> QED BY <1>1, <2>3, <2>5, <2>6, <2>7, ReaderMoves
<1>5. CASE rr.ver # ver /\ ~(Version(meta) = ver /\ (SuffixFits(rr) \/ Recoverable))
  <2>1. reader' = [reader EXCEPT ![r].at = "free"] /\ UNCHANGED <<data, prev>>
    BY <1>5 DEF Load
  <2> DEFINE x == [rr EXCEPT !.at = "free"]
  <2>2. /\ x \in ReaderRecords /\ x.at = "free" /\ x.rows = rr.rows /\ x.ver = rr.ver
        /\ x.permit = rr.permit
    BY <1>2 DEF ReaderRecords
  <2>3. reader' = [reader EXCEPT ![r] = x]
    BY <1>2, <2>1
  <2> HIDE DEF x
  <2> QED BY <1>0, <1>1, <2>1, <2>2, <2>3, FilesFrame, ReaderMoves
<1> QED BY <1>3, <1>4, <1>5

LEMMA ReaderState ==
  ASSUME StateInv, NEW r \in Readers, ReaderStep(r)
  PROVE  StateInv'
<1> USE NumbersTyped
<1> DEFINE rr == reader[r]
<1>0. CoreTyped /\ FilesTyped /\ ReadersTyped /\ ThreadInv
  BY TypeParts DEF StateInv
<1>1. /\ reader \in [Readers -> ReaderRecords] /\ rr \in ReaderRecords
      /\ Version(meta) \in Versions /\ Version(rr.evidence) \in Versions
  BY <1>0, CoreFacts DEF ReadersTyped, ReaderRecords, Version, Versions
<1>2. CASE Refresh(r)
  BY <1>1, <1>2, LoadState DEF Refresh
<1>3. CASE Ensure(r)
  BY <1>1, <1>3, LoadState DEF Ensure
<1>4. CASE ReadMarker(r)
  <2>1. /\ reader' = [reader EXCEPT ![r].at = "asked", ![r].evidence = marker]
        /\ UNCHANGED <<venue, memory, threads, job, data, prev, meta, marker, up, spent>>
    BY <1>4 DEF ReadMarker, files
  <2> DEFINE x == [rr EXCEPT !.at = "asked", !.evidence = marker]
  <2>2. /\ x \in ReaderRecords /\ x.at = "asked" /\ x.rows = rr.rows /\ x.ver = rr.ver
        /\ x.permit = rr.permit
    BY <1>0, <1>1 DEF ReaderRecords, CoreTyped
  <2>3. reader' = [reader EXCEPT ![r] = x]
    BY <1>1, <2>1
  <2> HIDE DEF x
  <2> QED BY <1>0, <2>1, <2>2, <2>3, FilesFrame, ReaderMoves
<1>5. CASE Issue(r)
  <2> DEFINE ok == /\ Healthy
                   /\ Version(marker) = Version(reader[r].evidence)
                   /\ now - marker.time + PermitTtl <= MaxAge
             p == IF ok THEN [expires |-> now + PermitTtl] ELSE rr.permit
             x == [rr EXCEPT !.at = "free", !.evidence = NoMarker, !.permit = p]
  <2>1. /\ reader' = [reader EXCEPT ![r].at = "free", ![r].evidence = NoMarker,
                                    ![r].permit = IF ok THEN [expires |-> now + PermitTtl] ELSE @]
        /\ UNCHANGED <<venue, memory, threads, job, data, prev, meta, marker, up, spent>>
    BY <1>5 DEF Issue, files
  <2>2. /\ now \in Nat /\ marker.time \in Nat /\ meta.cursor \in Nat
        /\ marker.time <= meta.cursor + 1
    BY <1>0, CoreFacts DEF ThreadInv, Clocks
  <2>3. ok => now + PermitTtl <= meta.cursor + 1 + MaxAge
    BY <2>2
  <2> HIDE DEF ok
  <2>4. p \in [expires : Nat]
    BY <1>1, <2>2 DEF ReaderRecords
  <2>5. \/ p = rr.permit
        \/ p.expires <= now + PermitTtl /\ p.expires <= meta.cursor + 1 + MaxAge
    BY <2>2, <2>3
  <2>6. reader' = [reader EXCEPT ![r] = x]
    BY <1>1, <2>1
  <2>7. /\ x \in ReaderRecords /\ x.at = "free" /\ x.rows = rr.rows /\ x.ver = rr.ver
        /\ x.permit = p
    <3> HIDE DEF p
    <3>1. NoMarker \in [stream : Nat, rev : Nat, time : 0..MaxNow]
      OBVIOUS
    <3>2. /\ x.at = "free" /\ x.rows = rr.rows /\ x.ver = rr.ver
          /\ x.evidence = NoMarker /\ x.permit = p
      BY <1>1 DEF ReaderRecords
    <3> HIDE DEF NoMarker
    <3>3. x \in ReaderRecords
      BY <1>1, <2>4, <3>1 DEF ReaderRecords
    <3> QED BY <3>2, <3>3
  <2> HIDE DEF p, x
  <2> QED BY <1>0, <2>1, <2>5, <2>6, <2>7, FilesFrame, ReaderMoves
<1>6. CASE Consume(r)
  <2>1. /\ reader' = [reader EXCEPT ![r].permit = NoPermit] /\ rr.at = "free"
        /\ UNCHANGED <<venue, memory, threads, job, data, prev, meta, marker, up, spent>>
    BY <1>6 DEF Consume, files
  <2> DEFINE x == [rr EXCEPT !.permit = NoPermit]
  <2>2. /\ x \in ReaderRecords /\ x.at = "free" /\ x.rows = rr.rows /\ x.ver = rr.ver
        /\ x.permit.expires = 0
    BY <1>1, <2>1 DEF ReaderRecords
  <2>3. reader' = [reader EXCEPT ![r] = x]
    BY <1>1, <2>1
  <2>4. now \in Nat /\ meta.cursor \in Nat
    BY <1>0, CoreFacts
  <2>5. 0 <= now + PermitTtl /\ 0 <= meta.cursor + 1 + MaxAge
    BY <2>4
  <2> HIDE DEF x
  <2> QED BY <1>0, <2>1, <2>2, <2>3, <2>5, FilesFrame, ReaderMoves
<1> QED BY <1>2, <1>3, <1>4, <1>5, <1>6 DEF ReaderStep

LEMMA StutterState ==
  ASSUME StateInv, UNCHANGED vars
  PROVE  StateInv'
<1>1. UNCHANGED <<venue, now, fills, memory, cache, undo, threads, sync, ws, job, data, prev, meta,
                  marker, up, reader, spent>>
  BY DEF vars, venue, memory, threads, files
<1>2. CoreTyped' /\ FilesTyped' /\ ReadersTyped' /\ SpentTyped'
  BY <1>1, TypeParts, CoreFrame, FilesFrame, ReadersFrame, SpentFrame DEF StateInv
<1> QED BY <1>1, <1>2, TypeParts, ThreadFrame, MemoryFrame, ReaderFrame, StoredFrame DEF StateInv

\* One step per action of Next
LEMMA StateStep == StateInv /\ [Next]_vars => StateInv'
<1> SUFFICES ASSUME StateInv, [Next]_vars PROVE StateInv'
  OBVIOUS
<1>1. CASE Tick \/ Fill
  BY <1>1, TickState, FillState
<1>2. CASE SyncStep
  <2>1. CASE Ask \/ Serve \/ RestFails \/ Rest
    BY <2>1, RequestState
  <2>2. CASE Merge \/ Advance \/ Resync \/ Prune \/ CompactPruned
    BY <2>2, MergeState, AdvanceState, ResyncState, PruneState, CompactPrunedState
  <2>3. CASE Save("sync")
    BY <2>3, SaveState
  <2> QED BY <1>2, <2>1, <2>2, <2>3 DEF SyncStep
<1>3. CASE SaveStep
  <2>1. CASE AppendRows \/ AppendFails \/ AppendMeta
    BY <2>1, AppendRowsState, AppendFailsState, AppendMetaState
  <2>2. CASE CompactStage \/ CompactData \/ CompactMeta \/ CompactDiscard \/ CompactFails
    BY <2>2, CompactStageState, CompactDataState, CompactMetaState, CompactDiscardState,
       CompactFailsState
  <2>3. CASE Remember \/ Publish
    BY <2>3, RememberState, PublishState
  <2> QED BY <1>3, <2>1, <2>2, <2>3 DEF SaveStep
<1>4. CASE Save("ws")
  BY <1>4, SaveState
<1>5. CASE \E k \in Ids : Push(k)
  BY <1>5, PushState
<1>6. CASE Crash \/ Restart
  BY <1>6, CrashState, RestartState
<1>7. CASE \E r \in Readers : ReaderStep(r)
  BY <1>7, ReaderState
<1>8. CASE UNCHANGED vars
  BY <1>8, StutterState
<1> QED BY <1>1, <1>2, <1>3, <1>4, <1>5, <1>6, <1>7, <1>8 DEF Next

\* The threads, memory, the manifest, the data file and the readers stay in step
\* with each other in every reachable state.
THEOREM StateInvariant == Spec => []StateInv
<1>1. Init => StateInv
  BY StateInit
<1>2. StateInv /\ [Next]_vars => StateInv'
  BY StateStep
<1> QED BY <1>1, <1>2, PTL DEF Spec

\* The variables have their types in every reachable state.
THEOREM Typed == Spec => []TypeOK
<1>1. StateInv => TypeOK
  BY DEF StateInv
<1> QED BY <1>1, StateInvariant, PTL

\* No fill is certified twice, and whoever holds a version holds its rows: a save
\* names a new version exactly when it changes the rows.
THEOREM VersionsNameRows == Spec => []VersionNamesRows
<1>1. StateInv => VersionNamesRows
  BY DEF StateInv, MemoryInv, RowsSound, Sound, ReaderInv, ReadersMatch, VersionNamesRows
<1> QED BY <1>1, StateInvariant, PTL

--------------------------------------------------------------------------------
(* FileInv: the two files, where a rollback works *)

LEMMA FilesUp ==
  /\ up /\ DataCertified /\ Replaced => Recoverable
  /\ up' /\ DataCertified' /\ Replaced' => Recoverable'
BY DEF DataCertified, Replaced, Recoverable, PrevRows

\* Steps that leave the files and the manifest alone, and are not those of a
\* compaction that rely on .previous
LEMMA FilesLeft ==
  ASSUME FileInv, UNCHANGED <<data, prev, meta, up>>,
         \/ job' = job
         \/ /\ job.step \notin {"meta", "discard"}
            /\ job'.step \notin {"data", "meta"}
  PROVE  FileInv'
<1>1. DataCertified'
  BY DEF FileInv, DataCertified, Certifies
<1>2. CopyHeld' /\ Replaced'
  BY DEF FileInv, CopyHeld, Replaced, Certifies
<1>3. Recoverable'
  BY DEF FileInv, Recoverable, PrevRows, Certifies
<1> QED BY <1>1, <1>2, <1>3 DEF FileInv

\* Steps after which the data file has what the manifest names
LEMMA FilesGood ==
  ASSUME Certifies(data, meta)', prev'.at # "copy" \/ job' = [job EXCEPT !.step = "discard"],
         job'.kind = "compact" => job'.step \notin {"data", "meta"},
         CopyHeld, prev'.at = "copy" => prev' = prev /\ up /\ job.kind = "compact" /\ job.step = "meta",
         job \in Jobs
  PROVE  FileInv'
<1>1. DataCertified' /\ Replaced' /\ Recoverable'
  BY DEF DataCertified, Replaced, Recoverable
<1>2. CopyHeld'
  BY DEF CopyHeld, Jobs
<1> QED BY <1>1, <1>2 DEF FileInv

LEMMA FileInit == Init => FileInv
<1> SUFFICES ASSUME Init PROVE FileInv
  OBVIOUS
<1>1. Len(<<>>) = 0 /\ SubSeq(<<>>, 1, 0) = <<>>
  OBVIOUS
<1> QED BY <1>1 DEF Init, FileInv, DataCertified, CopyHeld, Replaced, Recoverable, Certifies

LEMMA AppendFile ==
  ASSUME StateInv, StateInv', FileInv, AppendRows \/ AppendFails \/ AppendMeta
  PROVE  FileInv'
<1>0. ThreadInv /\ job \in Jobs /\ CopyHeld /\ StoredInv'
  BY TypeParts DEF StateInv, CoreTyped, Jobs, FileInv
<1>1. up /\ job.kind = "append" /\ UNCHANGED <<prev, up>>
  <2>1. CASE AppendRows
    <3>1. up /\ job.step = "rows" /\ UNCHANGED <<prev, up>>
      BY <2>1 DEF AppendRows
    <3> QED BY <1>0, <3>1 DEF ThreadInv, JobShape, NoJob
  <2>2. CASE AppendFails \/ AppendMeta
    BY <2>2 DEF AppendFails, AppendMeta
  <2> QED BY <2>1, <2>2
<1>2. prev'.at # "copy"
  BY <1>0, <1>1 DEF CopyHeld
<1>3. job'.kind # "compact"
  BY <1>0, <1>1 DEF AppendRows, AppendFails, AppendMeta, Return, Jobs
<1>4. Certifies(data, meta)'
  <2>1. CASE AppendRows
    BY <1>1, <2>1, AppendFiles DEF AppendRows, Certifies
  <2>2. CASE AppendFails
    <3>1. data \in PartialAppends
      BY DEF PartialAppends
    <3> QED BY <1>1, <2>2, <3>1, AppendFiles DEF AppendFails, Certifies
  <2>3. CASE AppendMeta
    <3>1. job'.step = "remember"
      BY <1>0, <2>3 DEF AppendMeta, Jobs
    <3> QED BY <1>0, <1>1, <3>1 DEF StoredInv, FileReady, Committed
  <2> QED BY <2>1, <2>2, <2>3
<1> QED BY <1>0, <1>2, <1>3, <1>4, FilesGood

LEMMA CompactFile ==
  ASSUME StateInv, StateInv', FileInv, RestoreFails = FALSE,
         CompactStage \/ CompactData \/ CompactMeta \/ CompactDiscard \/ CompactFails
  PROVE  FileInv'
<1>0. /\ FilesTyped /\ ThreadInv /\ job \in Jobs /\ StoredInv'
      /\ DataCertified /\ CopyHeld /\ Replaced /\ Recoverable
  BY TypeParts DEF StateInv, CoreTyped, Jobs, FileInv
<1>1. up /\ up' /\ job.kind = "compact"
  <2>1. CASE CompactStage \/ CompactData \/ CompactDiscard
    <3>1. up /\ up' = up /\ job.step \in {"stage", "data", "discard"}
      BY <2>1 DEF CompactStage, CompactData, CompactDiscard
    <3> QED BY <1>0, <3>1 DEF ThreadInv, JobShape, NoJob
  <2>2. CASE CompactMeta
    BY <2>2 DEF CompactMeta
  <2>3. CASE CompactFails
    BY <2>3 DEF CompactFails
  <2> QED BY <2>1, <2>2, <2>3
<1>2. CASE CompactStage
  <2>1. /\ job.step = "stage" /\ data' = DataRecovered /\ prev' = Staged
        /\ job' = [job EXCEPT !.step = "data"] /\ meta' = meta
    BY <1>0, <1>2 DEF CompactStage
  <2>2. Certifies(data, meta)'
    BY <1>0, <2>1, Recovered DEF Certifies
  <2>3. job'.kind = "compact" /\ job'.step = "data"
    BY <1>0, <1>1, <2>1 DEF Jobs
  <2>4. prev'.at = "link"
    BY <2>1 DEF Staged
  <2> QED BY <2>2, <2>3, <2>4 DEF FileInv, DataCertified, CopyHeld, Replaced, Recoverable
<1>3. CASE CompactData
  <2>1. /\ job.step = "data" /\ job' = [job EXCEPT !.step = "meta"] /\ meta' = meta
        /\ prev' = IF prev.at = "link" THEN [at |-> "copy", rows |-> data] ELSE prev
    BY <1>3 DEF CompactData
  <2>2. prev.at = "link" /\ Certifies(data, meta)
    BY <1>0, <1>1, <2>1 DEF Replaced, DataCertified
  <2>3. job'.kind = "compact" /\ job'.step = "meta"
    BY <1>0, <1>1, <2>1 DEF Jobs
  <2>4. prev'.at = "copy" /\ Certifies(prev'.rows, meta)
    BY <2>1, <2>2
  <2>5. DataCertified' /\ CopyHeld' /\ Replaced'
    BY <2>1, <2>3, <2>4 DEF DataCertified, CopyHeld, Replaced, Certifies
  <2> QED BY <1>1, <2>5, FilesUp DEF FileInv
<1>4. CASE CompactMeta
  <2>1. job.step = "meta" /\ job' = [job EXCEPT !.step = "discard"] /\ prev' = prev
    BY <1>4 DEF CompactMeta
  <2>2. job'.step = "discard"
    BY <1>0, <2>1 DEF Jobs
  <2>3. Certifies(data, meta)'
    BY <1>0, <1>1, <2>2 DEF StoredInv, FileReady, Committed
  <2> QED BY <1>0, <1>1, <2>1, <2>2, <2>3, FilesGood
<1>5. CASE CompactDiscard
  <2>1. /\ job.step = "discard" /\ job' = [job EXCEPT !.step = "remember"] /\ prev' = NoPrev
        /\ UNCHANGED <<data, meta>>
    BY <1>5 DEF CompactDiscard
  <2>2. job'.step = "remember" /\ prev'.at = "none"
    BY <1>0, <2>1 DEF Jobs
  <2>3. Certifies(data, meta)'
    BY <1>0, <1>1, <2>1 DEF DataCertified, Certifies
  <2> QED BY <1>0, <2>2, <2>3, FilesGood
<1>6. CASE CompactFails
  <2>1. job' = NoJob /\ UNCHANGED <<meta, up>> /\ job.step \in {"stage", "data", "meta"}
    BY <1>6 DEF CompactFails, CompactionFailed, Return
  <2>2. CASE job.step = "stage"
    <3>1. UNCHANGED <<data, prev>>
      BY <1>6, <2>2 DEF CompactFails
    <3> QED BY <2>1, <2>2, <3>1, FilesLeft
  <2>3. CASE job.step = "data"
    <3>1. data' = data /\ prev' = NoPrev
      BY <1>6, <2>3 DEF CompactFails
    <3>2. Certifies(data, meta)'
      BY <1>0, <1>1, <2>1, <2>3, <3>1 DEF DataCertified, Certifies
    <3> QED BY <1>0, <2>1, <3>1, <3>2, FilesGood
  <2>4. CASE job.step = "meta"
    <3>1. data' = prev.rows /\ prev' = NoPrev
      BY <1>6, <2>4 DEF CompactFails
    <3>2. Certifies(data, meta)'
      BY <1>0, <1>1, <2>1, <2>4, <3>1 DEF Replaced, Certifies
    <3> QED BY <1>0, <2>1, <3>1, <3>2, FilesGood
  <2> QED BY <2>1, <2>2, <2>3, <2>4
<1> QED BY <1>2, <1>3, <1>4, <1>5, <1>6

\* Files that are read are put right on the way.
LEMMA ReadFile ==
  ASSUME StateInv, FileInv, job' = job, job = NoJob, meta' = meta, Recoverable,
         data' = DataRecovered, prev' = PrevRecovered
  PROVE  FileInv'
<1>1. FilesTyped /\ job \in Jobs /\ CopyHeld
  BY TypeParts DEF StateInv, CoreTyped, Jobs, FileInv
<1>2. Certifies(data, meta)'
  BY <1>1, Recovered DEF Certifies
<1>3. prev'.at # "copy"
  BY DEF PrevRecovered
<1> QED BY <1>1, <1>2, <1>3, FilesGood

LEMMA CrashFile ==
  ASSUME StateInv, FileInv, Crash
  PROVE  FileInv'
<1>0. ThreadInv
  BY DEF StateInv
<1>1. up' = FALSE /\ job' = NoJob /\ UNCHANGED <<prev, meta>>
  BY DEF Crash
<1>2. Recoverable'
  <2>1. CASE job.step = "rows"
    <3>1. job.kind = "append"
      BY <1>0, <2>1 DEF ThreadInv, JobShape
    <3>2. data' \in PartialAppends
      BY <2>1 DEF Crash
    <3>3. Certifies(data', meta)
      BY <2>1, <3>1, <3>2, AppendFiles
    <3> QED BY <1>1, <3>3 DEF Recoverable, Certifies
  <2>2. CASE job.step # "rows"
    <3>1. data' = data
      BY <2>2 DEF Crash
    <3> QED BY <1>1, <3>1 DEF FileInv, Recoverable, PrevRows, Certifies
  <2> QED BY <2>1, <2>2
<1> QED BY <1>1, <1>2 DEF FileInv, DataCertified, CopyHeld, Replaced

\* A reader leaves the files good, or it drops the only copy of the generation.
LEMMA LoadFile ==
  ASSUME StateInv, FileInv, NEW r \in Readers, NEW ver, NEW then, Load(r, ver, then)
  PROVE  FileInv' \/ (LosesCopy /\ Lost')
<1> DEFINE rr == reader[r]
<1>0. job \in Jobs /\ CopyHeld /\ DataCertified
  BY TypeParts DEF StateInv, CoreTyped, Jobs, FileInv
<1>1. UNCHANGED <<job, meta, up>>
  BY DEF Load
<1>2. CASE UNCHANGED <<data, prev>>
  BY <1>1, <1>2, FilesLeft
<1>3. CASE ~UNCHANGED <<data, prev>>
  <2>1. /\ job = NoJob /\ rr.ver # ver
        /\ reader' = [reader EXCEPT ![r].at = then, ![r].rows = meta.rows, ![r].ver = ver]
        /\ \/ SuffixFits(rr) /\ data' = data /\ prev' = NoPrev
           \/ Recoverable /\ data' = DataRecovered /\ prev' = PrevRecovered
    BY <1>3 DEF Load, Free
  <2>2. CASE Recoverable /\ data' = DataRecovered /\ prev' = PrevRecovered
    BY <1>1, <2>1, <2>2, ReadFile
  <2>3. CASE SuffixFits(rr) /\ data' = data /\ prev' = NoPrev
    <3>1. CASE Certifies(data, meta)
      <4>1. Certifies(data, meta)'
        BY <1>1, <2>3, <3>1 DEF Certifies
      <4>2. job'.kind # "compact" /\ prev'.at = "none"
        BY <1>1, <2>1, <2>3
      <4> QED BY <1>0, <4>1, <4>2, FilesGood
    <3>2. CASE ~Certifies(data, meta)
      <4>1. ~up'
        BY <1>0, <1>1, <2>1, <3>2 DEF DataCertified
      <4>2. ~Recoverable'
        BY <1>1, <2>3, <3>2 DEF Recoverable, Certifies
      <4>3. reader'[r].ver = ver
        <5>1. reader \in [Readers -> [at : {"free", "asked", "loaded"}, rows : Rows, ver : Versions,
                            evidence : [stream : Nat, rev : Nat, time : 0..MaxNow],
                            permit : [expires : Nat]]]
          BY TypeParts DEF StateInv, ReadersTyped
        <5> QED BY <2>1, <5>1
      <4>4. LosesCopy
        BY <2>1, <2>3, <3>2, <4>3 DEF LosesCopy
      <4> QED BY <4>1, <4>2, <4>4 DEF Lost
    <3> QED BY <3>1, <3>2
  <2> QED BY <2>1, <2>2, <2>3
<1> QED BY <1>2, <1>3

LEMMA FileStep ==
  ASSUME RestoreFails = FALSE
  PROVE  StateInv /\ StateInv' /\ FileInv /\ [Next]_vars => FileInv' \/ (LosesCopy /\ Lost')
<1> SUFFICES ASSUME StateInv, StateInv', FileInv, [Next]_vars
             PROVE  FileInv' \/ (LosesCopy /\ Lost')
  OBVIOUS
<1>0. ThreadInv
  BY DEF StateInv
<1>1. CASE Tick \/ Fill \/ Ask \/ Serve \/ RestFails \/ Merge \/ Advance \/ Rest \/ Prune \/ UNCHANGED vars
  BY <1>1, FilesLeft DEF Tick, Fill, Ask, Serve, RestFails, Merge, Advance, Rest, Prune, vars, files
<1>2. CASE Save("sync") \/ Save("ws") \/ CompactPruned \/ \E k \in Ids : Push(k)
  <2>1. /\ job = NoJob /\ UNCHANGED <<data, prev, meta, up>>
        /\ job'.step \in {"none", "rows", "stage"}
    <3>1. CASE Save("sync") \/ Save("ws")
      BY <3>1 DEF Save, Return, FirstStep, Free, files, NoJob
    <3>2. CASE CompactPruned
      BY <3>2 DEF CompactPruned, Free, files
    <3>3. CASE \E k \in Ids : Push(k)
      BY <3>3 DEF Push, Free, files, NoJob
    <3> QED BY <1>2, <3>1, <3>2, <3>3
  <2> QED BY <2>1, FilesLeft
<1>3. CASE Resync
  <2>1. job = NoJob /\ UNCHANGED <<job, meta, up>>
    BY <1>3 DEF Resync, Free
  <2>2. CASE meta.seen > cache.seen
    BY <1>3, <2>1, <2>2, ReadFile DEF Resync
  <2>3. CASE ~(meta.seen > cache.seen)
    BY <1>3, <2>1, <2>3, FilesLeft DEF Resync
  <2> QED BY <2>2, <2>3
<1>4. CASE AppendRows \/ AppendFails \/ AppendMeta
  BY <1>4, AppendFile
<1>5. CASE CompactStage \/ CompactData \/ CompactMeta \/ CompactDiscard \/ CompactFails
  BY <1>5, CompactFile
<1>6. CASE Remember \/ Publish
  <2>1. /\ job.step \in {"remember", "publish"} /\ UNCHANGED <<data, prev, meta, up>>
        /\ job' = NoJob \/ job' = [job EXCEPT !.step = "publish"]
    BY <1>6 DEF Remember, Publish, Return, files
  <2>2. job'.step \notin {"data", "meta"}
    <3>1. job \in Jobs
      BY TypeParts DEF StateInv, CoreTyped, Jobs
    <3> QED BY <2>1, <3>1 DEF Jobs
  <2> QED BY <2>1, <2>2, FilesLeft
<1>7. CASE Crash
  BY <1>7, CrashFile
<1>8. CASE Restart
  <2>1. job = NoJob
    BY <1>0, <1>8 DEF Restart, ThreadInv, Stopped
  <2> QED BY <1>8, <2>1, ReadFile DEF Restart
<1>9. CASE \E r \in Readers : ReaderStep(r)
  <2> SUFFICES ASSUME NEW r \in Readers, ReaderStep(r) PROVE FileInv' \/ (LosesCopy /\ Lost')
    BY <1>9
  <2>1. CASE Refresh(r) \/ Ensure(r)
    BY <2>1, LoadFile DEF Refresh, Ensure
  <2>2. CASE ReadMarker(r) \/ Issue(r) \/ Consume(r)
    BY <2>2, FilesLeft DEF ReadMarker, Issue, Consume, files
  <2> QED BY <2>1, <2>2 DEF ReaderStep
<1> QED BY <1>1, <1>2, <1>3, <1>4, <1>5, <1>6, <1>7, <1>8, <1>9 DEF Next, SyncStep, SaveStep

\* A writer whose generation is lost stays down, and nothing brings it back.
LEMMA LostStays ==
  ASSUME StateInv, Lost, [Next]_vars
  PROVE  Lost'
<1>0. ~up /\ ~Recoverable
  BY DEF Lost
<1>1. CASE UNCHANGED <<data, prev, meta, up>>
  BY <1>0, <1>1 DEF Lost, Recoverable, PrevRows, Certifies
<1>2. CASE \E r \in Readers : Refresh(r) \/ Ensure(r)
  <2>1. PICK r \in Readers : Refresh(r) \/ Ensure(r)
    BY <1>2
  <2>2. PICK ver, then : Load(r, ver, then)
    BY <2>1 DEF Refresh, Ensure
  <2>3. UNCHANGED <<meta, up>>
    BY <2>2 DEF Load
  <2>4. data' = data /\ (prev' = prev \/ prev' = NoPrev)
    BY <1>0, <2>2 DEF Load
  <2> QED BY <1>0, <2>3, <2>4 DEF Lost, Recoverable, PrevRows, Certifies
<1>3. CASE Tick \/ Fill
  BY <1>1, <1>3 DEF Tick, Fill, files
<1>4. CASE \E r \in Readers : ReadMarker(r) \/ Issue(r) \/ Consume(r)
  BY <1>1, <1>4 DEF ReadMarker, Issue, Consume, files
<1>5. CASE UNCHANGED vars
  BY <1>1, <1>5 DEF vars, files
<1>6. ~SyncStep /\ ~SaveStep /\ ~Save("ws") /\ ~(\E k \in Ids : Push(k)) /\ ~Crash /\ ~Restart
  BY <1>0 DEF SyncStep, SaveStep, Ask, Serve, RestFails, Merge, Advance, Save, Rest, Resync, Prune,
              CompactPruned, AppendRows, AppendFails, AppendMeta, CompactStage, CompactData,
              CompactMeta, CompactDiscard, CompactFails, Remember, Publish, Push, Crash, Restart
<1> QED BY <1>2, <1>3, <1>4, <1>5, <1>6 DEF Next, ReaderStep

\* Where a rollback works, the files are as saves, crashes and readers expect them,
\* until a reader drops the last copy.
THEOREM FilesInvariant ==
  ASSUME RestoreFails = FALSE
  PROVE  Spec => []FilesOrLost
<1>1. Init => FilesOrLost
  BY FileInit DEF FilesOrLost
<1>2. StateInv /\ StateInv' /\ FilesOrLost /\ [Next]_vars => FilesOrLost'
  BY FileStep, LostStays DEF FilesOrLost
<1> QED BY <1>1, <1>2, StateInvariant, PTL DEF Spec

\* No append, compaction, rollback, crash or recovery leaves the certified
\* generation in neither file; only a reader can (LosesCopy).
THEOREM GenerationStaysOnDisk ==
  ASSUME RestoreFails = FALSE
  PROVE  Spec => GenerationKept
<1>1. StateInv /\ StateInv' /\ FilesOrLost /\ [Next]_vars => [Recoverable /\ ~LosesCopy => Recoverable']_vars
  BY FileStep DEF FilesOrLost, Lost, FileInv
<1> QED BY <1>1, FilesInvariant, StateInvariant, PTL DEF Spec, GenerationKept

\* Where no reader does so, a file holds the certified generation at every moment.
THEOREM GenerationAlwaysOnDisk ==
  ASSUME RestoreFails = FALSE
  PROVE  Spec /\ [][~LosesCopy]_vars => []Recoverable
<1>1. Init => Recoverable
  BY FileInit DEF FileInv
<1>2. Recoverable /\ [Recoverable /\ ~LosesCopy => Recoverable']_vars /\ [~LosesCopy]_vars => Recoverable'
  BY DEF vars, files, Recoverable, PrevRows, Certifies
<1> QED BY <1>1, <1>2, GenerationStaysOnDisk, PTL DEF Spec, GenerationKept

--------------------------------------------------------------------------------
(* CoverInv: no fill behind the cursor is missing, where saves are quiet *)

\* Due and Covers after the step
DueNext(time) == {k \in DOMAIN fills' : fills'[k] <= time /\ ~(fills'[k] + Retention < now')}
CoversNext(rows, time) == DueNext(time) \subseteq Range(rows)

LEMMA CoverNext ==
  /\ MemoryCovers' <=> CoversNext(cache'.rows, cache'.cursor)
  /\ FileCovers' <=> CoversNext(meta'.rows, meta'.cursor)
  /\ UndoCovers' <=> (sync'.at = "pruned" => CoversNext(undo'.rows, undo'.cursor))
  /\ ResponseCovers' <=>
       (sync'.at \in {"served", "merged"}
          => DueNext(sync'.asked - 1) \subseteq Range(cache'.rows) \cup sync'.got)
  /\ SavedCovers' <=>
       (sync'.at \in {"saved", "pruned"} /\ ~cache'.rewrite /\ MaxPrunes # 0
          => CoversNext(meta'.rows, cache'.cursor))
  /\ MarkerCovers' <=>
       \A r \in Readers : reader'[r].ver = Version(marker') =>
         CoversNext(reader'[r].rows, marker'.time - 1)
  /\ PermitCovers' <=>
       \A r \in Readers :
         CoversNext(reader'[r].rows, reader'[r].permit.expires - MaxAge - 1)
BY DEF MemoryCovers, FileCovers, UndoCovers, ResponseCovers, SavedCovers, MarkerCovers,
       PermitCovers, Covers, CoversNext, Due, DueNext, Executed, Expired, Version

\* Nothing new is due before the present, and what is due may expire.
LEMMA DueAges ==
  ASSUME CoreTyped, Tick \/ Fill, NEW t \in Int, t < now
  PROVE  DueNext(t) \subseteq Due(t)
<1> USE NumbersTyped
<1>1. /\ now \in Nat /\ Len(fills) \in Nat /\ Executed = 1..Len(fills)
      /\ \A k \in Executed : fills[k] \in Nat
  BY CoreFacts
<1>2. CASE Tick
  <2>1. now' = now + 1 /\ fills' = fills
    BY <1>2 DEF Tick
  <2> QED BY <1>1, <2>1 DEF DueNext, Due, Expired, Executed
<1>3. CASE Fill
  <2>1. now' = now /\ fills' = Append(fills, now)
    BY <1>3 DEF Fill
  <2>2. fills \in Seq(1..MaxNow)
    BY DEF CoreTyped
  <2>3. /\ DOMAIN fills' = 1..(Len(fills) + 1) /\ fills'[Len(fills) + 1] = now
        /\ \A k \in 1..Len(fills) : fills'[k] = fills[k]
    BY <1>1, <2>1, <2>2, AppendProperties, LenProperties
  <2> SUFFICES ASSUME NEW k \in DueNext(t) PROVE k \in Due(t)
    OBVIOUS
  <2>4. k \in 1..(Len(fills) + 1) /\ fills'[k] <= t /\ ~(fills'[k] + Retention < now)
    BY <2>1, <2>3 DEF DueNext
  <2>5. k # Len(fills) + 1
    BY <1>1, <2>3, <2>4
  <2>6. k \in 1..Len(fills)
    BY <1>1, <2>4, <2>5
  <2> QED BY <1>1, <2>3, <2>4, <2>6 DEF Due, Expired
<1> QED BY <1>2, <1>3

LEMMA DueSame ==
  ASSUME UNCHANGED <<now, fills>>, NEW t
  PROVE  DueNext(t) = Due(t)
BY DEF DueNext, Due, Expired, Executed

\* A later time has more fills due; at the beginning none are.
LEMMA DueGrows ==
  ASSUME CoreTyped, NEW s \in Int, NEW t \in Int, s <= t
  PROVE  Due(s) \subseteq Due(t) /\ (s <= 0 => Due(s) = {})
<1>1. \A k \in Executed : fills[k] \in Nat
  BY CoreFacts
<1>2. \A k \in Executed : fills[k] > 0
  <2>1. fills \in Seq(1..MaxNow) /\ Executed = 1..Len(fills)
    BY CoreFacts DEF CoreTyped
  <2>2. \A k \in 1..Len(fills) : fills[k] \in 1..MaxNow
    BY <2>1, ElementOfSeq
  <2> QED BY <2>1, <2>2, NumbersTyped
<1> QED BY <1>1, <1>2 DEF Due

\* What a time in the invariant is: a number, before the present
LEMMA TimesPast ==
  ASSUME StateInv
  PROVE  /\ cache.cursor \in Nat /\ cache.cursor < now
         /\ meta.cursor \in Nat /\ meta.cursor < now
         /\ undo.cursor \in Nat /\ (sync.at = "pruned" => undo.cursor < now)
         /\ sync.asked \in Nat /\ sync.asked - 1 \in Int /\ sync.asked - 1 < now
         /\ marker.time \in Nat /\ marker.time - 1 \in Int
         /\ marker.time - 1 <= meta.cursor /\ marker.time - 1 < now
         /\ \A r \in Readers :
              LET last == reader[r].permit.expires - MaxAge - 1
              IN  last \in Int /\ last <= meta.cursor /\ last < now
<1> USE NumbersTyped
<1>0. CoreTyped /\ ReadersTyped /\ ThreadInv /\ ReaderInv
  BY TypeParts DEF StateInv
<1>1. /\ now \in Nat /\ cache.cursor \in Nat /\ meta.cursor \in Nat /\ undo.cursor \in Nat
      /\ sync.asked \in Nat /\ marker.time \in Nat
  BY <1>0, CoreFacts
<1>2. cache.cursor < now /\ meta.cursor < now /\ marker.time <= meta.cursor + 1 /\ sync.asked <= now
  BY <1>0 DEF ThreadInv, Clocks, Requests
<1>3. sync.at = "pruned" => undo.cursor = cache.cursor
  BY <1>0 DEF ThreadInv, Undoable
<1>4. \A r \in Readers : reader[r].permit.expires \in Nat
  BY <1>0 DEF ReadersTyped
<1>5. \A r \in Readers : reader[r].permit.expires <= meta.cursor + 1 + MaxAge
  BY <1>0 DEF ReaderInv, PermitBounded
<1> QED BY <1>1, <1>2, <1>3, <1>4, <1>5

LEMMA CoverInit == Init => CoverInv
<1> SUFFICES ASSUME Init PROVE CoverInv
  OBVIOUS
<1>1. Executed = {}
  BY DEF Init, Executed
<1> QED BY <1>1 DEF Init, CoverInv, MemoryCovers, FileCovers, UndoCovers, ResponseCovers,
                    SavedCovers, MarkerCovers, PermitCovers, Covers, Due

LEMMA VenueCovers ==
  ASSUME StateInv, CoverInv, Tick \/ Fill
  PROVE  CoverInv'
<1>0. CoreTyped
  BY TypeParts DEF StateInv
<1>1. UNCHANGED <<cache, undo, sync, meta, marker, reader>>
  BY DEF Tick, Fill, memory, threads, files
<1>2. \A t \in Int : t < now => DueNext(t) \subseteq Due(t)
  BY <1>0, DueAges
<1>3. /\ CoversNext(cache.rows, cache.cursor) /\ CoversNext(meta.rows, meta.cursor)
      /\ sync.at = "pruned" => CoversNext(undo.rows, undo.cursor)
      /\ sync.at \in {"served", "merged"}
           => DueNext(sync.asked - 1) \subseteq Range(cache.rows) \cup sync.got
      /\ sync.at \in {"saved", "pruned"} /\ ~cache.rewrite /\ MaxPrunes # 0
           => CoversNext(meta.rows, cache.cursor)
  BY <1>2, TimesPast DEF CoverInv, MemoryCovers, FileCovers, UndoCovers, ResponseCovers, SavedCovers,
                         Covers, CoversNext
<1>4. \A r \in Readers : reader[r].ver = Version(marker) => CoversNext(reader[r].rows, marker.time - 1)
  BY <1>2, TimesPast DEF CoverInv, MarkerCovers, Covers, CoversNext
<1>5. \A r \in Readers : CoversNext(reader[r].rows, reader[r].permit.expires - MaxAge - 1)
  <2> TAKE r \in Readers
  <2> DEFINE last == reader[r].permit.expires - MaxAge - 1
  <2>1. last \in Int /\ last < now
    BY TimesPast
  <2>2. Covers(reader[r].rows, last)
    BY DEF CoverInv, PermitCovers
  <2> HIDE DEF last
  <2>3. CoversNext(reader[r].rows, last)
    BY <1>2, <2>1, <2>2 DEF Covers, CoversNext
  <2> QED BY <2>3 DEF last
<1> QED BY <1>1, <1>3, <1>4, <1>5, CoverNext DEF CoverInv

\* What depends on the files and the readers only
LEMMA OutsideCovers ==
  ASSUME CoverInv, UNCHANGED <<now, fills, meta>>
  PROVE  /\ FileCovers'
         /\ UNCHANGED <<marker, reader>> => MarkerCovers'
         /\ UNCHANGED reader => PermitCovers'
BY DueSame, CoverNext DEF CoverInv, FileCovers, MarkerCovers, PermitCovers, Covers, CoversNext

\* What depends on memory: the cursor stays and no row leaves, or only expired ones
LEMMA InsideCovers ==
  ASSUME CoverInv, UNCHANGED <<now, fills>>, cache'.cursor = cache.cursor,
         \A k \in Range(cache.rows) : k \in Range(cache'.rows) \/ Expired(k)
  PROVE  /\ MemoryCovers'
         /\ sync' = sync => ResponseCovers'
         /\ sync' = sync /\ undo' = undo => UndoCovers'
         /\ sync'.at = sync.at /\ cache'.rewrite = cache.rewrite /\ meta' = meta => SavedCovers'
<1>1. MemoryCovers'
  BY DueSame, CoverNext DEF CoverInv, MemoryCovers, Covers, CoversNext, Due
<1>2. ASSUME sync' = sync PROVE ResponseCovers'
  BY <1>2, DueSame, CoverNext DEF CoverInv, ResponseCovers, Due
<1>3. ASSUME sync' = sync, undo' = undo PROVE UndoCovers'
  BY <1>3, DueSame, CoverNext DEF CoverInv, UndoCovers, Covers, CoversNext
<1>4. ASSUME sync'.at = sync.at, cache'.rewrite = cache.rewrite, meta' = meta PROVE SavedCovers'
  BY <1>4, DueSame, CoverNext DEF CoverInv, SavedCovers, Covers, CoversNext
<1> QED BY <1>1, <1>2, <1>3, <1>4

\* Steps that touch none of what CoverInv speaks of
LEMMA SameCovers ==
  ASSUME CoverInv, UNCHANGED <<now, fills, cache, undo, sync, meta, marker, reader>>
  PROVE  CoverInv'
BY OutsideCovers, InsideCovers DEF CoverInv

--------------------------------------------------------------------------------
(* CoverInv: the threads *)

LEMMA RequestCovers ==
  ASSUME StateInv, CoverInv, Ask \/ Serve \/ RestFails \/ Rest
  PROVE  CoverInv'
<1>0. CoreTyped
  BY TypeParts DEF StateInv
<1>1. UNCHANGED <<now, fills, cache, undo, meta, marker, reader>>
  BY DEF Ask, Serve, RestFails, Rest, venue, memory, files
<1>2. FileCovers' /\ MarkerCovers' /\ PermitCovers' /\ MemoryCovers'
  BY <1>1, OutsideCovers, InsideCovers
<1>3. sync'.at \in {"asked", "served", "wait"}
  <2>1. sync \in Syncs
    BY <1>0 DEF CoreTyped, Syncs
  <2>2. CASE Ask
    BY <2>2 DEF Ask
  <2>3. CASE Serve
    <3>1. \E got : sync' = [sync EXCEPT !.at = "served", !.got = got]
      BY <2>3 DEF Serve
    <3> QED BY <2>1, <3>1 DEF Syncs
  <2>4. CASE RestFails \/ Rest
    BY <2>4 DEF RestFails, Rest, Resting
  <2> QED BY <2>2, <2>3, <2>4
<1>4. UndoCovers' /\ SavedCovers'
  BY <1>3, CoverNext
<1>5. ResponseCovers'
  <2>1. CASE sync'.at # "served"
    BY <1>3, <2>1, CoverNext
  <2>2. CASE sync'.at = "served"
    <3>1. Serve
      BY <2>2 DEF Ask, Serve, RestFails, Rest, Resting
    <3>2. sync' = [sync EXCEPT !.at = "served", !.got = {k \in Executed : fills[k] >= RestStart}]
      BY <3>1 DEF Serve
    <3>3. sync'.asked = sync.asked /\ sync'.got = {k \in Executed : fills[k] >= RestStart}
      <4>1. sync \in Syncs
        BY <1>0 DEF CoreTyped, Syncs
      <4> HIDE DEF Executed, RestStart
      <4> QED BY <3>2, <4>1 DEF Syncs
    <3>4. RestStart <= cache.cursor /\ RestStart \in Nat /\ cache.cursor \in Nat
      <4>1. cache.cursor \in Nat /\ cache.seen \in Nat
        BY <1>0, CoreFacts
      <4> QED BY <4>1 DEF RestStart, Min2
    <3>5. \A k \in Executed : fills[k] \in Nat
      BY <1>0, CoreFacts
    <3>6. \A k \in Due(sync.asked - 1) : k \in Range(cache.rows) \/ k \in sync'.got
      <4> SUFFICES ASSUME NEW k \in Due(sync.asked - 1), k \notin sync'.got
                   PROVE  k \in Range(cache.rows)
        OBVIOUS
      <4>1. k \in Executed /\ ~Expired(k) /\ ~(fills[k] >= RestStart)
        BY <3>3 DEF Due
      <4>2. fills[k] <= cache.cursor
        BY <3>4, <3>5, <4>1
      <4> QED BY <4>1, <4>2 DEF CoverInv, MemoryCovers, Covers, Due
    <3>7. DueNext(sync'.asked - 1) = Due(sync.asked - 1)
      BY <1>1, <3>3, DueSame
    <3> QED BY <1>1, <3>6, <3>7, CoverNext
  <2> QED BY <2>1, <2>2
<1> QED BY <1>2, <1>4, <1>5 DEF CoverInv

LEMMA MergeCovers ==
  ASSUME StateInv, CoverInv, Merge
  PROVE  CoverInv'
<1> DEFINE m == Merged(cache, sync.got)
<1>0. CoreTyped
  BY TypeParts DEF StateInv
<1>1. /\ sync.at = "served" /\ sync'.at = "merged" /\ sync'.asked = sync.asked
      /\ cache' = m /\ UNCHANGED <<now, fills, undo, meta, marker, reader>>
  <2>1. sync \in Syncs
    BY <1>0 DEF CoreTyped, Syncs
  <2> QED BY <2>1 DEF Merge, Syncs, venue, files
<1>2. FileCovers' /\ MarkerCovers' /\ PermitCovers' /\ UndoCovers' /\ SavedCovers'
  BY <1>1, OutsideCovers, CoverNext
<1>3. /\ m \in [rows : Seq(Ids), counts : {cache.counts}, cursor : {cache.cursor},
                seen : {cache.seen, now}, rewrite : {cache.rewrite}]
      /\ Range(m.rows) = Range(cache.rows) \cup sync.got
  <2>1. /\ cache \in Caches /\ IsInjective(cache.rows) /\ sync.got \in SUBSET Ids /\ now \in Nat
        /\ cache.seen \in 0..MaxNow /\ cache.seen \in Nat
    BY <1>0, CoreFacts DEF CoreTyped, StateInv, MemoryInv, RowsSound, Sound
  <2> QED BY <2>1, MergedRows
<1> HIDE DEF m
<1>4. cache'.cursor = cache.cursor /\ Range(cache'.rows) = Range(cache.rows) \cup sync.got
  BY <1>1, <1>3
<1>5. MemoryCovers'
  BY <1>1, <1>4, InsideCovers
<1>6. DueNext(sync'.asked - 1) \subseteq Range(cache'.rows)
  BY <1>1, <1>4, DueSame DEF CoverInv, ResponseCovers
<1> QED BY <1>2, <1>5, <1>6, CoverNext DEF CoverInv

LEMMA AdvanceCovers ==
  ASSUME StateInv, CoverInv, Advance
  PROVE  CoverInv'
<1>0. CoreTyped
  BY TypeParts DEF StateInv
<1>1. /\ sync.at = "merged" /\ sync'.at = "synced" /\ cache'.rows = cache.rows
      /\ cache'.cursor = sync.asked - 1
      /\ UNCHANGED <<now, fills, undo, meta, marker, reader>>
  <2>1. sync \in Syncs /\ cache \in Caches
    BY <1>0 DEF CoreTyped, Syncs
  <2> QED BY <2>1 DEF Advance, Syncs, Caches, CursorAfter, venue, files
<1>2. FileCovers' /\ MarkerCovers' /\ PermitCovers' /\ UndoCovers' /\ ResponseCovers' /\ SavedCovers'
  BY <1>1, OutsideCovers, CoverNext
<1>3. sync.got = {}
  BY <1>1 DEF StateInv, ThreadInv, Requests
<1>4. DueNext(sync.asked - 1) \subseteq Range(cache.rows)
  BY <1>1, <1>3, DueSame DEF CoverInv, ResponseCovers
<1> QED BY <1>1, <1>2, <1>4, CoverNext DEF CoverInv, CoversNext

LEMMA PushCovers ==
  ASSUME StateInv, CoverInv, NEW k \in Ids, Push(k)
  PROVE  CoverInv'
<1> DEFINE m == Merged(cache, {k})
<1>0. CoreTyped
  BY TypeParts DEF StateInv
<1>1. cache' = m /\ UNCHANGED <<now, fills, undo, sync, meta, marker, reader>>
  BY DEF Push, venue, files
<1>2. /\ m \in [rows : Seq(Ids), counts : {cache.counts}, cursor : {cache.cursor},
                seen : {cache.seen, now}, rewrite : {cache.rewrite}]
      /\ Range(m.rows) = Range(cache.rows) \cup {k}
  <2>1. /\ cache \in Caches /\ IsInjective(cache.rows) /\ {k} \in SUBSET Ids /\ now \in Nat
        /\ cache.seen \in 0..MaxNow /\ cache.seen \in Nat
    BY <1>0, CoreFacts DEF CoreTyped, StateInv, MemoryInv, RowsSound, Sound
  <2> QED BY <2>1, MergedRows
<1> HIDE DEF m
<1>3. /\ cache'.cursor = cache.cursor /\ cache'.rewrite = cache.rewrite
      /\ \A j \in Range(cache.rows) : j \in Range(cache'.rows)
  BY <1>1, <1>2
<1> QED BY <1>1, <1>3, OutsideCovers, InsideCovers DEF CoverInv

LEMMA ResyncCovers ==
  ASSUME StateInv, CoverInv, Resync
  PROVE  CoverInv'
<1>0. CoreTyped
  BY TypeParts DEF StateInv
<1>1. sync.at = "saved" /\ UNCHANGED <<now, fills, undo, meta, marker, reader>>
  BY DEF Resync, venue
<1>2. FileCovers' /\ MarkerCovers' /\ PermitCovers'
  BY <1>1, OutsideCovers
<1>3. CASE meta.seen > cache.seen
  <2>1. /\ cache' = [cache EXCEPT !.rows = meta.rows, !.counts = Len(meta.rows),
                                  !.cursor = meta.cursor, !.seen = meta.seen]
        /\ sync' = sync
    BY <1>3 DEF Resync
  <2>2. cache'.rows = meta.rows /\ cache'.cursor = meta.cursor
    <3>1. cache \in Caches
      BY <1>0 DEF CoreTyped
    <3> QED BY <2>1, <3>1 DEF Caches
  <2> QED BY <1>1, <1>2, <2>1, <2>2, CoverNext DEF CoverInv
<1>4. CASE ~(meta.seen > cache.seen)
  <2>1. cache' = cache /\ sync' = [sync EXCEPT !.at = "synced", !.asked = 0]
    BY <1>4 DEF Resync
  <2>2. sync'.at = "synced"
    <3>1. sync \in Syncs
      BY <1>0 DEF CoreTyped, Syncs
    <3> QED BY <2>1, <3>1 DEF Syncs
  <2>3. MemoryCovers'
    BY <1>1, <2>1, InsideCovers
  <2> QED BY <1>2, <2>2, <2>3, CoverNext DEF CoverInv
<1> QED BY <1>3, <1>4

LEMMA PruneCovers ==
  ASSUME StateInv, CoverInv, Prune
  PROVE  CoverInv'
<1>0. CoreTyped
  BY TypeParts DEF StateInv
<1>1. /\ sync.at = "saved" /\ undo' = cache /\ cache' = [cache EXCEPT !.rows = Kept]
      /\ sync' = [sync EXCEPT !.at = "pruned"]
      /\ UNCHANGED <<now, fills, meta, marker, reader>>
  BY DEF Prune, venue, files
<1>2. FileCovers' /\ MarkerCovers' /\ PermitCovers'
  BY <1>1, OutsideCovers
<1>3. /\ cache'.rows = Kept /\ cache'.cursor = cache.cursor /\ cache'.rewrite = cache.rewrite
  <2>1. cache \in Caches
    BY <1>0 DEF CoreTyped
  <2> QED BY <1>1, <2>1 DEF Caches
<1>4. \A k \in Range(cache.rows) : k \in Range(cache'.rows) \/ Expired(k)
  <2>1. cache.rows \in Seq(Ids) /\ IsInjective(cache.rows)
    BY <1>0, CoreFacts DEF StateInv, MemoryInv, RowsSound, Sound
  <2> QED BY <1>3, <2>1, KeptRows
<1>5. MemoryCovers'
  BY <1>1, <1>3, <1>4, InsideCovers
<1>6. sync'.at = "pruned"
  BY <1>0, <1>1 DEF CoreTyped
<1>7. UndoCovers' /\ ResponseCovers' /\ SavedCovers'
  <2>1. CoversNext(cache.rows, cache.cursor)
    BY <1>1, DueSame DEF CoverInv, MemoryCovers, Covers, CoversNext
  <2>2. ~cache.rewrite /\ MaxPrunes # 0 => CoversNext(meta.rows, cache.cursor)
    BY <1>1, DueSame DEF CoverInv, SavedCovers, Covers, CoversNext
  <2> QED BY <1>1, <1>3, <1>6, <2>1, <2>2, CoverNext
<1> QED BY <1>2, <1>5, <1>7 DEF CoverInv

--------------------------------------------------------------------------------
(* CoverInv: saves *)

\* A save that returns leaves the thread with what the file has of it.
LEMMA ReturnCovers ==
  ASSUME StateInv, CoverInv, NEW by \in {"sync", "ws", "prune"}, NEW ok, Return(by, ok),
         by = "sync" => sync.at = "synced",
         by = "prune" => sync.at = "pruned",
         UNCHANGED <<now, fills, undo, meta>>,
         cache'.cursor = cache.cursor, cache'.rows = cache.rows,
         cache'.rewrite \/ MaxPrunes = 0 \/ Covers(meta.rows, cache.cursor)
  PROVE  MemoryCovers' /\ UndoCovers' /\ ResponseCovers' /\ SavedCovers'
<1>0. CoreTyped /\ ThreadInv
  BY TypeParts DEF StateInv
<1>1. sync' = sync \/ sync'.at \in {"saved", "wait"}
  BY <1>0, Returns
<1>2. MemoryCovers'
  BY InsideCovers
<1>3. ResponseCovers' /\ UndoCovers'
  BY <1>1, InsideCovers, CoverNext
<1>4. SavedCovers'
  BY DueSame, CoverNext DEF Covers, CoversNext
<1> QED BY <1>2, <1>3, <1>4

LEMMA SaveCovers ==
  ASSUME StateInv, CoverInv, NEW by \in {"sync", "ws"}, Save(by)
  PROVE  CoverInv'
<1>1. /\ up /\ (by = "sync" => sync.at = "synced")
      /\ UNCHANGED <<now, fills, cache, undo, meta, marker, reader>>
  BY DEF Save, venue, memory, files
<1>2. CASE meta.seen > cache.seen
  <2>1. Return(by, FALSE)
    BY <1>2 DEF Save
  <2>2. cache.rewrite
    <3>1. CoreTyped
      BY TypeParts DEF StateInv
    <3>2. meta.seen \in Nat /\ cache.seen \in Nat
      BY <3>1, CoreFacts
    <3>3. ~(meta.seen <= cache.seen)
      BY <1>2, <3>2
    <3> QED BY <1>1, <3>3 DEF StateInv, MemoryInv, FileNotAhead
  <2> QED BY <1>1, <2>1, <2>2, ReturnCovers, OutsideCovers DEF CoverInv
<1>3. CASE ~(meta.seen > cache.seen)
  BY <1>1, <1>3, SameCovers DEF Save, threads
<1> QED BY <1>2, <1>3

LEMMA AppendFailsCovers ==
  ASSUME QuietSaves, StateInv, CoverInv, AppendFails
  PROVE  CoverInv'
<1>0. /\ SpentTyped /\ ThreadInv
  BY TypeParts DEF StateInv
<1>1. /\ job.kind = "append" /\ Return(job.by, FALSE) /\ spent.append < MaxAppendFaults
      /\ UNCHANGED <<now, fills, cache, undo, meta, marker, reader>>
  BY DEF AppendFails, venue, memory
<1>2. job.by \in {"sync", "ws"} /\ (job.by = "sync" => sync.at = "synced")
  BY <1>0, <1>1 DEF ThreadInv, JobShape, JobThread, NoJob
<1>3. MaxPrunes = 0
  <2>1. spent.append \in Nat
    BY <1>0 DEF SpentTyped
  <2>2. MaxAppendFaults # 0
    BY <1>1, <2>1
  <2> QED BY <2>2 DEF QuietSaves
<1>4. MemoryCovers' /\ UndoCovers' /\ ResponseCovers' /\ SavedCovers'
  BY <1>1, <1>2, <1>3, ReturnCovers
<1> QED BY <1>1, <1>4, OutsideCovers DEF CoverInv

\* A manifest that has what memory's cursor has passed
LEMMA CommitCovers ==
  ASSUME CoverInv,
         UNCHANGED <<now, fills, cache, undo, sync, marker, reader>>,
         meta'.cursor = cache.cursor, Covers(meta'.rows, cache.cursor)
  PROVE  CoverInv'
<1>1. MemoryCovers' /\ ResponseCovers' /\ UndoCovers'
  BY InsideCovers
<1>2. FileCovers' /\ SavedCovers'
  BY DueSame, CoverNext DEF Covers, CoversNext
<1>3. MarkerCovers' /\ PermitCovers'
  BY DueSame, CoverNext DEF CoverInv, MarkerCovers, PermitCovers, Covers, CoversNext
<1> QED BY <1>1, <1>2, <1>3 DEF CoverInv

LEMMA AppendMetaCovers ==
  ASSUME StateInv, CoverInv, AppendMeta
  PROVE  CoverInv'
<1>0. CoreTyped /\ ThreadInv /\ MemoryInv
  BY TypeParts DEF StateInv
<1>1. /\ job.kind = "append" /\ job.step = "meta"
      /\ meta'.rows = meta.rows \o Unsaved /\ meta'.cursor = cache.cursor
      /\ UNCHANGED <<now, fills, cache, undo, sync, marker, reader>>
  BY DEF AppendMeta, venue, memory, threads
<1>2. ~cache.rewrite /\ cache.counts <= Len(cache.rows) /\ Unsaved \in Seq(Ids)
  BY <1>1, AppendFiles
<1>3. cache.rows \in Seq(Ids) /\ cache.counts \in Nat /\ meta.rows \in Seq(Ids)
  BY <1>0, CoreFacts
<1>4. Range(meta.rows \o Unsaved) = Range(meta.rows) \cup Range(Unsaved)
  BY <1>2, <1>3, Joined
<1>5. \A k : k \in Range(Unsaved) <=>
        \E i \in DOMAIN cache.rows : i > cache.counts /\ cache.rows[i] = k
  BY <1>2, <1>3, UnsavedRows
<1>6. Covers(meta'.rows, cache.cursor)
  <2>1. CASE sync.at = "pruned"
    <3>1. Covers(meta.rows, cache.cursor)
      BY <1>0, <1>2, <2>1 DEF ThreadInv, Undoable, CoverInv, SavedCovers
    <3> QED BY <1>1, <1>4, <3>1 DEF Covers
  <2>2. CASE sync.at # "pruned"
    <3> SUFFICES ASSUME NEW k \in Range(cache.rows)
                 PROVE  k \in Range(meta.rows) \cup Range(Unsaved)
      BY <1>1, <1>4 DEF Covers, CoverInv, MemoryCovers
    <3>1. PICK i \in DOMAIN cache.rows : cache.rows[i] = k
      BY DEF Range
    <3>2. i \in Nat
      BY <1>3, LenProperties
    <3>3. CASE i > cache.counts
      BY <1>5, <3>1, <3>3
    <3>4. CASE i <= cache.counts
      BY <1>0, <1>2, <2>2, <3>1, <3>4 DEF MemoryInv, CountedIsSaved
    <3> QED BY <1>3, <3>2, <3>3, <3>4
  <2> QED BY <2>1, <2>2
<1> QED BY <1>1, <1>6, CommitCovers

LEMMA CompactMetaCovers ==
  ASSUME StateInv, CoverInv, CompactMeta
  PROVE  CoverInv'
<1>1. /\ meta'.rows = cache.rows /\ meta'.cursor = cache.cursor
      /\ UNCHANGED <<now, fills, cache, undo, sync, marker, reader>>
  BY DEF CompactMeta, venue, memory, threads
<1> QED BY <1>1, CommitCovers DEF CoverInv, MemoryCovers

LEMMA FailureCovers ==
  ASSUME StateInv, CoverInv, job.kind = "compact", CompactionFailed,
         UNCHANGED <<now, fills, meta, marker, reader>>
  PROVE  CoverInv'
<1>0. CoreTyped /\ ThreadInv
  BY TypeParts DEF StateInv
<1>1. /\ Return(job.by, FALSE) /\ job.by \in {"sync", "ws", "prune"}
      /\ job.by = "sync" => sync.at = "synced"
      /\ job.by = "prune" => sync.at = "pruned"
  <2>1. job.by \in {"sync", "ws", "prune"}
    BY <1>0 DEF ThreadInv, JobShape, NoJob
  <2>2. (job.by = "sync" => sync.at = "synced") /\ (job.by = "prune" => sync.at = "pruned")
    BY <1>0 DEF ThreadInv, JobThread
  <2> QED BY <2>1, <2>2 DEF CompactionFailed
<1>2. FileCovers' /\ MarkerCovers' /\ PermitCovers'
  BY OutsideCovers
<1>3. cache \in Caches /\ undo \in Caches
  BY <1>0 DEF CoreTyped
<1>4. CASE job.by = "prune"
  <2>1. cache' = [undo EXCEPT !.rewrite = TRUE]
    BY <1>4 DEF CompactionFailed
  <2>2. cache'.rows = undo.rows /\ cache'.cursor = undo.cursor
    BY <1>3, <2>1 DEF Caches
  <2>3. sync'.at = "wait"
    BY <1>0, <1>1, <1>4, Returns
  <2>4. MemoryCovers'
    BY <1>1, <1>4, <2>2, DueSame, CoverNext DEF CoverInv, UndoCovers, Covers, CoversNext
  <2> QED BY <1>2, <2>3, <2>4, CoverNext DEF CoverInv
<1>5. CASE job.by # "prune"
  <2>1. cache' = [cache EXCEPT !.rewrite = TRUE] /\ undo' = undo
    BY <1>5 DEF CompactionFailed
  <2>2. cache'.rows = cache.rows /\ cache'.cursor = cache.cursor /\ cache'.rewrite
    BY <1>3, <2>1 DEF Caches
  <2> QED BY <1>1, <1>2, <2>1, <2>2, ReturnCovers DEF CoverInv
<1> QED BY <1>4, <1>5

LEMMA CompactCovers ==
  ASSUME StateInv, CoverInv, CompactStage \/ CompactData \/ CompactDiscard \/ CompactFails
  PROVE  CoverInv'
<1>0. ThreadInv
  BY DEF StateInv
<1>1. CASE CompactStage
  <2>1. UNCHANGED <<now, fills, meta, marker, reader>> /\ job.step = "stage"
    BY <1>1 DEF CompactStage, venue
  <2>2. CASE Recoverable
    BY <1>1, <2>1, <2>2, SameCovers DEF CompactStage, memory, threads
  <2>3. CASE ~Recoverable
    <3>1. CompactionFailed
      BY <1>1, <2>3 DEF CompactStage
    <3>2. job.kind = "compact"
      BY <1>0, <2>1 DEF ThreadInv, JobShape, NoJob
    <3> QED BY <2>1, <3>1, <3>2, FailureCovers
  <2> QED BY <2>2, <2>3
<1>2. CASE CompactData \/ CompactDiscard
  BY <1>2, SameCovers DEF CompactData, CompactDiscard, venue, memory, threads
<1>3. CASE CompactFails
  BY <1>3, FailureCovers DEF CompactFails, venue
<1> QED BY <1>1, <1>2, <1>3

LEMMA RememberCovers ==
  ASSUME StateInv, CoverInv, Remember
  PROVE  CoverInv'
<1>0. CoreTyped /\ ThreadInv /\ MemoryInv /\ ReaderInv
  BY TypeParts DEF StateInv
<1>1. /\ job.step = "remember"
      /\ cache' = [cache EXCEPT !.counts = Len(cache.rows), !.rewrite = FALSE]
      /\ undo' = IF job.by = "prune" THEN NoUndo ELSE undo
      /\ marker' = [marker EXCEPT !.stream = meta.stream, !.rev = meta.rev]
      /\ sync' = sync \/ Return(job.by, TRUE)
      /\ UNCHANGED <<now, fills, meta, reader>>
  BY DEF Remember, venue, files, threads
<1>2. /\ cache'.rows = cache.rows /\ cache'.cursor = cache.cursor
      /\ Version(marker') = Version(meta) /\ marker'.time = marker.time
  <2>1. cache \in Caches /\ marker \in [stream : Nat, rev : Nat, time : 0..MaxNow]
    BY <1>0 DEF CoreTyped
  <2> QED BY <1>1, <2>1 DEF Caches, Version
<1>3. /\ job.by \in {"sync", "ws", "prune"}
      /\ job.by = "sync" => sync.at = "synced"
      /\ job.by = "prune" => sync.at = "pruned"
  <2>1. job.by \in {"sync", "ws", "prune"}
    BY <1>0, <1>1 DEF ThreadInv, JobShape, NoJob
  <2> QED BY <1>0, <2>1 DEF ThreadInv, JobThread
<1>4. Covers(meta.rows, cache.cursor)
  BY <1>0, <1>1 DEF MemoryInv, CommitSaves, Committed, CoverInv, FileCovers
<1>5. FileCovers' /\ PermitCovers' /\ MemoryCovers'
  BY <1>1, <1>2, OutsideCovers, InsideCovers
<1>6. MarkerCovers'
  <2> SUFFICES ASSUME NEW r \in Readers, reader[r].ver = Version(meta)
               PROVE  CoversNext(reader[r].rows, marker.time - 1)
    BY <1>1, <1>2, CoverNext
  <2>1. reader[r].rows = meta.rows
    BY <1>0 DEF ReaderInv, ReadersMatch
  <2>2. Due(marker.time - 1) \subseteq Due(meta.cursor)
    BY <1>0, TimesPast, DueGrows
  <2> QED BY <1>1, <2>1, <2>2, DueSame DEF CoverInv, FileCovers, Covers, CoversNext
<1>7. sync' = sync \/ sync'.at \in {"saved", "wait"}
  BY <1>0, <1>1, <1>3, Returns
<1>8. job.by = "prune" => sync'.at = "wait"
  <2> SUFFICES ASSUME job.by = "prune" PROVE sync'.at = "wait"
    OBVIOUS
  <2>1. Return(job.by, TRUE)
    BY DEF Remember
  <2> QED BY <1>0, <1>3, <2>1, Returns
<1>9. ResponseCovers' /\ UndoCovers'
  <2>1. ResponseCovers'
    BY <1>1, <1>2, <1>7, InsideCovers, CoverNext
  <2>2. UndoCovers'
    BY <1>1, <1>2, <1>7, <1>8, InsideCovers, CoverNext
  <2> QED BY <2>1, <2>2
<1>10. SavedCovers'
  BY <1>1, <1>2, <1>4, DueSame, CoverNext DEF Covers, CoversNext
<1> QED BY <1>5, <1>6, <1>9, <1>10 DEF CoverInv

\* The marker is published with the time of the request, which is one past the
\* cursor that has just been certified.
LEMMA PublishCovers ==
  ASSUME StateInv, CoverInv, Publish
  PROVE  CoverInv'
<1>0. CoreTyped /\ ThreadInv /\ MemoryInv /\ ReaderInv
  BY TypeParts DEF StateInv
<1>1. /\ job.step = "publish"
      /\ marker' = [stream |-> meta.stream, rev |-> meta.rev, time |-> SyncTime]
      /\ Return(job.by, TRUE)
      /\ UNCHANGED <<now, fills, cache, undo, meta, reader>>
  BY DEF Publish, venue, memory, files
<1>2. job.by = "sync" /\ sync.at = "synced" /\ sync.asked > 0
  BY <1>0, <1>1 DEF ThreadInv, JobThread
<1>3. meta.cursor = cache.cursor /\ cache.cursor = sync.asked - 1
  BY <1>0, <1>1, <1>2 DEF MemoryInv, CommitSaves, Committed, ThreadInv, Requests, CursorAfter
<1>4. Covers(meta.rows, cache.cursor)
  BY <1>3 DEF CoverInv, FileCovers
<1>5. FileCovers' /\ PermitCovers'
  BY <1>1, OutsideCovers
<1>6. MemoryCovers' /\ UndoCovers' /\ ResponseCovers' /\ SavedCovers'
  BY <1>1, <1>2, <1>4, ReturnCovers
<1>7. MarkerCovers'
  <2>1. Version(marker') = Version(meta) /\ marker'.time - 1 = cache.cursor
    BY <1>1, <1>3 DEF Version, SyncTime
  <2> SUFFICES ASSUME NEW r \in Readers, reader[r].ver = Version(meta)
               PROVE  CoversNext(reader[r].rows, cache.cursor)
    BY <1>1, <2>1, CoverNext
  <2>2. reader[r].rows = meta.rows
    BY <1>0 DEF ReaderInv, ReadersMatch
  <2> QED BY <1>1, <1>4, <2>2, DueSame DEF Covers, CoversNext
<1> QED BY <1>5, <1>6, <1>7 DEF CoverInv

--------------------------------------------------------------------------------
(* CoverInv: crash, restart and the readers *)

LEMMA CrashCovers ==
  ASSUME StateInv, CoverInv, Crash
  PROVE  CoverInv'
<1>0. CoreTyped
  BY TypeParts DEF StateInv
<1>1. /\ cache' = NoUndo /\ sync' = Resting
      /\ UNCHANGED <<now, fills, meta, marker, reader>>
  BY DEF Crash, venue
<1>2. MemoryCovers'
  BY <1>0, <1>1, DueGrows, DueSame, CoverNext DEF CoversNext, NoUndo
<1>3. UndoCovers' /\ ResponseCovers' /\ SavedCovers'
  BY <1>1, CoverNext DEF Resting
<1> QED BY <1>1, <1>2, <1>3, OutsideCovers DEF CoverInv

\* A generation is announced after a restart with its own cursor for a time.
LEMMA RestartCovers ==
  ASSUME StateInv, CoverInv, Restart
  PROVE  CoverInv'
<1>0. CoreTyped /\ ThreadInv /\ ReaderInv
  BY TypeParts DEF StateInv
<1>1. /\ ~up /\ cache' = [rows |-> meta.rows, counts |-> Len(meta.rows), cursor |-> meta.cursor,
                          seen |-> meta.seen, rewrite |-> FALSE]
      /\ marker' = Announced
      /\ UNCHANGED <<now, fills, undo, sync, meta, reader>>
  BY DEF Restart, venue, threads
<1>2. sync' = Resting
  BY <1>0, <1>1 DEF ThreadInv, Stopped
<1>3. UndoCovers' /\ ResponseCovers' /\ SavedCovers' /\ MemoryCovers'
  BY <1>1, <1>2, DueSame, CoverNext DEF Resting, CoverInv, FileCovers, Covers, CoversNext
<1>4. FileCovers' /\ PermitCovers'
  BY <1>1, OutsideCovers
<1>5. MarkerCovers'
  <2> SUFFICES ASSUME NEW r \in Readers, reader[r].ver = Version(marker')
               PROVE  CoversNext(reader[r].rows, marker'.time - 1)
    BY <1>1, CoverNext
  <2>1. CASE marker' = NoMarker
    <3>1. marker'.time - 1 = -1
      BY <2>1 DEF NoMarker
    <3>2. Due(-1) = {}
      BY <1>0, DueGrows
    <3> QED BY <1>1, <3>1, <3>2, DueSame DEF CoversNext
  <2>2. CASE marker' # NoMarker
    <3>1. Version(marker') = Version(meta) /\ marker'.time = meta.cursor
      BY <1>1, <2>2 DEF Announced, Version
    <3>2. reader[r].rows = meta.rows
      BY <1>0, <3>1 DEF ReaderInv, ReadersMatch
    <3>3. meta.cursor \in Int
      BY TimesPast
    <3>4. Due(meta.cursor - 1) \subseteq Due(meta.cursor)
      BY <1>0, <3>3, DueGrows
    <3> QED BY <1>1, <3>1, <3>2, <3>4, DueSame DEF CoverInv, FileCovers, Covers, CoversNext
  <2> QED BY <2>1, <2>2
<1> QED BY <1>3, <1>4, <1>5 DEF CoverInv

\* One reader changes: its rows are those of the version it has, and a new permit
\* rests on the marker.
LEMMA ReaderCovers ==
  ASSUME StateInv, CoverInv, NEW r \in Readers, NEW x \in ReaderRecords,
         reader' = [reader EXCEPT ![r] = x],
         \/ x.ver = reader[r].ver /\ x.rows = reader[r].rows
         \/ x.ver = Version(meta) /\ x.rows = meta.rows /\ x.permit = reader[r].permit,
         \/ x.permit = reader[r].permit
         \/ Covers(x.rows, x.permit.expires - MaxAge - 1),
         UNCHANGED <<now, fills, cache, undo, sync, meta, marker>>
  PROVE  CoverInv'
<1>0. CoreTyped /\ ReadersTyped
  BY TypeParts DEF StateInv
<1>1. /\ reader'[r] = x
      /\ \A q \in Readers : q # r => reader'[q] = reader[q]
  BY <1>0 DEF ReadersTyped, ReaderRecords
<1>2. MemoryCovers' /\ UndoCovers' /\ ResponseCovers' /\ SavedCovers' /\ FileCovers'
  BY OutsideCovers, InsideCovers
<1>3. x.ver = Version(marker) => Covers(x.rows, marker.time - 1)
  <2>1. CASE x.ver = reader[r].ver /\ x.rows = reader[r].rows
    BY <2>1 DEF CoverInv, MarkerCovers
  <2>2. CASE x.rows = meta.rows
    <3>1. Due(marker.time - 1) \subseteq Due(meta.cursor)
      BY <1>0, TimesPast, DueGrows
    <3> QED BY <2>2, <3>1 DEF CoverInv, FileCovers, Covers
  <2> QED BY <2>1, <2>2
<1>4. Covers(x.rows, x.permit.expires - MaxAge - 1)
  <2>1. CASE x.rows = reader[r].rows /\ x.permit = reader[r].permit
    BY <2>1 DEF CoverInv, PermitCovers
  <2>2. CASE x.rows = meta.rows /\ x.permit = reader[r].permit
    <3>1. Due(x.permit.expires - MaxAge - 1) \subseteq Due(meta.cursor)
      BY <1>0, <2>2, TimesPast, DueGrows
    <3> QED BY <2>2, <3>1 DEF CoverInv, FileCovers, Covers
  <2> QED BY <2>1, <2>2
<1>5. MarkerCovers'
  <2> SUFFICES ASSUME NEW q \in Readers, reader'[q].ver = Version(marker)
               PROVE  CoversNext(reader'[q].rows, marker.time - 1)
    BY CoverNext
  <2>1. Covers(reader'[q].rows, marker.time - 1)
    BY <1>1, <1>3 DEF CoverInv, MarkerCovers
  <2> QED BY <2>1, DueSame DEF Covers, CoversNext
<1>6. PermitCovers'
  <2> SUFFICES ASSUME NEW q \in Readers
               PROVE  CoversNext(reader'[q].rows, reader'[q].permit.expires - MaxAge - 1)
    BY CoverNext
  <2>1. Covers(reader'[q].rows, reader'[q].permit.expires - MaxAge - 1)
    BY <1>1, <1>4 DEF CoverInv, PermitCovers
  <2> QED BY <2>1, DueSame DEF Covers, CoversNext
<1> QED BY <1>2, <1>5, <1>6 DEF CoverInv

LEMMA LoadCovers ==
  ASSUME StateInv, CoverInv, NEW r \in Readers, NEW ver \in Versions,
         NEW then \in {"free", "loaded"}, Load(r, ver, then)
  PROVE  CoverInv'
<1> DEFINE rr == reader[r]
<1>0. CoreTyped /\ ReadersTyped
  BY TypeParts DEF StateInv
<1>1. UNCHANGED <<now, fills, cache, undo, sync, meta, marker>>
  BY DEF Load, venue, memory, threads
<1>2. /\ reader \in [Readers -> ReaderRecords] /\ rr \in ReaderRecords
      /\ meta.rows \in Seq(Ids)
  BY <1>0, CoreFacts DEF ReadersTyped, ReaderRecords
<1>3. ASSUME NEW at \in {"free", "loaded"}, reader' = [reader EXCEPT ![r].at = at]
      PROVE  CoverInv'
  <2> DEFINE x == [rr EXCEPT !.at = at]
  <2>1. x \in ReaderRecords /\ x.rows = rr.rows /\ x.ver = rr.ver /\ x.permit = rr.permit
    BY <1>2 DEF ReaderRecords
  <2>2. reader' = [reader EXCEPT ![r] = x]
    BY <1>2, <1>3
  <2> HIDE DEF x
  <2> QED BY <1>1, <2>1, <2>2, ReaderCovers
<1>4. CASE reader' = [reader EXCEPT ![r].at = then, ![r].rows = meta.rows, ![r].ver = ver]
           /\ Version(meta) = ver
  <2> DEFINE x == [rr EXCEPT !.at = then, !.rows = meta.rows, !.ver = ver]
  <2>1. x \in ReaderRecords /\ x.rows = meta.rows /\ x.ver = Version(meta) /\ x.permit = rr.permit
    BY <1>2, <1>4 DEF ReaderRecords, Rows
  <2>2. reader' = [reader EXCEPT ![r] = x]
    BY <1>2, <1>4
  <2> HIDE DEF x
  <2> QED BY <1>1, <2>1, <2>2, ReaderCovers
<1> QED BY <1>3, <1>4 DEF Load

\* A permit is issued on the version of the marker, and ends before the marker's
\* time is MAX_AGE_SEC ago.
LEMMA IssueCovers ==
  ASSUME StateInv, CoverInv, NEW r \in Readers, Issue(r)
  PROVE  CoverInv'
<1> USE NumbersTyped
<1> DEFINE rr == reader[r]
           ok == /\ Healthy
                 /\ Version(marker) = Version(rr.evidence)
                 /\ now - marker.time + PermitTtl <= MaxAge
           permit == IF ok THEN [expires |-> now + PermitTtl] ELSE rr.permit
           x == [rr EXCEPT !.at = "free", !.evidence = NoMarker, !.permit = permit]
<1>0. CoreTyped /\ ReadersTyped /\ ReaderInv
  BY TypeParts DEF StateInv
<1>1. /\ rr.at = "loaded"
      /\ UNCHANGED <<now, fills, cache, undo, sync, meta, marker>>
  BY DEF Issue, venue, memory, threads, files
<1>2. reader \in [Readers -> ReaderRecords] /\ rr \in ReaderRecords /\ now \in Nat /\ marker.time \in Nat
  BY <1>0, CoreFacts DEF ReadersTyped, ReaderRecords
<1>3. reader' = [reader EXCEPT ![r] = x]
  BY <1>2 DEF Issue
<1>4. permit \in [expires : Nat]
  <2>1. rr.permit \in [expires : Nat]
    BY <1>2 DEF ReaderRecords
  <2> QED BY <1>2, <2>1
<1>5. permit = rr.permit \/ Covers(rr.rows, permit.expires - MaxAge - 1)
  <2> SUFFICES ASSUME ok PROVE Covers(rr.rows, permit.expires - MaxAge - 1)
    OBVIOUS
  <2>0. permit.expires = now + PermitTtl
    OBVIOUS
  <2>1. rr.ver = Version(marker)
    BY <1>0, <1>1 DEF ReaderInv, LoadedIsAsked
  <2>2. Covers(rr.rows, marker.time - 1)
    BY <2>1 DEF CoverInv, MarkerCovers
  <2>3. Due(permit.expires - MaxAge - 1) \subseteq Due(marker.time - 1)
    <3>1. now + PermitTtl - MaxAge - 1 <= marker.time - 1
      BY <1>2
    <3> HIDE DEF permit
    <3> QED BY <1>0, <1>2, <2>0, <3>1, DueGrows
  <2> QED BY <2>2, <2>3 DEF Covers
<1> HIDE DEF permit
<1>6. /\ x \in ReaderRecords /\ x.rows = rr.rows /\ x.ver = rr.ver /\ x.permit = permit
  <2>1. NoMarker \in [stream : Nat, rev : Nat, time : 0..MaxNow]
    BY DEF NoMarker
  <2> HIDE DEF NoMarker
  <2> QED BY <1>2, <1>4, <2>1 DEF ReaderRecords
<1> HIDE DEF x
<1> QED BY <1>1, <1>3, <1>5, <1>6, ReaderCovers

LEMMA ReaderStepCovers ==
  ASSUME StateInv, CoverInv, NEW r \in Readers, ReaderStep(r)
  PROVE  CoverInv'
<1> USE NumbersTyped
<1> DEFINE rr == reader[r]
<1>0. CoreTyped /\ ReadersTyped
  BY TypeParts DEF StateInv
<1>1. /\ reader \in [Readers -> ReaderRecords] /\ rr \in ReaderRecords
      /\ Version(meta) \in Versions /\ Version(rr.evidence) \in Versions
  BY <1>0, CoreFacts DEF ReadersTyped, ReaderRecords, Version, Versions
<1>2. CASE Refresh(r) \/ Ensure(r)
  BY <1>1, <1>2, LoadCovers DEF Refresh, Ensure
<1>3. CASE ReadMarker(r)
  <2> DEFINE x == [rr EXCEPT !.at = "asked", !.evidence = marker]
  <2>1. /\ reader' = [reader EXCEPT ![r] = x]
        /\ UNCHANGED <<now, fills, cache, undo, sync, meta, marker>>
    BY <1>1, <1>3 DEF ReadMarker, venue, memory, threads, files
  <2>2. x \in ReaderRecords /\ x.rows = rr.rows /\ x.ver = rr.ver /\ x.permit = rr.permit
    <3>1. marker \in [stream : Nat, rev : Nat, time : 0..MaxNow]
      BY <1>0 DEF CoreTyped
    <3> QED BY <1>1, <3>1 DEF ReaderRecords
  <2> HIDE DEF x
  <2> QED BY <2>1, <2>2, ReaderCovers
<1>4. CASE Issue(r)
  BY <1>4, IssueCovers
<1>5. CASE Consume(r)
  <2> DEFINE x == [rr EXCEPT !.permit = NoPermit]
  <2>1. /\ reader' = [reader EXCEPT ![r] = x]
        /\ UNCHANGED <<now, fills, cache, undo, sync, meta, marker>>
    BY <1>1, <1>5 DEF Consume, venue, memory, threads, files
  <2>2. x \in ReaderRecords /\ x.rows = rr.rows /\ x.ver = rr.ver /\ x.permit.expires = 0
    BY <1>1 DEF ReaderRecords, NoPermit
  <2>3. Covers(x.rows, x.permit.expires - MaxAge - 1)
    <3>1. Due(0 - MaxAge - 1) = {}
      BY <1>0, DueGrows
    <3> QED BY <2>2, <3>1 DEF Covers
  <2> HIDE DEF x
  <2> QED BY <2>1, <2>2, <2>3, ReaderCovers
<1> QED BY <1>2, <1>3, <1>4, <1>5 DEF ReaderStep

LEMMA CoverStep ==
  ASSUME QuietSaves
  PROVE  StateInv /\ CoverInv /\ [Next]_vars => CoverInv'
<1> SUFFICES ASSUME StateInv, CoverInv, [Next]_vars PROVE CoverInv'
  OBVIOUS
<1>1. CASE Tick \/ Fill
  BY <1>1, VenueCovers
<1>2. CASE SyncStep
  <2>1. CASE Ask \/ Serve \/ RestFails \/ Rest
    BY <2>1, RequestCovers
  <2>2. CASE Merge \/ Advance \/ Resync \/ Prune
    BY <2>2, MergeCovers, AdvanceCovers, ResyncCovers, PruneCovers
  <2>3. CASE CompactPruned
    BY <2>3, SameCovers DEF CompactPruned, venue, memory, threads, files
  <2>4. CASE Save("sync")
    BY <2>4, SaveCovers
  <2> QED BY <1>2, <2>1, <2>2, <2>3, <2>4 DEF SyncStep
<1>3. CASE SaveStep
  <2>1. CASE AppendRows
    BY <2>1, SameCovers DEF AppendRows, venue, memory, threads
  <2>2. CASE AppendFails \/ AppendMeta
    BY <2>2, AppendFailsCovers, AppendMetaCovers
  <2>3. CASE CompactStage \/ CompactData \/ CompactMeta \/ CompactDiscard \/ CompactFails
    BY <2>3, CompactCovers, CompactMetaCovers
  <2>4. CASE Remember \/ Publish
    BY <2>4, RememberCovers, PublishCovers
  <2> QED BY <1>3, <2>1, <2>2, <2>3, <2>4 DEF SaveStep
<1>4. CASE Save("ws")
  BY <1>4, SaveCovers
<1>5. CASE \E k \in Ids : Push(k)
  BY <1>5, PushCovers
<1>6. CASE Crash \/ Restart
  BY <1>6, CrashCovers, RestartCovers
<1>7. CASE \E r \in Readers : ReaderStep(r)
  BY <1>7, ReaderStepCovers
<1>8. CASE UNCHANGED vars
  BY <1>8, SameCovers DEF vars, venue, memory, threads, files
<1> QED BY <1>1, <1>2, <1>3, <1>4, <1>5, <1>6, <1>7, <1>8 DEF Next

\* Where no append fails or nothing is pruned, memory, file, marker, readers and
\* permits have every fill that the time they stand for has passed.
THEOREM CoverInvariant ==
  ASSUME QuietSaves
  PROVE  Spec => []CoverInv
<1>1. Init => CoverInv
  BY CoverInit
<1>2. StateInv /\ CoverInv /\ [Next]_vars => CoverInv'
  BY CoverStep
<1> QED BY <1>1, <1>2, StateInvariant, PTL DEF Spec

\* No fill before the stored cursor is missing from the certified rows, whichever
\* thread saves, and whatever crashes or compactions fail: REST never asks for it
\* again.
THEOREM CursorsAreCovered ==
  ASSUME QuietSaves
  PROVE  Spec => []CursorCovered
<1>1. StateInv /\ CoverInv => CursorCovered
  <2> SUFFICES ASSUME StateInv, CoverInv, NEW k \in Executed, fills[k] < meta.cursor, ~Expired(k)
               PROVE  k \in Range(meta.rows)
    BY DEF CursorCovered
  <2>1. fills[k] \in Nat /\ meta.cursor \in Nat
    BY TypeParts, CoreFacts DEF StateInv
  <2> QED BY <2>1 DEF CoverInv, FileCovers, Covers, Due
<1> QED BY <1>1, CoverInvariant, StateInvariant, PTL

\* A process that holds a permit knows every fill older than MAX_AGE_SEC: the time
\* a permit rests on is that of the request, never that of the publication.
THEOREM PermitsAreFresh ==
  ASSUME QuietSaves
  PROVE  Spec => []PermitMeansFresh
<1> USE NumbersTyped
<1>1. StateInv /\ CoverInv => PermitMeansFresh
  <2> SUFFICES ASSUME StateInv, CoverInv, NEW r \in Readers, now <= reader[r].permit.expires,
                      NEW k \in Executed, fills[k] + MaxAge < now, ~Expired(k)
               PROVE  k \in Range(reader[r].rows)
    BY DEF PermitMeansFresh
  <2>1. fills[k] \in Nat /\ now \in Nat
    BY TypeParts, CoreFacts DEF StateInv
  <2>2. reader[r].permit.expires \in Nat
    BY TypeParts DEF StateInv, ReadersTyped
  <2>3. fills[k] <= reader[r].permit.expires - MaxAge - 1
    BY <2>1, <2>2
  <2> QED BY <2>3 DEF CoverInv, PermitCovers, Covers, Due
<1> QED BY <1>1, CoverInvariant, StateInvariant, PTL

--------------------------------------------------------------------------------
(* The files implement CertifiedStore *)

StoreStep == [LosesCopy \/ Store!Next]_(Store!storeVars)

LEMMA StoreSame ==
  ASSUME UNCHANGED <<now, fills, meta, reader>>, Recoverable' <=> Recoverable
  PROVE  UNCHANGED Store!storeVars
BY DEF Store!storeVars, Stored, Executed, Expired

\* Time only makes fills expire; a new fill is neither settled nor expired.
LEMMA StoreVenue ==
  ASSUME StateInv, Tick \/ Fill, Recoverable' <=> Recoverable
  PROVE  StoreStep
<1> USE NumbersTyped
<1> DEFINE settled == {k \in Executed : fills[k] < meta.cursor}
           old == {k \in Executed : Expired(k)}
<1>0. CoreTyped
  BY TypeParts DEF StateInv
<1>1. UNCHANGED <<meta, reader>>
  BY DEF Tick, Fill, files
<1>2. /\ now \in Nat /\ Len(fills) \in Nat /\ Executed = 1..Len(fills)
      /\ \A k \in Executed : fills[k] \in Nat
      /\ meta.cursor \in Nat /\ meta.cursor < now
  BY <1>0, CoreFacts, TimesPast
<1>3. settled' = settled /\ old \subseteq old'
  <2>1. CASE Tick
    <3>1. now' = now + 1 /\ fills' = fills
      BY <2>1 DEF Tick
    <3> QED BY <1>1, <1>2, <3>1 DEF Executed, Expired
  <2>2. CASE Fill
    <3>1. now' = now /\ fills' = Append(fills, now)
      BY <2>2 DEF Fill
    <3>2. fills \in Seq(1..MaxNow)
      BY <1>0 DEF CoreTyped
    <3>3. /\ DOMAIN fills' = 1..(Len(fills) + 1) /\ fills'[Len(fills) + 1] = now
          /\ \A k \in 1..Len(fills) : fills'[k] = fills[k]
      BY <1>2, <3>1, <3>2, AppendProperties, LenProperties
    <3>4. Executed' = 1..(Len(fills) + 1)
      BY <3>3 DEF Executed
    <3>5. \A k \in Executed' : k \in Executed \/ k = Len(fills) + 1
      BY <1>2, <3>4
    <3>6. settled' = settled
      <4>1. \A k \in settled' : k \in settled
        BY <1>1, <1>2, <3>3, <3>5
      <4>2. \A k \in settled : k \in settled'
        BY <1>1, <1>2, <3>3, <3>4
      <4> QED BY <4>1, <4>2
    <3>7. old \subseteq old'
      BY <1>2, <3>1, <3>3, <3>4 DEF Expired
    <3> QED BY <3>6, <3>7
  <2> QED BY <2>1, <2>2
<1>4. Stored' = Stored /\ [r \in Readers |-> reader[r].rows]' = [r \in Readers |-> reader[r].rows]
  BY <1>1 DEF Stored
<1> QED BY <1>3, <1>4 DEF StoreStep, Store!storeVars, Store!Next, Store!Age

\* A commit replaces the content by one without duplicates that has all that REST
\* is done with.
LEMMA StoreCommit ==
  ASSUME StateInv, StateInv', CoverInv', AppendMeta \/ CompactMeta, Recoverable, Recoverable'
  PROVE  StoreStep
<1> DEFINE settled == {k \in Executed : fills[k] < meta.cursor}
           old == {k \in Executed : Expired(k)}
<1>0. CoreTyped /\ CoreTyped' /\ ThreadInv
  BY TypeParts DEF StateInv
<1>1. /\ up /\ meta'.cursor = cache.cursor
      /\ UNCHANGED <<now, fills, reader>>
  BY DEF AppendMeta, CompactMeta, venue
<1>2. meta.cursor <= meta'.cursor
  BY <1>0, <1>1 DEF ThreadInv, Clocks
<1>3. /\ meta.cursor \in Nat /\ meta'.cursor \in Nat
      /\ \A k \in Executed : fills[k] \in Nat
  BY <1>0, <1>1, CoreFacts
<1>4. settled \subseteq settled' /\ old' = old
  BY <1>1, <1>2, <1>3 DEF Executed, Expired
<1>5. settled' \ old \subseteq Range(meta'.rows) /\ IsInjective(meta'.rows)
  <2>1. IsInjective(meta'.rows)
    BY DEF StateInv, MemoryInv, RowsSound, Sound
  <2>2. CoversNext(meta'.rows, meta'.cursor)
    BY CoverNext DEF CoverInv
  <2>3. settled' \ old \subseteq DueNext(meta'.cursor)
    BY <1>1, <1>3, <1>4 DEF DueNext, Executed, Expired
  <2> QED BY <2>1, <2>2, <2>3 DEF CoversNext
<1>6. Stored = meta.rows /\ Stored' = meta'.rows
  BY DEF Stored
<1>7. [r \in Readers |-> reader[r].rows]' = [r \in Readers |-> reader[r].rows]
  BY <1>1
<1>8. CASE Stored' = Stored
  BY <1>4, <1>5, <1>6, <1>7, <1>8
     DEF StoreStep, Store!storeVars, Store!Next, Store!Settle, Store!Range, Range
<1>9. CASE Stored' # Stored
  BY <1>4, <1>5, <1>6, <1>7, <1>9
     DEF StoreStep, Store!storeVars, Store!Next, Store!Certify, Store!Range, Range,
         Store!IsInjective, IsInjective
<1> QED BY <1>8, <1>9

\* A reader takes all of the content, or nothing.
LEMMA StoreRead ==
  ASSUME StateInv, NEW r \in Readers, ReaderStep(r), ~LosesCopy, Recoverable' <=> Recoverable
  PROVE  StoreStep
<1> DEFINE view == [q \in Readers |-> reader[q].rows]
<1>1. reader \in [Readers -> ReaderRecords]
  BY TypeParts DEF StateInv, ReadersTyped, ReaderRecords
<1>2. UNCHANGED <<now, fills, meta>>
  <2>1. CASE Refresh(r) \/ Ensure(r)
    BY <2>1 DEF Refresh, Ensure, Load, venue
  <2>2. CASE ReadMarker(r) \/ Issue(r) \/ Consume(r)
    BY <2>2 DEF ReadMarker, Issue, Consume, venue, files
  <2> QED BY <2>1, <2>2 DEF ReaderStep
<1>3. Stored' = Stored /\ {k \in Executed : fills[k] < meta.cursor}' = {k \in Executed : fills[k] < meta.cursor}
      /\ {k \in Executed : Expired(k)}' = {k \in Executed : Expired(k)}
  BY <1>2 DEF Stored, Executed, Expired
<1>4. view' = view \/ view' = [view EXCEPT ![r] = Stored]
  <2>1. CASE Refresh(r) \/ Ensure(r)
    <3>1. PICK ver, then : Load(r, ver, then)
      BY <2>1 DEF Refresh, Ensure
    <3>2. CASE \E at : reader' = [reader EXCEPT ![r].at = at]
      BY <1>1, <3>2 DEF ReaderRecords
    <3>3. CASE /\ reader' = [reader EXCEPT ![r].at = then, ![r].rows = meta.rows, ![r].ver = ver]
               /\ reader[r].ver # ver
               /\ SuffixFits(reader[r]) \/ Recoverable
      <4>1. /\ reader'[r].rows = meta.rows /\ reader'[r].ver = ver
            /\ \A q \in Readers : q # r => reader'[q] = reader[q]
        BY <1>1, <3>3 DEF ReaderRecords
      <4>2. Recoverable
        <5> SUFFICES ASSUME SuffixFits(reader[r]) PROVE Recoverable
          BY <3>3
        <5> QED BY <3>3, <4>1 DEF LosesCopy, Recoverable
      <4>3. Stored = meta.rows
        BY <4>2 DEF Stored
      <4> QED BY <4>1, <4>3
    <3> QED BY <3>1, <3>2, <3>3 DEF Load
  <2>2. CASE ReadMarker(r)
    BY <1>1, <2>2 DEF ReadMarker, ReaderRecords
  <2>3. CASE Issue(r)
    <3>1. \E p : reader' = [reader EXCEPT ![r].at = "free", ![r].evidence = NoMarker, ![r].permit = p]
      BY <2>3 DEF Issue
    <3> QED BY <1>1, <3>1 DEF ReaderRecords
  <2>4. CASE Consume(r)
    BY <1>1, <2>4 DEF Consume, ReaderRecords
  <2> QED BY <2>1, <2>2, <2>3, <2>4 DEF ReaderStep
<1> HIDE DEF view
<1>5. CASE view' = view
  BY <1>3, <1>5 DEF StoreStep, Store!storeVars, view
<1>6. CASE view' = [view EXCEPT ![r] = Stored]
  BY <1>3, <1>6 DEF StoreStep, Store!storeVars, Store!Next, Store!Refresh, view
<1> QED BY <1>4, <1>5, <1>6

LEMMA StoreMoves ==
  ASSUME QuietSaves, RestoreFails = FALSE
  PROVE  StateInv /\ StateInv' /\ CoverInv' /\ FilesOrLost /\ [Next]_vars => StoreStep
<1> SUFFICES ASSUME StateInv, StateInv', CoverInv', FilesOrLost, [Next]_vars, ~LosesCopy
             PROVE  StoreStep
  BY DEF StoreStep
<1>1. Recoverable' <=> Recoverable
  BY FileStep, LostStays DEF FilesOrLost, FileInv, Lost
<1>2. CASE Tick \/ Fill
  BY <1>1, <1>2, StoreVenue
<1>3. CASE AppendMeta \/ CompactMeta
  <2>1. Recoverable
    <3>1. up
      BY <1>3 DEF AppendMeta, CompactMeta
    <3> QED BY <3>1 DEF FilesOrLost, FileInv, Lost
  <2> QED BY <1>1, <1>3, <2>1, StoreCommit
<1>4. CASE \E r \in Readers : ReaderStep(r)
  BY <1>1, <1>4, StoreRead
<1>5. CASE UNCHANGED <<now, fills, meta, reader>>
  BY <1>1, <1>5, StoreSame DEF StoreStep
<1>6. ASSUME SyncStep \/ Save("ws") \/ (\E k \in Ids : Push(k)) \/ Crash \/ Restart \/ UNCHANGED vars
      PROVE  UNCHANGED <<now, fills, meta, reader>>
  <2>1. CASE SyncStep
    BY <2>1 DEF SyncStep, Ask, Serve, RestFails, Merge, Advance, Save, Rest, Resync, Prune, CompactPruned,
                venue, files
  <2>2. CASE Save("ws") \/ \E k \in Ids : Push(k)
    BY <2>2 DEF Save, Push, venue, files
  <2>3. CASE Crash \/ Restart \/ UNCHANGED vars
    BY <2>3 DEF Crash, Restart, vars, venue, files
  <2> QED BY <1>6, <2>1, <2>2, <2>3
<1>7. ASSUME SaveStep, ~AppendMeta, ~CompactMeta PROVE UNCHANGED <<now, fills, meta, reader>>
  BY <1>7 DEF SaveStep, AppendRows, AppendFails, CompactStage, CompactData, CompactDiscard,
              CompactFails, Remember, Publish, venue, files
<1> QED BY <1>2, <1>3, <1>4, <1>5, <1>6, <1>7 DEF Next

\* Where saves are quiet and rollbacks work, the files do what CertifiedStore
\* promises at every step but one: a reader that drops the last copy.
THEOREM FilesImplementStore ==
  ASSUME QuietSaves, RestoreFails = FALSE
  PROVE  Spec => CertifiesAsPromised
<1>1. Init => Store!Init
  <2> SUFFICES ASSUME Init PROVE Store!Init
    OBVIOUS
  <2>1. Executed = {} /\ meta.rows = <<>> /\ \A r \in Readers : reader[r].rows = <<>>
    BY DEF Init, Executed
  <2>2. Stored = <<>>
    BY <2>1, FileInit DEF Stored, FileInv
  <2> QED BY <2>1, <2>2 DEF Store!Init
<1>2. StateInv /\ StateInv' /\ CoverInv' /\ FilesOrLost /\ [Next]_vars => StoreStep
  BY StoreMoves
<1> QED BY <1>1, <1>2, StateInvariant, CoverInvariant, FilesInvariant, PTL
        DEF Spec, CertifiesAsPromised, StoreStep

=============================================================================
