---------------------------- MODULE CandleProofs ----------------------------
(***************************************************************************)
(* Theorems of CandleEngine, for any number of ticks, minutes and rows     *)
(* kept: the candles in MongoDB are whole, the Redis list is their end, a  *)
(* chart has no gap but at a rollover, a replay restores the list; and     *)
(* what failing calls, a rebalance and a restart leave of this.            *)
(*                                                                         *)
(* The rows of MongoDB by minute are the k-th smallest minutes, for each   *)
(* k: the first part is about these and about the end of a list.           *)
(***************************************************************************)
EXTENDS CandleEngine, FiniteSetTheorems, SequenceTheorems, TLAPS

-----------------------------------------------------------------------------
(* The k-th smallest of a set of minutes *)

\* How many of S come no later than m, and which has k of them.
Rank(S, m) == Cardinality({x \in S : x <= m})
Nth(S, k)  == CHOOSE m \in S : Rank(S, m) = k

\* Sets of minutes are finite.
LEMMA MinutesFinite ==
  ASSUME NEW S \in SUBSET Minutes
  PROVE  IsFiniteSet(S) /\ Cardinality(S) \in Nat
<1>1. IsFiniteSet(Minutes)
  BY CandleAssumption, FS_Interval DEF Minutes
<1>2. IsFiniteSet(S)
  BY <1>1, FS_Subset
<1>3. QED BY <1>2, FS_CardinalityType

\* Ranks run through 1 .. Cardinality(S), in the order of the minutes.
LEMMA Ranks ==
  ASSUME NEW S \in SUBSET Minutes
  PROVE  /\ \A m \in S : Rank(S, m) \in 1 .. Cardinality(S)
         /\ \A m, n \in S : m < n => Rank(S, m) < Rank(S, n)
         /\ \A k \in 1 .. Cardinality(S) : \E m \in S : Rank(S, m) = k
<1> DEFINE upto(m) == {x \in S : x <= m}
           N == Cardinality(S)
<1>1. S \subseteq Int
  BY DEF Minutes
<1>2. IsFiniteSet(S) /\ N \in Nat
  BY MinutesFinite
<1>3. ASSUME NEW m \in S PROVE Rank(S, m) \in 1 .. N
  <2>1. upto(m) \in SUBSET S /\ upto(m) # {}
    BY <1>1
  <2>2. IsFiniteSet(upto(m)) /\ Cardinality(upto(m)) <= N
    BY <1>2, <2>1, FS_Subset
  <2>3. Cardinality(upto(m)) \in Nat /\ Cardinality(upto(m)) # 0
    <3> HIDE DEF upto
    <3>1. QED BY <2>1, <2>2, FS_CardinalityType, FS_EmptySet
  <2>4. QED BY <1>2, <2>2, <2>3 DEF Rank
<1>4. ASSUME NEW m \in S, NEW n \in S, m < n PROVE Rank(S, m) < Rank(S, n)
  <2>1. upto(m) \in SUBSET upto(n) /\ n \in upto(n) /\ n \notin upto(m) /\ upto(n) \in SUBSET S
    <3>1. m \in Int /\ n \in Int
      BY <1>1
    <3>2. \A x \in S : x <= m => x <= n
      BY <1>1, <1>4, <3>1
    <3>3. n <= n /\ ~(n <= m)
      BY <1>4, <3>1
    <3>4. upto(m) \in SUBSET upto(n) /\ upto(n) \in SUBSET S
      BY <3>2
    <3>5. QED BY <3>3, <3>4
  <2> HIDE DEF upto
  <2>2. IsFiniteSet(upto(n))
    BY <1>2, <2>1, FS_Subset
  <2>3. Cardinality(upto(m)) <= Cardinality(upto(n)) /\ Cardinality(upto(n)) # Cardinality(upto(m))
    BY <2>1, <2>2, FS_Subset
  <2>4. Rank(S, m) = Cardinality(upto(m)) /\ Rank(S, n) = Cardinality(upto(n))
    BY DEF Rank, upto
  <2>5. QED BY <1>2, <1>3, <2>3, <2>4
<1>5. ASSUME NEW k \in 1 .. N PROVE \E m \in S : Rank(S, m) = k
  <2> DEFINE f == [m \in S |-> Rank(S, m)]
  <2>1. f \in [S -> 1 .. N]
    BY <1>3
  <2>2. \A m, n \in S : f[m] = f[n] => m = n
    <3> SUFFICES ASSUME NEW m \in S, NEW n \in S, f[m] = f[n], m # n PROVE FALSE
      OBVIOUS
    <3>1. m < n \/ n < m
      BY <1>1
    <3>2. Rank(S, m) # Rank(S, n)
      BY <1>2, <1>3, <1>4, <3>1
    <3>3. QED BY <3>2
  <2>3. f \in Injection(S, 1 .. N)
    <3> HIDE DEF f
    <3>1. QED BY <2>1, <2>2 DEF Injection, IsInjective
  <2>4. IsFiniteSet(1 .. N) /\ Cardinality(1 .. N) = N
    BY <1>2, FS_Interval
  <2>5. f \in Surjection(S, 1 .. N)
    <3> HIDE DEF f
    <3>1. QED BY <2>3, <2>4, FS_Injection
  <2>6. \E m \in S : f[m] = k
    <3> HIDE DEF f
    <3>1. QED BY <2>5 DEF Surjection
  <2>7. QED BY <2>6
<1>6. QED BY <1>3, <1>4, <1>5

\* The k-th smallest has k up to it, and each minute is the one of its rank.
LEMMA NthOf ==
  ASSUME NEW S \in SUBSET Minutes
  PROVE  /\ \A k \in 1 .. Cardinality(S) : Nth(S, k) \in S /\ Rank(S, Nth(S, k)) = k
         /\ \A m \in S : Nth(S, Rank(S, m)) = m
<1>1. \A k \in 1 .. Cardinality(S) : Nth(S, k) \in S /\ Rank(S, Nth(S, k)) = k
  BY Ranks DEF Nth
<1>2. ASSUME NEW m \in S PROVE Nth(S, Rank(S, m)) = m
  <2>1. Rank(S, m) \in 1 .. Cardinality(S)
    BY Ranks
  <2>2. Nth(S, Rank(S, m)) \in S /\ Rank(S, Nth(S, Rank(S, m))) = Rank(S, m)
    BY <1>1, <2>1
  <2> DEFINE n == Nth(S, Rank(S, m))
  <2> HIDE DEF n
  <2>3. n \in S /\ Rank(S, n) = Rank(S, m)
    BY <2>2 DEF n
  <2>4. m < n \/ n < m \/ m = n
    BY <2>3 DEF Minutes
  <2>5. m = n
    <3>1. \A j \in S : Rank(S, j) \in Int
      BY Ranks
    <3>2. QED BY <2>3, <2>4, <3>1, Ranks
  <2>6. QED BY <2>5 DEF n
<1>3. QED BY <1>1, <1>2

\* A minute after all others comes last.
LEMMA NthOfMore ==
  ASSUME NEW S \in SUBSET Minutes, NEW x \in Minutes, \A m \in S : m < x
  PROVE  /\ Cardinality(S \cup {x}) = Cardinality(S) + 1
         /\ \A k \in 1 .. Cardinality(S) : Nth(S \cup {x}, k) = Nth(S, k)
         /\ Nth(S \cup {x}, Cardinality(S) + 1) = x
<1> DEFINE T == S \cup {x}
           N == Cardinality(S)
<1>1. T \in SUBSET Minutes /\ x \notin S /\ S \subseteq Int /\ x \in Int
  BY DEF Minutes
<1>2. IsFiniteSet(S) /\ N \in Nat
  BY MinutesFinite
<1>3. Cardinality(T) = N + 1
  BY <1>1, <1>2, FS_AddElement
<1>4. ASSUME NEW m \in S PROVE Rank(T, m) = Rank(S, m)
  <2>1. {y \in T : y <= m} = {y \in S : y <= m}
    BY <1>1
  <2>2. QED BY <2>1 DEF Rank
<1>5. Rank(T, x) = N + 1
  <2>1. {y \in T : y <= x} = T
    <3>1. \A y \in S : y <= x
      BY <1>1
    <3>2. x <= x
      BY <1>1
    <3>3. \A y \in T : y <= x
      BY <3>1, <3>2
    <3> HIDE DEF T
    <3>4. QED BY <3>3
  <2>2. QED BY <1>3, <2>1 DEF Rank
<1> HIDE DEF T
<1>6. ASSUME NEW k \in 1 .. N PROVE Nth(T, k) = Nth(S, k)
  <2>1. Nth(S, k) \in S /\ Rank(S, Nth(S, k)) = k
    BY NthOf
  <2>2. Nth(S, k) \in T /\ Rank(T, Nth(S, k)) = k
    BY <1>4, <2>1 DEF T
  <2>3. QED BY <1>1, <2>2, NthOf
<1>7. Nth(T, N + 1) = x
  <2>1. x \in T
    BY DEF T
  <2>2. QED BY <1>1, <1>5, <2>1, NthOf
<1>8. QED BY <1>3, <1>6, <1>7 DEF T


-----------------------------------------------------------------------------
(* The rows of MongoDB and the end of a list *)

Stores == {st \in [Minutes -> Candle \cup {NoCandle}] :
             \A m \in Minutes : st[m] # NoCandle => st[m].min = m}

MinutesOf(st) == {m \in Minutes : st[m] # NoCandle}
RowsOf(st)    == [k \in 1 .. Cardinality(MinutesOf(st)) |-> st[Nth(MinutesOf(st), k)]]

LEMMA RowsOfStore == StoredMinutes = MinutesOf(stored) /\ StoredRows = RowsOf(stored)
BY DEF StoredMinutes, MinutesOf, StoredRows, RowsOf, Nth, Rank

LEMMA RowsOfStoreNext == (StoredMinutes = MinutesOf(stored) /\ StoredRows = RowsOf(stored))'
BY RowsOfStore, PTL

\* Each stored minute is a row, in the order of the minutes.
LEMMA RowsInOrder ==
  ASSUME NEW st \in Stores
  PROVE  LET N == Cardinality(MinutesOf(st))
             rows == RowsOf(st)
         IN  /\ N \in Nat /\ rows \in Seq(Candle) /\ Len(rows) = N
             /\ \A k \in 1 .. N : /\ rows[k].min \in MinutesOf(st)
                                  /\ rows[k] = st[rows[k].min]
                                  /\ Rank(MinutesOf(st), rows[k].min) = k
             /\ \A m \in MinutesOf(st) : /\ Rank(MinutesOf(st), m) \in 1 .. N
                                         /\ rows[Rank(MinutesOf(st), m)] = st[m]
<1> DEFINE S == MinutesOf(st)
           N == Cardinality(S)
           rows == RowsOf(st)
<1>1. S \in SUBSET Minutes
  BY DEF MinutesOf
<1>2. N \in Nat
  BY <1>1, MinutesFinite
<1>3. \A m \in S : st[m] \in Candle /\ st[m].min = m
  BY DEF Stores, MinutesOf
<1>4. rows = [k \in 1 .. N |-> st[Nth(S, k)]]
  BY DEF RowsOf
<1> HIDE DEF S, rows
<1>5. \A k \in 1 .. N : Nth(S, k) \in S /\ Rank(S, Nth(S, k)) = k
  BY <1>1, NthOf
<1>6. \A m \in S : Rank(S, m) \in 1 .. N /\ Nth(S, Rank(S, m)) = m
  BY <1>1, NthOf, Ranks
<1> HIDE DEF N
<1>7. rows \in [1 .. N -> Candle]
  BY <1>3, <1>4, <1>5
<1>8. rows \in Seq(Candle) /\ Len(rows) = N
  BY <1>2, <1>7
<1>9. \A k \in 1 .. N : rows[k].min \in S /\ rows[k] = st[rows[k].min] /\ Rank(S, rows[k].min) = k
  <2> SUFFICES ASSUME NEW k \in 1 .. N
               PROVE  rows[k].min \in S /\ rows[k] = st[rows[k].min] /\ Rank(S, rows[k].min) = k
    OBVIOUS
  <2>1. rows[k] = st[Nth(S, k)]
    BY <1>4
  <2>2. rows[k].min = Nth(S, k)
    BY <1>3, <1>5, <2>1
  <2>3. QED BY <1>5, <2>1, <2>2
<1>10. \A m \in S : rows[Rank(S, m)] = st[m]
  BY <1>4, <1>6
<1>11. QED BY <1>2, <1>6, <1>8, <1>9, <1>10 DEF S, N, rows

\* A candle of a later minute than all is the next row.
LEMMA RowAppended ==
  ASSUME NEW st \in Stores, NEW c \in Candle, \A m \in MinutesOf(st) : m < c.min
  PROVE  LET s2 == [st EXCEPT ![c.min] = c]
         IN  /\ s2 \in Stores
             /\ MinutesOf(s2) = MinutesOf(st) \cup {c.min}
             /\ RowsOf(s2) = Append(RowsOf(st), c)
<1> DEFINE x == c.min
           s2 == [st EXCEPT ![x] = c]
           S == MinutesOf(st)
           N == Cardinality(S)
<1>1. x \in Minutes /\ c # NoCandle
  BY CandleAssumption DEF Candle
<1>2. /\ s2 \in [Minutes -> Candle \cup {NoCandle}]
      /\ s2[x] = c
      /\ \A m \in Minutes : m # x => s2[m] = st[m]
  BY <1>1 DEF Stores
<1>3. s2 \in Stores
  <2>1. \A m \in Minutes : s2[m] # NoCandle => s2[m].min = m
    <3> HIDE DEF s2
    <3>1. QED BY <1>2 DEF Stores
  <2>2. QED BY <1>2, <2>1 DEF Stores
<1> HIDE DEF s2
<1>4. MinutesOf(s2) = S \cup {x}
  BY <1>1, <1>2 DEF MinutesOf
<1>5. S \in SUBSET Minutes /\ \A m \in S : m < x
  BY DEF MinutesOf
<1> HIDE DEF S, x
<1>6. /\ Cardinality(S \cup {x}) = N + 1
      /\ \A k \in 1 .. N : Nth(S \cup {x}, k) = Nth(S, k)
      /\ Nth(S \cup {x}, N + 1) = x
  BY <1>1, <1>5, NthOfMore
<1>7. N \in Nat
  BY <1>5, MinutesFinite
<1>8. \A k \in 1 .. N : Nth(S, k) \in S /\ Nth(S, k) \in Minutes /\ Nth(S, k) # x
  <2>1. \A k \in 1 .. N : Nth(S, k) \in S
    BY <1>5, NthOf
  <2>2. \A m \in S : m \in Minutes /\ m # x
    BY <1>5 DEF Minutes
  <2>3. QED BY <2>1, <2>2
<1> HIDE DEF N
<1>9. RowsOf(st) \in Seq(Candle) /\ Len(RowsOf(st)) = N
  BY RowsInOrder DEF N, S
<1>10. /\ Append(RowsOf(st), c) \in Seq(Candle)
       /\ Len(Append(RowsOf(st), c)) = N + 1
       /\ \A k \in 1 .. N : Append(RowsOf(st), c)[k] = RowsOf(st)[k]
       /\ Append(RowsOf(st), c)[N + 1] = c
  BY <1>9, AppendProperties
<1>11. /\ RowsOf(s2) \in Seq(Candle) /\ Len(RowsOf(s2)) = N + 1
  BY <1>3, <1>4, <1>6, RowsInOrder
<1>12. RowsOf(s2) = [k \in 1 .. N + 1 |-> s2[Nth(S \cup {x}, k)]]
  BY <1>4, <1>6 DEF RowsOf
<1>13. RowsOf(st) = [k \in 1 .. N |-> st[Nth(S, k)]]
  BY DEF RowsOf, S, N
<1>14. ASSUME NEW k \in 1 .. N + 1 PROVE RowsOf(s2)[k] = Append(RowsOf(st), c)[k]
  <2>1. CASE k = N + 1
    BY <1>2, <1>6, <1>7, <1>10, <1>12, <2>1
  <2>2. CASE k \in 1 .. N
    <3>1. RowsOf(s2)[k] = s2[Nth(S, k)]
      BY <1>6, <1>12, <2>2
    <3>2. s2[Nth(S, k)] = st[Nth(S, k)]
      BY <1>2, <1>8, <2>2
    <3>3. RowsOf(st)[k] = st[Nth(S, k)]
      BY <1>13, <2>2
    <3>4. Append(RowsOf(st), c)[k] = RowsOf(st)[k]
      BY <1>10, <2>2
    <3>5. QED BY <3>1, <3>2, <3>3, <3>4
  <2>3. k = N + 1 \/ k \in 1 .. N
    BY <1>7
  <2>4. QED BY <2>1, <2>2, <2>3
<1>15. RowsOf(s2) = Append(RowsOf(st), c)
  BY <1>10, <1>11, <1>14, SeqEqual
<1>16. QED BY <1>3, <1>4, <1>15 DEF s2, S, x

\* ltrim leaves the last rows, Keep of them if there are more.
LEMMA LastRowsOf ==
  ASSUME NEW s \in Seq(Candle)
  PROVE  /\ LastRows(s) \in Seq(Candle)
         /\ Len(LastRows(s)) = IF Len(s) > Keep THEN Keep ELSE Len(s)
         /\ \A i \in 1 .. Len(LastRows(s)) :
              /\ LastRows(s)[i] = s[Len(s) - Len(LastRows(s)) + i]
              /\ Len(s) - Len(LastRows(s)) + i \in 1 .. Len(s)
<1> DEFINE m == IF Len(s) > Keep THEN Len(s) - Keep + 1 ELSE 1
           n == Len(s)
           t == SubSeq(s, m, n)
<1>1. n \in Nat /\ Keep \in Nat /\ Keep > 0
  BY CandleAssumption, LenProperties
<1>2. m \in Int /\ n \in Int /\ m >= 1
  BY <1>1
<1>3. \A i \in m .. n : s[i] \in Candle
  <2> HIDE DEF m
  <2>1. QED BY <1>1, <1>2, ElementOfSeq
<1>4. /\ t \in Seq(Candle)
      /\ Len(t) = IF m <= n THEN n - m + 1 ELSE 0
      /\ \A i \in 1 .. n - m + 1 : t[i] = s[m + i - 1]
  <2> HIDE DEF m, n
  <2>1. QED BY <1>2, <1>3, SubSeqProperties
<1>5. LastRows(s) = t
  BY DEF LastRows
<1> HIDE DEF t
<1>6. /\ Len(t) = IF n > Keep THEN Keep ELSE n
      /\ m = n - Len(t) + 1
  <2> DEFINE l == Len(t)
  <2>1. l = IF m <= n THEN n - m + 1 ELSE 0
    BY <1>4
  <2>2. (n > Keep => m = n - Keep + 1) /\ (~(n > Keep) => m = 1)
    OBVIOUS
  <2> HIDE DEF l, m, n
  <2>3. CASE n > Keep
    BY <1>1, <2>1, <2>2, <2>3 DEF l
  <2>4. CASE ~(n > Keep)
    BY <1>1, <2>1, <2>2, <2>4 DEF l
  <2>5. QED BY <2>3, <2>4
<1> HIDE DEF m, n
<1>9. Len(t) \in Nat
  BY <1>4, LenProperties
<1>7. ASSUME NEW i \in 1 .. Len(t)
      PROVE  t[i] = s[n - Len(t) + i] /\ n - Len(t) + i \in 1 .. n
  <2>1. i \in 1 .. n - m + 1 /\ m + i - 1 = n - Len(t) + i
    BY <1>1, <1>2, <1>6, <1>9
  <2>2. t[i] = s[n - Len(t) + i]
    BY <1>4, <2>1
  <2>3. n - Len(t) + i \in 1 .. n
    BY <1>1, <1>2, <1>6, <1>9
  <2>4. QED BY <2>2, <2>3
<1>8. QED BY <1>4, <1>5, <1>6, <1>7 DEF n

\* Cutting, adding a row and cutting is adding the row and cutting.
LEMMA LastRowsOfMore ==
  ASSUME NEW s \in Seq(Candle), NEW c \in Candle
  PROVE  LastRows(Append(LastRows(s), c)) = LastRows(Append(s, c))
<1> DEFINE l == LastRows(s)
           a == Append(l, c)
           b == Append(s, c)
           u == LastRows(a)
           v == LastRows(b)
<1>1. Keep \in Nat /\ Keep > 0 /\ Len(s) \in Nat
  BY CandleAssumption, LenProperties
<1>2. /\ l \in Seq(Candle)
      /\ Len(l) = IF Len(s) > Keep THEN Keep ELSE Len(s)
      /\ \A i \in 1 .. Len(l) : l[i] = s[Len(s) - Len(l) + i]
  BY LastRowsOf
<1> HIDE DEF l
<1>3. /\ a \in Seq(Candle) /\ Len(a) = Len(l) + 1 /\ a[Len(l) + 1] = c
      /\ \A i \in 1 .. Len(l) : a[i] = l[i]
  BY <1>2, AppendProperties
<1>4. /\ b \in Seq(Candle) /\ Len(b) = Len(s) + 1 /\ b[Len(s) + 1] = c
      /\ \A i \in 1 .. Len(s) : b[i] = s[i]
  BY AppendProperties
<1> HIDE DEF a, b
<1>5. /\ u \in Seq(Candle) /\ Len(u) = IF Len(a) > Keep THEN Keep ELSE Len(a)
      /\ \A i \in 1 .. Len(u) : u[i] = a[Len(a) - Len(u) + i]
  BY <1>3, LastRowsOf
<1>6. /\ v \in Seq(Candle) /\ Len(v) = IF Len(b) > Keep THEN Keep ELSE Len(b)
      /\ \A i \in 1 .. Len(v) : v[i] = b[Len(b) - Len(v) + i]
  BY <1>4, LastRowsOf
<1> HIDE DEF u, v
<1>7. Len(u) = Len(v) /\ Len(u) >= 1 /\ Len(u) \in Nat
  BY <1>1, <1>2, <1>3, <1>4, <1>5, <1>6
<1>8. ASSUME NEW i \in 1 .. Len(u) PROVE u[i] = v[i]
  <2>1. u[i] = a[Len(a) - Len(u) + i] /\ v[i] = b[Len(b) - Len(v) + i]
    BY <1>5, <1>6, <1>7
  <2>2. CASE i = Len(u)
    <3>1. Len(a) - Len(u) + i = Len(l) + 1 /\ Len(b) - Len(v) + i = Len(s) + 1
      BY <1>1, <1>2, <1>3, <1>4, <1>7, <2>2
    <3>2. QED BY <1>3, <1>4, <2>1, <3>1
  <2>3. CASE i < Len(u)
    <3> DEFINE j == Len(a) - Len(u) + i
               k == Len(b) - Len(v) + i
    <3>1. j \in 1 .. Len(l) /\ k \in 1 .. Len(s) /\ Len(s) - Len(l) + j = k
      <4> DEFINE ls == Len(s) 
                 ll == Len(l)
                 lu == Len(u)
      <4>1. /\ ls \in Nat /\ lu \in Nat /\ i \in 1 .. lu /\ i < lu
            /\ ll = IF ls > Keep THEN Keep ELSE ls
            /\ lu = IF ll + 1 > Keep THEN Keep ELSE ll + 1
            /\ lu = IF ls + 1 > Keep THEN Keep ELSE ls + 1
        BY <1>1, <1>2, <1>3, <1>4, <1>5, <1>6, <1>7, <2>3
      <4>2. j = ll + 1 - lu + i /\ k = ls + 1 - lu + i
        BY <1>3, <1>4, <1>7
      <4> HIDE DEF ls, ll, lu, j, k
      <4>3. CASE ls > Keep
        BY <1>1, <4>1, <4>2, <4>3 DEF ls, ll
      <4>4. CASE ~(ls > Keep)
        BY <1>1, <4>1, <4>2, <4>4 DEF ls, ll
      <4>5. QED BY <4>3, <4>4
    <3>2. u[i] = a[j] /\ v[i] = b[k]
      BY <2>1
    <3> HIDE DEF j, k
    <3>3. a[j] = l[j] /\ l[j] = s[k] /\ b[k] = s[k]
      BY <1>2, <1>3, <1>4, <3>1
    <3>4. QED BY <3>2, <3>3
  <2>4. QED BY <1>7, <2>2, <2>3
<1>9. u = v
  BY <1>5, <1>6, <1>7, <1>8, SeqEqual
<1>10. QED BY <1>9 DEF u, v, a, b, l

-----------------------------------------------------------------------------
(* Types *)

Ending  == {"push", "trim", "store"}
Placing == {"push", "trim", "current"}

View == [at : {"off", "current", "shown"}, rows : Seq(Candle),
         last : Candle \cup {NoCandle}, quiet : BOOLEAN]

Replay == [at : {"off", "find", "push", "trim", "current", "done"},
           reset : BOOLEAN, rows : Seq(Candle), quiet : BOOLEAN]

TopicTypes ==
  /\ now \in Minutes
  /\ log \in Seq(Minutes) /\ Len(log) <= MaxTicks

\* A candle that is ending is the one before the minute of the tick in hand.
WorkerTypes ==
  /\ pos \in 0 .. Len(log) /\ committed \in 0 .. Len(log)
  /\ linked \in BOOLEAN
  /\ pc \in {"wait", "push", "trim", "store", "current"}
  /\ state \in Candle \cup {NoCandle}
  /\ fresh \subseteq Offsets
  /\ pc # "wait" => state # NoCandle /\ pos >= 1
  /\ pc \in Ending => log[pos] > state.min

StoreTypes ==
  /\ hist \in Seq(Candle)
  /\ cur \in Candle \cup {NoCandle}
  /\ stored \in Stores
  /\ struck \subseteq {"crash", "rebalance", "loss"}

ReplayTypes ==
  /\ replay \in Replay
  /\ replay.at \in Placing => replay.rows # <<>>

Types == TopicTypes /\ WorkerTypes /\ StoreTypes /\ ReplayTypes /\ view \in View

\* The types say what TypeOK says.
LEMMA TypesTypeOK == Types => TypeOK
<1> SUFFICES ASSUME Types PROVE TypeOK
  OBVIOUS
<1>1. view.at \in {"off", "current", "shown"} /\ view.rows \in Seq(Candle)
      /\ view.last \in Candle \cup {NoCandle}
  BY DEF Types, View
<1>2. replay.at \in {"off", "find", "push", "trim", "current", "done"} /\ replay.rows \in Seq(Candle)
  BY DEF Types, ReplayTypes, Replay
<1>3. QED BY <1>1, <1>2 DEF Types, TopicTypes, WorkerTypes, StoreTypes, Stores, TypeOK

\* A write in between is all that is noted.
LEMMA DisturbedView ==
  ASSUME NEW v \in View
  PROVE  LET w == [v EXCEPT !.quiet = FALSE]
         IN  w \in View /\ w.at = v.at /\ w.rows = v.rows /\ w.last = v.last /\ w.quiet = FALSE
BY DEF View

LEMMA DisturbedReplay ==
  ASSUME NEW r \in Replay
  PROVE  LET w == [r EXCEPT !.quiet = FALSE]
         IN  w \in Replay /\ w.at = r.at /\ w.rows = r.rows /\ w.reset = r.reset /\ w.quiet = FALSE
BY DEF Replay

\* The candles of process_tick, field by field.
LEMMA StartedCandle ==
  ASSUME NEW o \in Offsets, log[o] \in Minutes
  PROVE  /\ Started(o) \in Candle
         /\ Started(o).min = log[o] /\ Started(o).body = {o} /\ Started(o).vol = 1
         /\ Started(o).open = o /\ Started(o).close = o
BY DEF Started, Candle

LEMMA ExtendedCandle ==
  ASSUME NEW c \in Candle, NEW o \in Offsets
  PROVE  /\ Extended(c, o) \in Candle
         /\ Extended(c, o).min = c.min /\ Extended(c, o).body = c.body \cup {o}
         /\ Extended(c, o).vol = c.vol + 1
         /\ Extended(c, o).open = c.open /\ Extended(c, o).close = o
<1> DEFINE B == c.body \cup {o}
           v == c.vol + 1
<1>1. B \in SUBSET Offsets /\ v \in Nat
  BY DEF Candle
<1>2. Extended(c, o) = [c EXCEPT !.body = B, !.vol = v, !.close = o]
  BY DEF Extended
<1> HIDE DEF B, v
<1>3. /\ Extended(c, o) \in Candle
      /\ Extended(c, o).min = c.min /\ Extended(c, o).body = B /\ Extended(c, o).vol = v
      /\ Extended(c, o).open = c.open /\ Extended(c, o).close = o
  BY <1>1, <1>2 DEF Candle
<1>4. QED BY <1>3 DEF B, v

LEMMA FollowingCandle ==
  ASSUME NEW c \in Candle, NEW o \in Offsets, log[o] \in Minutes
  PROVE  /\ Following(c, o) \in Candle
         /\ Following(c, o).min = log[o] /\ Following(c, o).body = {o}
         /\ Following(c, o).vol = 1
         /\ Following(c, o).open = c.close /\ Following(c, o).close = o
BY StartedCandle DEF Following, Candle

\* Where the worker stands in the topic.
LEMMA TickInHand ==
  ASSUME Types
  PROVE  /\ pos \in Int /\ Len(log) \in Nat /\ pos <= Len(log) /\ MaxTicks \in Nat
         /\ \A o \in 1 .. Len(log) : o \in Offsets /\ log[o] \in Minutes
         /\ pc # "wait" => pos \in Offsets /\ pos \in 1 .. Len(log) /\ log[pos] \in Minutes
         /\ pos < Len(log) => pos + 1 \in 1 .. Len(log)
<1>1. log \in Seq(Minutes) /\ Len(log) <= MaxTicks /\ Len(log) \in Nat
  BY LenProperties DEF Types, TopicTypes
<1>2. MaxTicks \in Nat
  BY CandleAssumption
<1>3. \A o \in 1 .. Len(log) : o \in Offsets
  BY <1>1, <1>2 DEF Offsets
<1>4. \A o \in 1 .. Len(log) : log[o] \in Minutes
  BY <1>1, ElementOfSeq
<1>5. pos \in 0 .. Len(log) /\ (pc # "wait" => pos >= 1)
  BY DEF Types, WorkerTypes
<1>6. (pc # "wait" => pos \in 1 .. Len(log)) /\ (pos < Len(log) => pos + 1 \in 1 .. Len(log))
  BY <1>1, <1>5
<1>7. QED BY <1>1, <1>2, <1>3, <1>4, <1>5, <1>6

-----------------------------------------------------------------------------
(* Types: each step keeps them *)

LEMMA InitTypes == Init => Types
<1> SUFFICES ASSUME Init PROVE Types
  OBVIOUS
<1>1. TopicTypes
  BY CandleAssumption DEF Init, TopicTypes, Minutes
<1>2. WorkerTypes
  <2>1. Len(log) = 0 /\ pos = 0 /\ committed = 0
    BY DEF Init
  <2>2. linked \in BOOLEAN
    BY DEF Init
  <2>3. pc = "wait" /\ state = NoCandle /\ fresh = {}
    BY DEF Init
  <2>4. QED BY <2>1, <2>2, <2>3 DEF WorkerTypes, Ending
<1>3. StoreTypes
  BY DEF Init, StoreTypes, Stores
<1>4. ReplayTypes
  BY DEF Init, ReplayTypes, Replay, Placing
<1>5. view \in View
  BY DEF Init, View
<1>6. QED BY <1>1, <1>2, <1>3, <1>4, <1>5 DEF Types

\* A longer log.
LEMMA LongerLog ==
  ASSUME Types, NEW m \in Minutes, Len(log) < MaxTicks, log' = Append(log, m)
  PROVE  /\ log' \in Seq(Minutes) /\ Len(log') = Len(log) + 1
         /\ \A o \in 1 .. Len(log) : log'[o] = log[o]
BY AppendProperties DEF Types, TopicTypes

LEMMA TickTypes ==
  ASSUME Types, NEW m \in Minutes, Tick(m)
  PROVE  Types'
<1>1. /\ log' \in Seq(Minutes) /\ Len(log') = Len(log) + 1
      /\ \A o \in 1 .. Len(log) : log'[o] = log[o]
  BY LongerLog DEF Tick
<1>2. Len(log) \in Nat /\ MaxTicks \in Nat
  BY TickInHand
<1>3. TopicTypes'
  BY <1>1, <1>2 DEF Types, TopicTypes, Tick
<1>4. WorkerTypes'
  <2>1. UNCHANGED <<pos, committed, linked, pc, state, fresh>>
    BY DEF Tick, worker
  <2>2. pos' \in 0 .. Len(log') /\ committed' \in 0 .. Len(log')
    BY <1>1, <1>2, <2>1 DEF Types, WorkerTypes
  <2>3. pc \in Ending => log'[pos] = log[pos]
    BY <1>1, TickInHand DEF Ending
  <2>4. QED BY <2>1, <2>2, <2>3 DEF Types, WorkerTypes
<1>5. StoreTypes' /\ ReplayTypes' /\ (view \in View)'
  BY DEF Tick, redis, Types, StoreTypes, ReplayTypes
<1>6. QED BY <1>3, <1>4, <1>5 DEF Types

LEMMA TakeTypes ==
  ASSUME Types, Take
  PROVE  Types'
<1> DEFINE o == pos + 1
<1>1. o \in 1 .. Len(log) /\ o \in Offsets /\ log[o] \in Minutes /\ o \in Int
  BY TickInHand DEF Take
<1>2. pc = "wait" /\ pos' = o /\ UNCHANGED <<now, log, committed, linked, hist, cur, stored, replay, view, struck>>
  BY DEF Take, topic, redis
<1>3. TopicTypes' /\ StoreTypes' /\ ReplayTypes' /\ (view \in View)'
  BY <1>2 DEF Types, TopicTypes, StoreTypes, ReplayTypes
<1>4. \/ UNCHANGED <<pc, state>> /\ fresh' \in {fresh, fresh \cup {o}}
      \/ fresh' = fresh \cup {o} /\ state' = Started(o) /\ pc' = "current"
      \/ fresh' = fresh \cup {o} /\ state # NoCandle /\ state' = Extended(state, o) /\ pc' = "current"
      \/ fresh' = fresh \cup {o} /\ state # NoCandle /\ log[o] > state.min /\ pc' = "push" /\ state' = state
  BY DEF Take
<1>5. state \in Candle \cup {NoCandle} /\ fresh \subseteq Offsets /\ linked \in BOOLEAN
      /\ committed \in 0 .. Len(log)
  BY DEF Types, WorkerTypes
<1>6. Started(o) \in Candle /\ (state # NoCandle => Extended(state, o) \in Candle)
  BY <1>1, <1>5, StartedCandle, ExtendedCandle
<1>7. NoCandle \notin Candle
  BY CandleAssumption
<1>8. pos' \in 0 .. Len(log') /\ committed' \in 0 .. Len(log')
  BY <1>1, <1>2, <1>5
<1>9. fresh' \subseteq Offsets /\ (linked \in BOOLEAN)'
  BY <1>1, <1>2, <1>4, <1>5
<1>10. (pc \in {"wait", "push", "trim", "store", "current"})' /\ (state \in Candle \cup {NoCandle})'
  BY <1>2, <1>4, <1>5, <1>6
<1>11. (pc # "wait" => state # NoCandle /\ pos >= 1)'
  <2>1. pos' >= 1
    BY <1>1, <1>2
  <2>2. pc' # "wait" => state' # NoCandle
    BY <1>2, <1>4, <1>6, <1>7
  <2>3. QED BY <2>1, <2>2
<1>12. (pc \in Ending => log[pos] > state.min)'
  <2> SUFFICES ASSUME pc' \in Ending PROVE log'[pos'] > state'.min
    OBVIOUS
  <2>1. log[o] > state.min /\ state' = state
    BY <1>2, <1>4 DEF Ending
  <2>2. QED BY <1>2, <2>1
<1>13. WorkerTypes'
  BY <1>8, <1>9, <1>10, <1>11, <1>12 DEF WorkerTypes
<1>14. QED BY <1>3, <1>13 DEF Types

\* A step of the worker that writes to a store.
LEMMA DisturbTypes ==
  ASSUME Types, Disturb
  PROVE  ReplayTypes' /\ (view \in View)'
<1>1. view' \in View
  BY DisturbedView DEF Types, Disturb, DisturbView
<1>2. replay' \in Replay /\ replay'.at = replay.at /\ replay'.rows = replay.rows
  BY DisturbedReplay DEF Types, ReplayTypes, Disturb
<1>3. QED BY <1>1, <1>2 DEF Types, ReplayTypes

LEMMA WriteTypes ==
  ASSUME Types, Push \/ Trim \/ Store \/ Current
  PROVE  Types'
<1>1. Disturb /\ UNCHANGED <<now, log, pos, committed, linked, fresh, struck>>
  BY DEF Push, Trim, Store, Current, topic
<1>2. TopicTypes' /\ ReplayTypes' /\ (view \in View)'
  BY <1>1, DisturbTypes DEF Types, TopicTypes
<1>3. /\ pc # "wait" /\ state \in Candle
      /\ pos \in Offsets /\ log[pos] \in Minutes
  BY TickInHand DEF Push, Trim, Store, Current, Types, WorkerTypes
<1>4. WorkerTypes'
  <2>1. state' \in Candle
    BY <1>3, FollowingCandle DEF Push, Trim, Store, Current
  <2>2. NoCandle \notin Candle
    BY CandleAssumption
  <2>3. pc' \in {"wait", "trim", "store", "current"}
    BY DEF Push, Trim, Store, Current
  <2>4. pc' \in Ending => pc \in Ending /\ state' = state
    BY DEF Push, Trim, Store, Current, Ending
  <2>5. QED BY <1>1, <1>3, <2>1, <2>2, <2>3, <2>4 DEF Types, WorkerTypes
<1>5. StoreTypes'
  <2>1. (hist \in Seq(Candle))'
    <3>1. hist \in Seq(Candle)
      BY DEF Types, StoreTypes
    <3>2. Append(hist, state) \in Seq(Candle) /\ LastRows(hist) \in Seq(Candle)
      BY <1>3, <3>1, AppendProperties, LastRowsOf
    <3>3. hist' \in {hist, Append(hist, state), LastRows(hist)}
      BY DEF Push, Trim, Store, Current, Kept, redis
    <3>4. QED BY <3>1, <3>2, <3>3
  <2>2. (cur \in Candle \cup {NoCandle})'
    BY <1>3 DEF Push, Trim, Store, Current, redis, Types, StoreTypes
  <2>3. (stored \in Stores)'
    <3>1. stored \in Stores
      BY DEF Types, StoreTypes
    <3>2. Upserted(state) \in Stores
      BY <1>3, <3>1 DEF Upserted, Stores, Candle
    <3>3. QED BY <3>1, <3>2 DEF Push, Trim, Store, Current
  <2>4. QED BY <1>1, <2>1, <2>2, <2>3 DEF Types, StoreTypes
<1>6. QED BY <1>2, <1>4, <1>5 DEF Types

\* The steps that change the worker and nothing else, or a store's content.
LEMMA FaultTypes ==
  ASSUME Types, StepFails \/ AutoCommit \/ Restart \/ Rebalance \/ RedisLoss
  PROVE  Types'
<1>1. TopicTypes'
  BY DEF StepFails, AutoCommit, Restart, Rebalance, RedisLoss, topic, Types, TopicTypes
<1>2. WorkerTypes'
  <2>1. CASE StepFails
    BY <2>1 DEF StepFails, topic, Types, WorkerTypes, Ending
  <2>2. CASE AutoCommit
    BY <2>2 DEF AutoCommit, topic, Types, WorkerTypes
  <2>3. CASE Restart
    BY <2>3 DEF Restart, topic, Types, WorkerTypes, Ending
  <2>4. CASE Rebalance
    BY <2>4 DEF Rebalance, topic, Types, WorkerTypes, Ending
  <2>5. CASE RedisLoss
    BY <2>5 DEF RedisLoss, worker, topic, Types, WorkerTypes
  <2>6. QED BY <2>1, <2>2, <2>3, <2>4, <2>5
<1>3. StoreTypes'
  <2>1. hist' \in {hist, <<>>} /\ cur' \in {cur, NoCandle} /\ stored' = stored
    BY DEF StepFails, AutoCommit, Restart, Rebalance, RedisLoss, redis
  <2>2. struck' \subseteq {"crash", "rebalance", "loss"}
    BY DEF StepFails, AutoCommit, Restart, Rebalance, RedisLoss, Strikes, Types, StoreTypes
  <2>3. QED BY <2>1, <2>2, EmptySeq DEF Types, StoreTypes
<1>4. ReplayTypes' /\ (view \in View)'
  <2>1. CASE RedisLoss
    BY <2>1, DisturbTypes DEF RedisLoss
  <2>2. CASE StepFails \/ AutoCommit \/ Restart \/ Rebalance
    BY <2>2 DEF StepFails, AutoCommit, Restart, Rebalance, Types, ReplayTypes
  <2>3. QED BY <2>1, <2>2
<1>5. QED BY <1>1, <1>2, <1>3, <1>4 DEF Types

LEMMA ReplayTypesKept ==
  ASSUME Types,
         (\E reset \in BOOLEAN : ReplayStart(reset)) \/ ReplayFind \/ ReplayPush \/ ReplayTrim
           \/ ReplayCurrent
  PROVE  Types'
<1>1. UNCHANGED <<now, log, pos, committed, linked, pc, state, fresh, stored, struck>>
  BY DEF ReplayStart, ReplayFind, ReplayPush, ReplayTrim, ReplayCurrent, topic, worker
<1>2. TopicTypes' /\ WorkerTypes'
  BY <1>1 DEF Types, TopicTypes, WorkerTypes
<1>3. replay \in Replay /\ hist \in Seq(Candle) /\ cur \in Candle \cup {NoCandle} /\ stored \in Stores
      /\ replay.rows \in Seq(Candle) /\ (replay.at \in Placing => replay.rows # <<>>)
  BY DEF Types, ReplayTypes, StoreTypes, Replay
<1>4. StoredRows \in Seq(Candle)
  BY <1>3, RowsOfStore, RowsInOrder
<1>5. StoreTypes'
  <2>1. (hist \in Seq(Candle))'
    <3>1. hist \o replay.rows \in Seq(Candle) /\ LastRows(hist) \in Seq(Candle) /\ <<>> \in Seq(Candle)
      BY <1>3, ConcatProperties, LastRowsOf, EmptySeq
    <3>2. hist' \in {hist, hist \o replay.rows, LastRows(hist), <<>>}
      BY DEF ReplayStart, ReplayFind, ReplayPush, ReplayTrim, ReplayCurrent, redis, Kept
    <3>3. QED BY <1>3, <3>1, <3>2
  <2>2. (cur \in Candle \cup {NoCandle})'
    <3>1. CASE ReplayCurrent
      <4>1. Len(replay.rows) \in 1 .. Len(replay.rows)
        BY <1>3, <3>1, EmptySeq DEF ReplayCurrent, Placing
      <4>2. replay.rows[Len(replay.rows)] \in Candle
        BY <1>3, <4>1, ElementOfSeq
      <4>3. QED BY <3>1, <4>2 DEF ReplayCurrent
    <3>2. CASE ~ReplayCurrent
      BY <1>3, <3>2 DEF ReplayStart, ReplayFind, ReplayPush, ReplayTrim, redis
    <3>3. QED BY <3>1, <3>2
  <2>3. QED BY <1>1, <2>1, <2>2 DEF Types, StoreTypes
<1>6. ReplayTypes'
  <2>1. CASE \E reset \in BOOLEAN : ReplayStart(reset)
    <3> PICK reset \in BOOLEAN : ReplayStart(reset)
      BY <2>1
    <3>1. replay' = [replay EXCEPT !.at = "find", !.reset = reset, !.quiet = TRUE]
      BY DEF ReplayStart
    <3>2. replay' \in Replay /\ replay'.at = "find"
      BY <1>3, <3>1 DEF Replay
    <3>3. QED BY <3>2 DEF ReplayTypes, Placing
  <2>2. CASE ReplayFind
    <3> DEFINE a == IF StoredRows = <<>> THEN "done" ELSE "push"
               rows == StoredRows
    <3>1. a \in {"done", "push"} /\ (a = "push" => rows # <<>>)
      OBVIOUS
    <3>2. replay' = [replay EXCEPT !.at = a, !.rows = rows]
      BY <2>2 DEF ReplayFind
    <3>3. rows \in Seq(Candle)
      BY <1>4
    <3> HIDE DEF a, rows
    <3>4. replay' \in Replay /\ replay'.at = a /\ replay'.rows = rows
      BY <1>3, <3>1, <3>2, <3>3 DEF Replay
    <3>5. QED BY <3>1, <3>4 DEF ReplayTypes, Placing
  <2>3. CASE ReplayPush \/ ReplayTrim \/ ReplayCurrent
    <3>1. \E a \in {"trim", "current", "done"} : replay' = [replay EXCEPT !.at = a]
      BY <2>3 DEF ReplayPush, ReplayTrim, ReplayCurrent
    <3>2. replay' \in Replay /\ replay'.rows = replay.rows
      BY <1>3, <3>1 DEF Replay
    <3>3. replay.at \in Placing
      BY <2>3 DEF ReplayPush, ReplayTrim, ReplayCurrent, Placing
    <3>4. QED BY <1>3, <3>2, <3>3 DEF ReplayTypes
  <2>4. QED BY <2>1, <2>2, <2>3
<1>7. (view \in View)'
  <2>1. view \in View
    BY DEF Types
  <2>2. view' \in {view, [view EXCEPT !.quiet = FALSE]}
    BY DEF ReplayStart, ReplayFind, ReplayPush, ReplayTrim, ReplayCurrent, DisturbView
  <2>3. QED BY <2>1, <2>2, DisturbedView
<1>8. QED BY <1>2, <1>5, <1>6, <1>7 DEF Types

\* What the chart has read.
LEMMA ReadView ==
  ASSUME Types, ReadList \/ ReadCurrent
  PROVE  /\ view' \in View
         /\ ReadList => view'.at = "current" /\ view'.rows = hist /\ view'.quiet = TRUE
         /\ ReadCurrent => /\ view.at = "current" /\ view'.at = "shown" /\ view'.rows = view.rows
                           /\ view'.last = cur /\ view'.quiet = view.quiet
<1>1. view \in View /\ hist \in Seq(Candle) /\ cur \in Candle \cup {NoCandle}
  BY DEF Types, StoreTypes
<1>2. CASE ReadList
  <2>1. view' = [view EXCEPT !.at = "current", !.rows = hist, !.quiet = TRUE] /\ view.at = "off"
    BY <1>2 DEF ReadList
  <2>2. view' \in View /\ view'.at = "current" /\ view'.rows = hist /\ view'.quiet = TRUE
    BY <1>1, <2>1 DEF View
  <2>3. ~ReadCurrent
    BY <2>1 DEF ReadCurrent
  <2>4. QED BY <2>2, <2>3
<1>3. CASE ReadCurrent
  <2>1. view' = [view EXCEPT !.at = "shown", !.last = cur] /\ view.at = "current"
    BY <1>3 DEF ReadCurrent
  <2>2. /\ view' \in View /\ view'.at = "shown" /\ view'.rows = view.rows
        /\ view'.last = cur /\ view'.quiet = view.quiet
    BY <1>1, <2>1 DEF View
  <2>3. ~ReadList
    BY <2>1 DEF ReadList
  <2>4. QED BY <2>1, <2>2, <2>3
<1>4. QED BY <1>2, <1>3

LEMMA TypesKept ==
  ASSUME Types, [Next]_vars
  PROVE  Types'
<1>1. CASE \E m \in Minutes : Tick(m)
  BY <1>1, TickTypes
<1>2. CASE ClockTick
  <2>1. now' \in Minutes
    BY <1>2, CandleAssumption DEF ClockTick, Types, TopicTypes, Minutes
  <2>2. QED BY <1>2, <2>1 DEF ClockTick, worker, redis, Types, TopicTypes, WorkerTypes, StoreTypes,
                              ReplayTypes
<1>3. CASE Take
  BY <1>3, TakeTypes
<1>4. CASE Push \/ Trim \/ Store \/ Current
  BY <1>4, WriteTypes
<1>5. CASE StepFails \/ AutoCommit \/ Restart \/ Rebalance \/ RedisLoss
  BY <1>5, FaultTypes
<1>6. CASE (\E reset \in BOOLEAN : ReplayStart(reset)) \/ ReplayFind \/ ReplayPush \/ ReplayTrim
             \/ ReplayCurrent
  BY <1>6, ReplayTypesKept
<1>7. CASE ReadList \/ ReadCurrent
  <2>1. UNCHANGED <<now, log, pos, committed, linked, pc, state, hist, cur, stored, replay, fresh, struck>>
    BY <1>7 DEF ReadList, ReadCurrent, topic, worker, redis
  <2>2. view' \in View
    BY <1>7, ReadView
  <2>3. QED BY <2>1, <2>2 DEF Types, TopicTypes, WorkerTypes, StoreTypes, ReplayTypes
<1>8. CASE Done \/ UNCHANGED vars
  BY <1>8 DEF Done, vars, Types, TopicTypes, WorkerTypes, StoreTypes, ReplayTypes
<1>9. QED BY <1>1, <1>2, <1>3, <1>4, <1>5, <1>6, <1>7, <1>8 DEF Next

THEOREM CandleTypes == Spec => []Types
<1>1. Types /\ [Next]_vars => Types'
  BY TypesKept
<1>2. QED BY <1>1, InitTypes, PTL DEF Spec

-----------------------------------------------------------------------------
(* Rows of a list: which there are, that they only grow, and what they hold *)

RowSet(h) == {h[i] : i \in 1 .. Len(h)}

Growing(h) ==
  \A i, j \in 1 .. Len(h) : i < j /\ h[i].min = h[j].min => h[i].body \subseteq h[j].body

Ahead(h, m, B) ==
  (\E i \in 1 .. Len(h) : h[i].min = m) => \E i \in 1 .. Len(h) : h[i].min = m /\ B \subseteq h[i].body

LEMMA RowsOfEmpty == RowSet(<<>>) = {} /\ Growing(<<>>) /\ \A m, B : Ahead(<<>>, m, B)
<1>1. Len(<<>>) = 0
  OBVIOUS
<1>2. 1 .. Len(<<>>) = {}
  BY <1>1
<1>3. QED BY <1>2 DEF RowSet, Growing, Ahead

LEMMA RowsOfAppended ==
  ASSUME NEW h \in Seq(Candle), NEW c \in Candle
  PROVE  /\ RowSet(Append(h, c)) = RowSet(h) \cup {c}
         /\ Growing(h) /\ (\A d \in RowSet(h) : d.min = c.min => d.body \subseteq c.body)
              => Growing(Append(h, c))
         /\ \A m, B : Ahead(h, m, B) /\ c.min # m => Ahead(Append(h, c), m, B)
         /\ \A B : B \subseteq c.body => Ahead(Append(h, c), c.min, B)
<1> DEFINE a == Append(h, c)
           n == Len(h)
<1>1. /\ n \in Nat /\ Len(a) = n + 1 /\ a[n + 1] = c
      /\ \A i \in 1 .. n : a[i] = h[i]
  BY AppendProperties, LenProperties
<1> HIDE DEF a, n
<1>2. \A i \in 1 .. Len(a) : i \in 1 .. n \/ i = n + 1
  BY <1>1
<1>3. 1 .. n \subseteq 1 .. Len(a) /\ n + 1 \in 1 .. Len(a)
  BY <1>1
<1>4. RowSet(a) = RowSet(h) \cup {c}
  <2>1. RowSet(h) = {h[i] : i \in 1 .. n}
    BY DEF RowSet, n
  <2>2. ASSUME NEW d \in RowSet(a) PROVE d \in RowSet(h) \cup {c}
    <3> PICK i \in 1 .. Len(a) : d = a[i]
      BY DEF RowSet
    <3>1. QED BY <1>1, <1>2, <2>1
  <2>3. ASSUME NEW d \in RowSet(h) \cup {c} PROVE d \in RowSet(a)
    BY <1>1, <1>3, <2>1 DEF RowSet
  <2>4. QED BY <2>2, <2>3
<1>5. ASSUME Growing(h), \A d \in RowSet(h) : d.min = c.min => d.body \subseteq c.body
      PROVE  Growing(a)
  <2> SUFFICES ASSUME NEW i \in 1 .. Len(a), NEW j \in 1 .. Len(a), i < j, a[i].min = a[j].min
               PROVE  a[i].body \subseteq a[j].body
    BY DEF Growing
  <2>1. i \in 1 .. n /\ a[i] = h[i] /\ h[i] \in RowSet(h)
    BY <1>1 DEF RowSet, n
  <2>2. CASE j = n + 1
    BY <1>1, <1>5, <2>1, <2>2
  <2>3. CASE j \in 1 .. n
    BY <1>1, <1>5, <2>1, <2>3 DEF Growing, n
  <2>4. QED BY <1>2, <2>2, <2>3
<1>6. ASSUME NEW m, NEW B, Ahead(h, m, B), c.min # m PROVE Ahead(a, m, B)
  <2> SUFFICES ASSUME NEW i \in 1 .. Len(a), a[i].min = m
               PROVE  \E j \in 1 .. Len(a) : a[j].min = m /\ B \subseteq a[j].body
    BY DEF Ahead
  <2>1. i \in 1 .. n /\ h[i].min = m
    BY <1>1, <1>2, <1>6
  <2>2. PICK j \in 1 .. n : h[j].min = m /\ B \subseteq h[j].body
    BY <1>6, <2>1 DEF Ahead, n
  <2>3. j \in 1 .. Len(a) /\ a[j] = h[j]
    BY <1>1, <1>3
  <2>4. QED BY <2>2, <2>3
<1>7. ASSUME NEW B, B \subseteq c.body PROVE Ahead(a, c.min, B)
  BY <1>1, <1>3, <1>7 DEF Ahead
<1>8. QED BY <1>4, <1>5, <1>6, <1>7 DEF a

LEMMA RowsOfLast ==
  ASSUME NEW h \in Seq(Candle)
  PROVE  /\ RowSet(LastRows(h)) \subseteq RowSet(h)
         /\ Growing(h) => Growing(LastRows(h))
         /\ \A m, B : Growing(h) /\ Ahead(h, m, B) => Ahead(LastRows(h), m, B)
<1> DEFINE l == LastRows(h)
           n == Len(h)
           d == Len(h) - Len(l)
<1>1. /\ l \in Seq(Candle) /\ n \in Nat /\ Len(l) \in Nat /\ Len(l) <= n
      /\ \A i \in 1 .. Len(l) : l[i] = h[d + i] /\ d + i \in 1 .. n
  <2>1. l \in Seq(Candle)
    BY LastRowsOf
  <2>2. n \in Nat /\ Len(l) \in Nat /\ Keep \in Nat
    BY <2>1, LenProperties, CandleAssumption
  <2>3. QED BY <2>1, <2>2, LastRowsOf
<1> HIDE DEF l
<1>2. d \in Nat /\ n = d + Len(l)
  BY <1>1
<1> HIDE DEF n, d
<1>3. RowSet(l) \subseteq RowSet(h)
  BY <1>1 DEF RowSet, n
<1>4. ASSUME Growing(h) PROVE Growing(l)
  <2> SUFFICES ASSUME NEW i \in 1 .. Len(l), NEW j \in 1 .. Len(l), i < j, l[i].min = l[j].min
               PROVE  l[i].body \subseteq l[j].body
    BY DEF Growing
  <2>1. d + i \in 1 .. n /\ d + j \in 1 .. n /\ d + i < d + j
    BY <1>1, <1>2
  <2>2. l[i] = h[d + i] /\ l[j] = h[d + j]
    BY <1>1
  <2>3. QED BY <1>4, <2>1, <2>2 DEF Growing, n
<1>5. ASSUME NEW m, NEW B, Growing(h), Ahead(h, m, B) PROVE Ahead(l, m, B)
  <2> SUFFICES ASSUME NEW i \in 1 .. Len(l), l[i].min = m
               PROVE  \E j \in 1 .. Len(l) : l[j].min = m /\ B \subseteq l[j].body
    BY DEF Ahead
  <2>1. d + i \in 1 .. n /\ h[d + i].min = m /\ h[d + i] = l[i]
    BY <1>1
  <2>2. PICK j \in 1 .. n : h[j].min = m /\ B \subseteq h[j].body
    BY <1>5, <2>1 DEF Ahead, n
  <2>3. CASE j > d
    <3>1. j - d \in 1 .. Len(l) /\ d + (j - d) = j
      BY <1>1, <1>2, <2>3
    <3>2. l[j - d] = h[j]
      BY <1>1, <3>1
    <3>3. QED BY <2>2, <3>1, <3>2
  <2>4. CASE j <= d
    <3>1. j < d + i
      BY <1>1, <1>2, <2>4
    <3>2. h[j].body \subseteq h[d + i].body
      BY <1>5, <2>1, <2>2, <3>1 DEF Growing, n
    <3>3. QED BY <2>1, <2>2, <3>2
  <2>5. QED BY <1>2, <2>3, <2>4
<1>6. QED BY <1>3, <1>4, <1>5 DEF l

LEMMA RowsOfConcat ==
  ASSUME NEW h \in Seq(Candle), NEW r \in Seq(Candle)
  PROVE  /\ RowSet(h \o r) = RowSet(h) \cup RowSet(r)
         /\ /\ Growing(h) /\ Growing(r)
            /\ \A x \in RowSet(h), y \in RowSet(r) : x.min = y.min => x.body \subseteq y.body
            => Growing(h \o r)
         /\ \A m, B : Ahead(h, m, B) /\ (\A y \in RowSet(r) : y.min = m => B \subseteq y.body)
                        => Ahead(h \o r, m, B)
<1> DEFINE a == h \o r
           n == Len(h)
           k == Len(r)
<1>1. /\ a \in Seq(Candle) /\ n \in Nat /\ k \in Nat /\ Len(a) = n + k
      /\ \A i \in 1 .. n + k : a[i] = IF i <= n THEN h[i] ELSE r[i - n]
  BY ConcatProperties, LenProperties
<1> HIDE DEF a, n, k
<1>2. \A i \in 1 .. n : i \in 1 .. Len(a) /\ a[i] = h[i]
  BY <1>1
<1>3. \A i \in 1 .. k : n + i \in 1 .. Len(a) /\ a[n + i] = r[i]
  <2> SUFFICES ASSUME NEW i \in 1 .. k PROVE n + i \in 1 .. Len(a) /\ a[n + i] = r[i]
    OBVIOUS
  <2>1. n + i \in 1 .. n + k /\ ~(n + i <= n) /\ n + i - n = i
    BY <1>1
  <2>2. QED BY <1>1, <2>1
<1>4. \A i \in 1 .. Len(a) : i \in 1 .. n \/ (i - n \in 1 .. k /\ n + (i - n) = i)
  BY <1>1
<1>5. RowSet(a) = RowSet(h) \cup RowSet(r)
  <2>1. RowSet(h) = {h[i] : i \in 1 .. n} /\ RowSet(r) = {r[i] : i \in 1 .. k}
    BY DEF RowSet, n, k
  <2>2. ASSUME NEW d \in RowSet(a) PROVE d \in RowSet(h) \cup RowSet(r)
    <3> PICK i \in 1 .. Len(a) : d = a[i]
      BY DEF RowSet
    <3>1. CASE i \in 1 .. n
      BY <1>2, <2>1, <3>1
    <3>2. CASE i - n \in 1 .. k /\ n + (i - n) = i
      BY <1>3, <2>1, <3>2
    <3>3. QED BY <1>4, <3>1, <3>2
  <2>3. ASSUME NEW d \in RowSet(h) PROVE d \in RowSet(a)
    BY <1>2, <2>1 DEF RowSet
  <2>4. ASSUME NEW d \in RowSet(r) PROVE d \in RowSet(a)
    BY <1>3, <2>1 DEF RowSet
  <2>5. QED BY <2>2, <2>3, <2>4
<1>6. ASSUME Growing(h), Growing(r),
             \A x \in RowSet(h), y \in RowSet(r) : x.min = y.min => x.body \subseteq y.body
      PROVE  Growing(a)
  <2> SUFFICES ASSUME NEW i \in 1 .. Len(a), NEW j \in 1 .. Len(a), i < j, a[i].min = a[j].min
               PROVE  a[i].body \subseteq a[j].body
    BY DEF Growing
  <2>1. CASE i \in 1 .. n /\ j \in 1 .. n
    BY <1>2, <1>6, <2>1 DEF Growing, n
  <2>2. CASE i \in 1 .. n /\ j - n \in 1 .. k /\ n + (j - n) = j
    <3>1. a[i] \in RowSet(h)
      BY <1>2, <2>2 DEF RowSet, n
    <3>2. a[j] \in RowSet(r)
      BY <1>3, <2>2 DEF RowSet, k
    <3>3. QED BY <1>6, <3>1, <3>2
  <2>3. CASE i - n \in 1 .. k /\ n + (i - n) = i /\ j - n \in 1 .. k /\ n + (j - n) = j
    <3>1. a[i] = r[i - n] /\ a[j] = r[j - n]
      BY <1>3, <2>3
    <3>2. i - n < j - n
      BY <1>1
    <3>3. QED BY <1>6, <2>3, <3>1, <3>2 DEF Growing, k
  <2>4. ~(j \in 1 .. n /\ i - n \in 1 .. k)
    BY <1>1
  <2>5. QED BY <1>4, <2>1, <2>2, <2>3, <2>4
<1>7. ASSUME NEW m, NEW B, Ahead(h, m, B), \A y \in RowSet(r) : y.min = m => B \subseteq y.body
      PROVE  Ahead(a, m, B)
  <2> SUFFICES ASSUME NEW i \in 1 .. Len(a), a[i].min = m
               PROVE  \E j \in 1 .. Len(a) : a[j].min = m /\ B \subseteq a[j].body
    BY DEF Ahead
  <2>1. CASE i \in 1 .. n
    <3>1. h[i].min = m
      BY <1>2, <2>1
    <3>2. PICK j \in 1 .. n : h[j].min = m /\ B \subseteq h[j].body
      BY <1>7, <2>1, <3>1 DEF Ahead, n
    <3>3. QED BY <1>2, <3>2
  <2>2. CASE i - n \in 1 .. k /\ n + (i - n) = i
    <3>1. a[i] \in RowSet(r)
      BY <1>3, <2>2 DEF RowSet, k
    <3>2. QED BY <1>7, <3>1
  <2>3. QED BY <1>4, <2>1, <2>2
<1>8. QED BY <1>5, <1>6, <1>7 DEF a

-----------------------------------------------------------------------------
(* What failing calls, a rebalance and a replay leave, as long as the worker lives *)

\* A row of the list is of the candle in memory or of one before, and has no
\* tick that the candle, or MongoDB, does not have.
Within(c) ==
  /\ state # NoCandle /\ c.min <= state.min
  /\ c.min = state.min => c.body \subseteq state.body
  /\ c.min \in StoredMinutes => c.body \subseteq stored[c.min].body

UpFacts ==
  /\ \A m \in StoredMinutes : state # NoCandle /\ m < state.min
  /\ \A c \in RowSet(hist) : Within(c)
  /\ Growing(hist)
  /\ \A m \in StoredMinutes : Ahead(hist, m, stored[m].body)
  /\ pc \in {"trim", "store"} => Ahead(hist, state.min, state.body)
  /\ \A c \in RowSet(replay.rows) : c.min \in StoredMinutes /\ c = stored[c.min]

UpInv == "crash" \notin struck => UpFacts

\* Minutes are numbers.
LEMMA MinuteOrder ==
  ASSUME Types
  PROVE  /\ \A c \in Candle : c.min \in Minutes /\ c.min \in Int /\ c.vol \in Nat /\ c.body \subseteq Offsets
         /\ Minutes \subseteq Int /\ NoCandle \notin Candle
         /\ \A m \in StoredMinutes : m \in Minutes /\ stored[m] \in Candle /\ stored[m].min = m
<1>1. \A c \in Candle : c.min \in Minutes /\ c.vol \in Nat /\ c.body \subseteq Offsets
  BY DEF Candle
<1>2. Minutes \subseteq Int
  BY DEF Minutes
<1>3. \A m \in StoredMinutes : m \in Minutes /\ stored[m] \in Candle /\ stored[m].min = m
  BY DEF Types, StoreTypes, Stores, StoredMinutes
<1>4. QED BY <1>1, <1>2, <1>3, CandleAssumption

\* A step that leaves the stores and the replay, and the candle but for ticks added to it.
LEMMA UpSame ==
  ASSUME Types, UpFacts, UNCHANGED <<hist, stored>>, replay'.rows = replay.rows,
         \/ state' = state
         \/ state = NoCandle /\ state' # NoCandle
         \/ state' # NoCandle /\ state'.min = state.min /\ state.body \subseteq state'.body,
         pc' \in {"trim", "store"} => pc \in {"trim", "store"} /\ state' = state
  PROVE  UpFacts'
<1>1. StoredMinutes' = StoredMinutes
  BY DEF StoredMinutes
<1>2. CASE state = NoCandle
  <2>1. StoredMinutes = {}
    BY <1>2 DEF UpFacts
  <2>2. RowSet(hist) = {}
    <3>1. \A c \in RowSet(hist) : FALSE
      BY <1>2 DEF UpFacts, Within
    <3>2. QED BY <3>1, Zenon
  <2>3. pc' \notin {"trim", "store"}
    BY <1>2 DEF Types, WorkerTypes
  <2>4. QED BY <1>1, <2>1, <2>2, <2>3 DEF UpFacts
<1>3. CASE state # NoCandle
  <2>1. state' # NoCandle /\ state'.min = state.min /\ state.body \subseteq state'.body
    BY <1>3
  <2>2. \A c : Within(c) => Within(c)'
    BY <1>1, <2>1 DEF Within
  <2>3. QED BY <1>1, <2>1, <2>2 DEF UpFacts
<1>4. QED BY <1>2, <1>3

LEMMA UpPush ==
  ASSUME Types, UpFacts, Push
  PROVE  UpFacts'
<1>1. /\ hist' = Append(hist, state) /\ pc' = "trim" /\ pc # "wait"
      /\ UNCHANGED <<state, stored>> /\ replay'.rows = replay.rows
  BY DisturbedReplay DEF Push, Disturb, Types, ReplayTypes
<1>2. StoredMinutes' = StoredMinutes
  BY <1>1 DEF StoredMinutes
<1>3. state \in Candle /\ state # NoCandle /\ hist \in Seq(Candle)
  BY <1>1, CandleAssumption DEF Types, WorkerTypes, StoreTypes
<1>4. \A d \in RowSet(hist) : d.min = state.min => d.body \subseteq state.body
  BY DEF UpFacts, Within
<1>5. /\ RowSet(hist') = RowSet(hist) \cup {state}
      /\ Growing(hist')
      /\ \A m, B : Ahead(hist, m, B) /\ state.min # m => Ahead(hist', m, B)
      /\ \A B : B \subseteq state.body => Ahead(hist', state.min, B)
  BY <1>1, <1>3, <1>4, RowsOfAppended DEF UpFacts
<1>6. \A c : Within(c)' <=> Within(c)
  BY <1>1, <1>2 DEF Within
<1>7. \A m \in StoredMinutes : m < state.min /\ m # state.min
  BY <1>3, MinuteOrder DEF UpFacts
<1>8. Within(state)
  BY <1>3, <1>7, MinuteOrder DEF Within
<1>9. \A c \in RowSet(hist') : Within(c)'
  BY <1>5, <1>6, <1>8 DEF UpFacts
<1>10. \A m \in StoredMinutes' : Ahead(hist', m, stored'[m].body)
  BY <1>1, <1>2, <1>5, <1>7 DEF UpFacts
<1>11. Ahead(hist', state'.min, state'.body)
  BY <1>1, <1>5
<1>12. QED BY <1>1, <1>2, <1>5, <1>9, <1>10, <1>11 DEF UpFacts

\* ltrim, by the worker or the replay.
LEMMA UpTrim ==
  ASSUME Types, UpFacts, hist' = LastRows(hist), UNCHANGED <<state, stored>>,
         replay'.rows = replay.rows,
         pc' \in {"trim", "store"} => pc \in {"trim", "store"}
  PROVE  UpFacts'
<1>1. StoredMinutes' = StoredMinutes
  BY DEF StoredMinutes
<1>2. hist \in Seq(Candle)
  BY DEF Types, StoreTypes
<1>3. /\ RowSet(hist') \subseteq RowSet(hist)
      /\ Growing(hist')
      /\ \A m, B : Ahead(hist, m, B) => Ahead(hist', m, B)
  BY <1>2, RowsOfLast DEF UpFacts
<1>4. \A c : Within(c)' <=> Within(c)
  BY <1>1 DEF Within
<1>5. QED BY <1>1, <1>3, <1>4 DEF UpFacts

LEMMA UpStore ==
  ASSUME Types, UpFacts, Store
  PROVE  UpFacts'
<1>1. /\ stored' = Upserted(state) /\ state' = Following(state, pos)
      /\ pc = "store" /\ pc' = "current" /\ hist' = hist /\ replay'.rows = replay.rows
  BY DisturbedReplay DEF Store, Disturb, redis, Types, ReplayTypes
<1>2. state \in Candle /\ state # NoCandle /\ pos \in Offsets /\ log[pos] \in Minutes
      /\ log[pos] > state.min
  BY <1>1, CandleAssumption, TickInHand DEF Types, WorkerTypes, Ending
<1>3. state' \in Candle /\ state'.min = log[pos] /\ state' # NoCandle
  BY <1>1, <1>2, FollowingCandle, CandleAssumption
<1>4. state.min \in Minutes /\ state.min \in Int /\ state'.min \in Int
  BY <1>2, <1>3, MinuteOrder
<1>5. /\ \A m \in Minutes : m # state.min => stored'[m] = stored[m]
      /\ stored'[state.min] \in {stored[state.min], state}
  BY <1>1, <1>4 DEF Upserted, Types, StoreTypes, Stores
<1>6. StoredMinutes' \subseteq StoredMinutes \cup {state.min}
      /\ \A m \in StoredMinutes : m \in StoredMinutes'
  <2>1. ASSUME NEW m \in StoredMinutes' PROVE m \in StoredMinutes \cup {state.min}
    BY <1>5 DEF StoredMinutes
  <2>2. ASSUME NEW m \in StoredMinutes PROVE m \in StoredMinutes'
    BY <1>2, <1>5 DEF StoredMinutes
  <2>3. QED BY <2>1, <2>2
<1>7. \A m \in StoredMinutes : m < state.min /\ m \in Minutes /\ m # state.min
  BY <1>4, MinuteOrder DEF UpFacts
<1>8. stored'[state.min] # NoCandle => stored'[state.min] = state
  BY <1>4, <1>5, <1>7 DEF StoredMinutes
<1>9. \A m \in StoredMinutes' : state' # NoCandle /\ m < state'.min
  BY <1>2, <1>3, <1>4, <1>6, <1>7, MinuteOrder
<1>10. ASSUME NEW c \in RowSet(hist) PROVE Within(c)'
  <2>1. Within(c)
    BY DEF UpFacts
  <2>2. c \in Candle /\ c.min \in Int /\ c.min \in Minutes
    <3>1. hist \in Seq(Candle)
      BY DEF Types, StoreTypes
    <3>2. c \in Candle
      BY <3>1, ElementOfSeq DEF RowSet
    <3>3. QED BY <3>2, MinuteOrder
  <2>3. c.min < state'.min /\ c.min # state'.min
    BY <1>2, <1>3, <1>4, <2>1, <2>2 DEF Within
  <2>4. c.min \in StoredMinutes' => c.body \subseteq stored'[c.min].body
    <3>1. CASE c.min = state.min
      <4>1. c.min \in StoredMinutes' => stored'[state.min] = state
        BY <1>8, <3>1 DEF StoredMinutes
      <4>2. QED BY <2>1, <3>1, <4>1 DEF Within
    <3>2. CASE c.min # state.min
      BY <1>5, <1>6, <2>1, <2>2, <3>2 DEF Within
    <3>3. QED BY <3>1, <3>2
  <2>5. c.min <= state'.min
    BY <1>4, <2>2, <2>3
  <2>6. QED BY <1>3, <2>3, <2>4, <2>5 DEF Within
<1>11. \A m \in StoredMinutes' : Ahead(hist, m, stored'[m].body)
  <2> SUFFICES ASSUME NEW m \in StoredMinutes' PROVE Ahead(hist, m, stored'[m].body)
    OBVIOUS
  <2>1. CASE m = state.min
    <3>1. stored'[m] = state
      BY <1>8, <2>1 DEF StoredMinutes
    <3>2. QED BY <1>1, <2>1, <3>1 DEF UpFacts
  <2>2. CASE m \in StoredMinutes
    <3>1. stored'[m] = stored[m]
      BY <1>5, <1>7, <2>2
    <3>2. QED BY <2>2, <3>1 DEF UpFacts
  <2>3. QED BY <1>6, <2>1, <2>2
<1>12. \A c \in RowSet(replay.rows) : c.min \in StoredMinutes' /\ c = stored'[c.min]
  BY <1>5, <1>6, <1>7 DEF UpFacts
<1>13. QED BY <1>1, <1>9, <1>10, <1>11, <1>12 DEF UpFacts

\* Redis emptied, by a loss or before a replay.
LEMMA UpEmptied ==
  ASSUME Types, UpFacts, hist' = <<>>, UNCHANGED <<state, stored>>, replay'.rows = replay.rows
  PROVE  UpFacts'
<1>1. StoredMinutes' = StoredMinutes
  BY DEF StoredMinutes
<1>2. RowSet(hist') = {} /\ Growing(hist') /\ \A m, B : Ahead(hist', m, B)
  BY RowsOfEmpty
<1>3. QED BY <1>1, <1>2 DEF UpFacts

LEMMA UpReplayPush ==
  ASSUME Types, UpFacts, ReplayPush
  PROVE  UpFacts'
<1>1. hist' = hist \o replay.rows /\ UNCHANGED <<state, stored, pc>>
  BY DEF ReplayPush, worker
<1>2. replay'.rows = replay.rows /\ replay.rows \in Seq(Candle) /\ hist \in Seq(Candle)
  BY DEF ReplayPush, Types, ReplayTypes, StoreTypes, Replay
<1>3. StoredMinutes' = StoredMinutes
  BY <1>1 DEF StoredMinutes
<1>4. \A y \in RowSet(replay.rows) : y.min \in StoredMinutes /\ y = stored[y.min]
  BY DEF UpFacts
<1>5. Growing(replay.rows)
  <2> SUFFICES ASSUME NEW i \in 1 .. Len(replay.rows), NEW j \in 1 .. Len(replay.rows),
                      replay.rows[i].min = replay.rows[j].min
               PROVE  replay.rows[i].body \subseteq replay.rows[j].body
    BY DEF Growing
  <2>1. replay.rows[i] \in RowSet(replay.rows) /\ replay.rows[j] \in RowSet(replay.rows)
    BY DEF RowSet
  <2>2. replay.rows[i] = replay.rows[j]
    BY <1>4, <2>1
  <2>3. QED BY <2>2
<1>6. \A x \in RowSet(hist), y \in RowSet(replay.rows) : x.min = y.min => x.body \subseteq y.body
  BY <1>4 DEF UpFacts, Within
<1>7. /\ RowSet(hist') = RowSet(hist) \cup RowSet(replay.rows)
      /\ Growing(hist')
      /\ \A m, B : Ahead(hist, m, B) /\ (\A y \in RowSet(replay.rows) : y.min = m => B \subseteq y.body)
                     => Ahead(hist', m, B)
  <2> DEFINE h == hist \o replay.rows
  <2>1. /\ RowSet(h) = RowSet(hist) \cup RowSet(replay.rows)
        /\ Growing(h)
        /\ \A m, B : Ahead(hist, m, B) /\ (\A y \in RowSet(replay.rows) : y.min = m => B \subseteq y.body)
                       => Ahead(h, m, B)
    BY <1>2, <1>5, <1>6, RowsOfConcat DEF UpFacts
  <2>2. QED BY <1>1, <2>1
<1>8. \A c : Within(c)' <=> Within(c)
  BY <1>1, <1>3 DEF Within
<1>9. \A m \in StoredMinutes : state # NoCandle /\ m < state.min /\ m # state.min /\ m \in Minutes
  <2>1. \A m \in StoredMinutes : state # NoCandle /\ m < state.min /\ m \in Minutes
    BY MinuteOrder DEF UpFacts
  <2>2. state # NoCandle => state.min \in Int
    BY MinuteOrder DEF Types, WorkerTypes
  <2>3. QED BY <2>1, <2>2, MinuteOrder
<1>10. \A y \in RowSet(replay.rows) : Within(y)
  <2> SUFFICES ASSUME NEW y \in RowSet(replay.rows) PROVE Within(y)
    OBVIOUS
  <2>1. y.min \in StoredMinutes /\ y = stored[y.min] /\ y.min \in Int
    BY <1>4, MinuteOrder
  <2>2. state # NoCandle /\ y.min < state.min /\ y.min # state.min /\ state.min \in Int
    BY <1>9, <2>1, MinuteOrder DEF Types, WorkerTypes
  <2>3. y.min <= state.min
    BY <2>1, <2>2
  <2>4. QED BY <2>1, <2>2, <2>3 DEF Within
<1>11. \A c \in RowSet(hist') : Within(c)'
  BY <1>7, <1>8, <1>10 DEF UpFacts
<1>12. \A m \in StoredMinutes : Ahead(hist', m, stored[m].body)
  <2> SUFFICES ASSUME NEW m \in StoredMinutes PROVE Ahead(hist', m, stored[m].body)
    OBVIOUS
  <2>1. \A y \in RowSet(replay.rows) : y.min = m => stored[m].body \subseteq y.body
    BY <1>4
  <2>2. QED BY <1>7, <2>1 DEF UpFacts
<1>13. pc \in {"trim", "store"} => Ahead(hist', state.min, state.body)
  BY <1>4, <1>7, <1>9 DEF UpFacts
<1>14. QED BY <1>1, <1>2, <1>3, <1>4, <1>7, <1>9, <1>11, <1>12, <1>13 DEF UpFacts

LEMMA UpFind ==
  ASSUME Types, UpFacts, ReplayFind
  PROVE  UpFacts'
<1>1. UNCHANGED <<hist, state, stored, pc>>
  BY DEF ReplayFind, worker, redis
<1>2. replay'.rows = StoredRows
  BY DEF ReplayFind, Types, ReplayTypes, Replay
<1>3. StoredMinutes' = StoredMinutes
  BY <1>1 DEF StoredMinutes
<1>4. \A c \in RowSet(StoredRows) : c.min \in StoredMinutes /\ c = stored[c.min]
  <2>1. stored \in Stores
    BY DEF Types, StoreTypes
  <2>2. /\ Len(RowsOf(stored)) = Cardinality(MinutesOf(stored))
        /\ \A k \in 1 .. Cardinality(MinutesOf(stored)) :
             /\ RowsOf(stored)[k].min \in MinutesOf(stored)
             /\ RowsOf(stored)[k] = stored[RowsOf(stored)[k].min]
    BY <2>1, RowsInOrder
  <2>3. QED BY <2>2, RowsOfStore DEF RowSet
<1>5. \A c : Within(c)' <=> Within(c)
  BY <1>1, <1>3 DEF Within
<1>6. QED BY <1>1, <1>2, <1>3, <1>4, <1>5 DEF UpFacts

LEMMA UpKept ==
  ASSUME Types, UpFacts, [Next]_vars, "crash" \notin struck'
  PROVE  UpFacts'
<1>1. CASE \/ (\E m \in Minutes : Tick(m)) \/ ClockTick \/ AutoCommit \/ Rebalance
           \/ ReadList \/ ReadCurrent \/ Done \/ UNCHANGED vars
  <2>1. UNCHANGED <<hist, stored, state, pc, replay>>
    BY <1>1 DEF Tick, ClockTick, AutoCommit, Rebalance, ReadList, ReadCurrent, Done, vars, worker,
                redis, topic
  <2>2. QED BY <2>1, UpSame
<1>2. CASE Take
  <2>1. UNCHANGED <<hist, stored, replay>> /\ pc' \notin {"trim", "store"}
    BY <1>2 DEF Take, redis
  <2> DEFINE o == pos + 1
  <2>2. o \in Offsets /\ log[o] \in Minutes
    BY <1>2, TickInHand DEF Take
  <2>3. \/ state' = state
        \/ state = NoCandle /\ state' = Started(o)
        \/ state # NoCandle /\ state' = Extended(state, o)
    BY <1>2 DEF Take
  <2>4. Started(o) \in Candle
    BY <2>2, StartedCandle
  <2>5. state # NoCandle => /\ Extended(state, o) \in Candle /\ Extended(state, o).min = state.min
                           /\ state.body \subseteq Extended(state, o).body
    BY <2>2, ExtendedCandle DEF Types, WorkerTypes
  <2>6. QED BY <2>1, <2>3, <2>4, <2>5, UpSame, CandleAssumption
<1>3. CASE Push
  BY <1>3, UpPush
<1>4. CASE Trim
  <2>1. replay'.rows = replay.rows
    BY <1>4, DisturbedReplay DEF Trim, Disturb, Types, ReplayTypes
  <2>2. hist' = LastRows(hist) /\ UNCHANGED <<state, stored>> /\ pc = "trim"
    BY <1>4 DEF Trim, Kept
  <2>3. QED BY <2>1, <2>2, UpTrim
<1>5. CASE Store
  BY <1>5, UpStore
<1>6. CASE Current
  <2>1. replay'.rows = replay.rows
    BY <1>6, DisturbedReplay DEF Current, Disturb, Types, ReplayTypes
  <2>2. UNCHANGED <<hist, stored, state>> /\ pc' = "wait"
    BY <1>6 DEF Current
  <2>3. QED BY <2>1, <2>2, UpSame
<1>7. CASE StepFails
  <2>1. UNCHANGED <<hist, stored, state, replay>> /\ pc' = "wait"
    BY <1>7 DEF StepFails, redis
  <2>2. QED BY <2>1, UpSame
<1>8. CASE Restart
  <2>1. FALSE
    BY <1>8 DEF Restart, Strikes
  <2>2. QED BY <2>1
<1>9. CASE RedisLoss
  <2>1. replay'.rows = replay.rows
    BY <1>9, DisturbedReplay DEF RedisLoss, Disturb, Types, ReplayTypes
  <2>2. hist' = <<>> /\ UNCHANGED <<state, stored>>
    BY <1>9 DEF RedisLoss, worker
  <2>3. QED BY <2>1, <2>2, UpEmptied
<1>10. CASE \E reset \in BOOLEAN : ReplayStart(reset)
  <2> PICK reset \in BOOLEAN : ReplayStart(reset)
    BY <1>10
  <2>1. replay'.rows = replay.rows
    BY DEF ReplayStart, Types, ReplayTypes, Replay
  <2>2. UNCHANGED <<state, stored, pc>> /\ (hist' = <<>> \/ hist' = hist)
    BY DEF ReplayStart, worker, redis
  <2>3. QED BY <2>1, <2>2, UpEmptied, UpSame
<1>11. CASE ReplayFind
  BY <1>11, UpFind
<1>12. CASE ReplayPush
  BY <1>12, UpReplayPush
<1>13. CASE ReplayTrim
  <2>1. replay'.rows = replay.rows
    BY <1>13 DEF ReplayTrim, Types, ReplayTypes, Replay
  <2>2. hist' = LastRows(hist) /\ UNCHANGED <<state, stored, pc>>
    BY <1>13 DEF ReplayTrim, Kept, worker
  <2>3. QED BY <2>1, <2>2, UpTrim
<1>14. CASE ReplayCurrent
  <2>1. replay'.rows = replay.rows
    BY <1>14 DEF ReplayCurrent, Types, ReplayTypes, Replay
  <2>2. UNCHANGED <<hist, state, stored, pc>>
    BY <1>14 DEF ReplayCurrent, worker
  <2>3. QED BY <2>1, <2>2, UpSame
<1>15. QED BY <1>1, <1>2, <1>3, <1>4, <1>5, <1>6, <1>7, <1>8, <1>9, <1>10, <1>11, <1>12, <1>13, <1>14
       DEF Next

\* What has struck stays struck.
LEMMA StruckStays ==
  ASSUME [Next]_vars
  PROVE  /\ "crash" \notin struck' => "crash" \notin struck
         /\ "rebalance" \notin struck' => "rebalance" \notin struck
         /\ "loss" \notin struck' => "loss" \notin struck
<1>1. struck' = struck \/ \E kind : struck' = struck \cup {kind}
  BY DEF Next, Tick, ClockTick, Take, Push, Trim, Store, Current, StepFails, AutoCommit, Restart,
         Rebalance, RedisLoss, Strikes, ReplayStart, ReplayFind, ReplayPush, ReplayTrim,
         ReplayCurrent, ReadList, ReadCurrent, Done, vars
<1>2. QED BY <1>1

LEMMA UpInvKept ==
  ASSUME Types, UpInv, [Next]_vars
  PROVE  UpInv'
BY StruckStays, UpKept DEF UpInv

LEMMA InitUp == Init => UpInv
<1> SUFFICES ASSUME Init PROVE UpFacts
  BY DEF UpInv
<1>1. hist = <<>> /\ StoredMinutes = {} /\ pc = "wait"
  BY DEF Init, StoredMinutes
<1>2. replay.rows = <<>>
  BY DEF Init
<1>3. QED BY <1>1, <1>2, RowsOfEmpty DEF UpFacts

\* As long as the worker lives, what is stored has been read again and again,
\* pushed twice, trimmed and replayed: a later row of a minute holds what an earlier
\* one does, and a stored candle still in the list is there with what MongoDB has.
LEMMA UpRows == Types /\ UpInv => RowsOnlyGrow /\ ListAheadOfStore
BY DEF UpInv, UpFacts, RowsOnlyGrow, ListAheadOfStore, Growing, Ahead

\* StoredGrowsWhileUp: the candle of a finished minute is not written again, since
\* a worker that keeps its candle only stores minutes later than those stored.
THEOREM StoredOnlyGrows == Spec => StoredGrowsWhileUp
<1>1. Types /\ UpInv /\ [Next]_vars
        => [\A m \in Minutes : stored[m] # NoCandle /\ "crash" \notin struck
              => stored'[m] # NoCandle /\ stored[m].body \subseteq stored'[m].body]_vars
  <2> SUFFICES ASSUME Types, UpInv, [Next]_vars, NEW m \in Minutes,
                      stored[m] # NoCandle, "crash" \notin struck
               PROVE  stored'[m] # NoCandle /\ stored[m].body \subseteq stored'[m].body
    OBVIOUS
  <2>1. CASE Store
    <3>1. state \in Candle /\ state.min \in Int /\ state.min \in Minutes
      BY <2>1, MinuteOrder DEF Store, Types, WorkerTypes
    <3>2. m \in StoredMinutes /\ m < state.min /\ m \in Int
      BY MinuteOrder DEF UpInv, UpFacts, StoredMinutes
    <3>3. stored'[m] = stored[m]
      BY <2>1, <3>1, <3>2 DEF Store, Upserted, Types, StoreTypes, Stores
    <3>4. QED BY <3>3
  <2>2. CASE ~Store
    <3>1. stored' = stored
      BY <2>2 DEF Next, Tick, ClockTick, Take, Push, Trim, Current, StepFails, AutoCommit, Restart,
         Rebalance, RedisLoss, ReplayStart, ReplayFind, ReplayPush, ReplayTrim,
         ReplayCurrent, ReadList, ReadCurrent, Done, vars
    <3>2. QED BY <3>1
  <2>3. QED BY <2>1, <2>2
<1>2. Types /\ UpInv /\ [Next]_vars => UpInv'
  BY UpInvKept
<1>3. Spec => []Types
  BY CandleTypes
<1>4. QED BY <1>1, <1>2, <1>3, InitUp, PTL DEF Spec, StoredGrowsWhileUp

-----------------------------------------------------------------------------
(* No tick is counted twice, unless a rebalance struck *)

Counted(c) == c.vol = Cardinality(c.body)

\* The candle in memory has ticks up to the one in hand, which it lacks when it ends.
CountFacts ==
  /\ state # NoCandle =>
       /\ Counted(state)
       /\ \A o \in state.body : o <= pos /\ (pc \in Ending => o < pos)
  /\ \A m \in StoredMinutes : Counted(stored[m])
  /\ \A c \in RowSet(hist) \cup RowSet(replay.rows) : Counted(c)

CountInv == "rebalance" \notin struck => CountFacts

\* One tick more counts one more.
LEMMA OneMoreCounted ==
  ASSUME NEW B \in SUBSET Offsets, NEW o \in Offsets
  PROVE  /\ Cardinality({o}) = 1
         /\ o \notin B => Cardinality(B \cup {o}) = Cardinality(B) + 1
<1>1. IsFiniteSet(Offsets)
  BY CandleAssumption, FS_Interval DEF Offsets
<1>2. IsFiniteSet(B)
  BY <1>1, FS_Subset
<1>3. QED BY <1>2, FS_AddElement, FS_Singleton

\* A step that leaves the candle and the rows of the lists and of MongoDB, but for
\* counted ones.
LEMMA CountSame ==
  ASSUME CountFacts,
         \/ UNCHANGED <<state, pos>> /\ (pc' \in Ending => pc \in Ending)
         \/ state' = NoCandle
         \/ /\ state' # NoCandle /\ Counted(state')
            /\ \A o \in state'.body : o <= pos' /\ (pc' \in Ending => o < pos'),
         \A m \in StoredMinutes' : (m \in StoredMinutes /\ stored'[m] = stored[m]) \/ Counted(stored'[m]),
         \A c \in RowSet(hist') \cup RowSet(replay'.rows) :
            c \in RowSet(hist) \cup RowSet(replay.rows) \/ Counted(c)
  PROVE  CountFacts'
<1>1. \A c : Counted(c)' <=> Counted(c)
  BY DEF Counted
<1>2. (state # NoCandle =>
         /\ Counted(state)
         /\ \A o \in state.body : o <= pos /\ (pc \in Ending => o < pos))'
  BY DEF CountFacts, Counted
<1>3. \A m \in StoredMinutes' : Counted(stored'[m])
  BY DEF CountFacts
<1>4. \A c \in RowSet(hist') \cup RowSet(replay'.rows) : Counted(c)
  BY DEF CountFacts
<1>5. QED BY <1>2, <1>3, <1>4 DEF CountFacts, Counted

LEMMA CountTake ==
  ASSUME Types, CountFacts, Take
  PROVE  CountFacts'
<1> DEFINE o == pos + 1
<1>1. /\ o \in Offsets /\ log[o] \in Minutes /\ pos \in Int /\ o \in Int
      /\ pc = "wait" /\ pos' = o /\ UNCHANGED <<hist, stored, replay>>
  BY TickInHand DEF Take, redis
<1>2. \/ UNCHANGED <<state, pc>>
      \/ state' = Started(o) /\ pc' = "current"
      \/ state # NoCandle /\ state' = Extended(state, o) /\ pc' = "current"
      \/ state' = state /\ state # NoCandle
  BY DEF Take
<1>3. \A p \in Offsets : p \in Int
  BY DEF Offsets
<1>4. ASSUME state # NoCandle
      PROVE  /\ state \in Candle /\ state.body \subseteq Offsets /\ Counted(state)
             /\ \A p \in state.body : p <= pos /\ p < o /\ p <= o
  <2>1. state \in Candle /\ state.body \subseteq Offsets
    BY <1>4, MinuteOrder DEF Types, WorkerTypes
  <2>2. Counted(state) /\ \A p \in state.body : p <= pos
    BY <1>4 DEF CountFacts
  <2>3. \A p \in state.body : p < o /\ p <= o
    BY <1>1, <1>3, <2>1, <2>2
  <2>4. QED BY <2>1, <2>2, <2>3
<1> HIDE DEF o
<1>5. CASE state' = Started(o) /\ pc' = "current"
  <2>1. Started(o) \in Candle /\ Started(o).body = {o} /\ Started(o).vol = 1
    BY <1>1, StartedCandle
  <2>2. Counted(Started(o))
    BY <1>1, <2>1, OneMoreCounted DEF Counted
  <2>3. \A p \in state'.body : p <= pos'
    BY <1>1, <1>5, <2>1
  <2>4. state' # NoCandle
    BY <1>5, <2>1, CandleAssumption
  <2>5. QED BY <1>1, <1>5, <2>2, <2>3, <2>4, CountSame DEF Ending, StoredMinutes
<1>6. CASE state # NoCandle /\ state' = Extended(state, o) /\ pc' = "current"
  <2>1. /\ state' \in Candle /\ state'.body = state.body \cup {o} /\ state'.vol = state.vol + 1
    BY <1>1, <1>4, <1>6, ExtendedCandle
  <2>2. o \notin state.body
    BY <1>1, <1>4, <1>6
  <2>3. Cardinality(state.body \cup {o}) = Cardinality(state.body) + 1
    BY <1>1, <1>4, <1>6, <2>2, OneMoreCounted
  <2>4. Counted(state')
    BY <1>4, <1>6, <2>1, <2>3 DEF Counted
  <2>5. \A p \in state'.body : p <= pos'
    BY <1>1, <1>4, <1>6, <2>1
  <2>6. state' # NoCandle
    BY <2>1, CandleAssumption
  <2>7. QED BY <1>1, <1>6, <2>4, <2>5, <2>6, CountSame DEF Ending, StoredMinutes
<1>7. CASE state' = state
  <2>1. state = NoCandle \/ (state # NoCandle /\ Counted(state) /\ \A p \in state.body : p <= pos' /\ p < pos')
    BY <1>1, <1>4
  <2>2. QED BY <1>1, <1>7, <2>1, CountSame DEF StoredMinutes
<1>8. QED BY <1>2, <1>5, <1>6, <1>7

LEMMA CountStore ==
  ASSUME Types, CountFacts, Store
  PROVE  CountFacts'
<1>1. /\ stored' = Upserted(state) /\ state' = Following(state, pos) /\ pos' = pos
      /\ pc = "store" /\ pc' = "current" /\ hist' = hist /\ replay'.rows = replay.rows
  BY DisturbedReplay DEF Store, Disturb, redis, Types, ReplayTypes
<1>2. state \in Candle /\ state # NoCandle /\ pos \in Offsets /\ log[pos] \in Minutes /\ pos \in Int
  BY <1>1, TickInHand DEF Types, WorkerTypes
<1>3. state' \in Candle /\ state'.body = {pos} /\ state'.vol = 1 /\ state' # NoCandle
  BY <1>1, <1>2, FollowingCandle, CandleAssumption
<1>4. Counted(state') /\ Counted(state)
  BY <1>2, <1>3, OneMoreCounted DEF Counted, CountFacts
<1>5. \A p \in state'.body : p <= pos' /\ (pc' \in Ending => p < pos')
  BY <1>1, <1>2, <1>3 DEF Ending
<1>6. \A m \in StoredMinutes' : (m \in StoredMinutes /\ stored'[m] = stored[m]) \/ stored'[m] = state
  BY <1>1, <1>2 DEF StoredMinutes, Upserted, Candle, Types, StoreTypes, Stores
<1>7. \A m \in StoredMinutes' : (m \in StoredMinutes /\ stored'[m] = stored[m]) \/ Counted(stored'[m])
  BY <1>4, <1>6 DEF Counted
<1>8. \A c \in RowSet(hist') \cup RowSet(replay'.rows) : c \in RowSet(hist) \cup RowSet(replay.rows)
  BY <1>1
<1>9. QED BY <1>3, <1>4, <1>5, <1>7, <1>8, CountSame

LEMMA CountKept ==
  ASSUME Types, CountFacts, [Next]_vars, "rebalance" \notin struck'
  PROVE  CountFacts'
<1>1. hist \in Seq(Candle) /\ replay \in Replay /\ replay.rows \in Seq(Candle) /\ stored \in Stores
  BY DEF Types, StoreTypes, ReplayTypes, Replay
<1>2. CASE \/ (\E m \in Minutes : Tick(m)) \/ ClockTick \/ AutoCommit \/ ReadList \/ ReadCurrent
           \/ Done \/ UNCHANGED vars
  <2>1. UNCHANGED <<hist, stored, state, pos, pc, replay>>
    BY <1>2 DEF Tick, ClockTick, AutoCommit, ReadList, ReadCurrent, Done, vars, worker, redis, topic
  <2>2. QED BY <2>1, CountSame DEF StoredMinutes
<1>3. CASE Take
  BY <1>3, CountTake
<1>4. CASE Push \/ Trim \/ Current \/ StepFails
  <2>1. replay'.rows = replay.rows /\ UNCHANGED <<state, pos, stored>>
    BY <1>1, <1>4, DisturbedReplay DEF Push, Trim, Current, StepFails, Disturb
  <2>2. pc' \in Ending => pc \in Ending
    BY <1>4 DEF Push, Trim, Current, StepFails, Ending
  <2>3. \A c \in RowSet(hist') : c \in RowSet(hist) \/ Counted(c)
    <3>1. CASE Push
      <4>1. state \in Candle /\ Counted(state)
        BY <3>1, CandleAssumption DEF Push, Types, WorkerTypes, CountFacts
      <4>2. RowSet(hist') = RowSet(hist) \cup {state}
        BY <1>1, <3>1, <4>1, RowsOfAppended DEF Push
      <4>3. QED BY <4>1, <4>2
    <3>2. CASE Trim
      <4>1. RowSet(hist') \subseteq RowSet(hist)
        BY <1>1, <3>2, RowsOfLast DEF Trim, Kept
      <4>2. QED BY <4>1
    <3>3. CASE Current \/ StepFails
      BY <3>3 DEF Current, StepFails, redis
    <3>4. QED BY <1>4, <3>1, <3>2, <3>3
  <2>4. QED BY <2>1, <2>2, <2>3, CountSame DEF StoredMinutes
<1>5. CASE Store
  BY <1>5, CountStore
<1>6. CASE Restart
  <2>1. state' = NoCandle /\ UNCHANGED <<hist, stored, replay>>
    BY <1>6 DEF Restart, redis
  <2>2. QED BY <2>1, CountSame DEF StoredMinutes
<1>7. CASE Rebalance
  <2>1. FALSE
    BY <1>7 DEF Rebalance, Strikes
  <2>2. QED BY <2>1
<1>8. CASE RedisLoss
  <2>1. replay'.rows = replay.rows /\ UNCHANGED <<state, pos, stored, pc>> /\ hist' = <<>>
    BY <1>1, <1>8, DisturbedReplay DEF RedisLoss, Disturb, worker
  <2>2. QED BY <2>1, RowsOfEmpty, CountSame DEF StoredMinutes
<1>9. CASE (\E reset \in BOOLEAN : ReplayStart(reset)) \/ ReplayFind \/ ReplayPush \/ ReplayTrim
             \/ ReplayCurrent
  <2>1. UNCHANGED <<state, pos, pc, stored>>
    BY <1>9 DEF ReplayStart, ReplayFind, ReplayPush, ReplayTrim, ReplayCurrent, worker
  <2>2. \A c \in RowSet(replay'.rows) : c \in RowSet(replay.rows) \/ Counted(c)
    <3>1. CASE ReplayFind
      <4>1. replay'.rows = RowsOf(stored)
        BY <1>1, <3>1, RowsOfStore DEF ReplayFind, Replay
      <4>2. /\ Len(RowsOf(stored)) = Cardinality(MinutesOf(stored))
            /\ \A k \in 1 .. Cardinality(MinutesOf(stored)) :
                 /\ RowsOf(stored)[k].min \in MinutesOf(stored)
                 /\ RowsOf(stored)[k] = stored[RowsOf(stored)[k].min]
        BY <1>1, RowsInOrder
      <4>3. QED BY <4>1, <4>2, RowsOfStore DEF RowSet, CountFacts
    <3>2. CASE ~ReplayFind
      <4>1. replay'.rows = replay.rows
        <5>1. ASSUME NEW reset \in BOOLEAN, ReplayStart(reset) PROVE replay'.rows = replay.rows
          BY <1>1, <5>1 DEF ReplayStart, Replay
        <5>2. CASE ReplayPush \/ ReplayTrim \/ ReplayCurrent
          BY <1>1, <5>2 DEF ReplayPush, ReplayTrim, ReplayCurrent, Replay
        <5>3. QED BY <1>9, <3>2, <5>1, <5>2
      <4>2. QED BY <4>1
    <3>3. QED BY <3>1, <3>2
  <2>3. RowSet(hist') \subseteq RowSet(hist) \cup RowSet(replay.rows)
    <3>1. /\ RowSet(hist \o replay.rows) = RowSet(hist) \cup RowSet(replay.rows)
          /\ RowSet(LastRows(hist)) \subseteq RowSet(hist) /\ RowSet(<<>>) = {}
      BY <1>1, RowsOfConcat, RowsOfLast, RowsOfEmpty
    <3>2. hist' \in {hist, hist \o replay.rows, LastRows(hist), <<>>}
      BY <1>9 DEF ReplayStart, ReplayFind, ReplayPush, ReplayTrim, ReplayCurrent, redis, Kept
    <3>3. QED BY <3>1, <3>2
  <2>4. QED BY <2>1, <2>2, <2>3, CountSame DEF StoredMinutes
<1>10. QED BY <1>2, <1>3, <1>4, <1>5, <1>6, <1>7, <1>8, <1>9 DEF Next

LEMMA CountInvKept ==
  ASSUME Types, CountInv, [Next]_vars
  PROVE  CountInv'
BY StruckStays, CountKept DEF CountInv

LEMMA InitCount == Init => CountInv
<1> SUFFICES ASSUME Init PROVE CountFacts
  BY DEF CountInv
<1>1. hist = <<>> /\ StoredMinutes = {} /\ state = NoCandle
  BY DEF Init, StoredMinutes
<1>2. replay.rows = <<>>
  BY DEF Init
<1>3. QED BY <1>1, <1>2, RowsOfEmpty DEF CountFacts

LEMMA CountedOnceHolds == CountInv => CountedOnce
BY DEF CountInv, CountFacts, CountedOnce, Counted, RowSet

\* FaultsInv: whatever calls fail, wherever the consumer resumes and whenever the
\* replay runs, rows of a minute only grow and the list stays ahead of MongoDB while
\* the worker lives, and no tick is counted twice without a rebalance.
THEOREM FaultsLeaveTheCandles == Spec => []FaultsInv
<1>1. Init => UpInv /\ CountInv
  BY InitUp, InitCount
<1>2. Types /\ UpInv /\ CountInv /\ [Next]_vars => UpInv' /\ CountInv'
  BY UpInvKept, CountInvKept
<1>3. Types /\ UpInv /\ CountInv => FaultsInv
  BY UpRows, CountedOnceHolds DEF FaultsInv
<1>4. Spec => []Types
  BY CandleTypes
<1>5. QED BY <1>1, <1>2, <1>3, <1>4, PTL DEF Spec

-----------------------------------------------------------------------------
(* What a replay after a reset leaves when no other writer came in between *)

ReplayFacts ==
  /\ replay.at \in {"find", "push"} => hist = <<>>
  /\ replay.at \in Placing => replay.rows = StoredRows
  /\ replay.at = "trim" => hist = StoredRows
  /\ replay.at \in {"current", "done"} => hist = LastRows(StoredRows)
  /\ replay.at = "done" /\ StoredRows # <<>> => cur = StoredRows[Len(StoredRows)]

ReplayInv == replay.at # "off" /\ replay.reset /\ replay.quiet => ReplayFacts

\* The rows depend on what is stored.
LEMMA RowsUnchanged ==
  ASSUME stored' = stored
  PROVE  StoredMinutes' = StoredMinutes /\ StoredRows' = StoredRows
BY RowsOfStore, RowsOfStoreNext

\* A step of the replay itself, field by field.
LEMMA ReplayFields ==
  ASSUME Types
  PROVE  /\ \A reset \in BOOLEAN : ReplayStart(reset) =>
              replay'.at = "find" /\ replay'.reset = reset /\ replay'.rows = replay.rows
         /\ ReplayFind => /\ replay'.at = IF StoredRows = <<>> THEN "done" ELSE "push"
                          /\ replay'.rows = StoredRows
         /\ ReplayPush => replay'.at = "trim" /\ replay'.rows = replay.rows
         /\ ReplayTrim => replay'.at = "current" /\ replay'.rows = replay.rows
         /\ ReplayCurrent => replay'.at = "done" /\ replay'.rows = replay.rows
         /\ ReplayFind \/ ReplayPush \/ ReplayTrim \/ ReplayCurrent
              => replay'.reset = replay.reset /\ replay'.quiet = replay.quiet
<1>1. replay \in Replay
  BY DEF Types, ReplayTypes
<1>2. ASSUME NEW reset \in BOOLEAN, ReplayStart(reset)
      PROVE  replay'.at = "find" /\ replay'.rows = replay.rows
  BY <1>1, <1>2 DEF ReplayStart, Replay
<1>3. ASSUME NEW reset \in BOOLEAN, ReplayStart(reset)
      PROVE  replay'.reset = reset
  <2>1. replay' = [replay EXCEPT !.at = "find", !.reset = reset, !.quiet = TRUE]
    BY <1>3 DEF ReplayStart
  <2>2. QED BY <1>1, <2>1, Zenon DEF Replay
<1>4. ReplayFind => /\ replay'.at = IF StoredRows = <<>> THEN "done" ELSE "push"
                    /\ replay'.rows = StoredRows
  BY <1>1 DEF ReplayFind, Replay
<1>5. /\ ReplayPush => replay'.at = "trim" /\ replay'.rows = replay.rows
      /\ ReplayTrim => replay'.at = "current" /\ replay'.rows = replay.rows
      /\ ReplayCurrent => replay'.at = "done" /\ replay'.rows = replay.rows
  BY <1>1 DEF ReplayPush, ReplayTrim, ReplayCurrent, Replay
<1>6. ReplayFind \/ ReplayPush \/ ReplayTrim \/ ReplayCurrent
        => replay'.reset = replay.reset /\ replay'.quiet = replay.quiet
  BY <1>1 DEF ReplayFind, ReplayPush, ReplayTrim, ReplayCurrent, Replay
<1>7. QED BY <1>2, <1>3, <1>4, <1>5, <1>6

LEMMA ReplayInvKept ==
  ASSUME Types, ReplayInv, [Next]_vars
  PROVE  ReplayInv'
<1>1. hist \in Seq(Candle) /\ replay \in Replay /\ replay.rows \in Seq(Candle)
  BY DEF Types, StoreTypes, ReplayTypes, Replay
<1>2. CASE \/ (\E m \in Minutes : Tick(m)) \/ ClockTick \/ Take \/ StepFails \/ AutoCommit \/ Restart
           \/ Rebalance \/ ReadList \/ ReadCurrent \/ Done \/ UNCHANGED vars
  <2>1. UNCHANGED <<hist, cur, stored, replay>>
    BY <1>2 DEF Tick, ClockTick, Take, StepFails, AutoCommit, Restart, Rebalance, ReadList,
                ReadCurrent, Done, vars, redis
  <2>2. QED BY <2>1, RowsUnchanged DEF ReplayInv, ReplayFacts
<1>3. CASE Push \/ Trim \/ Store \/ Current \/ RedisLoss
  <2>1. replay'.quiet = FALSE
    BY <1>1, <1>3, DisturbedReplay DEF Push, Trim, Store, Current, RedisLoss, Disturb
  <2>2. QED BY <2>1 DEF ReplayInv
<1>4. CASE \E reset \in BOOLEAN : ReplayStart(reset)
  <2> PICK reset \in BOOLEAN : ReplayStart(reset)
    BY <1>4
  <2>1. replay'.at = "find" /\ replay'.reset = reset
    BY ReplayFields
  <2>2. replay'.reset => hist' = <<>>
    BY <2>1 DEF ReplayStart
  <2>3. QED BY <2>1, <2>2 DEF ReplayInv, ReplayFacts, Placing
<1>5. CASE ReplayFind \/ ReplayPush \/ ReplayTrim \/ ReplayCurrent
  <2> SUFFICES ASSUME replay'.reset, replay'.quiet PROVE ReplayFacts'
    BY DEF ReplayInv
  <2>1. replay.reset /\ replay.quiet /\ replay.at # "off"
    BY <1>5, ReplayFields DEF ReplayFind, ReplayPush, ReplayTrim, ReplayCurrent
  <2>2. ReplayFacts
    BY <2>1 DEF ReplayInv
  <2>3. StoredRows' = StoredRows
    BY <1>5, RowsUnchanged DEF ReplayFind, ReplayPush, ReplayTrim, ReplayCurrent
  <2>4. CASE ReplayFind
    <3>1. hist' = <<>> /\ replay'.rows = StoredRows
      BY <2>2, <2>4, ReplayFields DEF ReplayFind, ReplayFacts, redis
    <3>2. \/ StoredRows = <<>> /\ replay'.at = "done"
          \/ replay'.at = "push"
      BY <2>4, ReplayFields
    <3>3. StoredRows = <<>> => LastRows(StoredRows) = <<>>
      <4>1. Len(LastRows(<<>>)) = 0 /\ LastRows(<<>>) \in Seq(Candle)
        <5>1. <<>> \in Seq(Candle) /\ Len(<<>>) = 0 /\ Keep \in Nat
          BY EmptySeq, CandleAssumption
        <5>2. ~(0 > Keep)
          BY <5>1
        <5> DEFINE e == <<>>
        <5> HIDE DEF e
        <5>3. e \in Seq(Candle) /\ Len(e) = 0
          BY <5>1 DEF e
        <5>4. LastRows(e) \in Seq(Candle) /\ Len(LastRows(e)) = 0
          BY <5>2, <5>3, LastRowsOf
        <5>5. QED BY <5>4 DEF e
      <4>2. QED BY <4>1, EmptySeq
    <3>4. QED BY <2>3, <3>1, <3>2, <3>3 DEF ReplayFacts, Placing
  <2>5. CASE ReplayPush
    <3>1. replay'.at = "trim" /\ replay'.rows = StoredRows /\ hist = <<>> /\ replay.rows = StoredRows
      BY <2>2, <2>5, ReplayFields DEF ReplayPush, ReplayFacts, Placing
    <3>2. hist' = StoredRows
      BY <1>1, <2>5, <3>1, ConcatEmptySeq DEF ReplayPush
    <3>3. QED BY <2>3, <3>1, <3>2 DEF ReplayFacts, Placing
  <2>6. CASE ReplayTrim
    <3>1. replay'.at = "current" /\ replay'.rows = StoredRows /\ hist = StoredRows
      BY <2>2, <2>6, ReplayFields DEF ReplayTrim, ReplayFacts, Placing
    <3>2. hist' = LastRows(StoredRows)
      BY <2>6, <3>1 DEF ReplayTrim, Kept
    <3>3. QED BY <2>3, <3>1, <3>2 DEF ReplayFacts, Placing
  <2>7. CASE ReplayCurrent
    <3>1. replay'.at = "done" /\ replay.rows = StoredRows /\ hist' = LastRows(StoredRows)
      BY <2>2, <2>7, ReplayFields DEF ReplayCurrent, ReplayFacts, Placing
    <3>2. cur' = StoredRows[Len(StoredRows)]
      BY <2>7, <3>1 DEF ReplayCurrent
    <3>3. QED BY <2>3, <3>1, <3>2 DEF ReplayFacts, Placing
  <2>8. QED BY <1>5, <2>4, <2>5, <2>6, <2>7
<1>6. QED BY <1>2, <1>3, <1>4, <1>5 DEF Next

\* QuietReplayRestores: a replay with a reset that no other writer came into leaves
\* the end of MongoDB in the list, and the last candle as the current one, in spite
\* of everything that failed before.
THEOREM ReplayRestores == Spec => []QuietReplayRestores
<1>1. Init => ReplayInv
  <2> SUFFICES ASSUME Init PROVE replay.at = "off"
    BY DEF ReplayInv
  <2>1. QED BY DEF Init
<1>2. Types /\ ReplayInv /\ [Next]_vars => ReplayInv'
  BY ReplayInvKept
<1>3. ReplayInv => QuietReplayRestores
  BY DEF ReplayInv, ReplayFacts, QuietReplayRestores
<1>4. Spec => []Types
  BY CandleTypes
<1>5. QED BY <1>1, <1>2, <1>3, <1>4, PTL DEF Spec

-----------------------------------------------------------------------------
(* Without faults of the worker: every candle is the whole of its minute *)

Whole(c, m) == c.body = Expected(m) /\ c.body # {} /\ c.close = Newest(c.body)

\* The candle in memory is whole too, nothing newer than it has been folded in, and
\* it opened at the close of the last one stored.
CandleFacts ==
  /\ Whole(state, state.min)
  /\ \A p \in fresh : log[p] <= state.min \/ (pc \in Ending /\ p = pos)
  /\ pc \in Ending => pos \in fresh
  /\ \A m \in StoredMinutes :
       (\A x \in StoredMinutes : x <= m) => state.open = Newest(stored[m].body)

SteadyInv ==
  /\ linked
  /\ struck \subseteq {"loss"}
  /\ fresh \subseteq 1 .. pos
  /\ state = NoCandle => fresh = {}
  /\ state # NoCandle => CandleFacts
  /\ \A m \in StoredMinutes : Whole(stored[m], m)
  /\ OpensAtPreviousClose

\* The newest of a set of offsets with none after o is o.
LEMMA NewestIs ==
  ASSUME NEW B \in SUBSET Offsets, NEW o \in Offsets, o \in B, \A p \in B : p <= o
  PROVE  Newest(B) = o
<1>1. \A p \in B : p \in Int
  BY DEF Offsets
<1>2. \A n \in B : (\A p \in B : p <= n) => n = o
  BY <1>1
<1>3. QED BY <1>2 DEF Newest

\* A longer log, in which the ticks taken are the same, changes no candle's minute.
LEMMA ExpectedSame ==
  ASSUME fresh' = fresh, \A o \in fresh : log'[o] = log[o]
  PROVE  \A m : Expected(m)' = Expected(m)
BY DEF Expected

\* One tick more, after all that were taken, is expected in its minute if none of a
\* later minute was among them.
LEMMA ExpectedMore ==
  ASSUME fresh \subseteq Int, NEW o \in Int, \A p \in fresh : p < o,
         fresh' = fresh \cup {o}, log' = log
  PROVE  /\ \A m : log[o] # m => Expected(m)' = Expected(m)
         /\ \A m : (\E p \in fresh : ~(log[p] <= m)) => Expected(m)' = Expected(m)
         /\ \A m : log[o] = m /\ (\A p \in fresh : log[p] <= m) => Expected(m)' = Expected(m) \cup {o}
<1> DEFINE E(m) == {q \in fresh : log[q] = m /\ \A p \in fresh : p < q => log[p] <= m}
           G(m) == {q \in fresh \cup {o} : log[q] = m /\ \A p \in fresh \cup {o} : p < q => log[p] <= m}
<1>1. \A m : Expected(m) = E(m) /\ Expected(m)' = G(m)
  BY DEF Expected
<1>2. \A q \in fresh : q \in Int /\ q < o /\ ~(o < q) /\ q # o
  OBVIOUS
<1>3. ~(o < o)
  OBVIOUS
<1>4. \A m, q : q \in fresh => (q \in G(m) <=> q \in E(m))
  BY <1>2
<1>5. \A m : o \in G(m) <=> log[o] = m /\ \A p \in fresh : log[p] <= m
  BY <1>2, <1>3
<1>6. \A m, q : (q \in G(m) => q \in fresh \/ q = o) /\ (q \in E(m) => q \in fresh)
  OBVIOUS
<1> HIDE DEF E, G
<1>7. ASSUME NEW m, log[o] # m \/ \E p \in fresh : ~(log[p] <= m) PROVE G(m) = E(m)
  <2>1. o \notin G(m)
    BY <1>5, <1>7
  <2>2. \A q : q \in G(m) <=> q \in E(m)
    BY <1>4, <1>6, <2>1
  <2>3. QED BY <2>2
<1>8. ASSUME NEW m, log[o] = m, \A p \in fresh : log[p] <= m PROVE G(m) = E(m) \cup {o}
  <2>1. o \in G(m)
    BY <1>5, <1>8
  <2>2. \A q : q \in G(m) <=> q \in E(m) \/ q = o
    BY <1>4, <1>6, <2>1
  <2>3. QED BY <2>2
<1>9. QED BY <1>1, <1>7, <1>8

\* A step that takes no tick and stores nothing.
LEMMA SteadySame ==
  ASSUME SteadyInv, UNCHANGED <<pos, state, stored, fresh, linked>>,
         \A o \in fresh : log'[o] = log[o],
         pc' \in Ending <=> pc \in Ending,
         struck' \subseteq {"loss"}
  PROVE  SteadyInv'
<1>1. \A m : Expected(m)' = Expected(m)
  BY ExpectedSame
<1>2. StoredMinutes' = StoredMinutes
  BY DEF StoredMinutes
<1>3. \A c, m : Whole(c, m)' <=> Whole(c, m)
  BY <1>1 DEF Whole
<1>4. OpensAtPreviousClose'
  BY <1>2 DEF SteadyInv, OpensAtPreviousClose
<1>5. ASSUME state # NoCandle PROVE CandleFacts'
  <2>1. CandleFacts
    BY <1>5 DEF SteadyInv
  <2>2. Whole(state, state.min)'
    BY <1>1, <2>1 DEF CandleFacts, Whole
  <2>3. \A p \in fresh' : log'[p] <= state'.min \/ (pc' \in Ending /\ p = pos')
    BY <2>1 DEF CandleFacts
  <2>4. QED BY <1>2, <2>1, <2>2, <2>3 DEF CandleFacts
<1>6. \A m \in StoredMinutes' : Whole(stored[m], m)'
  <2> SUFFICES ASSUME NEW m \in StoredMinutes PROVE Whole(stored[m], m)'
    BY <1>2
  <2>1. Whole(stored[m], m)
    BY DEF SteadyInv
  <2>2. stored'[m] = stored[m]
    OBVIOUS
  <2>3. QED BY <1>1, <2>1, <2>2 DEF Whole
<1>7. QED BY <1>4, <1>5, <1>6 DEF SteadyInv

LEMMA SteadyTake ==
  ASSUME Types, UpFacts, SteadyInv, Take
  PROVE  SteadyInv'
<1>0. PICK o \in Int : o = pos + 1
  BY TickInHand
<1>1. /\ o \in 1 .. Len(log) /\ o \in Offsets /\ log[o] \in Minutes /\ pos \in Int /\ o \in Int
      /\ pc = "wait" /\ pos' = o /\ UNCHANGED <<log, linked, stored, struck>>
  BY <1>0, TickInHand DEF Take, topic
<1>2. \/ UNCHANGED <<pc, state, fresh>>
      \/ /\ fresh' = fresh \cup {o}
         /\ \/ state = NoCandle /\ state' = Started(o) /\ pc' = "current"
            \/ Late(log[o]) /\ UNCHANGED <<pc, state>>
            \/ state # NoCandle /\ log[o] = state.min /\ state' = Extended(state, o) /\ pc' = "current"
            \/ state # NoCandle /\ log[o] > state.min /\ pc' = "push" /\ state' = state
  BY <1>0 DEF Take
<1>3. /\ fresh \subseteq Int /\ \A p \in fresh : p < o /\ p \in Offsets /\ p # o
      /\ fresh \subseteq 1 .. o /\ fresh \cup {o} \subseteq 1 .. o
  <2>1. fresh \subseteq 1 .. pos /\ fresh \subseteq Offsets /\ pos \in 0 .. Len(log)
    BY DEF SteadyInv, Types, WorkerTypes
  <2>2. o \in 1 .. o
    BY <1>1
  <2>3. QED BY <1>0, <1>1, <2>1, <2>2
<1>4. StoredMinutes' = StoredMinutes /\ OpensAtPreviousClose'
  BY <1>1 DEF StoredMinutes, SteadyInv, OpensAtPreviousClose
<1>5. \A m \in StoredMinutes : m \in Minutes /\ m \in Int /\ state # NoCandle /\ m < state.min
  BY MinuteOrder DEF UpFacts
<1>6. state # NoCandle => /\ state \in Candle /\ state.min \in Minutes /\ state.min \in Int
                          /\ state.body \subseteq Offsets
  BY MinuteOrder DEF Types, WorkerTypes
<1>7. log[o] \in Int
  BY <1>1 DEF Minutes
<1>8. CASE UNCHANGED <<pc, state, fresh>>
  <2>1. \A m : Expected(m)' = Expected(m)
    BY <1>1, <1>8, ExpectedSame
  <2>2. \A m \in StoredMinutes' : Whole(stored[m], m)'
    BY <1>1, <1>4, <2>1 DEF SteadyInv, Whole
  <2>3. ASSUME state' # NoCandle PROVE CandleFacts'
    <3>1. CandleFacts /\ state' = state /\ pc' = "wait"
      BY <1>1, <1>8, <2>3 DEF SteadyInv
    <3>2. Whole(state, state.min)'
      BY <2>1, <3>1 DEF CandleFacts, Whole
    <3>3. \A p \in fresh' : log'[p] <= state'.min
      BY <1>1, <1>8, <3>1 DEF CandleFacts, Ending
    <3>4. QED BY <1>1, <1>4, <3>1, <3>2, <3>3 DEF CandleFacts, Ending
  <2>4. fresh' \subseteq 1 .. pos' /\ (state' = NoCandle => fresh' = {})
    BY <1>1, <1>3, <1>8 DEF SteadyInv
  <2>5. QED BY <1>1, <1>4, <2>2, <2>3, <2>4 DEF SteadyInv
<1>9. ASSUME fresh' = fresh \cup {o}
      PROVE  /\ \A m : log[o] # m => Expected(m)' = Expected(m)
             /\ \A m : (\E p \in fresh : ~(log[p] <= m)) => Expected(m)' = Expected(m)
             /\ \A m : log[o] = m /\ (\A p \in fresh : log[p] <= m) => Expected(m)' = Expected(m) \cup {o}
             /\ fresh' \subseteq 1 .. pos'
  BY <1>1, <1>3, <1>9, ExpectedMore
<1>10. ASSUME fresh' = fresh \cup {o} PROVE \A m \in StoredMinutes' : Whole(stored[m], m)'
  <2> SUFFICES ASSUME NEW m \in StoredMinutes PROVE Whole(stored[m], m)'
    BY <1>4
  <2>1. Whole(stored[m], m) /\ CandleFacts /\ m < state.min /\ m \in Int /\ state.min \in Int
    BY <1>5, <1>6 DEF SteadyInv
  <2>2. PICK p \in fresh : log[p] = state.min
    BY <2>1 DEF CandleFacts, Whole, Expected
  <2>3. ~(log[p] <= m)
    BY <2>1, <2>2
  <2>4. Expected(m)' = Expected(m)
    BY <1>9, <1>10, <2>3
  <2>5. QED BY <1>1, <2>1, <2>4 DEF Whole
<1>11. CASE fresh' = fresh \cup {o} /\ state = NoCandle /\ state' = Started(o) /\ pc' = "current"
  <2>1. fresh = {} /\ StoredMinutes = {}
    BY <1>5, <1>11 DEF SteadyInv
  <2>2. /\ state'.min = log[o] /\ state'.body = {o} /\ state'.close = o
    BY <1>1, <1>11, StartedCandle
  <2> PICK k \in Int : k = log[o]
    BY <1>7
  <2>3. Expected(k) = {}
    BY <2>1 DEF Expected
  <2>4. Expected(k)' = {o}
    BY <1>9, <1>11, <2>1, <2>3
  <2>5. Newest({o}) = o
    <3>1. \A p \in {o} : p <= o
      BY <1>1
    <3>2. {o} \in SUBSET Offsets /\ o \in {o}
      BY <1>1
    <3>3. QED BY <1>1, <3>1, <3>2, NewestIs
  <2>6. Whole(state, state.min)'
    BY <1>1, <2>2, <2>4, <2>5 DEF Whole
  <2>7. \A p \in fresh' : log'[p] <= state'.min
    BY <1>1, <1>7, <1>11, <2>1, <2>2
  <2>8. CandleFacts'
    BY <1>4, <1>11, <2>1, <2>6, <2>7 DEF CandleFacts, Ending
  <2>9. state' # NoCandle
    BY <1>1, <1>11, StartedCandle, CandleAssumption
  <2>10. QED BY <1>1, <1>4, <1>9, <1>10, <1>11, <2>8, <2>9 DEF SteadyInv
<1>12. CASE fresh' = fresh \cup {o} /\ Late(log[o]) /\ UNCHANGED <<pc, state>>
  <2>1. state # NoCandle /\ log[o] < state.min
    BY <1>12 DEF Late
  <2>2. CandleFacts /\ log[o] # state.min /\ log[o] <= state.min
    BY <1>6, <1>7, <2>1 DEF SteadyInv
  <2>3. Expected(state.min)' = Expected(state.min)
    BY <1>9, <1>12, <2>2
  <2>4. Whole(state, state.min)'
    BY <1>12, <2>2, <2>3 DEF CandleFacts, Whole
  <2>5. \A p \in fresh' : log'[p] <= state'.min
    BY <1>1, <1>12, <2>2 DEF CandleFacts, Ending
  <2>6. CandleFacts'
    BY <1>1, <1>4, <1>12, <2>2, <2>4, <2>5 DEF CandleFacts, Ending
  <2>7. QED BY <1>1, <1>4, <1>9, <1>10, <1>12, <2>1, <2>6 DEF SteadyInv
<1>13. CASE /\ fresh' = fresh \cup {o} /\ state # NoCandle /\ log[o] = state.min
            /\ state' = Extended(state, o) /\ pc' = "current"
  <2>1. CandleFacts /\ \A p \in fresh : log[p] <= state.min
    BY <1>1, <1>13 DEF SteadyInv, CandleFacts, Ending
  <2>2. /\ state'.min = state.min /\ state'.body = state.body \cup {o} /\ state'.close = o
        /\ state'.open = state.open /\ state' \in Candle
    BY <1>1, <1>6, <1>13, ExtendedCandle
  <2> PICK k \in Int : k = log[o]
    BY <1>7
  <2>3. Expected(k)' = Expected(k) \cup {o}
    BY <1>9, <1>13, <2>1
  <2>4. Newest(state.body \cup {o}) = o
    <3>1. \A p \in state.body : p < o /\ p \in Int
      BY <1>3, <2>1 DEF CandleFacts, Whole, Expected
    <3>2. \A p \in state.body \cup {o} : p <= o
      BY <1>1, <3>1
    <3>3. state.body \cup {o} \in SUBSET Offsets
      BY <1>1, <1>6, <1>13
    <3>4. QED BY <1>1, <3>2, <3>3, NewestIs
  <2>5. Whole(state, state.min)'
    BY <1>13, <2>1, <2>2, <2>3, <2>4 DEF CandleFacts, Whole
  <2>6. \A p \in fresh' : log'[p] <= state'.min
    BY <1>1, <1>7, <1>13, <2>1, <2>2
  <2>7. CandleFacts'
    BY <1>1, <1>4, <1>13, <2>1, <2>2, <2>5, <2>6 DEF CandleFacts, Ending
  <2>8. state' # NoCandle
    BY <2>2, CandleAssumption
  <2>9. QED BY <1>1, <1>4, <1>9, <1>10, <1>13, <2>7, <2>8 DEF SteadyInv
<1>14. CASE fresh' = fresh \cup {o} /\ state # NoCandle /\ log[o] > state.min /\ pc' = "push" /\ state' = state
  <2>1. CandleFacts /\ \A p \in fresh : log[p] <= state.min
    BY <1>1, <1>14 DEF SteadyInv, CandleFacts, Ending
  <2>2. Expected(state.min)' = Expected(state.min)
    BY <1>6, <1>7, <1>9, <1>14
  <2>3. Whole(state, state.min)'
    BY <1>14, <2>1, <2>2 DEF CandleFacts, Whole
  <2>4. \A p \in fresh' : log'[p] <= state'.min \/ (pc' \in Ending /\ p = pos')
    BY <1>1, <1>14, <2>1 DEF Ending
  <2>5. pos' \in fresh'
    BY <1>1, <1>14
  <2>6. CandleFacts'
    BY <1>1, <1>4, <1>14, <2>1, <2>3, <2>4, <2>5 DEF CandleFacts
  <2>7. QED BY <1>1, <1>4, <1>9, <1>10, <1>14, <2>6 DEF SteadyInv
<1>15. QED BY <1>2, <1>8, <1>11, <1>12, <1>13, <1>14

\* The candle is stored, and the tick in hand starts the next.
LEMMA SteadyStore ==
  ASSUME Types, UpFacts, SteadyInv, Store
  PROVE  SteadyInv'
<1>1. /\ stored' = Upserted(state) /\ state' = Following(state, pos)
      /\ pc = "store" /\ pc' = "current" /\ UNCHANGED <<log, pos, linked, fresh, struck>>
  BY DEF Store, topic
<1>2. /\ state \in Candle /\ state # NoCandle /\ pos \in Offsets /\ log[pos] \in Minutes
      /\ log[pos] > state.min /\ CandleFacts
  BY <1>1, CandleAssumption, TickInHand DEF Types, WorkerTypes, Ending, SteadyInv
<1>3. /\ state'.min = log[pos] /\ state'.body = {pos} /\ state'.open = state.close
      /\ state'.close = pos /\ state' # NoCandle
  BY <1>1, <1>2, FollowingCandle, CandleAssumption
<1>4. PICK n \in Minutes : n = state.min /\ n \in Int
  BY <1>2, MinuteOrder
<1>5. PICK k \in Minutes : k = log[pos] /\ k \in Int /\ k > n
  BY <1>2, <1>4 DEF Minutes
<1>6. PICK q \in Offsets : q = pos /\ q \in Int
  BY <1>2 DEF Offsets
<1>7. /\ stored'[n] = state /\ \A m \in Minutes : m # n => stored'[m] = stored[m]
  BY <1>1, <1>4 DEF Upserted, SteadyInv, Types, StoreTypes, Stores
<1>8. \A m \in StoredMinutes : m \in Minutes /\ m \in Int /\ m < n /\ m # n
  BY <1>4, MinuteOrder DEF UpFacts
<1>9. StoredMinutes' = StoredMinutes \cup {n}
  BY <1>2, <1>4, <1>7 DEF StoredMinutes
<1>10. \A m : Expected(m)' = Expected(m)
  BY <1>1, ExpectedSame
<1>11. \A m \in StoredMinutes' : Whole(stored[m], m)'
  <2> SUFFICES ASSUME NEW m \in StoredMinutes' PROVE Whole(stored[m], m)'
    OBVIOUS
  <2>1. CASE m = n
    BY <1>2, <1>4, <1>7, <1>10, <2>1 DEF CandleFacts, Whole
  <2>2. CASE m \in StoredMinutes
    BY <1>7, <1>8, <1>10, <2>2 DEF SteadyInv, Whole
  <2>3. QED BY <1>9, <2>1, <2>2
<1>12. OpensAtPreviousClose'
  <2> SUFFICES ASSUME NEW m \in StoredMinutes', NEW l \in StoredMinutes', m < l,
                      \A x \in StoredMinutes' : x <= m \/ x >= l
               PROVE  stored'[l].open = Newest(stored'[m].body)
    BY DEF OpensAtPreviousClose
  <2>1. m # n
    BY <1>4, <1>8, <1>9
  <2>2. m \in StoredMinutes /\ stored'[m] = stored[m]
    BY <1>7, <1>8, <1>9, <2>1
  <2>3. CASE l = n
    <3>1. \A x \in StoredMinutes : x <= m
      BY <1>4, <1>8, <1>9, <2>3
    <3>2. state.open = Newest(stored[m].body)
      BY <1>2, <2>2, <3>1 DEF CandleFacts
    <3>3. QED BY <1>7, <2>2, <2>3, <3>2
  <2>4. CASE l \in StoredMinutes
    <3>1. stored'[l] = stored[l]
      BY <1>7, <1>8, <2>4
    <3>2. QED BY <1>9, <2>2, <2>4, <3>1 DEF SteadyInv, OpensAtPreviousClose
  <2>5. QED BY <1>9, <2>3, <2>4
<1>13. \A p \in fresh : log[p] <= n \/ p = q
  BY <1>2, <1>4, <1>6 DEF CandleFacts
<1>14. Expected(k) = {q}
  <2>1. q \in fresh /\ log[q] = k
    BY <1>1, <1>2, <1>5, <1>6 DEF CandleFacts, Ending
  <2>2. \A p \in fresh : log[p] <= k
    <3>1. \A p \in fresh : log[p] \in Int
      BY TickInHand DEF SteadyInv, Types, WorkerTypes, Minutes
    <3>2. n <= k /\ k <= k
      BY <1>4, <1>5
    <3>3. QED BY <1>4, <1>5, <1>13, <2>1, <3>1
  <2>3. q \in Expected(k)
    BY <2>1, <2>2 DEF Expected
  <2>4. \A p \in Expected(k) : p = q
    BY <1>4, <1>5, <1>13 DEF Expected
  <2>5. QED BY <2>3, <2>4
<1>15. Newest({q}) = q
  <2>1. \A p \in {q} : p <= q
    BY <1>6
  <2>2. {q} \in SUBSET Offsets /\ q \in {q}
    OBVIOUS
  <2>3. QED BY <2>1, <2>2, NewestIs
<1>16. CandleFacts'
  <2>1. Whole(state, state.min)'
    <3>1. state'.min = k /\ state'.body = {q} /\ state'.close = q
      BY <1>3, <1>5, <1>6
    <3>2. Expected(k)' = {q}
      BY <1>10, <1>14
    <3>3. Expected(state.min)' = {q}
      BY <3>1, <3>2 DEF Expected
    <3>4. QED BY <1>15, <3>1, <3>3 DEF Whole
  <2>2. \A p \in fresh' : log'[p] <= state'.min
    <3>1. \A p \in fresh : log[p] \in Int
      BY TickInHand DEF SteadyInv, Types, WorkerTypes, Minutes
    <3>2. QED BY <1>1, <1>3, <1>4, <1>5, <1>6, <1>13, <3>1
  <2>3. \A m \in StoredMinutes' :
          (\A x \in StoredMinutes' : x <= m) => state'.open = Newest(stored'[m].body)
    <3> SUFFICES ASSUME NEW m \in StoredMinutes', \A x \in StoredMinutes' : x <= m
                 PROVE  state'.open = Newest(stored'[m].body)
      OBVIOUS
    <3>1. m = n
      BY <1>4, <1>8, <1>9
    <3>2. QED BY <1>2, <1>3, <1>7, <3>1 DEF CandleFacts, Whole
  <2>4. QED BY <1>1, <2>1, <2>2, <2>3 DEF CandleFacts, Ending
<1>17. QED BY <1>1, <1>3, <1>11, <1>12, <1>16 DEF SteadyInv

LEMMA SteadyKept ==
  ASSUME Faults \subseteq {"loss"}, Types, UpInv, SteadyInv, [Next]_vars
  PROVE  SteadyInv'
<1>1. UpFacts
  BY DEF UpInv, SteadyInv
<1>2. CASE Take
  BY <1>1, <1>2, SteadyTake
<1>3. CASE Store
  BY <1>1, <1>3, SteadyStore
<1>4. CASE \E m \in Minutes : Tick(m)
  <2>1. \A o \in fresh : log'[o] = log[o]
    <3>1. \A o \in 1 .. Len(log) : log'[o] = log[o]
      BY <1>4, LongerLog DEF Tick
    <3>2. fresh \subseteq 1 .. Len(log)
      BY TickInHand DEF SteadyInv, Types, WorkerTypes
    <3>3. QED BY <3>1, <3>2
  <2>2. UNCHANGED <<pos, state, stored, fresh, linked, pc, struck>>
    BY <1>4 DEF Tick, worker
  <2>3. struck' \subseteq {"loss"}
    BY <2>2 DEF SteadyInv
  <2>4. QED BY <2>1, <2>2, <2>3, SteadySame
<1>5. CASE Push \/ Trim \/ Current
  <2>1. UNCHANGED <<pos, state, stored, fresh, linked, log, struck>>
    BY <1>5 DEF Push, Trim, Current, topic
  <2>2. pc' \in Ending <=> pc \in Ending
    BY <1>5 DEF Push, Trim, Current, Ending
  <2>3. struck' \subseteq {"loss"}
    BY <2>1 DEF SteadyInv
  <2>4. QED BY <2>1, <2>2, <2>3, SteadySame
<1>6. CASE RedisLoss
  <2>1. UNCHANGED <<pos, state, stored, fresh, linked, log, pc>>
    BY <1>6 DEF RedisLoss, topic, worker
  <2>2. struck' \subseteq {"loss"}
    BY <1>6 DEF RedisLoss, Strikes, SteadyInv
  <2>3. QED BY <2>1, <2>2, SteadySame
<1>7. CASE StepFails \/ Restart \/ Rebalance
  <2>1. FALSE
    BY <1>7 DEF StepFails, Restart, Rebalance, Strikes
  <2>2. QED BY <2>1
<1>8. CASE \/ ClockTick \/ AutoCommit \/ (\E reset \in BOOLEAN : ReplayStart(reset)) \/ ReplayFind
           \/ ReplayPush \/ ReplayTrim \/ ReplayCurrent \/ ReadList \/ ReadCurrent
           \/ Done \/ UNCHANGED vars
  <2>1. UNCHANGED <<pos, state, stored, fresh, linked, log, pc, struck>>
    BY <1>8 DEF ClockTick, AutoCommit, ReplayStart, ReplayFind, ReplayPush, ReplayTrim,
                ReplayCurrent, ReadList, ReadCurrent, Done, vars, topic, worker
  <2>2. struck' \subseteq {"loss"}
    BY <2>1 DEF SteadyInv
  <2>3. QED BY <2>1, <2>2, SteadySame
<1>9. QED BY <1>2, <1>3, <1>4, <1>5, <1>6, <1>7, <1>8 DEF Next

LEMMA InitSteady == ASSUME Faults \subseteq {"loss"}, Init PROVE SteadyInv
<1>1. StoredMinutes = {}
  BY DEF Init, StoredMinutes
<1>2. linked
  BY DEF Init
<1>3. struck = {} /\ fresh = {} /\ state = NoCandle
  BY DEF Init
<1>4. QED BY <1>1, <1>2, <1>3 DEF SteadyInv, OpensAtPreviousClose

LEMMA SteadyIsRight ==
  ASSUME Types, CountInv, SteadyInv
  PROVE  CandlesAreRight
<1>1. TypeOK
  BY TypesTypeOK
<1>2. \A m \in StoredMinutes : Whole(stored[m], m) /\ Counted(stored[m])
  BY DEF SteadyInv, CountInv, CountFacts
<1>3. WholeCandles
  BY <1>2 DEF WholeCandles, Whole, Counted
<1>4. QED BY <1>1, <1>3 DEF SteadyInv, CandlesAreRight

\* CandlesAreRight: when no call fails, the worker keeps its partition and lives (Redis
\* may come back empty, the replay may run), what MongoDB holds of a minute is every tick
\* of it that was not too old and that no later minute preceded, each counted once, closed
\* at the last and opened at the last tick of the minute before.
THEOREM CandlesHold ==
  ASSUME Faults \subseteq {"loss"}
  PROVE  Spec => []CandlesAreRight
<1>1. Init => UpInv /\ CountInv /\ SteadyInv
  BY InitUp, InitCount, InitSteady
<1>2. Types /\ UpInv /\ CountInv /\ SteadyInv /\ [Next]_vars => UpInv' /\ CountInv' /\ SteadyInv'
  BY UpInvKept, CountInvKept, SteadyKept
<1>3. Types /\ CountInv /\ SteadyInv => CandlesAreRight
  BY SteadyIsRight
<1>4. Spec => []Types
  BY CandleTypes
<1>5. QED BY <1>1, <1>2, <1>3, <1>4, PTL DEF Spec

-----------------------------------------------------------------------------
(* The list in Redis and the chart, until a replay or a loss *)

ListFacts ==
  /\ pc \in {"wait", "push", "current"} => hist = LastRows(StoredRows)
  /\ pc = "trim" => hist = Append(LastRows(StoredRows), state)
  /\ pc = "store" => hist = LastRows(Append(StoredRows, state))
  /\ pc # "current" => cur = state
  /\ cur # NoCandle => \A m \in StoredMinutes : m <= cur.min

ListInv == Original => ListFacts

\* A chart that nothing was written into shows the list and the current candle as they are.
ViewInv ==
  Original /\ view.quiet =>
    /\ view.at \in {"current", "shown"} => view.rows = hist
    /\ view.at = "shown" => view.last = cur

\* A replay once started, and a loss, stay.
LEMMA OriginalBefore ==
  ASSUME Types, [Next]_vars, Original'
  PROVE  /\ Original
         /\ ~RedisLoss /\ ~ReplayFind /\ ~ReplayPush /\ ~ReplayTrim /\ ~ReplayCurrent
         /\ \A reset \in BOOLEAN : ~ReplayStart(reset)
<1>1. "loss" \notin struck' /\ replay'.at = "off"
  BY DEF Original
<1>2. replay \in Replay
  BY DEF Types, ReplayTypes
<1>3. ~RedisLoss
  BY <1>1 DEF RedisLoss, Strikes
<1>4. \A reset \in BOOLEAN : ~ReplayStart(reset)
  BY <1>1, ReplayFields
<1>5. ~ReplayFind
  BY <1>1, ReplayFields
<1>6. ~ReplayPush /\ ~ReplayTrim /\ ~ReplayCurrent
  BY <1>1, ReplayFields
<1>7. replay.at = "off"
  <2>1. replay' = replay \/ Disturb
    BY <1>3, <1>4, <1>5, <1>6 DEF Next, Tick, ClockTick, Take, Push, Trim, Store, Current,
       StepFails, AutoCommit, Restart, Rebalance, ReadList, ReadCurrent, Done, vars
  <2>2. replay'.at = replay.at
    BY <1>2, <2>1, DisturbedReplay DEF Disturb
  <2>3. QED BY <1>1, <2>2
<1>8. "loss" \notin struck
  BY <1>1, StruckStays
<1>9. QED BY <1>3, <1>4, <1>5, <1>6, <1>7, <1>8 DEF Original

LEMMA ListKept ==
  ASSUME Faults \subseteq {"loss"}, Types, UpInv, SteadyInv, ListInv, [Next]_vars
  PROVE  ListInv'
<1> SUFFICES ASSUME Original' PROVE ListFacts'
  BY DEF ListInv
<1>1. ListFacts /\ UpFacts /\ linked
  BY OriginalBefore DEF ListInv, UpInv, SteadyInv
<1>2. stored \in Stores /\ StoredRows \in Seq(Candle) /\ hist \in Seq(Candle)
  BY RowsOfStore, RowsInOrder DEF Types, StoreTypes
<1>3. pc # "wait" => state \in Candle /\ state # NoCandle /\ state.min \in Int
  BY MinuteOrder DEF Types, WorkerTypes
<1>4. CASE Push
  <2>1. /\ hist' = Append(hist, state) /\ pc = "push" /\ pc' = "trim"
        /\ UNCHANGED <<state, cur, stored>>
    BY <1>4 DEF Push
  <2>2. StoredMinutes' = StoredMinutes /\ StoredRows' = StoredRows
    BY <2>1, RowsUnchanged
  <2>3. hist' = Append(LastRows(StoredRows'), state')
    BY <1>1, <2>1, <2>2 DEF ListFacts
  <2>4. QED BY <1>1, <2>1, <2>2, <2>3 DEF ListFacts
<1>5. CASE Trim
  <2>1. /\ hist' = LastRows(hist) /\ pc = "trim" /\ pc' = "store"
        /\ UNCHANGED <<state, cur, stored>>
    BY <1>5 DEF Trim, Kept
  <2>2. StoredMinutes' = StoredMinutes /\ StoredRows' = StoredRows
    BY <2>1, RowsUnchanged
  <2>3. hist = Append(LastRows(StoredRows), state)
    BY <1>1, <2>1 DEF ListFacts
  <2>4. LastRows(Append(LastRows(StoredRows), state)) = LastRows(Append(StoredRows, state))
    BY <1>2, <1>3, <2>1, LastRowsOfMore
  <2>5. hist' = LastRows(Append(StoredRows', state'))
    BY <2>1, <2>2, <2>3, <2>4
  <2>6. QED BY <1>1, <2>1, <2>2, <2>5 DEF ListFacts
<1>6. CASE Store
  <2>1. /\ stored' = Upserted(state) /\ pc = "store" /\ pc' = "current" /\ UNCHANGED <<hist, cur>>
    BY <1>6 DEF Store, redis
  <2>2. stored' = [stored EXCEPT ![state.min] = state]
    BY <1>1, <2>1 DEF Upserted
  <2>3. \A m \in MinutesOf(stored) : m < state.min
    BY <1>1, RowsOfStore DEF UpFacts
  <2>4. /\ MinutesOf(stored') = MinutesOf(stored) \cup {state.min}
        /\ RowsOf(stored') = Append(RowsOf(stored), state)
    BY <1>2, <1>3, <2>1, <2>2, <2>3, RowAppended
  <2>5. StoredMinutes' = StoredMinutes \cup {state.min} /\ StoredRows' = Append(StoredRows, state)
    BY <2>4, RowsOfStore, RowsOfStoreNext
  <2>6. hist' = LastRows(StoredRows')
    BY <1>1, <2>1, <2>5 DEF ListFacts
  <2>7. cur = state
    BY <1>1, <2>1 DEF ListFacts
  <2>8. \A m \in StoredMinutes' : m <= cur.min
    <3>1. \A m \in StoredMinutes : m \in Int /\ m < state.min
      BY <1>1, MinuteOrder DEF UpFacts
    <3>2. QED BY <1>3, <2>1, <2>5, <2>7, <3>1
  <2>9. QED BY <2>1, <2>6, <2>8 DEF ListFacts
<1>7. CASE Current
  <2>1. cur' = state /\ pc = "current" /\ pc' = "wait" /\ UNCHANGED <<state, hist, stored>>
    BY <1>7 DEF Current
  <2>2. StoredMinutes' = StoredMinutes /\ StoredRows' = StoredRows
    BY <2>1, RowsUnchanged
  <2>3. \A m \in StoredMinutes : m <= state.min
    <3>1. \A m \in StoredMinutes : m \in Int /\ m < state.min
      BY <1>1, MinuteOrder DEF UpFacts
    <3>2. QED BY <1>3, <2>1, <3>1
  <2>4. QED BY <1>1, <2>1, <2>2, <2>3 DEF ListFacts
<1>8. CASE Take
  <2>1. UNCHANGED <<hist, cur, stored>> /\ pc = "wait"
    BY <1>8 DEF Take, redis
  <2>2. StoredMinutes' = StoredMinutes /\ StoredRows' = StoredRows
    BY <2>1, RowsUnchanged
  <2>3. pc' = "current" \/ (pc' \in {"wait", "push"} /\ state' = state)
    BY <2>1, <1>8 DEF Take
  <2>4. QED BY <1>1, <2>1, <2>2, <2>3 DEF ListFacts
<1>9. CASE StepFails \/ Restart \/ Rebalance
  <2>1. FALSE
    BY <1>9 DEF StepFails, Restart, Rebalance, Strikes
  <2>2. QED BY <2>1
<1>10. CASE \/ (\E m \in Minutes : Tick(m)) \/ ClockTick \/ AutoCommit \/ ReadList \/ ReadCurrent
            \/ Done \/ UNCHANGED vars
  <2>1. UNCHANGED <<hist, cur, stored, state, pc>>
    BY <1>10 DEF Tick, ClockTick, AutoCommit, ReadList, ReadCurrent, Done, vars, worker, redis
  <2>2. StoredMinutes' = StoredMinutes /\ StoredRows' = StoredRows
    BY <2>1, RowsUnchanged
  <2>3. QED BY <1>1, <2>1, <2>2 DEF ListFacts
<1>11. QED BY <1>4, <1>5, <1>6, <1>7, <1>8, <1>9, <1>10, OriginalBefore DEF Next

LEMMA ViewKept ==
  ASSUME Types, ViewInv, [Next]_vars
  PROVE  ViewInv'
<1> SUFFICES ASSUME Original', view'.quiet
             PROVE  /\ view'.at \in {"current", "shown"} => view'.rows = hist'
                    /\ view'.at = "shown" => view'.last = cur'
  BY DEF ViewInv
<1>1. Original
  BY OriginalBefore
<1>2. CASE Push \/ Trim \/ Store \/ Current
  <2>1. view'.quiet = FALSE
    BY <1>2, DisturbedView DEF Push, Trim, Store, Current, Disturb, DisturbView, Types
  <2>2. QED BY <2>1
<1>3. CASE ReadList
  <2>1. view'.at = "current" /\ view'.rows = hist /\ hist' = hist
    BY <1>3, ReadView DEF ReadList, redis
  <2>2. QED BY <2>1
<1>4. CASE ReadCurrent
  <2>1. /\ view.at = "current" /\ view'.rows = view.rows /\ view'.last = cur /\ view.quiet
        /\ UNCHANGED <<hist, cur>>
    BY <1>4, ReadView DEF ReadCurrent, redis
  <2>2. view.rows = hist
    BY <1>1, <2>1 DEF ViewInv
  <2>3. QED BY <2>1, <2>2
<1>5. CASE \/ (\E m \in Minutes : Tick(m)) \/ ClockTick \/ AutoCommit \/ Take \/ StepFails \/ Restart
           \/ Rebalance \/ Done \/ UNCHANGED vars
  <2>1. UNCHANGED <<hist, cur, view>>
    BY <1>5 DEF Tick, ClockTick, AutoCommit, Take, StepFails, Restart, Rebalance, Done, vars, redis
  <2>2. QED BY <1>1, <2>1 DEF ViewInv
<1>6. QED BY <1>2, <1>3, <1>4, <1>5, OriginalBefore DEF Next

\* The end of the rows has every stored minute after its first.
LEMMA EndHasNoGap ==
  ASSUME NEW st \in Stores, NEW m \in MinutesOf(st),
         NEW i \in 1 .. Len(LastRows(RowsOf(st))), LastRows(RowsOf(st))[i].min < m
  PROVE  \E j \in 1 .. Len(LastRows(RowsOf(st))) : LastRows(RowsOf(st))[j].min = m
<1> DEFINE S == MinutesOf(st)
           rows == RowsOf(st)
           l == LastRows(rows)
           N == Cardinality(S)
           d == Len(rows) - Len(l)
           k == Rank(S, m)
<1>1. S \in SUBSET Minutes
  BY DEF MinutesOf
<1>2. /\ N \in Nat /\ rows \in Seq(Candle) /\ Len(rows) = N
      /\ \A j \in 1 .. N : rows[j].min \in S /\ Rank(S, rows[j].min) = j
      /\ k \in 1 .. N /\ rows[k] = st[m]
  BY RowsInOrder
<1>3. /\ l \in Seq(Candle)
      /\ \A j \in 1 .. Len(l) : l[j] = rows[d + j] /\ d + j \in 1 .. N
  BY <1>2, LastRowsOf
<1>4. i \in 1 .. Len(l) /\ l[i].min < m /\ m \in S /\ st[m].min = m
  BY DEF Stores, MinutesOf
<1>5. Len(l) \in Nat /\ N = d + Len(l)
  BY <1>2, <1>3, LenProperties
<1>6. d \in Int
  BY <1>2, <1>5
<1> HIDE DEF S, rows, l, N, d, k
<1>7. l[i] = rows[d + i] /\ rows[d + i].min \in S /\ Rank(S, rows[d + i].min) = d + i
  BY <1>2, <1>3, <1>4
<1>8. d + i < k
  <2>1. rows[d + i].min < m
    BY <1>4, <1>7
  <2>2. Rank(S, rows[d + i].min) < Rank(S, m)
    BY <1>1, <1>4, <1>7, <2>1, Ranks
  <2>3. QED BY <1>7, <2>2 DEF k
<1>9. k - d \in 1 .. Len(l) /\ d + (k - d) = k
  BY <1>2, <1>4, <1>5, <1>6, <1>8
<1>10. l[k - d].min = m
  BY <1>2, <1>3, <1>4, <1>9
<1>11. QED BY <1>9, <1>10 DEF l, rows

\* So has the list, wherever the worker stands.
LEMMA ListHasNoGap ==
  ASSUME Types, UpFacts, SteadyInv, ListFacts,
         NEW m \in StoredMinutes, NEW i \in 1 .. Len(hist), hist[i].min < m
  PROVE  \E j \in 1 .. Len(hist) : hist[j].min = m
<1>1. stored \in Stores /\ StoredRows \in Seq(Candle) /\ m \in MinutesOf(stored) /\ m \in Int
  BY RowsOfStore, RowsInOrder, MinuteOrder DEF Types, StoreTypes
<1>2. pc \in {"wait", "push", "trim", "store", "current"}
      /\ (pc # "wait" => state \in Candle /\ state # NoCandle /\ state.min \in Int /\ m < state.min)
  BY MinuteOrder DEF Types, WorkerTypes, UpFacts
<1>3. CASE hist = LastRows(StoredRows)
  BY <1>1, <1>3, RowsOfStore, EndHasNoGap
<1>4. CASE pc = "trim"
  <2> DEFINE l == LastRows(StoredRows)
             n == Len(l)
  <2>1. l \in Seq(Candle) /\ hist = Append(l, state)
    BY <1>1, <1>4, LastRowsOf DEF ListFacts
  <2>2. /\ n \in Nat /\ Len(hist) = n + 1 /\ hist[n + 1] = state
        /\ \A j \in 1 .. n : hist[j] = l[j]
    BY <1>2, <1>4, <2>1, AppendProperties, LenProperties
  <2>3. i \in 1 .. n
    <3>1. ~(state.min < m)
      BY <1>1, <1>2, <1>4
    <3>2. i # n + 1
      BY <2>2, <3>1
    <3>3. QED BY <2>2, <3>2
  <2>4. l = LastRows(RowsOf(stored)) /\ l[i].min < m
    BY <2>2, <2>3, RowsOfStore
  <2>5. PICK j \in 1 .. n : l[j].min = m
    BY <1>1, <2>3, <2>4, EndHasNoGap
  <2>6. j \in 1 .. Len(hist) /\ hist[j].min = m
    BY <2>2, <2>5
  <2>7. QED BY <2>6
<1>5. CASE pc = "store"
  <2> DEFINE s2 == [stored EXCEPT ![state.min] = state]
  <2>1. \A x \in MinutesOf(stored) : x < state.min
    BY RowsOfStore DEF UpFacts
  <2>2. /\ s2 \in Stores /\ MinutesOf(s2) = MinutesOf(stored) \cup {state.min}
        /\ RowsOf(s2) = Append(RowsOf(stored), state)
    BY <1>1, <1>2, <1>5, <2>1, RowAppended
  <2> HIDE DEF s2
  <2>3. hist = LastRows(RowsOf(s2))
    BY <1>5, <2>2, RowsOfStore DEF ListFacts
  <2>4. m \in MinutesOf(s2)
    BY <1>1, <2>2
  <2>5. QED BY <2>2, <2>3, <2>4, EndHasNoGap
<1>6. QED BY <1>2, <1>3, <1>4, <1>5 DEF ListFacts

LEMMA ChartIsWhole ==
  ASSUME Types, UpInv, SteadyInv, ListInv, ViewInv
  PROVE  ChartGapNeedsRollover
<1> SUFFICES ASSUME view.at = "shown", view.quiet, Original,
                    NEW m \in StoredMinutes, NEW x \in DOMAIN Shown, x < m
             PROVE  m \in DOMAIN Shown
  BY DEF ChartGapNeedsRollover
<1>1. ListFacts /\ UpFacts
  BY DEF ListInv, UpInv, SteadyInv
<1>2. view.rows = hist /\ view.last = cur
  BY DEF ViewInv
<1>3. hist \in Seq(Candle) /\ cur \in Candle \cup {NoCandle} /\ m \in Int
  BY MinuteOrder DEF Types, StoreTypes
<1>4. DOMAIN Shown = {c.min : c \in RowSet(RowsRead)}
  BY DEF Shown, RowSet
<1>5. RowSet(RowsRead) = IF cur = NoCandle THEN RowSet(hist) ELSE RowSet(hist) \cup {cur}
  BY <1>2, <1>3, RowsOfAppended DEF RowsRead
<1>6. PICK c \in RowSet(RowsRead) : x = c.min
  BY <1>4
<1>7. CASE c \in RowSet(hist)
  <2>1. PICK i \in 1 .. Len(hist) : c = hist[i]
    BY <1>7 DEF RowSet
  <2>2. PICK j \in 1 .. Len(hist) : hist[j].min = m
    BY <1>1, <1>6, <2>1, ListHasNoGap
  <2>3. hist[j] \in RowSet(RowsRead)
    BY <1>5 DEF RowSet
  <2>4. QED BY <1>4, <2>2, <2>3
<1>8. CASE cur # NoCandle /\ c = cur
  <2>1. m <= cur.min /\ cur.min \in Int
    BY <1>1, <1>3, <1>8, MinuteOrder DEF ListFacts
  <2>2. QED BY <1>3, <1>6, <1>8, <2>1
<1>9. QED BY <1>5, <1>6, <1>7, <1>8

\* ReadersSeeTheCandles: in the same runs, until a replay or a loss, the list is the end of
\* what MongoDB holds whenever the worker waits for a tick, and a chart read with no write
\* in between has no gap in the stored minutes, also while a minute ends.
THEOREM ReadersAgree ==
  ASSUME Faults \subseteq {"loss"}
  PROVE  Spec => []ReadersSeeTheCandles
<1>1. Init => UpInv /\ SteadyInv /\ ListInv /\ ViewInv
  <2> SUFFICES ASSUME Init PROVE ListFacts /\ ViewInv
    BY InitUp, InitSteady DEF ListInv
  <2>1. hist = <<>> /\ cur = NoCandle /\ pc = "wait" /\ state = NoCandle /\ StoredMinutes = {}
    BY DEF Init, StoredMinutes
  <2>2. Types /\ stored \in Stores
    BY InitTypes DEF Types, StoreTypes
  <2>3. StoredRows \in Seq(Candle) /\ Len(StoredRows) = 0
    BY <2>1, <2>2, RowsOfStore, RowsInOrder, FS_EmptySet
  <2>4. ~(0 > Keep)
    BY CandleAssumption
  <2>5. LastRows(StoredRows) \in Seq(Candle) /\ Len(LastRows(StoredRows)) = 0
    BY <2>3, <2>4, LastRowsOf
  <2>6. LastRows(StoredRows) = <<>>
    BY <2>5, EmptySeq
  <2>7. view.at = "off"
    BY DEF Init
  <2>8. QED BY <2>1, <2>6, <2>7 DEF ListFacts, ViewInv
<1>2. Types /\ UpInv /\ SteadyInv /\ ListInv /\ ViewInv /\ [Next]_vars
        => UpInv' /\ SteadyInv' /\ ListInv' /\ ViewInv'
  BY UpInvKept, SteadyKept, ListKept, ViewKept
<1>3. Types /\ UpInv /\ SteadyInv /\ ListInv /\ ViewInv => ReadersSeeTheCandles
  BY ChartIsWhole DEF ReadersSeeTheCandles, ListIsTailOfStore, ListInv, ListFacts
<1>4. Spec => []Types
  BY CandleTypes
<1>5. QED BY <1>1, <1>2, <1>3, <1>4, PTL DEF Spec


=============================================================================
