------------------------- MODULE VectorMatrixProofs -------------------------
(***************************************************************************)
(* Proofs that the matrix of a vector index is a map from ids to vectors,  *)
(* whatever its size: appending, overwriting and filling a gap with the    *)
(* last row do to the map what their callers mean, and a build that shares *)
(* the rows among any number of workers makes the map of all of them.      *)
(* Searching is a fold over the rows and is left to TLC.                   *)
(***************************************************************************)
EXTENDS MatrixBuild, SequenceTheorems, FiniteSetTheorems, TLAPS

\* A matrix as Upsert and RemoveRow find it.
IsMatrix(m) ==
    /\ m = [x \in {"metric", "ids", "data", "pos"} |-> m[x]]
    /\ m.pos = [x \in DOMAIN m.pos |-> m.pos[x]]
    /\ WellFormed(m)

\* What Upsert and RemoveRow do to the map a matrix is.
Without(f, id) == [x \in DOMAIN f \ {id} |-> f[x]]
With(f, mt, id, v) ==
    IF mt = "cosine" /\ v = 0 THEN Without(f, id)
    ELSE [x \in DOMAIN f \cup {id} |-> IF x = id THEN v ELSE f[x]]

\* What is in a matrix is one row each: the ids and positions name each other.
LEMMA Parts ==
    ASSUME NEW m, IsMatrix(m)
    PROVE  /\ Len(m.ids) \in Nat /\ Len(m.data) = Len(m.ids)
           /\ DOMAIN m.ids = 1..Len(m.ids) /\ DOMAIN m.data = 1..Len(m.ids)
           /\ m.ids \in Seq(DOMAIN m.pos) /\ m.data \in Seq(Int)
           /\ \A x \in DOMAIN m.pos : m.pos[x] \in 1..Len(m.ids) /\ m.ids[m.pos[x]] = x
           /\ \A i \in 1..Len(m.ids) : m.ids[i] \in DOMAIN m.pos /\ m.pos[m.ids[i]] = i
  BY DEF IsMatrix, WellFormed

\* Filling the gap at p with the last element and cutting it off leaves every other
\* element where it was.
LEMMA GapFilled ==
    ASSUME NEW S, NEW s \in Seq(S), NEW n \in Nat, n = Len(s), NEW p \in 1..n,
           NEW t, t = SubSeq([s EXCEPT ![p] = s[n]], 1, n - 1)
    PROVE  /\ t \in Seq(S) /\ Len(t) = n - 1
           /\ \A i \in 1..(n - 1) : t[i] = IF i = p THEN s[n] ELSE s[i]
<1> DEFINE filled == [s EXCEPT ![p] = s[n]]
<1>1. \A i \in 1..n : filled[i] \in S /\ filled[i] = IF i = p THEN s[n] ELSE s[i]
  OBVIOUS
<1> HIDE DEF filled
<1>2. t = SubSeq(filled, 1, n - 1) /\ 1 \in Int /\ n - 1 \in Int /\ \A i \in 1..(n - 1) : filled[i] \in S
  BY <1>1 DEF filled
<1>3. /\ t \in Seq(S) /\ Len(t) = (IF 1 <= n - 1 THEN n - 1 - 1 + 1 ELSE 0)
      /\ \A i \in 1..(n - 1 - 1 + 1) : t[i] = filled[1 + i - 1]
  BY <1>2, SubSeqProperties
<1> QED
  BY <1>1, <1>3

\* An index starts with an empty matrix.
THEOREM NewIsMap ==
    ASSUME NEW mt
    PROVE  IsMatrix(NewMatrix(mt)) /\ DOMAIN Contents(NewMatrix(mt)) = {}
  BY DEF NewMatrix, IsMatrix, WellFormed, Contents

\* Remove takes one id out of the map and moves no other, though the last row
\* changes its place: also when it is the last row that goes, or the only one.
THEOREM RemoveIsMap ==
    ASSUME NEW m, IsMatrix(m), NEW id
    PROVE  /\ IsMatrix(RemoveRow(m, id))
           /\ Contents(RemoveRow(m, id)) = Without(Contents(m), id)
<1>1. CASE ~Holds(m, id)
  <2>1. RemoveRow(m, id) = m
    BY <1>1 DEF RemoveRow
  <2>2. DOMAIN Contents(m) = DOMAIN m.pos /\ id \notin DOMAIN m.pos
    BY <1>1 DEF Holds, Contents
  <2>3. Contents(m) = Without(Contents(m), id)
    BY <2>2 DEF Contents, Without
  <2> QED
    BY <2>1, <2>3
<1>2. CASE Holds(m, id)
  <2> DEFINE n == Len(m.ids)
             p == m.pos[id]
             moved == [m.pos EXCEPT ![m.ids[n]] = p]
             ids == SubSeq([m.ids EXCEPT ![p] = m.ids[n]], 1, n - 1)
             data == SubSeq([m.data EXCEPT ![p] = m.data[n]], 1, n - 1)
             pos == [x \in DOMAIN m.pos \ {id} |-> moved[x]]
             new == RemoveRow(m, id)
  <2>1. new = [m EXCEPT !.ids = ids, !.data = data, !.pos = pos]
    BY <1>2 DEF RemoveRow
  <2>2. id \in DOMAIN m.pos
    BY <1>2 DEF Holds
  <2>3. n \in Nat /\ p \in 1..n /\ m.ids[p] = id /\ m.pos[id] = p
    BY <2>2, Parts
  <2>4. /\ m.ids[n] \in DOMAIN m.pos /\ m.pos[m.ids[n]] = n
        /\ m.ids \in Seq(DOMAIN m.pos) /\ m.data \in Seq(Int) /\ Len(m.data) = n /\ Len(m.ids) = n
    <3>1. n \in 1..Len(m.ids)
      BY <2>3
    <3> QED
      BY <3>1, Parts
  <2>5. /\ \A x \in DOMAIN m.pos : moved[x] = IF x = m.ids[n] THEN p ELSE m.pos[x]
    BY <2>4 DEF IsMatrix
  <2> HIDE DEF n, p
  <2>6. /\ ids \in Seq(DOMAIN m.pos) /\ Len(ids) = n - 1
        /\ \A i \in 1..(n - 1) : ids[i] = IF i = p THEN m.ids[n] ELSE m.ids[i]
    <3> DEFINE S == DOMAIN m.pos
               s == m.ids
    <3>1. s \in Seq(S) /\ n = Len(s) /\ ids = SubSeq([s EXCEPT ![p] = s[n]], 1, n - 1)
      BY <2>4
    <3> HIDE DEF S, s, ids
    <3>2. /\ ids \in Seq(S) /\ Len(ids) = n - 1
          /\ \A i \in 1..(n - 1) : ids[i] = IF i = p THEN s[n] ELSE s[i]
      BY <2>3, <3>1, GapFilled
    <3> QED
      BY <3>2 DEF S, s
  <2>7. /\ data \in Seq(Int) /\ Len(data) = n - 1
        /\ \A i \in 1..(n - 1) : data[i] = IF i = p THEN m.data[n] ELSE m.data[i]
    <3> DEFINE S == Int
               s == m.data
    <3>1. s \in Seq(S) /\ n = Len(s) /\ data = SubSeq([s EXCEPT ![p] = s[n]], 1, n - 1)
      BY <2>4
    <3> HIDE DEF S, s, data
    <3>2. /\ data \in Seq(S) /\ Len(data) = n - 1
          /\ \A i \in 1..(n - 1) : data[i] = IF i = p THEN s[n] ELSE s[i]
      BY <2>3, <3>1, GapFilled
    <3> QED
      BY <3>2 DEF S, s
  <2> HIDE DEF ids, data, moved, new
  <2>8. /\ new.ids = ids /\ new.data = data /\ new.pos = pos /\ new.metric = m.metric
        /\ new = [x \in {"metric", "ids", "data", "pos"} |-> new[x]]
    <3> HIDE DEF pos
    <3> QED
      BY <2>1 DEF IsMatrix
  <2>9. DOMAIN pos = DOMAIN m.pos \ {id} /\ \A x \in DOMAIN pos : pos[x] = IF x = m.ids[n] THEN p ELSE m.pos[x]
    BY <2>5
  <2>10. pos = [x \in DOMAIN pos |-> pos[x]]
    OBVIOUS
  <2> HIDE DEF pos
  <2>11. \A x \in DOMAIN pos : pos[x] \in 1..(n - 1) /\ ids[pos[x]] = x /\ data[pos[x]] = m.data[m.pos[x]]
    <3> SUFFICES ASSUME NEW x \in DOMAIN pos
                 PROVE  pos[x] \in 1..(n - 1) /\ ids[pos[x]] = x /\ data[pos[x]] = m.data[m.pos[x]]
      OBVIOUS
    <3>1. x \in DOMAIN m.pos /\ x # id
      BY <2>9
    <3>2. m.pos[x] \in 1..n /\ m.ids[m.pos[x]] = x
      BY <2>4, <3>1, Parts
    <3>3. CASE x = m.ids[n]
      <4>1. pos[x] = p /\ m.pos[x] = n /\ p # n
        BY <2>3, <2>4, <2>9, <3>1, <3>3
      <4> QED
        BY <2>3, <2>6, <2>7, <3>3, <4>1
    <3>4. CASE x # m.ids[n]
      <4>1. pos[x] = m.pos[x] /\ m.pos[x] # n /\ m.pos[x] # p
        BY <2>3, <2>9, <3>1, <3>2, <3>4
      <4> QED
        BY <2>3, <2>6, <2>7, <3>2, <4>1
    <3> QED
      BY <3>3, <3>4
  <2>12. \A i \in 1..(n - 1) : ids[i] \in DOMAIN pos /\ pos[ids[i]] = i
    <3> SUFFICES ASSUME NEW i \in 1..(n - 1) PROVE ids[i] \in DOMAIN pos /\ pos[ids[i]] = i
      OBVIOUS
    <3>1. i \in 1..n /\ n \in 1..n /\ i # n
      BY <2>3
    <3>2. m.ids[i] \in DOMAIN m.pos /\ m.pos[m.ids[i]] = i
      BY <2>4, <3>1, Parts
    <3>3. CASE i = p
      BY <2>3, <2>4, <2>6, <2>9, <3>1, <3>3
    <3>4. CASE i # p
      BY <2>2, <2>3, <2>4, <2>6, <2>9, <3>1, <3>2, <3>4
    <3> QED
      BY <3>3, <3>4
  <2>13. ids \in Seq(DOMAIN pos)
    BY <2>3, <2>6, <2>12
  <2>14. IsMatrix(new)
    BY <2>3, <2>6, <2>7, <2>8, <2>10, <2>11, <2>12, <2>13 DEF IsMatrix, WellFormed
  <2>15. DOMAIN Contents(m) = DOMAIN m.pos /\ \A x \in DOMAIN m.pos : Contents(m)[x] = m.data[m.pos[x]]
    BY DEF Contents
  <2>16. Contents(new) = Without(Contents(m), id)
    <3>1. Contents(new) = [x \in DOMAIN pos |-> data[pos[x]]]
      BY <2>8 DEF Contents
    <3> QED
      BY <2>9, <2>11, <2>15, <3>1 DEF Without
  <2> QED
    BY <2>14, <2>16 DEF new
<1> QED
  BY <1>1, <1>2

\* Upsert gives the id its vector, whether it had one or not, and leaves the others
\* alone; under cosine the zero vector takes the id out instead.
THEOREM UpsertIsMap ==
    ASSUME NEW m, IsMatrix(m), NEW id, NEW v \in Int
    PROVE  /\ IsMatrix(Upsert(m, id, v))
           /\ Contents(Upsert(m, id, v)) = With(Contents(m), m.metric, id, v)
<1> DEFINE n == Len(m.ids)
           new == Upsert(m, id, v)
           owed == [x \in DOMAIN Contents(m) \cup {id} |-> IF x = id THEN v ELSE Contents(m)[x]]
<1>0. DOMAIN Contents(m) = DOMAIN m.pos /\ \A x \in DOMAIN m.pos : Contents(m)[x] = m.data[m.pos[x]]
  BY DEF Contents
<1>1. CASE m.metric = "cosine" /\ v = 0
  BY <1>1, RemoveIsMap DEF Upsert, With
<1>4. ~(m.metric = "cosine" /\ v = 0) => With(Contents(m), m.metric, id, v) = owed
  BY DEF With
<1>2. CASE ~(m.metric = "cosine" /\ v = 0) /\ Holds(m, id)
  <2> DEFINE p == m.pos[id]
             data == [m.data EXCEPT ![p] = v]
  <2>1. id \in DOMAIN m.pos
    BY <1>2 DEF Holds
  <2>2. /\ n \in Nat /\ p \in 1..n /\ m.data \in Seq(Int) /\ Len(m.data) = n /\ Len(m.ids) = n
        /\ \A x \in DOMAIN m.pos : m.pos[x] \in 1..n /\ (m.pos[x] = p => x = id)
    <3>1. /\ n \in Nat /\ m.data \in Seq(Int) /\ Len(m.data) = n
          /\ \A x \in DOMAIN m.pos : m.pos[x] \in 1..n /\ m.ids[m.pos[x]] = x
      BY Parts
    <3> QED
      BY <2>1, <3>1
  <2>3. new = [m EXCEPT !.data = data]
    BY <1>2 DEF Upsert, IsMatrix
  <2> HIDE DEF new, n
  <2>4. data \in Seq(Int) /\ Len(data) = n /\ \A i \in 1..n : data[i] = IF i = p THEN v ELSE m.data[i]
    <3> HIDE DEF p
    <3> QED
      BY <2>2
  <2> HIDE DEF data
  <2>5. /\ new.ids = m.ids /\ new.data = data /\ new.pos = m.pos /\ new.metric = m.metric
        /\ new = [x \in {"metric", "ids", "data", "pos"} |-> new[x]]
    BY <2>3 DEF IsMatrix
  <2>6. IsMatrix(new)
    BY <2>2, <2>4, <2>5 DEF IsMatrix, WellFormed
  <2>7. Contents(new) = [x \in DOMAIN m.pos |-> data[m.pos[x]]]
    BY <2>5 DEF Contents
  <2>8. \A x \in DOMAIN m.pos : data[m.pos[x]] = IF x = id THEN v ELSE Contents(m)[x]
    <3> HIDE DEF p
    <3> QED
      BY <1>0, <2>2, <2>4 DEF p
  <2>9. Contents(new) = owed
    BY <1>0, <2>1, <2>7, <2>8
  <2> QED
    BY <1>2, <1>4, <2>6, <2>9 DEF new
<1>3. CASE ~(m.metric = "cosine" /\ v = 0) /\ ~Holds(m, id)
  <2> DEFINE ids == Append(m.ids, id)
             data == Append(m.data, v)
             pos == [x \in DOMAIN m.pos \cup {id} |-> IF x = id THEN n + 1 ELSE m.pos[x]]
  <2>1. id \notin DOMAIN m.pos
    BY <1>3 DEF Holds
  <2>2. /\ n \in Nat /\ m.ids \in Seq(DOMAIN m.pos) /\ m.data \in Seq(Int) /\ Len(m.data) = n /\ Len(m.ids) = n
        /\ \A x \in DOMAIN m.pos : m.pos[x] \in 1..n /\ m.ids[m.pos[x]] = x
        /\ \A i \in 1..n : m.ids[i] \in DOMAIN m.pos /\ m.pos[m.ids[i]] = i
    BY Parts
  <2>3. new = [m EXCEPT !.ids = ids, !.data = data, !.pos = pos]
    BY <1>3 DEF Upsert, IsMatrix
  <2> HIDE DEF new, n
  <2>4. /\ DOMAIN pos = DOMAIN m.pos \cup {id} /\ pos[id] = n + 1 /\ \A x \in DOMAIN m.pos : pos[x] = m.pos[x]
        /\ pos = [x \in DOMAIN pos |-> pos[x]]
    BY <2>1
  <2> HIDE DEF pos
  <2>5. ids \in Seq(DOMAIN pos) /\ Len(ids) = n + 1 /\ ids[n + 1] = id /\ \A i \in 1..n : ids[i] = m.ids[i]
    <3>1. m.ids \in Seq(DOMAIN pos) /\ id \in DOMAIN pos
      BY <2>2, <2>4
    <3> QED
      BY <2>2, <3>1
  <2>6. data \in Seq(Int) /\ Len(data) = n + 1 /\ data[n + 1] = v /\ \A i \in 1..n : data[i] = m.data[i]
    BY <2>2
  <2> HIDE DEF ids, data
  <2>7. /\ new.ids = ids /\ new.data = data /\ new.pos = pos /\ new.metric = m.metric
        /\ new = [x \in {"metric", "ids", "data", "pos"} |-> new[x]]
    BY <2>3 DEF IsMatrix
  <2>8. \A x \in DOMAIN pos : pos[x] \in 1..(n + 1) /\ ids[pos[x]] = x
    <3> SUFFICES ASSUME NEW x \in DOMAIN pos PROVE pos[x] \in 1..(n + 1) /\ ids[pos[x]] = x
      OBVIOUS
    <3>1. CASE x = id
      BY <2>2, <2>4, <2>5, <3>1
    <3>2. CASE x \in DOMAIN m.pos
      <4>1. pos[x] = m.pos[x] /\ pos[x] \in 1..n /\ m.ids[pos[x]] = x
        BY <2>2, <2>4, <3>2
      <4>2. pos[x] \in 1..(n + 1)
        BY <2>2, <4>1
      <4>3. ids[pos[x]] = x
        BY <2>5, <4>1
      <4> QED
        BY <4>2, <4>3
    <3> QED
      BY <2>4, <3>1, <3>2
  <2>9. \A i \in 1..(n + 1) : pos[ids[i]] = i
    <3> SUFFICES ASSUME NEW i \in 1..(n + 1) PROVE pos[ids[i]] = i
      OBVIOUS
    <3>1. i = n + 1 \/ i \in 1..n
      BY <2>2
    <3> QED
      BY <2>2, <2>4, <2>5, <3>1
  <2>10. IsMatrix(new)
    BY <2>2, <2>4, <2>5, <2>6, <2>7, <2>8, <2>9 DEF IsMatrix, WellFormed
  <2>11. Contents(new) = [x \in DOMAIN pos |-> data[pos[x]]]
    BY <2>7 DEF Contents
  <2>12. \A x \in DOMAIN pos : data[pos[x]] = IF x = id THEN v ELSE Contents(m)[x]
    <3> SUFFICES ASSUME NEW x \in DOMAIN pos PROVE data[pos[x]] = IF x = id THEN v ELSE Contents(m)[x]
      OBVIOUS
    <3>1. CASE x = id
      BY <2>4, <2>6, <3>1
    <3>2. CASE x \in DOMAIN m.pos
      <4>1. pos[x] = m.pos[x] /\ pos[x] \in 1..n /\ x # id
        BY <2>1, <2>2, <2>4, <3>2
      <4> QED
        BY <1>0, <2>6, <3>2, <4>1
    <3> QED
      BY <2>4, <3>1, <3>2
  <2>13. Contents(new) = owed
    BY <1>0, <2>4, <2>11, <2>12
  <2> QED
    BY <1>3, <1>4, <2>10, <2>13 DEF new
<1> QED
  BY <1>1, <1>2, <1>3
-----------------------------------------------------------------------------
(* Concatenation, by induction over the pieces.                            *)

\* Every set of numbers has a least one.
LEMMA LeastNumber ==
    ASSUME NEW T \in SUBSET Nat, T # {}
    PROVE  \E n \in T : \A m \in T : n <= m
<1> DEFINE U == {1..n : n \in T}
<1>1. U \subseteq FiniteSubsetsOf(Nat) /\ U # {}
  <2>1. \A n \in T : IsFiniteSet(1..n) /\ 1..n \subseteq Nat
    BY FS_Interval
  <2> QED
    BY <2>1 DEF FiniteSubsetsOf
<1>2. PICK X \in U : \A Y \in U : <<Y, X>> \notin StrictSubsetOrdering(Nat)
  <2> HIDE DEF U
  <2> QED
    BY <1>1, FS_StrictSubsetOrderingWellFounded, WFMin
<1>3. PICK n \in T : X = 1..n
  OBVIOUS
<1>4. ASSUME NEW m \in T PROVE n <= m
  <2>1. 1..m \subseteq Nat /\ 1..n \subseteq Nat /\ 1..m \in U
    OBVIOUS
  <2> DEFINE Y == 1..m
  <2> HIDE DEF U, Y
  <2>2. <<Y, X>> \notin StrictSubsetOrdering(Nat)
    BY <1>2, <2>1 DEF Y
  <2>3. ~(Y \subseteq X /\ Y # X)
    BY <1>3, <2>1, <2>2 DEF StrictSubsetOrdering, Y
  <2>4. CASE m < n
    <3>1. n \in 1..n /\ n \notin 1..m /\ 1..m \subseteq 1..n
      BY <2>4
    <3> QED
      BY <1>3, <2>3, <3>1 DEF Y
  <2> QED
    BY <2>4
<1> QED
  BY <1>4

\* Induction up to n.
LEMMA UpTo ==
    ASSUME NEW n \in Nat, NEW S, 0 \in S, \A i \in 1..n : i - 1 \in S => i \in S
    PROVE  0..n \subseteq S
<1> SUFFICES ASSUME (0..n) \ S # {} PROVE FALSE
  OBVIOUS
<1> DEFINE T == (0..n) \ S
<1>1. T \in SUBSET Nat /\ T # {}
  OBVIOUS
<1>2. PICK i \in T : \A m \in T : i <= m
  <2> HIDE DEF T
  <2> QED
    BY <1>1, LeastNumber
<1>3. i - 1 \in 0..n /\ i \in 1..n
  OBVIOUS
<1> QED
  BY <1>2, <1>3

\* f joins the first n pieces.
Joined(s, t) == s \o t
Joins(ss, f, n) == f = [i \in 1..n |-> IF i = 1 THEN ss[i] ELSE Joined(f[i - 1], ss[i])]

\* FlattenSeq joins all of them.
LEMMA JoinedIs ==
    ASSUME NEW ss, Len(ss) \in Nat \ {0}
    PROVE  \E f : Joins(ss, f, Len(ss)) /\ FlattenSeq(ss) = f[Len(ss)]
<1> DEFINE n == Len(ss)
           S == {m \in 0..n : m = 0 \/ \E f : Joins(ss, f, m)}
<1>1. 0 \in S
  OBVIOUS
<1>2. ASSUME NEW m \in 1..n, m - 1 \in S PROVE m \in S
  <2>1. CASE m = 1
    <3>1. Joins(ss, [i \in 1..1 |-> ss[i]], 1)
      BY DEF Joins
    <3> QED
      BY <2>1, <3>1
  <2>2. CASE m # 1
    <3>1. PICK f : Joins(ss, f, m - 1)
      BY <1>2, <2>2
    <3> DEFINE h == [i \in 1..m |-> IF i = m THEN Joined(f[m - 1], ss[m]) ELSE f[i]]
    <3>2. ASSUME NEW i \in 1..m
          PROVE  h[i] = IF i = 1 THEN ss[i] ELSE Joined(h[i - 1], ss[i])
      <4>1. CASE i = m
        <5>1. h[i] = Joined(f[m - 1], ss[m]) /\ h[i - 1] = f[m - 1] /\ i # 1
          BY <2>2, <4>1
        <5> QED
          BY <4>1, <5>1
      <4>2. CASE i # m
        <5>1. i \in 1..(m - 1) /\ f[i] = IF i = 1 THEN ss[i] ELSE Joined(f[i - 1], ss[i])
          BY <3>1, <4>2 DEF Joins
        <5>2. h[i] = f[i] /\ (i # 1 => h[i - 1] = f[i - 1])
          BY <4>2
        <5> QED
          BY <5>1, <5>2
      <4> QED
        BY <4>1, <4>2
    <3>3. h = [i \in 1..m |-> h[i]]
      OBVIOUS
    <3> HIDE DEF h
    <3>4. Joins(ss, h, m)
      BY <3>2, <3>3 DEF Joins
    <3> QED
      BY <3>4
  <2> QED
    BY <2>1, <2>2
<1>3. n \in S
  <2>1. 0..n \subseteq S
    <3> HIDE DEF S
    <3> QED
      BY <1>1, <1>2, UpTo
  <2> QED
    BY <2>1
<1>4. PICK f : Joins(ss, f, n)
  BY <1>3
<1> DEFINE all == CHOOSE g : Joins(ss, g, n)
<1>5. Joins(ss, all, n)
  BY <1>4, Zenon
<1>6. FlattenSeq(ss) = all[n]
  BY Zenon DEF FlattenSeq, Joins, Joined
<1> QED
  BY <1>5, <1>6

\* The rows of some pieces, each under a key (its first component) that no other
\* row of any piece has.
Keyed(ss) ==
    \A p, q \in DOMAIN ss : \A i \in DOMAIN ss[p], j \in DOMAIN ss[q] :
        ss[p][i][1] = ss[q][j][1] => p = q /\ i = j

\* r holds the rows of the first n pieces, each once.
Collects(ss, r, n) ==
    /\ \A j \in DOMAIN r : \E p \in 1..n : \E i \in DOMAIN ss[p] : r[j] = ss[p][i]
    /\ \A p \in 1..n : \A i \in DOMAIN ss[p] : \E j \in DOMAIN r : r[j] = ss[p][i]
    /\ \A j, k \in DOMAIN r : r[j][1] = r[k][1] => j = k

\* Joining such pieces collects their rows.
LEMMA Collected ==
    ASSUME NEW S, NEW ss \in Seq(Seq(S)), Keyed(ss)
    PROVE  FlattenSeq(ss) \in Seq(S) /\ Collects(ss, FlattenSeq(ss), Len(ss))
<1> DEFINE n == Len(ss)
<1>0. n \in Nat /\ DOMAIN ss = 1..n /\ \A p \in 1..n : ss[p] \in Seq(S)
  OBVIOUS
<1>1. CASE n = 0
  <2>1. ss = <<>> /\ FlattenSeq(ss) = ss
    BY <1>1 DEF FlattenSeq
  <2>2. DOMAIN ss = {} /\ 1..n = {}
    BY <1>0, <1>1
  <2>3. Collects(ss, ss, n)
    BY <2>2 DEF Collects
  <2>4. ss \in Seq(S)
    BY <2>1
  <2> QED
    BY <2>1, <2>3, <2>4
<1>2. CASE n # 0
  <2>1. PICK f : Joins(ss, f, n) /\ FlattenSeq(ss) = f[n]
    BY <1>0, <1>2, JoinedIs
  <2> DEFINE T == {m \in 0..n : m = 0 \/ (f[m] \in Seq(S) /\ Collects(ss, f[m], m))}
  <2>2. \A i \in 1..n : f[i] = IF i = 1 THEN ss[i] ELSE Joined(f[i - 1], ss[i])
    BY <2>1 DEF Joins
  <2>3. 0 \in T
    BY <1>0
  <2>4. ASSUME NEW m \in 1..n, m - 1 \in T PROVE m \in T
    <3>1. CASE m = 1
      <4>1. f[1] = ss[1] /\ ss[1] \in Seq(S)
        BY <1>0, <2>2, <3>1
      <4>2. Collects(ss, ss[1], 1)
        BY <1>0, <3>1 DEF Collects, Keyed
      <4> QED
        BY <3>1, <4>1, <4>2
    <3>2. CASE m # 1
      <4> DEFINE r == f[m - 1]
                 t == ss[m]
                 a == Len(r)
                 b == Len(t)
      <4>1. f[m] = r \o t
        BY <2>2, <3>2 DEF Joined
      <4>2. r \in Seq(S) /\ Collects(ss, r, m - 1) /\ t \in Seq(S)
        BY <1>0, <2>4, <3>2
      <4> HIDE DEF r, t
      <4>3. a \in Nat /\ b \in Nat /\ DOMAIN r = 1..a /\ DOMAIN t = 1..b
        BY <4>2
      <4> DEFINE rt == r \o t
      <4>4. /\ rt \in Seq(S) /\ DOMAIN rt = 1..(a + b)
            /\ \A j \in 1..(a + b) : rt[j] = IF j <= a THEN r[j] ELSE t[j - a]
        BY <4>2
      <4> HIDE DEF rt, a, b
      <4>5. /\ rt \in Seq(S) /\ DOMAIN rt = 1..(a + b)
            /\ \A j \in 1..a : rt[j] = r[j]
            /\ \A j \in 1..b : rt[a + j] = t[j]
        BY <4>3, <4>4
      <4>6. \A j \in 1..(a + b) : j \in 1..a \/ \E i \in 1..b : j = a + i
        <5>1. \A j \in 1..(a + b) : j \in 1..a \/ (j - a \in 1..b /\ j = a + (j - a))
          BY <4>3
        <5> QED
          BY <5>1
      <4>7. ASSUME NEW j \in DOMAIN rt PROVE \E p \in 1..m : \E i \in DOMAIN ss[p] : rt[j] = ss[p][i]
        <5>1. CASE j \in 1..a
          <6>1. PICK p \in 1..(m - 1) : \E i \in DOMAIN ss[p] : r[j] = ss[p][i]
            BY <4>2, <4>3, <5>1 DEF Collects
          <6>2. p \in 1..m /\ rt[j] = r[j]
            BY <4>5, <5>1
          <6> QED
            BY <6>1, <6>2
        <5>2. CASE \E i \in 1..b : j = a + i
          <6>1. PICK i \in 1..b : j = a + i
            BY <5>2
          <6>2. rt[j] = ss[m][i] /\ i \in DOMAIN ss[m] /\ m \in 1..m
            BY <4>3, <4>5, <6>1 DEF t
          <6> QED
            BY <6>2
        <5> QED
          BY <4>5, <4>6, <5>1, <5>2
      <4>8. ASSUME NEW p \in 1..m, NEW i \in DOMAIN ss[p] PROVE \E j \in DOMAIN rt : rt[j] = ss[p][i]
        <5>1. CASE p = m
          <6>1. i \in 1..b /\ ss[p][i] = t[i]
            BY <4>3, <5>1 DEF t
          <6>2. a + i \in 1..(a + b)
            BY <4>3, <6>1
          <6>3. a + i \in DOMAIN rt /\ rt[a + i] = ss[p][i]
            BY <4>5, <6>1, <6>2
          <6> QED
            BY <6>3
        <5>2. CASE p # m
          <6>1. p \in 1..(m - 1)
            BY <5>2
          <6>2. PICK j \in DOMAIN r : r[j] = ss[p][i]
            BY <4>2, <6>1 DEF Collects
          <6>3. j \in 1..a /\ j \in 1..(a + b)
            BY <4>3, <6>2
          <6>4. j \in DOMAIN rt /\ rt[j] = ss[p][i]
            BY <4>5, <6>2, <6>3
          <6> QED
            BY <6>4
        <5> QED
          BY <5>1, <5>2
      <4>9. ASSUME NEW j \in 1..a, NEW i \in 1..b PROVE rt[j][1] # rt[a + i][1]
        <5>1. PICK p \in 1..(m - 1) : \E l \in DOMAIN ss[p] : r[j] = ss[p][l]
          BY <4>2, <4>3 DEF Collects
        <5>2. PICK l \in DOMAIN ss[p] : r[j] = ss[p][l]
          BY <5>1
        <5>3. p \in DOMAIN ss /\ m \in DOMAIN ss /\ p # m /\ i \in DOMAIN ss[m]
          BY <1>0, <4>3 DEF t
        <5>4. ss[p][l][1] # ss[m][i][1]
          BY <5>2, <5>3 DEF Keyed
        <5> QED
          BY <4>5, <5>2, <5>4 DEF t
      <4>10. ASSUME NEW j \in DOMAIN rt, NEW k \in DOMAIN rt, rt[j][1] = rt[k][1] PROVE j = k
        <5>1. CASE j \in 1..a /\ k \in 1..a
          BY <4>2, <4>3, <4>5, <4>10, <5>1 DEF Collects
        <5>2. CASE j \in 1..a /\ \E i \in 1..b : k = a + i
          BY <4>9, <4>10, <5>2
        <5>3. CASE k \in 1..a /\ \E i \in 1..b : j = a + i
          BY <4>9, <4>10, <5>3
        <5>4. CASE (\E i \in 1..b : j = a + i) /\ \E i \in 1..b : k = a + i
          <6>1. PICK i \in 1..b : j = a + i
            BY <5>4
          <6>2. PICK l \in 1..b : k = a + l
            BY <5>4
          <6>3. t[i][1] = t[l][1]
            BY <4>5, <4>10, <6>1, <6>2
          <6>4. m \in DOMAIN ss /\ i \in DOMAIN ss[m] /\ l \in DOMAIN ss[m] /\ ss[m][i][1] = ss[m][l][1]
            BY <1>0, <4>3, <6>3 DEF t
          <6>5. i = l
            BY <6>4 DEF Keyed
          <6> QED
            BY <6>1, <6>2, <6>5
        <5> QED
          BY <4>5, <4>6, <5>1, <5>2, <5>3, <5>4
      <4>11. Collects(ss, rt, m)
        BY <4>7, <4>8, <4>10 DEF Collects
      <4>12. f[m] \in Seq(S) /\ Collects(ss, f[m], m)
        <5>1. f[m] = rt
          BY <4>1 DEF rt
        <5> QED
          BY <4>5, <4>11, <5>1
      <4>13. m \in 0..n
        BY <1>0
      <4> QED
        BY <4>12, <4>13
    <3> QED
      BY <3>1, <3>2
  <2>5. n \in T
    <3>1. 0..n \subseteq T
      <4> HIDE DEF T
      <4> QED
        BY <1>0, <2>3, <2>4, UpTo
    <3> QED
      BY <1>0, <3>1
  <2> QED
    BY <1>2, <2>1, <2>5
<1> QED
  BY <1>1, <1>2

-----------------------------------------------------------------------------
(* A matrix built at once.                                                 *)

\* The zero vector is left out under cosine.
Omitted(mt, row) == mt = "cosine" /\ row[2] = 0

RowsMatrix(mt, rows) ==
    [metric |-> mt,
     ids  |-> [i \in DOMAIN rows |-> rows[i][1]],
     data |-> [i \in DOMAIN rows |-> rows[i][2]],
     pos  |-> [x \in {rows[i][1] : i \in DOMAIN rows} |-> CHOOSE i \in DOMAIN rows : rows[i][1] = x]]

\* No two rows have the same id.
OneEach(rows) == \A j, k \in DOMAIN rows : rows[j][1] = rows[k][1] => j = k

\* m maps the ids of the rows, and no others, to their vectors.
MapsRows(m, mt, rows) ==
    /\ IsMatrix(m) /\ m.metric = mt
    /\ DOMAIN Contents(m) = {rows[i][1] : i \in DOMAIN rows}
    /\ \A i \in DOMAIN rows : Contents(m)[rows[i][1]] = rows[i][2]

\* A function on the numbers up to n is a sequence.
LEMMA NumberedIsSeq ==
    ASSUME NEW n \in Nat, NEW S, NEW f, f = [i \in 1..n |-> f[i]], \A i \in 1..n : f[i] \in S
    PROVE  f \in Seq(S) /\ Len(f) = n /\ DOMAIN f = 1..n
  OBVIOUS

\* Rows of different ids, numbered as they come, are a matrix.
LEMMA RowsAreMap ==
    ASSUME NEW S, NEW rows \in Seq(S \X Int), NEW mt, NEW m,
           OneEach(rows), m = RowsMatrix(mt, rows)
    PROVE  MapsRows(m, mt, rows)
<1> DEFINE n == Len(rows)
           key == [i \in DOMAIN rows |-> rows[i][1]]
           val == [i \in DOMAIN rows |-> rows[i][2]]
           at == [x \in {rows[i][1] : i \in DOMAIN rows} |-> CHOOSE i \in DOMAIN rows : rows[i][1] = x]
<1>1. n \in Nat /\ DOMAIN rows = 1..n
  OBVIOUS
<1>2. \A i \in 1..n : rows[i] \in S \X Int
  BY <1>1
<1>3. \A i \in 1..n : rows[i][2] \in Int
  BY <1>2
<1>4. val = [i \in 1..n |-> val[i]] /\ \A i \in 1..n : val[i] = rows[i][2] /\ val[i] \in Int
  BY <1>1, <1>3
<1>5. key = [i \in 1..n |-> key[i]] /\ \A i \in 1..n : key[i] = rows[i][1]
  BY <1>1
<1>6. DOMAIN at = {rows[i][1] : i \in DOMAIN rows} /\ at = [x \in DOMAIN at |-> at[x]]
  OBVIOUS
<1>7. ASSUME NEW i \in 1..n PROVE key[i] \in DOMAIN at /\ at[key[i]] = i
  <2>1. rows[i][1] \in DOMAIN at /\ key[i] = rows[i][1]
    BY <1>1
  <2>2. at[rows[i][1]] = CHOOSE j \in DOMAIN rows : rows[j][1] = rows[i][1]
    BY <2>1
  <2>3. (CHOOSE j \in DOMAIN rows : rows[j][1] = rows[i][1]) \in DOMAIN rows
        /\ rows[CHOOSE j \in DOMAIN rows : rows[j][1] = rows[i][1]][1] = rows[i][1]
    BY <1>1, Zenon
  <2>4. (CHOOSE j \in DOMAIN rows : rows[j][1] = rows[i][1]) = i
    BY <1>1, <2>3, Zenon DEF OneEach
  <2> QED
    BY <2>1, <2>2, <2>4
<1>8. ASSUME NEW x \in DOMAIN at PROVE at[x] \in 1..n /\ key[at[x]] = x
  <2>1. PICK i \in 1..n : x = rows[i][1]
    BY <1>1
  <2>2. key[i] = x
    BY <1>5, <2>1
  <2> QED
    BY <1>7, <2>2
<1>9. m = [metric |-> mt, ids |-> key, data |-> val, pos |-> at]
  BY DEF RowsMatrix
<1> HIDE DEF n, key, val, at
<1>10. m.metric = mt /\ m.ids = key /\ m.data = val /\ m.pos = at /\ m = [x \in {"metric", "ids", "data", "pos"} |-> m[x]]
  BY <1>9
<1>11. key \in Seq(DOMAIN at) /\ Len(key) = n /\ DOMAIN key = 1..n
  <2>1. \A i \in 1..n : key[i] \in DOMAIN at
    BY <1>7
  <2>2. key = [i \in 1..n |-> key[i]]
    BY <1>5
  <2> QED
    BY <1>1, <2>1, <2>2, NumberedIsSeq
<1>12. val \in Seq(Int) /\ Len(val) = n
  <2>1. \A i \in 1..n : val[i] \in Int
    BY <1>4
  <2>2. val = [i \in 1..n |-> val[i]]
    BY <1>4
  <2> QED
    BY <1>1, <2>1, <2>2, NumberedIsSeq
<1>13. WellFormed(m)
  BY <1>7, <1>8, <1>10, <1>11, <1>12 DEF WellFormed
<1>14. IsMatrix(m)
  BY <1>6, <1>10, <1>13 DEF IsMatrix
<1>15. DOMAIN Contents(m) = DOMAIN at /\ \A x \in DOMAIN at : Contents(m)[x] = val[at[x]]
  BY <1>10 DEF Contents
<1>16. \A i \in 1..n : Contents(m)[rows[i][1]] = rows[i][2]
  <2>1. \A i \in 1..n : Contents(m)[key[i]] = val[i]
    BY <1>7, <1>15
  <2> QED
    BY <1>4, <1>5, <2>1
<1> QED
  BY <1>1, <1>6, <1>10, <1>14, <1>15, <1>16 DEF MapsRows

\* m maps the ids of the rows that are not omitted, and no others, to their vectors.
MapsKept(m, mt, rows) ==
    /\ IsMatrix(m) /\ m.metric = mt
    /\ DOMAIN Contents(m) = {rows[i][1] : i \in {j \in DOMAIN rows : ~Omitted(mt, rows[j])}}
    /\ \A i \in DOMAIN rows : ~Omitted(mt, rows[i]) => Contents(m)[rows[i][1]] = rows[i][2]

\* Builder.Matrix keeps the rows that have a direction.
LEMMA BuiltIsMap ==
    ASSUME NEW S, NEW rows \in Seq(S \X Int), NEW mt, OneEach(rows)
    PROVE  MapsKept(BuilderMatrix(mt, rows), mt, rows)
<1> DEFINE n == Len(rows)
           T == S \X Int
           piece == [i \in DOMAIN rows |-> IF Omitted(mt, rows[i]) THEN <<>> ELSE <<rows[i]>>]
           kept == FlattenSeq(piece)
           m == BuilderMatrix(mt, rows)
<1>1. n \in Nat /\ DOMAIN rows = 1..n /\ \A i \in 1..n : rows[i] \in T
  OBVIOUS
<1> HIDE DEF n, T
<1>2. /\ piece \in Seq(Seq(T)) /\ Len(piece) = n /\ DOMAIN piece = 1..n
      /\ \A i \in 1..n : piece[i] = IF Omitted(mt, rows[i]) THEN <<>> ELSE <<rows[i]>>
  <2>1. \A i \in 1..n : (IF Omitted(mt, rows[i]) THEN <<>> ELSE <<rows[i]>>) \in Seq(T)
    BY <1>1
  <2>2. piece = [i \in 1..n |-> piece[i]] /\ \A i \in 1..n : piece[i] = IF Omitted(mt, rows[i]) THEN <<>> ELSE <<rows[i]>>
    BY <1>1
  <2> HIDE DEF piece
  <2>3. \A i \in 1..n : piece[i] \in Seq(T)
    BY <2>1, <2>2
  <2>4. piece = [i \in 1..n |-> piece[i]]
    BY <2>2
  <2>5. n \in Nat
    BY <1>1
  <2> DEFINE Q == Seq(T)
  <2> HIDE DEF Q
  <2>6. \A i \in 1..n : piece[i] \in Q
    BY <2>3 DEF Q
  <2>7. piece \in Seq(Q) /\ Len(piece) = n /\ DOMAIN piece = 1..n
    BY <2>4, <2>5, <2>6, NumberedIsSeq
  <2> QED
    BY <2>2, <2>7 DEF Q
<1> HIDE DEF piece, kept, m
<1>3. \A i \in 1..n : \A j \in DOMAIN piece[i] : ~Omitted(mt, rows[i]) /\ j = 1 /\ piece[i][j] = rows[i]
  <2> SUFFICES ASSUME NEW i \in 1..n, NEW j \in DOMAIN piece[i]
               PROVE  ~Omitted(mt, rows[i]) /\ j = 1 /\ piece[i][j] = rows[i]
    OBVIOUS
  <2>1. CASE Omitted(mt, rows[i])
    <3>1. piece[i] = <<>>
      BY <1>2, <2>1
    <3> QED
      BY <3>1
  <2>2. CASE ~Omitted(mt, rows[i])
    <3>1. piece[i] = <<rows[i]>>
      BY <1>2, <2>2
    <3> QED
      BY <2>2, <3>1
  <2> QED
    BY <2>1, <2>2
<1>4. \A i \in 1..n : ~Omitted(mt, rows[i]) => 1 \in DOMAIN piece[i] /\ piece[i][1] = rows[i]
  <2> SUFFICES ASSUME NEW i \in 1..n, ~Omitted(mt, rows[i])
               PROVE  1 \in DOMAIN piece[i] /\ piece[i][1] = rows[i]
    OBVIOUS
  <2>1. piece[i] = <<rows[i]>>
    BY <1>2
  <2> QED
    BY <2>1
<1>5. Keyed(piece)
  <2> SUFFICES ASSUME NEW p \in 1..n, NEW q \in 1..n, NEW i \in DOMAIN piece[p], NEW j \in DOMAIN piece[q],
                      piece[p][i][1] = piece[q][j][1]
               PROVE  p = q /\ i = j
    BY <1>2 DEF Keyed
  <2>1. i = 1 /\ j = 1 /\ piece[p][i] = rows[p] /\ piece[q][j] = rows[q]
    BY <1>3
  <2>2. rows[p][1] = rows[q][1]
    BY <2>1
  <2> QED
    BY <1>1, <2>1, <2>2 DEF OneEach
<1>6. kept \in Seq(T) /\ Collects(piece, kept, n)
  BY <1>2, <1>5, Collected DEF kept
<1>7. kept \in Seq(S \X Int) /\ OneEach(kept)
  BY <1>6 DEF Collects, OneEach, T
<1>8. m = RowsMatrix(mt, kept)
  BY Zenon DEF m, BuilderMatrix, kept, piece, Omitted, RowsMatrix
<1>9. /\ IsMatrix(m) /\ m.metric = mt
      /\ DOMAIN Contents(m) = {kept[i][1] : i \in DOMAIN kept}
      /\ \A i \in DOMAIN kept : Contents(m)[kept[i][1]] = kept[i][2]
  <2>1. MapsRows(m, mt, kept)
    BY <1>7, <1>8, RowsAreMap
  <2> QED
    BY <2>1 DEF MapsRows
<1>10. \A j \in DOMAIN kept : \E i \in 1..n : ~Omitted(mt, rows[i]) /\ kept[j] = rows[i]
  <2> SUFFICES ASSUME NEW j \in DOMAIN kept PROVE \E i \in 1..n : ~Omitted(mt, rows[i]) /\ kept[j] = rows[i]
    OBVIOUS
  <2>1. PICK i \in 1..n : \E l \in DOMAIN piece[i] : kept[j] = piece[i][l]
    BY <1>6 DEF Collects
  <2> QED
    BY <1>3, <2>1
<1>11. \A i \in 1..n : ~Omitted(mt, rows[i]) => \E j \in DOMAIN kept : kept[j] = rows[i]
  <2> SUFFICES ASSUME NEW i \in 1..n, ~Omitted(mt, rows[i]) PROVE \E j \in DOMAIN kept : kept[j] = rows[i]
    OBVIOUS
  <2>1. 1 \in DOMAIN piece[i] /\ piece[i][1] = rows[i]
    BY <1>4
  <2>2. \A l \in DOMAIN piece[i] : \E j \in DOMAIN kept : kept[j] = piece[i][l]
    BY <1>6 DEF Collects
  <2>3. PICK j \in DOMAIN kept : kept[j] = piece[i][1]
    BY <2>1, <2>2
  <2> QED
    BY <2>1, <2>3
<1>12. {kept[i][1] : i \in DOMAIN kept} = {rows[i][1] : i \in {j \in DOMAIN rows : ~Omitted(mt, rows[j])}}
  <2> DEFINE K == {kept[i][1] : i \in DOMAIN kept}
             R == {rows[i][1] : i \in {j \in DOMAIN rows : ~Omitted(mt, rows[j])}}
  <2>1. ASSUME NEW x \in K PROVE x \in R
    <3>1. PICK j \in DOMAIN kept : x = kept[j][1]
      OBVIOUS
    <3>2. PICK i \in 1..n : ~Omitted(mt, rows[i]) /\ kept[j] = rows[i]
      BY <1>10
    <3>3. i \in {l \in DOMAIN rows : ~Omitted(mt, rows[l])} /\ x = rows[i][1]
      BY <1>1, <3>1, <3>2
    <3> QED
      BY <3>3
  <2>2. ASSUME NEW x \in R PROVE x \in K
    <3>1. PICK i \in DOMAIN rows : ~Omitted(mt, rows[i]) /\ x = rows[i][1]
      OBVIOUS
    <3>2. PICK j \in DOMAIN kept : kept[j] = rows[i]
      BY <1>1, <1>11, <3>1
    <3> QED
      BY <3>1, <3>2
  <2> QED
    BY <2>1, <2>2
<1>13. ASSUME NEW i \in DOMAIN rows, ~Omitted(mt, rows[i]) PROVE Contents(m)[rows[i][1]] = rows[i][2]
  <2>1. PICK j \in DOMAIN kept : kept[j] = rows[i]
    BY <1>1, <1>11, <1>13
  <2>2. Contents(m)[kept[j][1]] = kept[j][2]
    BY <1>9
  <2> QED
    BY <2>1, <2>2
<1> QED
  <2>1. MapsKept(m, mt, rows)
    BY <1>9, <1>12, <1>13 DEF MapsKept
  <2> QED
    BY <2>1 DEF m

-----------------------------------------------------------------------------
(* Where a build has the rows of an index.  Each node is in one place: not *)
(* fetched, in the current batch, in a batch that waits, in one a worker   *)
(* parses, in the builder of a worker, or gone.  The invariant says that   *)
(* such a placing exists (kind, num, idx), so no row is lost or doubled.   *)

Places == {"left", "cur", "queue", "busy", "built", "gone"}
Batches == Seq(NodeIds)
Builders == Seq(NodeIds \X Int)

\* The nodes in batch c have the kind "cur".
CurAt(kind, idx, c) ==
    \A id \in NodeIds, i \in Nat : kind[id] = "cur" /\ idx[id] = i <=> i \in DOMAIN c /\ c[i] = id

\* The nodes in the batches f have the kind place.
Lies(place, kind, num, idx, f) ==
    \A id \in NodeIds, n \in Nat, i \in Nat :
        kind[id] = place /\ num[id] = n /\ idx[id] = i <=> n \in DOMAIN f /\ i \in DOMAIN f[n] /\ f[n][i] = id

BuiltAt(kind, num, idx, b) ==
    \A id \in NodeIds, n \in Nat, i \in Nat :
        kind[id] = "built" /\ num[id] = n /\ idx[id] = i <=> n \in Crew /\ i \in DOMAIN b[n] /\ b[n][i][1] = id

LeftAt(kind, l) == \A id \in NodeIds : kind[id] = "left" <=> id \in l

\* Only a node without a vector is gone, unless the build fails.
GoneAt(kind, s, p) == \A id \in NodeIds : kind[id] = "gone" => s[id] = NoVector \/ p = "failing"

Somewhere(kind, num, idx) == kind \in [NodeIds -> Places] /\ num \in [NodeIds -> Nat] /\ idx \in [NodeIds -> Nat]

Placed(kind, num, idx) ==
    /\ Somewhere(kind, num, idx)
    /\ LeftAt(kind, left)
    /\ CurAt(kind, idx, cur)
    /\ Lies("queue", kind, num, idx, queue)
    /\ Lies("busy", kind, num, idx, busy)
    /\ BuiltAt(kind, num, idx, built)
    /\ GoneAt(kind, stored, phase)

\* Builders have vectors that are stored.
RowsTrue(b) ==
    \A n \in Crew : \A i \in DOMAIN b[n] :
        b[n][i] = <<b[n][i][1], stored[b[n][i][1]]>> /\ stored[b[n][i][1]] # NoVector

Typed ==
    /\ phase \in {"none", "fetching", "draining", "failing", "serial", "ready"}
    /\ metric \in {"cosine", "euclidean"}
    /\ stored \in [NodeIds -> Vectors \cup {NoVector}]
    /\ left \subseteq NodeIds /\ cur \in Batches /\ queue \in Seq(Batches)
    /\ busy \in [Crew -> Batches] /\ built \in [Crew -> Builders]

Stopped ==
    /\ phase \in {"none", "serial", "ready"} => cur = <<>> /\ queue = <<>> /\ busy = Idle /\ built = Idle
    /\ phase \in {"none", "draining", "failing", "ready"} => left = {}
    /\ phase \in {"draining", "failing"} => cur = <<>>

Building == phase \in {"fetching", "draining", "failing"}
Shared == Building => RowsTrue(built) /\ \E kind, num, idx : Placed(kind, num, idx)

\* What a matrix has of the nodes that are added.
Added(mt, s, l) ==
    [id \in {x \in NodeIds \ l : s[x] # NoVector /\ ~(mt = "cosine" /\ s[x] = 0)} |-> s[id]]

Mapped ==
    /\ phase \in {"serial", "ready"} => IsMatrix(matrix) /\ matrix.metric = metric
    /\ phase = "serial" => Contents(matrix) = Added(metric, stored, left)
    /\ phase = "ready" => Contents(matrix) = held

BuildInv == Typed /\ Stopped /\ Shared /\ Mapped

\* The nodes at one place stay where they are.
SameAt(place, kind, num, idx, k, n, x) ==
    \A id \in NodeIds : /\ k[id] = place <=> kind[id] = place
                        /\ kind[id] = place => n[id] = num[id] /\ x[id] = idx[id]

LEMMA LiesStays ==
    ASSUME NEW place, NEW kind, NEW num, NEW idx, NEW k, NEW n, NEW x, NEW f, NEW g,
           Lies(place, kind, num, idx, f), SameAt(place, kind, num, idx, k, n, x), g = f
    PROVE  Lies(place, k, n, x, g)
  BY DEF Lies, SameAt

LEMMA BuiltStays ==
    ASSUME NEW kind, NEW num, NEW idx, NEW k, NEW n, NEW x, NEW b, NEW c,
           BuiltAt(kind, num, idx, b), SameAt("built", kind, num, idx, k, n, x), c = b
    PROVE  BuiltAt(k, n, x, c)
  BY DEF BuiltAt, SameAt

LEMMA CurStays ==
    ASSUME NEW kind, NEW num, NEW idx, NEW k, NEW n, NEW x, NEW b, NEW c,
           CurAt(kind, idx, b), SameAt("cur", kind, num, idx, k, n, x), c = b
    PROVE  CurAt(k, x, c)
  BY DEF CurAt, SameAt

LEMMA IdleTyped == Idle \in [Crew -> Batches] /\ Idle \in [Crew -> Builders]
  BY DEF Idle, Batches, Builders

LEMMA InitBuild == MatrixInit => BuildInv
<1> SUFFICES ASSUME MatrixInit PROVE BuildInv
  OBVIOUS
<1>1. stored \in [NodeIds -> Vectors \cup {NoVector}]
  BY DEF MatrixInit, Blank
<1>2. cur \in Batches /\ queue \in Seq(Batches) /\ busy \in [Crew -> Batches] /\ built \in [Crew -> Builders]
  BY IdleTyped DEF MatrixInit, Batches
<1>3. Typed
  BY <1>1, <1>2 DEF MatrixInit, Typed
<1>4. Stopped
  BY DEF MatrixInit, Stopped
<1>5. Shared /\ Mapped
  BY DEF MatrixInit, Shared, Building, Mapped
<1> QED
  BY <1>3, <1>4, <1>5 DEF BuildInv

\* Every node is still to be fetched, or added.
LEMMA BeginKeeps ==
    ASSUME BuildInv, NEW plan \in {"fetching", "serial"}, Begin(plan)
    PROVE  BuildInv'
<1> USE DEF BuildInv
<1>1. phase = "none" /\ phase' = plan /\ left' = NodeIds /\ matrix' = NewMatrix(metric')
  BY DEF Begin
<1>2. cur' = <<>> /\ queue' = <<>> /\ busy' = Idle /\ built' = Idle
  BY <1>1 DEF Begin, Stopped
<1>3. Typed'
  <2>1. cur' \in Batches /\ queue' \in Seq(Batches) /\ busy' \in [Crew -> Batches] /\ built' \in [Crew -> Builders]
    BY <1>2, IdleTyped DEF Batches
  <2> QED
    BY <1>1, <2>1 DEF Begin, Typed
<1>4. Stopped'
  BY <1>1, <1>2 DEF Stopped
<1>5. Shared'
  <2> DEFINE kind == [id \in NodeIds |-> "left"]
             num == [id \in NodeIds |-> 0]
  <2>1. kind \in [NodeIds -> Places] /\ num \in [NodeIds -> Nat] /\ \A id \in NodeIds : kind[id] = "left"
    BY DEF Places
  <2> HIDE DEF kind, num
  <2>2. \A n \in Crew : busy'[n] = <<>> /\ built'[n] = <<>>
    BY <1>2 DEF Idle
  <2>3. CurAt(kind, num, cur') /\ Lies("queue", kind, num, num, queue')
    BY <1>2, <2>1 DEF CurAt, Lies
  <2>4. Lies("busy", kind, num, num, busy')
    <3>1. DOMAIN busy' = Crew
      BY <1>2 DEF Idle
    <3> QED
      BY <2>1, <2>2, <3>1 DEF Lies
  <2>5. BuiltAt(kind, num, num, built')
    BY <2>1, <2>2 DEF BuiltAt
  <2>6. Somewhere(kind, num, num) /\ LeftAt(kind, left') /\ GoneAt(kind, stored', phase')
    BY <1>1, <2>1 DEF Somewhere, LeftAt, GoneAt
  <2>8. Placed(kind, num, num)'
    BY <2>3, <2>4, <2>5, <2>6 DEF Placed
  <2>7. RowsTrue(built)'
    BY <2>2 DEF RowsTrue
  <2> QED
    BY <2>7, <2>8 DEF Shared
<1>6. Mapped'
  <2>1. IsMatrix(matrix') /\ DOMAIN Contents(matrix') = {}
    BY <1>1, NewIsMap
  <2>2. matrix'.metric = metric'
    BY <1>1 DEF NewMatrix
  <2>3. Contents(matrix') = Added(metric', stored', left')
    <3>1. {x \in NodeIds \ NodeIds : stored'[x] # NoVector /\ ~(metric' = "cosine" /\ stored'[x] = 0)} = {}
      OBVIOUS
    <3>2. DOMAIN Added(metric', stored', left') = {}
      BY <1>1, <3>1 DEF Added
    <3> QED
      BY <2>1, <3>2 DEF Added, Contents
  <2> QED
    BY <1>1, <2>1, <2>2, <2>3 DEF Mapped
<1> QED
  BY <1>3, <1>4, <1>5, <1>6

\* What a step that leaves the matrix alone has to keep.
LEMMA MatrixAlone ==
    ASSUME Building, phase' \in {"fetching", "draining", "failing", "none"}
    PROVE  Mapped'
  BY DEF Mapped

LEMMA FetchKeeps ==
    ASSUME BuildInv, Fetch
    PROVE  BuildInv'
<1> USE DEF BuildInv
<1>1. Building /\ phase' = "fetching" /\ phase = "fetching"
  BY DEF Fetch, Building
<1>2. PICK id \in left : left' = left \ {id} /\ cur' = Append(cur, id)
  BY DEF Fetch
<1>3. PICK kind, num, idx : Placed(kind, num, idx)
  BY <1>1 DEF Shared
<1> DEFINE k == [kind EXCEPT ![id] = "cur"]
<1>4. id \in NodeIds /\ kind[id] = "left" /\ cur \in Seq(NodeIds)
  BY <1>2, <1>3 DEF Typed, Placed, LeftAt, Batches
<1>5. /\ Somewhere(kind, num, idx) /\ LeftAt(kind, left) /\ GoneAt(kind, stored, phase)
      /\ CurAt(kind, idx, cur) /\ Lies("queue", kind, num, idx, queue) /\ Lies("busy", kind, num, idx, busy)
      /\ BuiltAt(kind, num, idx, built)
  BY <1>3 DEF Placed
<1>6. k \in [NodeIds -> Places] /\ k[id] = "cur" /\ \A y \in NodeIds : y # id => k[y] = kind[y]
  BY <1>4, <1>5 DEF Places, Somewhere
<1>7. PICK x \in [NodeIds -> Nat] : x[id] = Len(cur) + 1 /\ \A y \in NodeIds : y # id => x[y] = idx[y]
  <2> DEFINE w == [idx EXCEPT ![id] = Len(cur) + 1]
  <2>1. w \in [NodeIds -> Nat] /\ w[id] = Len(cur) + 1 /\ \A y \in NodeIds : y # id => w[y] = idx[y]
    BY <1>4, <1>5 DEF Somewhere
  <2> QED
    BY <2>1
<1> HIDE DEF k
<1>8. UNCHANGED <<metric, stored, queue, busy, built>>
  BY DEF Fetch
<1>9. CurAt(k, x, cur')
  <2> SUFFICES ASSUME NEW y \in NodeIds, NEW i \in Nat
               PROVE  k[y] = "cur" /\ x[y] = i <=> i \in DOMAIN cur' /\ cur'[i] = y
    BY DEF CurAt
  <2>1. /\ DOMAIN cur = 1..Len(cur) /\ Len(cur) \in Nat /\ DOMAIN cur' = 1..(Len(cur) + 1)
        /\ cur'[Len(cur) + 1] = id /\ \A j \in DOMAIN cur : cur'[j] = cur[j]
    BY <1>2, <1>4
  <2>2. kind[y] = "cur" /\ idx[y] = i <=> i \in DOMAIN cur /\ cur[i] = y
    BY <1>5 DEF CurAt
  <2>3. i \in DOMAIN cur' <=> i \in DOMAIN cur \/ i = Len(cur) + 1
    BY <2>1
  <2>4. ~(Len(cur) + 1 \in DOMAIN cur)
    BY <2>1
  <2>5. CASE y = id
    BY <1>4, <1>6, <1>7, <2>1, <2>2, <2>3, <2>4, <2>5
  <2>6. CASE y # id
    BY <1>6, <1>7, <2>1, <2>2, <2>3, <2>4, <2>6
  <2> QED
    BY <2>5, <2>6
<1>10. ASSUME NEW place \in {"queue", "busy", "built"} PROVE SameAt(place, kind, num, idx, k, num, x)
  <2>1. place # "left" /\ place # "cur"
    OBVIOUS
  <2> QED
    BY <1>4, <1>6, <1>7, <2>1 DEF SameAt
<1>11. Lies("queue", k, num, x, queue')
  BY <1>5, <1>8, <1>10, LiesStays
<1>12. Lies("busy", k, num, x, busy')
  BY <1>5, <1>8, <1>10, LiesStays
<1>13. BuiltAt(k, num, x, built')
  BY <1>5, <1>8, <1>10, BuiltStays
<1>14. LeftAt(k, left') /\ GoneAt(k, stored', phase')
  BY <1>1, <1>2, <1>4, <1>5, <1>6, <1>8 DEF LeftAt, GoneAt
<1>15. Placed(k, num, x)'
  <2>1. Somewhere(k, num, x)
    BY <1>5, <1>6, <1>7 DEF Somewhere
  <2> QED
    BY <1>9, <1>11, <1>12, <1>13, <1>14, <2>1 DEF Placed
<1>16. Shared'
  BY <1>1, <1>8, <1>15 DEF Shared, RowsTrue
<1>17. Typed'
  <2>1. cur' \in Batches /\ left' \subseteq NodeIds
    BY <1>2, <1>4 DEF Typed, Batches
  <2> QED
    BY <1>1, <1>8, <2>1 DEF Typed
<1>18. Stopped'
  BY <1>1 DEF Stopped
<1> QED
  BY <1>1, <1>16, <1>17, <1>18, MatrixAlone

LEMMA SendKeeps ==
    ASSUME BuildInv, Send
    PROVE  BuildInv'
<1> USE DEF BuildInv
<1>1. /\ Building /\ phase' = "fetching" /\ phase = "fetching"
      /\ queue' = Append(queue, cur) /\ cur' = <<>>
      /\ UNCHANGED <<metric, stored, left, busy, built>>
  BY DEF Send, Building
<1>2. PICK kind, num, idx : Placed(kind, num, idx)
  BY <1>1 DEF Shared
<1> DEFINE m == Len(queue) + 1
           k == [y \in NodeIds |-> IF kind[y] = "cur" THEN "queue" ELSE kind[y]]
<1>3. /\ Somewhere(kind, num, idx) /\ LeftAt(kind, left) /\ GoneAt(kind, stored, phase)
      /\ CurAt(kind, idx, cur) /\ Lies("queue", kind, num, idx, queue) /\ Lies("busy", kind, num, idx, busy)
      /\ BuiltAt(kind, num, idx, built)
  BY <1>2 DEF Placed
<1>4. queue \in Seq(Batches) /\ cur \in Batches
  BY DEF Typed
<1>5. /\ m \in Nat /\ DOMAIN queue' = DOMAIN queue \cup {m} /\ m \notin DOMAIN queue /\ DOMAIN queue \subseteq Nat
      /\ queue'[m] = cur /\ \A j \in DOMAIN queue : queue'[j] = queue[j]
  <2>1. /\ Len(queue) \in Nat /\ DOMAIN queue = 1..Len(queue) /\ DOMAIN queue' = 1..(Len(queue) + 1)
        /\ queue'[Len(queue) + 1] = cur /\ \A j \in DOMAIN queue : queue'[j] = queue[j]
    BY <1>1, <1>4
  <2> QED
    BY <2>1
<1> HIDE DEF m
<1>6. k \in [NodeIds -> Places] /\ \A y \in NodeIds : k[y] = IF kind[y] = "cur" THEN "queue" ELSE kind[y]
  BY <1>3 DEF Places, Somewhere
<1>7. PICK n \in [NodeIds -> Nat] : \A y \in NodeIds : n[y] = IF kind[y] = "cur" THEN m ELSE num[y]
  <2> DEFINE w == [y \in NodeIds |-> IF kind[y] = "cur" THEN m ELSE num[y]]
  <2>1. w \in [NodeIds -> Nat] /\ \A y \in NodeIds : w[y] = IF kind[y] = "cur" THEN m ELSE num[y]
    BY <1>3, <1>5 DEF Somewhere
  <2> QED
    BY <2>1
<1> HIDE DEF k
<1>8. CurAt(k, idx, cur')
  BY <1>1, <1>6 DEF CurAt
<1>9. Lies("queue", k, n, idx, queue')
  <2> SUFFICES ASSUME NEW y \in NodeIds, NEW p \in Nat, NEW i \in Nat
               PROVE  k[y] = "queue" /\ n[y] = p /\ idx[y] = i
                          <=> p \in DOMAIN queue' /\ i \in DOMAIN queue'[p] /\ queue'[p][i] = y
    BY DEF Lies
  <2>1. kind[y] = "cur" /\ idx[y] = i <=> i \in DOMAIN cur /\ cur[i] = y
    BY <1>3 DEF CurAt
  <2>2. kind[y] = "queue" /\ num[y] = p /\ idx[y] = i
            <=> p \in DOMAIN queue /\ i \in DOMAIN queue[p] /\ queue[p][i] = y
    BY <1>3 DEF Lies
  <2>3. CASE p = m
    BY <1>5, <1>6, <1>7, <2>1, <2>2, <2>3
  <2>4. CASE p # m
    BY <1>5, <1>6, <1>7, <2>1, <2>2, <2>4
  <2> QED
    BY <2>3, <2>4
<1>10. ASSUME NEW place \in {"busy", "built"} PROVE SameAt(place, kind, num, idx, k, n, idx)
  <2>1. place # "queue" /\ place # "cur"
    OBVIOUS
  <2> QED
    BY <1>6, <1>7, <2>1 DEF SameAt
<1>11. Lies("busy", k, n, idx, busy') /\ BuiltAt(k, n, idx, built')
  <2>1. Lies("busy", k, n, idx, busy')
    BY <1>1, <1>3, <1>10, LiesStays
  <2>2. BuiltAt(k, n, idx, built')
    BY <1>1, <1>3, <1>10, BuiltStays
  <2> QED
    BY <2>1, <2>2
<1>12. LeftAt(k, left') /\ GoneAt(k, stored', phase')
  BY <1>1, <1>3, <1>6 DEF LeftAt, GoneAt
<1>13. Placed(k, n, idx)'
  <2>1. Somewhere(k, n, idx)
    BY <1>3, <1>6, <1>7 DEF Somewhere
  <2> QED
    BY <1>8, <1>9, <1>11, <1>12, <2>1 DEF Placed
<1>14. Shared'
  BY <1>1, <1>13 DEF Shared, RowsTrue
<1>15. Typed'
  <2>1. cur' \in Batches /\ queue' \in Seq(Batches)
    <3>1. <<>> \in Batches
      BY DEF Batches
    <3> QED
      BY <1>1, <1>4, <3>1
  <2> QED
    BY <1>1, <2>1 DEF Typed
<1>16. Stopped'
  BY <1>1 DEF Stopped
<1> QED
  BY <1>1, <1>14, <1>15, <1>16, MatrixAlone

LEMMA CloseKeeps ==
    ASSUME BuildInv, Close
    PROVE  BuildInv'
<1> USE DEF BuildInv
<1>1. /\ Building /\ phase' = "draining" /\ phase = "fetching" /\ left = {} /\ cur = <<>>
      /\ UNCHANGED <<metric, stored, left, cur, queue, busy, built>>
  BY DEF Close, Building, scan
<1>2. PICK kind, num, idx : Placed(kind, num, idx)
  BY <1>1 DEF Shared
<1>3. Placed(kind, num, idx)'
  <2>1. GoneAt(kind, stored', phase')
    BY <1>1, <1>2 DEF Placed, GoneAt
  <2> QED
    BY <1>1, <1>2, <2>1 DEF Placed
<1>4. Shared'
  BY <1>1, <1>3 DEF Shared, RowsTrue
<1>5. Typed' /\ Stopped'
  BY <1>1 DEF Typed, Stopped
<1> QED
  BY <1>1, <1>4, <1>5, MatrixAlone

LEMMA AbandonKeeps ==
    ASSUME BuildInv, Abandon
    PROVE  BuildInv'
<1> USE DEF BuildInv
<1>1. /\ Building /\ phase' = "failing" /\ phase = "fetching" /\ left' = {} /\ cur' = <<>>
      /\ UNCHANGED <<metric, stored, queue, busy, built>>
  BY DEF Abandon, Building
<1>2. PICK kind, num, idx : Placed(kind, num, idx)
  BY <1>1 DEF Shared
<1> DEFINE k == [y \in NodeIds |-> IF kind[y] \in {"left", "cur"} THEN "gone" ELSE kind[y]]
<1>3. /\ Somewhere(kind, num, idx)
      /\ Lies("queue", kind, num, idx, queue) /\ Lies("busy", kind, num, idx, busy)
      /\ BuiltAt(kind, num, idx, built)
  BY <1>2 DEF Placed
<1>4. k \in [NodeIds -> Places] /\ \A y \in NodeIds : k[y] = IF kind[y] \in {"left", "cur"} THEN "gone" ELSE kind[y]
  BY <1>3 DEF Places, Somewhere
<1> HIDE DEF k
<1>5. CurAt(k, idx, cur') /\ LeftAt(k, left') /\ GoneAt(k, stored', phase')
  BY <1>1, <1>4 DEF CurAt, LeftAt, GoneAt
<1>6. ASSUME NEW place \in {"queue", "busy", "built"} PROVE SameAt(place, kind, num, idx, k, num, idx)
  <2>1. place # "left" /\ place # "cur" /\ place # "gone"
    OBVIOUS
  <2> QED
    BY <1>4, <2>1 DEF SameAt
<1>7. Lies("queue", k, num, idx, queue') /\ Lies("busy", k, num, idx, busy')
  <2>1. Lies("queue", k, num, idx, queue')
    BY <1>1, <1>3, <1>6, LiesStays
  <2>2. Lies("busy", k, num, idx, busy')
    BY <1>1, <1>3, <1>6, LiesStays
  <2> QED
    BY <2>1, <2>2
<1>8. BuiltAt(k, num, idx, built')
  BY <1>1, <1>3, <1>6, BuiltStays
<1>9. Placed(k, num, idx)'
  <2>1. Somewhere(k, num, idx)
    BY <1>3, <1>4 DEF Somewhere
  <2> QED
    BY <1>5, <1>7, <1>8, <2>1 DEF Placed
<1>10. Shared'
  BY <1>1, <1>9 DEF Shared, RowsTrue
<1>11. Typed'
  <2>1. cur' \in Batches
    BY <1>1 DEF Batches
  <2> QED
    BY <1>1, <2>1 DEF Typed
<1>12. Stopped'
  BY <1>1 DEF Stopped
<1> QED
  BY <1>1, <1>10, <1>11, <1>12, MatrixAlone

\* The first of some elements, and the others one place on.
LEMMA HeadAndTail ==
    ASSUME NEW S, NEW s \in Seq(S), s # <<>>
    PROVE  /\ Len(s) \in Nat \ {0} /\ DOMAIN s = 1..Len(s) /\ Head(s) = s[1] /\ s[1] \in S
           /\ Tail(s) \in Seq(S) /\ DOMAIN Tail(s) = 1..(Len(s) - 1)
           /\ \A i \in 1..(Len(s) - 1) : Tail(s)[i] = s[i + 1]
<1>1. Len(s) \in Nat \ {0} /\ DOMAIN s = 1..Len(s)
  OBVIOUS
<1>2. Head(s) = s[1] /\ s[1] \in S
  BY <1>1
<1>3. Tail(s) \in Seq(S) /\ Len(Tail(s)) = Len(s) - 1 /\ \A i \in 1..(Len(s) - 1) : Tail(s)[i] = s[i + 1]
  BY HeadTailProperties
<1>4. DOMAIN Tail(s) = 1..(Len(s) - 1)
  BY <1>3
<1> QED
  BY <1>1, <1>2, <1>3, <1>4

\* A worker takes the first batch, and those that wait move up.
LEMMA TakeKeeps ==
    ASSUME BuildInv, NEW w \in Crew, Take(w)
    PROVE  BuildInv'
<1> USE DEF BuildInv
<1>1. /\ busy[w] = <<>> /\ queue # <<>> /\ busy' = [busy EXCEPT ![w] = Head(queue)] /\ queue' = Tail(queue)
      /\ UNCHANGED <<phase, metric, stored, left, cur, built, matrix, held>>
  BY DEF Take
<1>2. Building
  BY <1>1 DEF Typed, Stopped, Building
<1>3. PICK kind, num, idx : Placed(kind, num, idx)
  BY <1>2 DEF Shared
<1>4. /\ Somewhere(kind, num, idx) /\ LeftAt(kind, left) /\ GoneAt(kind, stored, phase)
      /\ CurAt(kind, idx, cur) /\ Lies("queue", kind, num, idx, queue) /\ Lies("busy", kind, num, idx, busy)
      /\ BuiltAt(kind, num, idx, built)
  BY <1>3 DEF Placed
<1>5. queue \in Seq(Batches) /\ busy \in [Crew -> Batches] /\ Crew \subseteq Nat
  BY MatrixAssumption DEF Typed, Crew
<1>6. PICK m \in Nat \ {0} :
          /\ DOMAIN queue = 1..m /\ Head(queue) = queue[1] /\ queue[1] \in Batches
          /\ queue' \in Seq(Batches) /\ DOMAIN queue' = 1..(m - 1) /\ \A i \in 1..(m - 1) : queue'[i] = queue[i + 1]
  BY <1>1, <1>5, HeadAndTail
<1>7. /\ busy' \in [Crew -> Batches] /\ busy'[w] = queue[1] /\ DOMAIN busy = Crew /\ DOMAIN busy' = Crew
      /\ \A v \in Crew : v # w => busy'[v] = busy[v]
  BY <1>1, <1>5, <1>6
<1> DEFINE k == [y \in NodeIds |-> IF kind[y] = "queue" /\ num[y] = 1 THEN "busy" ELSE kind[y]]
           n == [y \in NodeIds |-> IF kind[y] = "queue" THEN (IF num[y] = 1 THEN w ELSE num[y] - 1) ELSE num[y]]
<1>8. k \in [NodeIds -> Places] /\ \A y \in NodeIds : k[y] = IF kind[y] = "queue" /\ num[y] = 1 THEN "busy" ELSE kind[y]
  BY <1>4 DEF Somewhere, Places
<1>9. ASSUME NEW y \in NodeIds, kind[y] = "queue" PROVE num[y] \in 1..m
  BY <1>4, <1>6, <1>9 DEF Somewhere, Lies
<1>10. /\ n \in [NodeIds -> Nat]
       /\ \A y \in NodeIds : n[y] = IF kind[y] = "queue" THEN (IF num[y] = 1 THEN w ELSE num[y] - 1) ELSE num[y]
  <2>1. \A y \in NodeIds : (IF kind[y] = "queue" THEN (IF num[y] = 1 THEN w ELSE num[y] - 1) ELSE num[y]) \in Nat
    BY <1>4, <1>5, <1>6, <1>9 DEF Somewhere
  <2> QED
    BY <2>1
<1> HIDE DEF k, n
<1>11. Lies("queue", k, n, idx, queue')
  <2> SUFFICES ASSUME NEW y \in NodeIds, NEW p \in Nat, NEW i \in Nat
               PROVE  k[y] = "queue" /\ n[y] = p /\ idx[y] = i
                          <=> p \in DOMAIN queue' /\ i \in DOMAIN queue'[p] /\ queue'[p][i] = y
    BY DEF Lies
  <2>1. p + 1 \in Nat
    OBVIOUS
  <2>2. kind[y] = "queue" /\ num[y] = p + 1 /\ idx[y] = i
            <=> p + 1 \in DOMAIN queue /\ i \in DOMAIN queue[p + 1] /\ queue[p + 1][i] = y
    BY <1>4, <2>1 DEF Lies
  <2>3. p \in DOMAIN queue' <=> p + 1 \in DOMAIN queue /\ p # 0
    BY <1>6
  <2>4. p \in DOMAIN queue' => queue'[p] = queue[p + 1]
    BY <1>6
  <2>5. k[y] = "queue" /\ n[y] = p <=> kind[y] = "queue" /\ num[y] = p + 1 /\ p # 0
    <3>1. num[y] \in Nat
      BY <1>4 DEF Somewhere
    <3>2. CASE kind[y] = "queue"
      BY <1>8, <1>9, <1>10, <3>1, <3>2
    <3>3. CASE kind[y] # "queue"
      BY <1>8, <3>3
    <3> QED
      BY <3>2, <3>3
  <2> QED
    BY <2>2, <2>3, <2>4, <2>5
<1>12. Lies("busy", k, n, idx, busy')
  <2> SUFFICES ASSUME NEW y \in NodeIds, NEW p \in Nat, NEW i \in Nat
               PROVE  k[y] = "busy" /\ n[y] = p /\ idx[y] = i
                          <=> p \in DOMAIN busy' /\ i \in DOMAIN busy'[p] /\ busy'[p][i] = y
    BY DEF Lies
  <2>1. kind[y] = "busy" /\ num[y] = p /\ idx[y] = i
            <=> p \in DOMAIN busy /\ i \in DOMAIN busy[p] /\ busy[p][i] = y
    BY <1>4 DEF Lies
  <2>2. kind[y] = "queue" /\ num[y] = 1 /\ idx[y] = i
            <=> 1 \in DOMAIN queue /\ i \in DOMAIN queue[1] /\ queue[1][i] = y
    BY <1>4 DEF Lies
  <2>3. 1 \in DOMAIN queue
    BY <1>6
  <2>4. CASE p = w
    <3>1. DOMAIN busy[p] = {}
      BY <1>1, <2>4
    <3>2. ~(kind[y] = "busy" /\ num[y] = p /\ idx[y] = i)
      BY <2>1, <3>1
    <3>3. k[y] = "busy" /\ n[y] = p /\ idx[y] = i <=> kind[y] = "queue" /\ num[y] = 1 /\ idx[y] = i
      BY <1>8, <1>10, <2>4, <3>2
    <3> QED
      BY <1>7, <2>2, <2>3, <2>4, <3>3
  <2>5. CASE p # w
    <3>1. k[y] = "busy" /\ n[y] = p <=> kind[y] = "busy" /\ num[y] = p
      BY <1>8, <1>10, <2>5
    <3> QED
      BY <1>7, <2>1, <2>5, <3>1
  <2> QED
    BY <2>4, <2>5
<1>13. SameAt("cur", kind, num, idx, k, n, idx) /\ SameAt("built", kind, num, idx, k, n, idx)
  BY <1>8, <1>10 DEF SameAt
<1>14. CurAt(k, idx, cur')
  BY <1>1, <1>4, <1>13, CurStays
<1>15. BuiltAt(k, n, idx, built')
  BY <1>1, <1>4, <1>13, BuiltStays
<1>16. LeftAt(k, left') /\ GoneAt(k, stored', phase')
  BY <1>1, <1>4, <1>8 DEF LeftAt, GoneAt
<1>17. Placed(k, n, idx)'
  <2>1. Somewhere(k, n, idx)
    BY <1>4, <1>8, <1>10 DEF Somewhere
  <2> QED
    BY <1>11, <1>12, <1>14, <1>15, <1>16, <2>1 DEF Placed
<1>18. Shared'
  BY <1>1, <1>2, <1>17 DEF Shared, RowsTrue
<1>19. Typed' /\ Stopped'
  BY <1>1, <1>2, <1>6, <1>7 DEF Typed, Stopped, Building
<1>20. Mapped'
  BY <1>1, <1>2 DEF Mapped, Building
<1> QED
  BY <1>18, <1>19, <1>20

\* The first row of a worker goes to its builder, or is dropped if it has no vector.
LEMMA ParseKeeps ==
    ASSUME BuildInv, NEW w \in Crew, Parse(w)
    PROVE  BuildInv'
<1> USE DEF BuildInv
<1>1. /\ busy[w] # <<>> /\ busy' = [busy EXCEPT ![w] = Tail(@)]
      /\ UNCHANGED <<phase, metric, stored, left, cur, queue, matrix, held>>
  BY DEF Parse
<1>2. Building
  <2>1. busy # Idle
    BY <1>1 DEF Idle
  <2> QED
    BY <2>1 DEF Typed, Stopped, Building
<1>3. PICK kind, num, idx : Placed(kind, num, idx)
  BY <1>2 DEF Shared
<1>4. /\ Somewhere(kind, num, idx) /\ LeftAt(kind, left) /\ GoneAt(kind, stored, phase)
      /\ CurAt(kind, idx, cur) /\ Lies("queue", kind, num, idx, queue) /\ Lies("busy", kind, num, idx, busy)
      /\ BuiltAt(kind, num, idx, built)
  BY <1>3 DEF Placed
<1>5. busy \in [Crew -> Batches] /\ built \in [Crew -> Builders] /\ Crew \subseteq Nat
  BY MatrixAssumption DEF Typed, Crew
<1>6. busy[w] \in Seq(NodeIds) /\ built[w] \in Seq(NodeIds \X Int)
  BY <1>5 DEF Batches, Builders
<1>7. PICK m \in Nat \ {0} :
          /\ DOMAIN busy[w] = 1..m /\ Head(busy[w]) = busy[w][1] /\ busy[w][1] \in NodeIds
          /\ Tail(busy[w]) \in Seq(NodeIds) /\ DOMAIN Tail(busy[w]) = 1..(m - 1)
          /\ \A i \in 1..(m - 1) : Tail(busy[w])[i] = busy[w][i + 1]
  BY <1>1, <1>6, HeadAndTail
<1>8. /\ busy' \in [Crew -> Batches] /\ busy'[w] = Tail(busy[w]) /\ DOMAIN busy = Crew /\ DOMAIN busy' = Crew
      /\ \A v \in Crew : v # w => busy'[v] = busy[v]
  BY <1>1, <1>5, <1>7 DEF Batches
<1>9. PICK id \in NodeIds : id = busy[w][1] /\ id = Head(busy[w])
  BY <1>7
<1>10. PICK b \in Nat : b = Len(built[w]) /\ DOMAIN built[w] = 1..b
  BY <1>6
<1>11. kind[id] = "busy" /\ num[id] = w /\ idx[id] = 1
  BY <1>4, <1>5, <1>7, <1>8, <1>9 DEF Lies
<1>12. PICK to \in {"gone", "built"} : to = IF stored[id] = NoVector THEN "gone" ELSE "built"
  OBVIOUS
<1>13. built' = IF to = "gone" THEN built ELSE [built EXCEPT ![w] = Append(@, <<id, stored[id]>>)]
  BY <1>9, <1>12 DEF Parse
<1> DEFINE k == [kind EXCEPT ![id] = to]
           x == [y \in NodeIds |-> IF y = id THEN b + 1
                               ELSE IF kind[y] = "busy" /\ num[y] = w THEN idx[y] - 1 ELSE idx[y]]
<1>14. k \in [NodeIds -> Places] /\ k[id] = to /\ \A y \in NodeIds : y # id => k[y] = kind[y]
  BY <1>4, <1>12 DEF Somewhere, Places
<1>15. ASSUME NEW y \in NodeIds, kind[y] = "busy", num[y] = w PROVE idx[y] \in 1..m
  BY <1>4, <1>7, <1>15 DEF Somewhere, Lies
<1>16. /\ x \in [NodeIds -> Nat] /\ x[id] = b + 1
       /\ \A y \in NodeIds : y # id => x[y] = IF kind[y] = "busy" /\ num[y] = w THEN idx[y] - 1 ELSE idx[y]
  <2>1. \A y \in NodeIds : (IF y = id THEN b + 1
                        ELSE IF kind[y] = "busy" /\ num[y] = w THEN idx[y] - 1 ELSE idx[y]) \in Nat
    BY <1>4, <1>15 DEF Somewhere
  <2> QED
    BY <2>1
<1> HIDE DEF k, x
<1>17. Lies("busy", k, num, x, busy')
  <2> SUFFICES ASSUME NEW y \in NodeIds, NEW p \in Nat, NEW i \in Nat
               PROVE  k[y] = "busy" /\ num[y] = p /\ x[y] = i
                          <=> p \in DOMAIN busy' /\ i \in DOMAIN busy'[p] /\ busy'[p][i] = y
    BY DEF Lies
  <2>1. kind[y] = "busy" /\ num[y] = p /\ idx[y] = i
            <=> p \in DOMAIN busy /\ i \in DOMAIN busy[p] /\ busy[p][i] = y
    BY <1>4 DEF Lies
  <2>2. i + 1 \in Nat /\ idx[y] \in Nat
    BY <1>4 DEF Somewhere
  <2>3. kind[y] = "busy" /\ num[y] = p /\ idx[y] = i + 1
            <=> p \in DOMAIN busy /\ i + 1 \in DOMAIN busy[p] /\ busy[p][i + 1] = y
    BY <1>4, <2>2 DEF Lies
  <2>4. CASE p = w
    <3>1. i \in DOMAIN busy'[p] <=> i + 1 \in DOMAIN busy[p] /\ i # 0
      BY <1>7, <1>8, <2>4
    <3>2. i \in DOMAIN busy'[p] => busy'[p][i] = busy[p][i + 1]
      BY <1>7, <1>8, <2>4
    <3>3. k[y] = "busy" /\ num[y] = p /\ x[y] = i <=> kind[y] = "busy" /\ num[y] = p /\ idx[y] = i + 1 /\ i # 0
      <4>1. CASE y = id
        BY <1>11, <1>12, <1>14, <2>4, <4>1
      <4>2. CASE y # id
        <5>1. kind[y] = "busy" /\ num[y] = p => idx[y] \in 1..m /\ idx[y] # 1
          <6> SUFFICES ASSUME kind[y] = "busy", num[y] = w PROVE idx[y] \in 1..m /\ idx[y] # 1
            BY <2>4
          <6>1. idx[y] \in 1..m
            BY <1>15
          <6>2. busy[w][idx[y]] = y
            BY <1>4, <1>5, <2>2 DEF Lies
          <6> QED
            BY <1>9, <4>2, <6>1, <6>2
        <5>2. k[y] = kind[y] /\ (kind[y] = "busy" /\ num[y] = p => x[y] = idx[y] - 1)
          BY <1>14, <1>16, <2>4, <4>2
        <5>3. ASSUME kind[y] = "busy", num[y] = p PROVE x[y] = i <=> idx[y] = i + 1 /\ i # 0
          BY <2>2, <5>1, <5>2, <5>3
        <5> QED
          BY <5>2, <5>3
      <4> QED
        BY <4>1, <4>2
    <3> QED
      BY <1>8, <2>3, <2>4, <3>1, <3>2, <3>3
  <2>5. CASE p # w
    <3>1. k[y] = "busy" /\ num[y] = p /\ x[y] = i <=> kind[y] = "busy" /\ num[y] = p /\ idx[y] = i
      <4>1. CASE y = id
        BY <1>11, <1>12, <1>14, <2>5, <4>1
      <4>2. CASE y # id
        BY <1>14, <1>16, <2>5, <4>2
      <4> QED
        BY <4>1, <4>2
    <3> QED
      BY <1>8, <2>1, <2>5, <3>1
  <2> QED
    BY <2>4, <2>5
<1>18. ASSUME NEW place \in {"cur", "queue"} PROVE SameAt(place, kind, num, idx, k, num, x)
  <2>1. place # "busy" /\ place # "gone" /\ place # "built"
    OBVIOUS
  <2> QED
    BY <1>11, <1>12, <1>14, <1>16, <2>1 DEF SameAt
<1>19. CurAt(k, x, cur')
  BY <1>1, <1>4, <1>18, CurStays
<1>20. Lies("queue", k, num, x, queue')
  BY <1>1, <1>4, <1>18, LiesStays
<1>21. LeftAt(k, left') /\ GoneAt(k, stored', phase')
  <2>1. LeftAt(k, left')
    BY <1>1, <1>4, <1>11, <1>12, <1>14 DEF LeftAt
  <2>2. GoneAt(k, stored', phase')
    BY <1>1, <1>4, <1>12, <1>14 DEF GoneAt
  <2> QED
    BY <2>1, <2>2
<1>22. BuiltAt(k, num, x, built') /\ RowsTrue(built)' /\ built' \in [Crew -> Builders]
  <2>1. CASE to = "gone"
    <3>1. built' = built
      BY <1>13, <2>1
    <3>2. SameAt("built", kind, num, idx, k, num, x)
      BY <1>11, <1>14, <1>16, <2>1 DEF SameAt
    <3>3. BuiltAt(k, num, x, built')
      BY <1>4, <3>1, <3>2, BuiltStays
    <3> QED
      BY <1>1, <1>2, <1>5, <3>1, <3>3 DEF Shared, RowsTrue
  <2>2. CASE to = "built"
    <3> DEFINE row == <<id, stored[id]>>
    <3>1. stored[id] # NoVector /\ stored[id] \in Int
      <4>1. stored[id] # NoVector
        BY <1>12, <2>2
      <4> QED
        BY <4>1, MatrixAssumption DEF Typed
    <3>2. row \in NodeIds \X Int /\ row[1] = id /\ row[2] = stored[id]
      BY <3>1
    <3>3. built' = [built EXCEPT ![w] = Append(@, row)]
      BY <1>13, <2>2
    <3> HIDE DEF row
    <3>4. /\ Append(built[w], row) \in Seq(NodeIds \X Int) /\ DOMAIN Append(built[w], row) = 1..(b + 1)
          /\ Append(built[w], row)[b + 1] = row
          /\ \A i \in 1..b : Append(built[w], row)[i] = built[w][i]
      BY <1>6, <1>10, <3>2
    <3>5. /\ built' \in [Crew -> Builders] /\ DOMAIN built'[w] = 1..(b + 1) /\ built'[w][b + 1] = row
          /\ \A i \in 1..b : built'[w][i] = built[w][i]
          /\ \A v \in Crew : v # w => built'[v] = built[v]
      <4>1. built' \in [Crew -> Builders] /\ built'[w] = Append(built[w], row) /\ \A v \in Crew : v # w => built'[v] = built[v]
        BY <1>5, <3>3, <3>4 DEF Builders
      <4> QED
        BY <3>4, <4>1
    <3>6. BuiltAt(k, num, x, built')
      <4> SUFFICES ASSUME NEW y \in NodeIds, NEW p \in Nat, NEW i \in Nat
                   PROVE  k[y] = "built" /\ num[y] = p /\ x[y] = i
                              <=> p \in Crew /\ i \in DOMAIN built'[p] /\ built'[p][i][1] = y
        BY DEF BuiltAt
      <4>1. kind[y] = "built" /\ num[y] = p /\ idx[y] = i <=> p \in Crew /\ i \in DOMAIN built[p] /\ built[p][i][1] = y
        BY <1>4 DEF BuiltAt
      <4>2. CASE p = w
        <5>1. i \in DOMAIN built'[p] <=> i \in DOMAIN built[p] \/ i = b + 1
          BY <1>10, <3>5, <4>2
        <5>2. b + 1 \notin DOMAIN built[p]
          BY <1>10, <4>2
        <5>3. i \in DOMAIN built[p] => built'[p][i] = built[p][i]
          BY <1>10, <3>5, <4>2
        <5>4. i = b + 1 => built'[p][i][1] = id
          BY <3>2, <3>5, <4>2
        <5>5. CASE y = id
          <6>1. k[y] = "built" /\ num[y] = p /\ x[y] = b + 1 /\ kind[y] # "built"
            BY <1>11, <1>14, <1>16, <2>2, <4>2, <5>5
          <6> QED
            BY <4>1, <4>2, <5>1, <5>3, <5>4, <5>5, <6>1
        <5>6. CASE y # id
          <6>1. k[y] = kind[y] /\ (kind[y] = "built" => x[y] = idx[y])
            BY <1>14, <1>16, <5>6
          <6> QED
            BY <4>1, <4>2, <5>1, <5>2, <5>3, <5>4, <5>6, <6>1
        <5> QED
          BY <5>5, <5>6
      <4>3. CASE p # w
        <5>1. k[y] = "built" /\ num[y] = p /\ x[y] = i <=> kind[y] = "built" /\ num[y] = p /\ idx[y] = i
          <6>1. CASE y = id
            BY <1>11, <4>3, <6>1
          <6>2. CASE y # id
            BY <1>14, <1>16, <6>2
          <6> QED
            BY <6>1, <6>2
        <5> QED
          BY <3>5, <4>1, <4>3, <5>1
      <4> QED
        BY <4>2, <4>3
    <3>7. RowsTrue(built)'
      <4> SUFFICES ASSUME NEW v \in Crew, NEW i \in DOMAIN built'[v]
                   PROVE  /\ built'[v][i] = <<built'[v][i][1], stored[built'[v][i][1]]>>
                          /\ stored[built'[v][i][1]] # NoVector
        BY <1>1 DEF RowsTrue
      <4>1. RowsTrue(built)
        BY <1>2 DEF Shared
      <4>2. CASE v = w /\ i = b + 1
        <5>1. built'[v][i] = row
          BY <3>5, <4>2
        <5> QED
          BY <3>1, <3>2, <5>1 DEF row
      <4>3. CASE ~(v = w /\ i = b + 1)
        <5>1. i \in DOMAIN built[v] /\ built'[v][i] = built[v][i]
          BY <1>10, <3>5, <4>3
        <5> QED
          BY <4>1, <5>1 DEF RowsTrue
      <4> QED
        BY <4>2, <4>3
    <3> QED
      BY <3>5, <3>6, <3>7
  <2> QED
    BY <1>12, <2>1, <2>2
<1>23. Placed(k, num, x)'
  <2>1. Somewhere(k, num, x)
    BY <1>4, <1>14, <1>16 DEF Somewhere
  <2> QED
    BY <1>17, <1>19, <1>20, <1>21, <1>22, <2>1 DEF Placed
<1>24. Shared'
  BY <1>22, <1>23 DEF Shared
<1>25. Typed' /\ Stopped'
  BY <1>1, <1>2, <1>8, <1>22 DEF Typed, Stopped, Building
<1>26. Mapped'
  BY <1>1, <1>2 DEF Mapped, Building
<1> QED
  BY <1>24, <1>25, <1>26

-----------------------------------------------------------------------------
(* The matrix of a finished build, and a matrix in use.                    *)

\* RemoveRow and Upsert leave the metric alone.
LEMMA MetricKept ==
    ASSUME NEW m, IsMatrix(m), NEW id, NEW v
    PROVE  RemoveRow(m, id).metric = m.metric /\ Upsert(m, id, v).metric = m.metric
<1>1. RemoveRow(m, id).metric = m.metric
  BY DEF RemoveRow, IsMatrix
<1>2. CASE m.metric = "cosine" /\ v = 0
  BY <1>1, <1>2 DEF Upsert
<1>3. CASE ~(m.metric = "cosine" /\ v = 0) /\ Holds(m, id)
  <2>1. Upsert(m, id, v) = [m EXCEPT !.data[m.pos[id]] = v]
    BY <1>3 DEF Upsert
  <2> QED
    BY <1>1, <2>1 DEF IsMatrix
<1>4. CASE ~(m.metric = "cosine" /\ v = 0) /\ ~Holds(m, id)
  <2>1. Upsert(m, id, v).metric = m.metric
    BY <1>4 DEF Upsert, IsMatrix
  <2> QED
    BY <1>1, <2>1
<1> QED
  BY <1>2, <1>3, <1>4

\* What the nodes added make of the map when one more is: nothing, without a vector.
LEMMA AddedNone ==
    ASSUME NEW mt, NEW s, NEW l, NEW id \in l, l \subseteq NodeIds, s[id] = NoVector
    PROVE  Added(mt, s, l \ {id}) = Added(mt, s, l)
<1> DEFINE D == {x \in NodeIds \ l : s[x] # NoVector /\ ~(mt = "cosine" /\ s[x] = 0)}
           E == {x \in NodeIds \ (l \ {id}) : s[x] # NoVector /\ ~(mt = "cosine" /\ s[x] = 0)}
<1>1. Added(mt, s, l) = [x \in D |-> s[x]] /\ Added(mt, s, l \ {id}) = [x \in E |-> s[x]]
  BY DEF Added
<1>2. D = E
  OBVIOUS
<1> QED
  BY <1>1, <1>2

LEMMA AddedNext ==
    ASSUME NEW mt, NEW s, NEW l, NEW id \in l, l \subseteq NodeIds, NEW v, v = s[id], v # NoVector
    PROVE  Added(mt, s, l \ {id}) = With(Added(mt, s, l), mt, id, v)
<1> DEFINE D == {x \in NodeIds \ l : s[x] # NoVector /\ ~(mt = "cosine" /\ s[x] = 0)}
           E == {x \in NodeIds \ (l \ {id}) : s[x] # NoVector /\ ~(mt = "cosine" /\ s[x] = 0)}
           f == Added(mt, s, l)
           g == Added(mt, s, l \ {id})
<1>1. f = [x \in D |-> s[x]] /\ g = [x \in E |-> s[x]]
  BY DEF Added
<1>2. id \notin D
  OBVIOUS
<1>3. CASE mt = "cosine" /\ v = 0
  <2>1. D = E /\ D \ {id} = D
    BY <1>3
  <2> HIDE DEF D, E, f, g
  <2>2. DOMAIN f = D /\ g = f /\ f = [x \in DOMAIN f |-> f[x]]
    BY <1>1, <2>1
  <2>3. Without(f, id) = f
    BY <2>1, <2>2 DEF Without
  <2> QED
    BY <1>3, <2>2, <2>3 DEF With, f, g
<1>4. CASE ~(mt = "cosine" /\ v = 0)
  <2>1. E = D \cup {id}
    BY <1>4
  <2> HIDE DEF D, E, f, g
  <2>2. DOMAIN f = D /\ \A x \in D : f[x] = s[x]
    BY <1>1
  <2>3. g = [x \in D \cup {id} |-> s[x]]
    BY <1>1, <2>1
  <2>4. With(f, mt, id, v) = [x \in D \cup {id} |-> IF x = id THEN v ELSE f[x]]
    BY <1>4, <2>2 DEF With
  <2>5. With(f, mt, id, v) = g
    BY <1>2, <2>2, <2>3, <2>4
  <2> QED
    BY <2>5 DEF f, g
<1> QED
  BY <1>3, <1>4

LEMMA AddedAll == \A mt, s : Added(mt, s, {}) = Indexed(mt, s)
<1> SUFFICES ASSUME NEW mt, NEW s PROVE Added(mt, s, {}) = Indexed(mt, s)
  OBVIOUS
<1>1. NodeIds \ {} = NodeIds
  OBVIOUS
<1> QED
  BY <1>1, Zenon DEF Added, Indexed

LEMMA AddRowKeeps ==
    ASSUME BuildInv, AddRow
    PROVE  BuildInv'
<1> USE DEF BuildInv
<1>1. phase = "serial" /\ UNCHANGED <<phase, metric, stored, cur, queue, busy, built, held>>
  BY DEF AddRow
<1>2. PICK id \in left :
          /\ left' = left \ {id}
          /\ matrix' = IF stored[id] = NoVector THEN matrix ELSE Upsert(matrix, id, stored[id])
  BY DEF AddRow
<1>3. IsMatrix(matrix) /\ matrix.metric = metric /\ Contents(matrix) = Added(metric, stored, left)
  BY <1>1 DEF Mapped
<1>4. left \subseteq NodeIds /\ (stored[id] # NoVector => stored[id] \in Int)
  BY MatrixAssumption DEF Typed
<1> DEFINE v == stored[id]
           all == Added(metric, stored, left)
           more == Added(metric, stored, left')
<1>5. ASSUME v = NoVector PROVE Mapped'
  <2>1. more = all
    BY <1>2, <1>4, <1>5, AddedNone
  <2> QED
    BY <1>1, <1>2, <1>3, <1>5, <2>1 DEF Mapped
<1>6. ASSUME v # NoVector PROVE Mapped'
  <2>1. more = With(all, metric, id, v)
    BY <1>2, <1>4, <1>6, AddedNext
  <2>2. matrix' = Upsert(matrix, id, v) /\ v \in Int
    BY <1>2, <1>4, <1>6
  <2> HIDE DEF v, all, more
  <2>3. IsMatrix(matrix') /\ Contents(matrix') = With(Contents(matrix), matrix.metric, id, v)
    BY <1>3, <2>2, UpsertIsMap
  <2>4. matrix'.metric = metric
    BY <1>3, <2>2, MetricKept
  <2>5. Contents(matrix') = more
    BY <1>3, <2>1, <2>3 DEF all
  <2> QED
    BY <1>1, <2>3, <2>4, <2>5 DEF Mapped, more
<1>7. Mapped'
  BY <1>5, <1>6
<1>8. Typed' /\ Stopped' /\ Shared'
  <2>1. left' \subseteq NodeIds
    BY <1>2, <1>4
  <2> QED
    BY <1>1, <2>1 DEF Typed, Stopped, Shared, Building
<1> QED
  BY <1>7, <1>8

LEMMA AllAddedKeeps ==
    ASSUME BuildInv, AllAdded
    PROVE  BuildInv'
<1> USE DEF BuildInv
<1>1. /\ phase = "serial" /\ left = {} /\ phase' = "ready" /\ held' = Indexed(metric, stored) /\ stored' = Blank
      /\ UNCHANGED <<metric, left, cur, queue, busy, built, matrix>>
  BY DEF AllAdded, scan
<1>2. Contents(matrix) = Indexed(metric, stored) /\ IsMatrix(matrix) /\ matrix.metric = metric
  BY <1>1, AddedAll DEF Mapped
<1>3. Mapped'
  BY <1>1, <1>2 DEF Mapped
<1>4. Typed' /\ Stopped' /\ Shared'
  <2>1. Blank \in [NodeIds -> Vectors \cup {NoVector}]
    BY DEF Blank
  <2> QED
    BY <1>1, <2>1 DEF Typed, Stopped, Shared, Building
<1> QED
  BY <1>3, <1>4

\* A step that changes the matrix in use and nothing of a build.
LEMMA InUse ==
    ASSUME BuildInv, phase = "ready", UNCHANGED <<phase, metric, stored, left, cur, queue, busy, built>>,
           IsMatrix(matrix'), matrix'.metric = metric, Contents(matrix') = held'
    PROVE  BuildInv'
  BY DEF BuildInv, Typed, Stopped, Shared, Building, Mapped

LEMMA ChangeRowKeeps ==
    ASSUME BuildInv, ChangeRow
    PROVE  BuildInv'
<1>1. phase = "ready" /\ UNCHANGED <<phase, metric, stored, left, cur, queue, busy, built>>
  BY DEF ChangeRow, scan
<1>2. PICK id \in NodeIds, v \in Vectors :
          /\ matrix' = Upsert(matrix, id, v)
          /\ held' = With(held, metric, id, v)
  BY DEF ChangeRow, With, Without
<1>3. IsMatrix(matrix) /\ matrix.metric = metric /\ Contents(matrix) = held /\ v \in Int
  BY <1>1, MatrixAssumption DEF BuildInv, Mapped
<1>4. IsMatrix(matrix') /\ Contents(matrix') = held'
  <2>1. IsMatrix(matrix') /\ Contents(matrix') = With(Contents(matrix), matrix.metric, id, v)
    BY <1>2, <1>3, UpsertIsMap
  <2> QED
    BY <1>2, <1>3, <2>1
<1>5. matrix'.metric = metric
  BY <1>2, <1>3, MetricKept
<1> QED
  BY <1>1, <1>4, <1>5, InUse

LEMMA DropRowKeeps ==
    ASSUME BuildInv, DropRow
    PROVE  BuildInv'
<1>1. phase = "ready" /\ UNCHANGED <<phase, metric, stored, left, cur, queue, busy, built>>
  BY DEF DropRow, scan
<1>2. PICK id \in NodeIds : matrix' = RemoveRow(matrix, id) /\ held' = Without(held, id)
  BY DEF DropRow, Without
<1>3. IsMatrix(matrix) /\ matrix.metric = metric /\ Contents(matrix) = held
  BY <1>1 DEF BuildInv, Mapped
<1>4. IsMatrix(matrix') /\ Contents(matrix') = held'
  <2>1. IsMatrix(matrix') /\ Contents(matrix') = Without(Contents(matrix), id)
    BY <1>2, <1>3, RemoveIsMap
  <2> QED
    BY <1>2, <1>3, <2>1
<1>5. matrix'.metric = metric
  BY <1>2, <1>3, MetricKept
<1> QED
  BY <1>1, <1>4, <1>5, InUse

LEMMA DiscardKeeps ==
    ASSUME BuildInv, Discard
    PROVE  BuildInv'
<1>1. phase = "ready" /\ phase' = "none" /\ UNCHANGED <<metric, stored, left, cur, queue, busy, built>>
  BY DEF Discard, scan
<1> QED
  BY <1>1 DEF BuildInv, Typed, Stopped, Shared, Building, Mapped

\* The builders of the workers, merged, hold every node with a vector, once: the
\* batches are all parsed.
LEMMA GatherKeeps ==
    ASSUME BuildInv, Gather
    PROVE  BuildInv'
<1> USE DEF BuildInv
<1>1. /\ phase \in {"draining", "failing"} /\ queue = <<>> /\ busy = Idle
      /\ built' = Idle /\ stored' = Blank /\ UNCHANGED <<metric, left, cur, queue, busy>>
  BY DEF Gather
<1>2. left = {} /\ cur = <<>> /\ Building
  BY <1>1 DEF Stopped, Building
<1>3. phase' \in {"none", "ready"}
  BY DEF Gather
<1>4. Typed' /\ Stopped' /\ Shared'
  <2>1. Blank \in [NodeIds -> Vectors \cup {NoVector}]
    BY DEF Blank
  <2>2. Typed'
    BY <1>1, <1>3, <2>1, IdleTyped DEF Typed
  <2> QED
    BY <1>1, <1>2, <1>3, <2>2 DEF Stopped, Shared, Building
<1>5. CASE phase = "failing"
  <2>1. phase' = "none"
    BY <1>5 DEF Gather
  <2> QED
    BY <1>4, <2>1 DEF Mapped
<1>6. CASE phase = "draining"
  <2>1. /\ phase' = "ready" /\ matrix' = BuilderMatrix(metric, MergeBuilders(built))
        /\ held' = Indexed(metric, stored)
    BY <1>6 DEF Gather
  <2>2. PICK kind, num, idx : Placed(kind, num, idx)
    BY <1>2 DEF Shared
  <2>3. RowsTrue(built)
    BY <1>2 DEF Shared
  <2>4. Crew = 1..Workers /\ Workers \in Nat /\ built \in [Crew -> Builders] /\ stored \in [NodeIds -> Vectors \cup {NoVector}]
    BY MatrixAssumption DEF Crew, Typed
  <2> DEFINE T == NodeIds \X Int
             rows == FlattenSeq(built)
  <2>5. built \in Seq(Seq(T)) /\ Len(built) = Workers /\ DOMAIN built = Crew
    <3>1. built = [w \in 1..Workers |-> built[w]] /\ \A w \in 1..Workers : built[w] \in Builders
      BY <2>4
    <3>2. built \in Seq(Builders) /\ Len(built) = Workers /\ DOMAIN built = 1..Workers
      BY <2>4, <3>1, NumberedIsSeq
    <3> QED
      BY <2>4, <3>2 DEF Builders
  <2>6. \A p \in Crew : DOMAIN built[p] \subseteq Nat /\ \A i \in DOMAIN built[p] : built[p][i] \in T /\ built[p][i][1] \in NodeIds
    <3> SUFFICES ASSUME NEW p \in Crew
                 PROVE  DOMAIN built[p] \subseteq Nat /\ \A i \in DOMAIN built[p] : built[p][i] \in T /\ built[p][i][1] \in NodeIds
      OBVIOUS
    <3>1. built[p] \in Seq(T)
      BY <2>4 DEF Builders
    <3>2. DOMAIN built[p] \subseteq Nat /\ \A i \in DOMAIN built[p] : built[p][i] \in T
      <4> HIDE DEF T
      <4> QED
        BY <3>1
    <3> QED
      BY <3>2
  <2> HIDE DEF T
  <2>7. ASSUME NEW p \in Crew, NEW q \in Crew, NEW i \in DOMAIN built[p], NEW j \in DOMAIN built[q],
               built[p][i][1] = built[q][j][1]
        PROVE  p = q /\ i = j
    <3> DEFINE id == built[p][i][1]
    <3>1. id \in NodeIds /\ p \in Nat /\ q \in Nat /\ i \in Nat /\ j \in Nat
      BY <2>4, <2>6
    <3>2. BuiltAt(kind, num, idx, built) /\ id = built[q][j][1]
      BY <2>2, <2>7 DEF Placed
    <3> HIDE DEF id
    <3>3. num[id] = p /\ idx[id] = i
      BY <3>1, <3>2 DEF BuiltAt, id
    <3>4. num[id] = q /\ idx[id] = j
      BY <3>1, <3>2 DEF BuiltAt
    <3> QED
      BY <3>3, <3>4
  <2>8. Keyed(built)
    BY <2>5, <2>7 DEF Keyed
  <2>9. rows \in Seq(T) /\ Collects(built, rows, Workers)
    BY <2>5, <2>8, Collected
  <2> HIDE DEF rows
  <2>10. rows \in Seq(NodeIds \X Int) /\ OneEach(rows)
    BY <2>9 DEF Collects, OneEach, T
  <2>11. ASSUME NEW j \in DOMAIN rows
         PROVE  rows[j][1] \in NodeIds /\ rows[j][2] = stored[rows[j][1]] /\ stored[rows[j][1]] # NoVector
    <3>1. PICK p \in Crew : \E i \in DOMAIN built[p] : rows[j] = built[p][i]
      BY <2>4, <2>9 DEF Collects
    <3>2. PICK i \in DOMAIN built[p] : rows[j] = built[p][i]
      BY <3>1
    <3>3. built[p][i] = <<built[p][i][1], stored[built[p][i][1]]>> /\ stored[built[p][i][1]] # NoVector
      BY <2>3, <3>2 DEF RowsTrue
    <3>4. rows[j] = <<rows[j][1], stored[rows[j][1]]>> /\ stored[rows[j][1]] # NoVector /\ rows[j][1] \in NodeIds
      BY <2>6, <3>2, <3>3
    <3> QED
      BY <3>4
  <2>12. ASSUME NEW id \in NodeIds, stored[id] # NoVector
         PROVE  \E j \in DOMAIN rows : rows[j][1] = id
    <3>1. /\ Somewhere(kind, num, idx) /\ LeftAt(kind, left) /\ GoneAt(kind, stored, phase)
          /\ CurAt(kind, idx, cur) /\ Lies("queue", kind, num, idx, queue) /\ Lies("busy", kind, num, idx, busy)
          /\ BuiltAt(kind, num, idx, built)
      BY <2>2 DEF Placed
    <3>2. idx[id] \in Nat /\ num[id] \in Nat /\ kind[id] \in Places
      BY <3>1 DEF Somewhere
    <3>3. kind[id] # "left" /\ kind[id] # "gone"
      BY <1>2, <1>6, <2>12, <3>1 DEF LeftAt, GoneAt
    <3>4. kind[id] # "cur"
      BY <1>2, <3>1, <3>2 DEF CurAt
    <3>5. kind[id] # "queue"
      BY <1>1, <3>1, <3>2 DEF Lies
    <3>6. kind[id] # "busy"
      <4>1. \A n \in DOMAIN busy : DOMAIN busy[n] = {}
        BY <1>1 DEF Idle
      <4> QED
        BY <3>1, <3>2, <4>1 DEF Lies
    <3>7. kind[id] = "built"
      BY <3>2, <3>3, <3>4, <3>5, <3>6 DEF Places
    <3>8. PICK p \in Crew, i \in Nat : i \in DOMAIN built[p] /\ built[p][i][1] = id
      BY <3>1, <3>2, <3>7 DEF BuiltAt
    <3>9. PICK j \in DOMAIN rows : rows[j] = built[p][i]
      BY <2>4, <2>9, <3>8 DEF Collects
    <3> QED
      BY <3>8, <3>9
  <2> DEFINE m == BuilderMatrix(metric, rows)
             D == {x \in NodeIds : stored[x] # NoVector /\ ~(metric = "cosine" /\ stored[x] = 0)}
             K == {rows[i][1] : i \in {j \in DOMAIN rows : ~Omitted(metric, rows[j])}}
  <2>13. /\ IsMatrix(m) /\ m.metric = metric /\ DOMAIN Contents(m) = K
         /\ \A i \in DOMAIN rows : ~Omitted(metric, rows[i]) => Contents(m)[rows[i][1]] = rows[i][2]
    <3>1. MapsKept(m, metric, rows)
      BY <2>10, BuiltIsMap
    <3> QED
      BY <3>1 DEF MapsKept
  <2> HIDE DEF m
  <2>14. ASSUME NEW x \in D PROVE x \in K /\ Contents(m)[x] = stored[x]
    <3>1. PICK j \in DOMAIN rows : rows[j][1] = x
      BY <2>12
    <3>2. rows[j][2] = stored[x]
      BY <2>11, <3>1
    <3>3. ~Omitted(metric, rows[j])
      BY <3>2 DEF Omitted
    <3>4. j \in {l \in DOMAIN rows : ~Omitted(metric, rows[l])}
      BY <3>3
    <3> QED
      BY <2>13, <3>1, <3>2, <3>3, <3>4
  <2>15. ASSUME NEW x \in K PROVE x \in D
    <3>1. PICK j \in DOMAIN rows : ~Omitted(metric, rows[j]) /\ x = rows[j][1]
      OBVIOUS
    <3>2. x \in NodeIds /\ rows[j][2] = stored[x] /\ stored[x] # NoVector
      BY <2>11, <3>1
    <3> QED
      BY <3>1, <3>2 DEF Omitted
  <2>16. Contents(m) = Indexed(metric, stored)
    <3>1. K = D
      BY <2>14, <2>15
    <3>2. Indexed(metric, stored) = [x \in D |-> stored[x]]
      BY DEF Indexed
    <3>3. Contents(m) = [x \in DOMAIN Contents(m) |-> Contents(m)[x]]
      BY DEF Contents
    <3> HIDE DEF D, K
    <3>4. DOMAIN Contents(m) = D /\ \A x \in D : Contents(m)[x] = stored[x]
      BY <2>13, <2>14, <3>1
    <3> QED
      BY <3>2, <3>3, <3>4
  <2>17. matrix' = m
    BY <2>1 DEF m, rows, MergeBuilders
  <2>18. Mapped'
    BY <1>1, <2>1, <2>13, <2>16, <2>17 DEF Mapped
  <2> QED
    BY <1>4, <2>18
<1> QED
  BY <1>1, <1>5, <1>6

\* Every step keeps the invariant.
LEMMA BuildStep == BuildInv /\ [MatrixNext]_matrixVars => BuildInv'
<1> SUFFICES ASSUME BuildInv, [MatrixNext]_matrixVars PROVE BuildInv'
  OBVIOUS
<1>1. ASSUME NEW plan \in {"fetching", "serial"}, Begin(plan) PROVE BuildInv'
  BY <1>1, BeginKeeps
<1>2. ASSUME Fetch \/ Send \/ Close \/ Abandon PROVE BuildInv'
  BY <1>2, FetchKeeps, SendKeeps, CloseKeeps, AbandonKeeps
<1>3. ASSUME NEW w \in Crew, Take(w) \/ Parse(w) PROVE BuildInv'
  BY <1>3, TakeKeeps, ParseKeeps
<1>4. ASSUME Gather \/ AddRow \/ AllAdded PROVE BuildInv'
  BY <1>4, GatherKeeps, AddRowKeeps, AllAddedKeeps
<1>5. ASSUME ChangeRow \/ DropRow \/ Discard PROVE BuildInv'
  BY <1>5, ChangeRowKeeps, DropRowKeeps, DiscardKeeps
<1>6. CASE UNCHANGED matrixVars
  <2>1. UNCHANGED <<phase, metric, stored, left, cur, queue, busy, built, matrix, held>>
    BY <1>6 DEF matrixVars, scan
  <2>2. Typed' /\ Stopped' /\ Mapped'
    BY <2>1 DEF BuildInv, Typed, Stopped, Mapped
  <2>3. Shared'
    <3>1. CASE Building
      <4>1. PICK kind, num, idx : Placed(kind, num, idx)
        BY <3>1 DEF BuildInv, Shared
      <4>2. Placed(kind, num, idx)'
        BY <2>1, <4>1 DEF Placed
      <4>3. RowsTrue(built)'
        BY <2>1, <3>1 DEF BuildInv, Shared, RowsTrue
      <4> QED
        BY <4>2, <4>3 DEF Shared
    <3>2. CASE ~Building
      BY <2>1, <3>2 DEF Shared, Building
    <3> QED
      BY <3>1, <3>2
  <2> QED
    BY <2>2, <2>3 DEF BuildInv
<1> QED
  BY <1>1, <1>2, <1>3, <1>4, <1>5, <1>6 DEF MatrixNext

\* However many nodes an index has, however their rows are shared out among however
\* many workers, in whatever batches, and whatever deltas change the matrix later,
\* a finished matrix is the map of the nodes with a vector to it: ids, rows and
\* positions in step, no row lost, none twice.
THEOREM BuildIsMap == MatrixSpec => []MatrixIsMap
<1>1. BuildInv => MatrixIsMap
  BY DEF BuildInv, Mapped, MatrixIsMap, IsMatrix
<1> QED
  BY <1>1, InitBuild, BuildStep, PTL DEF MatrixSpec
=============================================================================
