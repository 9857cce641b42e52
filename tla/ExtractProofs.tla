----------------------------- MODULE ExtractProofs -----------------------------
(***************************************************************************)
(* What Run takes from a text equals what stands at the positions the      *)
(* properties name, for any mails, keys and limits.                        *)
(***************************************************************************)
EXTENDS Extract, FiniteSetTheorems, SequenceTheorems, WellFoundedInduction, TLAPS

\* Induction, over a set of numbers.
LEMMA NatBySet ==
    ASSUME NEW S, 0 \in S, \A n \in Nat : n \in S => n + 1 \in S
    PROVE  \A n \in Nat : n \in S
<1>. SUFFICES ASSUME NEW x \in Nat, x \notin S PROVE FALSE
  OBVIOUS
<1>. DEFINE Bad == Nat \ S
<1>1. Bad \in SUBSET Nat /\ Bad # {}  OBVIOUS
<1>. HIDE DEF Bad
<1>2. PICK m \in Bad : \A k \in Bad : ~(<<k, m>> \in OpToRel(<, Nat))
  BY <1>1, WFMin, NatLessThanWellFounded, Zenon
<1>3. \A k \in Bad : ~(k < m)
  BY <1>1, <1>2, Zenon DEF OpToRel
<1>4. m \in Nat /\ m # 0  BY <1>2 DEF Bad
<1>5. m - 1 \in Nat /\ m - 1 < m /\ m = (m - 1) + 1  BY <1>4
<1>6. m - 1 \in S  BY <1>3, <1>5 DEF Bad
<1>7. m \in S  BY <1>5, <1>6
<1>. QED  BY <1>2, <1>7 DEF Bad
-------------------------------------------------------------------------------
(* Positions, and the sequences read off them. *)

\* How many of the positions are not after i.
Place(L, i) == Cardinality({j \in L : j <= i})

LEMMA Positions ==
    ASSUME NEW n \in Nat, NEW L \in SUBSET (1 .. n)
    PROVE  IsFiniteSet(L) /\ Cardinality(L) \in Nat
<1>1. IsFiniteSet(1 .. n)  BY FS_Interval, 1 \in Int, n \in Int
<1>2. IsFiniteSet(L)  BY <1>1, FS_Subset
<1>. QED  BY <1>2, FS_CardinalityType

\* A set of positions with one more behind all of them.
LEMMA OneMore ==
    ASSUME NEW n \in Nat, NEW L \in SUBSET (1 .. n)
    PROVE  LET M == L \union {n + 1} IN
           /\ Cardinality(M) = Cardinality(L) + 1
           /\ \A i \in L : Place(M, i) = Place(L, i) /\ Place(L, i) <= Cardinality(L)
           /\ Place(M, n + 1) = Cardinality(M)
           /\ \A i \in L : Place(L, i) \in Nat
<1>. DEFINE M == L \union {n + 1}
<1>1. IsFiniteSet(L) /\ Cardinality(L) \in Nat  BY Positions
<1>2. n + 1 \notin L  OBVIOUS
<1>3. Cardinality(M) = Cardinality(L) + 1  BY <1>1, <1>2, FS_AddElement
<1>4. ASSUME NEW i \in L
      PROVE  Place(M, i) = Place(L, i) /\ Place(L, i) <= Cardinality(L) /\ Place(L, i) \in Nat
  <2>1. {j \in M : j <= i} = {j \in L : j <= i}  OBVIOUS
  <2>2. {j \in L : j <= i} \in SUBSET L  OBVIOUS
  <2>3. /\ IsFiniteSet({j \in L : j <= i})
        /\ Cardinality({j \in L : j <= i}) <= Cardinality(L)  BY <1>1, <2>2, FS_Subset
  <2>. QED  BY <2>1, <2>3, FS_CardinalityType DEF Place
<1>5. {j \in M : j <= n + 1} = M
  <2>1. \A j \in M : j <= n + 1  OBVIOUS
  <2>. QED  BY <2>1, Zenon
<1>. QED  BY <1>3, <1>4, <1>5 DEF Place

\* Every place up to their number is that of one position.
LEMMA PlaceTaken ==
    ASSUME NEW n \in Nat
    PROVE  \A L \in SUBSET (1 .. n) :
              /\ \A i \in L : Place(L, i) \in 1 .. Cardinality(L)
              /\ \A k \in 1 .. Cardinality(L) : \E i \in L : Place(L, i) = k
              /\ \A i, j \in L : Place(L, i) = Place(L, j) => i = j
<1>. DEFINE One(L) == /\ \A i \in L : Place(L, i) \in 1 .. Cardinality(L)
                      /\ \A k \in 1 .. Cardinality(L) : \E i \in L : Place(L, i) = k
                      /\ \A i, j \in L : Place(L, i) = Place(L, j) => i = j
            S == {m \in Nat : \A L \in SUBSET (1 .. m) : One(L)}
<1>1. 0 \in S
  <2>1. SUBSET (1 .. 0) = {{}}  OBVIOUS
  <2>2. One({})  BY FS_EmptySet
  <2>. QED  BY <2>1, <2>2
<1>2. ASSUME NEW m \in Nat, m \in S
      PROVE  m + 1 \in S
  <2>. SUFFICES ASSUME NEW M \in SUBSET (1 .. m + 1) PROVE One(M)
    OBVIOUS
  <2>1. CASE m + 1 \notin M
    <3>1. M \in SUBSET (1 .. m)  BY <2>1
    <3>. QED  BY <1>2, <3>1
  <2>2. CASE m + 1 \in M
    <3>. DEFINE L == M \ {m + 1}
    <3>1. L \in SUBSET (1 .. m) /\ M = L \union {m + 1}  BY <2>2
    <3>2. One(L)  BY <1>2, <3>1
    <3>. HIDE DEF L
    <3>3. /\ Cardinality(M) = Cardinality(L) + 1
          /\ \A i \in L : Place(M, i) = Place(L, i)
          /\ Place(M, m + 1) = Cardinality(M)
          /\ Cardinality(L) \in Nat
      BY <3>1, OneMore, Positions
    <3>4. \A i \in M : i # m + 1 => i \in L  BY <3>1
    <3>5. \A i \in M : Place(M, i) \in 1 .. Cardinality(M)
      BY <3>2, <3>3, <3>4
    <3>6. \A k \in 1 .. Cardinality(M) : \E i \in M : Place(M, i) = k
      BY <2>2, <3>1, <3>2, <3>3
    <3>7. \A i, j \in M : Place(M, i) = Place(M, j) => i = j
      BY <3>2, <3>3, <3>4
    <3>. QED  BY <3>5, <3>6, <3>7
  <2>. QED  BY <2>1, <2>2
<1>. HIDE DEF S
<1>3. \A m \in Nat : m \in S  BY <1>1, <1>2, NatBySet
<1>. QED  BY <1>3 DEF S

LEMMA NthTaken ==
    ASSUME NEW n \in Nat, NEW L \in SUBSET (1 .. n)
    PROVE  /\ \A k \in 1 .. Cardinality(L) : Nth(L, k) \in L /\ Place(L, Nth(L, k)) = k
           /\ \A i \in L : Place(L, i) \in 1 .. Cardinality(L) /\ Nth(L, Place(L, i)) = i
<1>1. /\ \A i \in L : Place(L, i) \in 1 .. Cardinality(L)
      /\ \A k \in 1 .. Cardinality(L) : \E i \in L : Place(L, i) = k
      /\ \A i, j \in L : Place(L, i) = Place(L, j) => i = j
  BY PlaceTaken
<1>2. ASSUME NEW k \in 1 .. Cardinality(L)
      PROVE  Nth(L, k) \in L /\ Place(L, Nth(L, k)) = k
  BY <1>1 DEF Nth, Place
<1>. QED  BY <1>1, <1>2
\* What is read at the positions of a set, and at one more behind it.
LEMMA RankedSeq ==
    ASSUME NEW n \in Nat, NEW L \in SUBSET (1 .. n), NEW v, NEW T, \A i \in L : v[i] \in T
    PROVE  Ranked(L, v) \in Seq(T) /\ Len(Ranked(L, v)) = Cardinality(L)
<1>. DEFINE r == Ranked(L, v)
            c == Cardinality(L)
<1>1. c \in Nat  BY Positions
<1>2. \A k \in 1 .. c : v[Nth(L, k)] \in T  BY NthTaken
<1>3. r = [k \in 1 .. c |-> v[Nth(L, k)]]  BY DEF Ranked
<1>. HIDE DEF r, c
<1>4. r \in [1 .. c -> T]  BY <1>2, <1>3
<1>5. r \in Seq(T)  BY <1>1, <1>4, SeqDef, Zenon
<1>6. DOMAIN r = 1 .. c /\ DOMAIN r = 1 .. Len(r) /\ Len(r) \in Nat
  BY <1>4, <1>5, LenProperties
<1>7. Len(r) = c  BY <1>1, <1>6
<1>. QED  BY <1>5, <1>7 DEF r, c

LEMMA RankedAppend ==
    ASSUME NEW n \in Nat, NEW L \in SUBSET (1 .. n), NEW v
    PROVE  Ranked(L \union {n + 1}, v) = Append(Ranked(L, v), v[n + 1])
<1>. DEFINE M == L \union {n + 1}
            T == {v[i] : i \in M}
            c == Cardinality(L)
            s == Ranked(M, v)
            t == Append(Ranked(L, v), v[n + 1])
<1>1. M \in SUBSET (1 .. n + 1) /\ n + 1 \in Nat  OBVIOUS
<1>2. c \in Nat  BY Positions
<1>3. /\ Cardinality(M) = c + 1
      /\ \A i \in L : Place(M, i) = Place(L, i)
      /\ Place(M, n + 1) = c + 1
  BY OneMore
<1>4. (\A i \in L : v[i] \in T) /\ (\A i \in M : v[i] \in T) /\ v[n + 1] \in T
  OBVIOUS
<1>5. /\ \A k \in 1 .. c : Nth(L, k) \in L /\ Place(L, Nth(L, k)) = k
      /\ \A i \in M : Nth(M, Place(M, i)) = i
  BY <1>1, NthTaken
<1>6. n + 1 \in M /\ (\A i \in L : i \in M)  OBVIOUS
<1>. HIDE DEF M, T
<1>7. Ranked(L, v) \in Seq(T) /\ Len(Ranked(L, v)) = c  BY <1>4, RankedSeq
<1>8. s \in Seq(T) /\ Len(s) = c + 1  BY <1>1, <1>3, <1>4, RankedSeq
<1>9. /\ t \in Seq(T) /\ Len(t) = c + 1 /\ t[c + 1] = v[n + 1]
      /\ \A k \in 1 .. c : t[k] = Ranked(L, v)[k]
  BY <1>4, <1>7, AppendProperties
<1>10. ASSUME NEW k \in 1 .. c PROVE s[k] = t[k]
  <2>1. Nth(M, k) = Nth(L, k)  BY <1>3, <1>5, <1>6
  <2>2. k \in 1 .. Cardinality(M)  BY <1>2, <1>3
  <2>3. s[k] = v[Nth(M, k)] /\ Ranked(L, v)[k] = v[Nth(L, k)]  BY <2>2 DEF Ranked
  <2>. QED  BY <1>9, <2>1, <2>3
<1>11. s[c + 1] = v[n + 1]
  <2>1. Nth(M, c + 1) = n + 1  BY <1>3, <1>5, <1>6
  <2>2. c + 1 \in 1 .. Cardinality(M)  BY <1>2, <1>3
  <2>. QED  BY <2>1, <2>2 DEF Ranked
<1>. HIDE DEF s, t, c
<1>12. \A k \in 1 .. Len(s) : s[k] = t[k]  BY <1>2, <1>8, <1>9, <1>10, <1>11
<1>13. s = t  BY <1>8, <1>9, <1>12, SeqEqual
<1>. QED  BY <1>13 DEF s, t, M

LEMMA RankedNone == \A v : Ranked({}, v) = <<>>
<1>1. Cardinality({}) = 0  BY FS_EmptySet
<1>. QED  BY <1>1 DEF Ranked
-------------------------------------------------------------------------------
(* What the loops leave: the recursions of the model, and their values by position. *)

LEMMA KeptExists ==
    ASSUME NEW P, NEW v, Len(v) \in Nat
    PROVE  \E out : /\ out = [i \in 0 .. Len(v) |->
                        IF i = 0 THEN <<>>
                        ELSE IF i \in P THEN Append(out[i - 1], v[i]) ELSE out[i - 1]]
                    /\ Kept(P, v) = out[Len(v)]
<1>. DEFINE Rec(g, n) == g = [i \in 0 .. n |->
                        IF i = 0 THEN <<>>
                        ELSE IF i \in P THEN Append(g[i - 1], v[i]) ELSE g[i - 1]]
            S == {n \in Nat : \E g : Rec(g, n)}
<1>1. \A n \in Nat : n \in S
  <2>1. 0 \in S
    <3>1. Rec([i \in 0 .. 0 |-> <<>>], 0)  OBVIOUS
    <3>. QED  BY <3>1, Zenon
  <2>2. ASSUME NEW n \in Nat, n \in S PROVE n + 1 \in S
    <3>1. PICK g : Rec(g, n)  BY <2>2, Zenon
    <3>. DEFINE more == IF n + 1 \in P THEN Append(g[n], v[n + 1]) ELSE g[n]
                h == [i \in 0 .. n + 1 |-> IF i <= n THEN g[i] ELSE more]
    <3>. HIDE DEF more
    <3>2. ASSUME NEW i \in 0 .. n
          PROVE  h[i] = IF i = 0 THEN <<>>
                        ELSE IF i \in P THEN Append(h[i - 1], v[i]) ELSE h[i - 1]
      <4>1. h[i] = g[i] /\ (i # 0 => h[i - 1] = g[i - 1])  OBVIOUS
      <4>. HIDE DEF h
      <4>2. g[i] = IF i = 0 THEN <<>>
                   ELSE IF i \in P THEN Append(g[i - 1], v[i]) ELSE g[i - 1]
        BY <3>1
      <4>. QED  BY <4>1, <4>2
    <3>3. h[n + 1] = IF n + 1 \in P THEN Append(h[n], v[n + 1]) ELSE h[n]
      <4>1. h[n] = g[n] /\ h[n + 1] = more  OBVIOUS
      <4>. HIDE DEF h
      <4>. QED  BY <4>1 DEF more
    <3>4. DOMAIN h = 0 .. n + 1 /\ h = [i \in 0 .. n + 1 |-> h[i]]  OBVIOUS
    <3>. HIDE DEF h
    <3>5. \A i \in 0 .. n + 1 : i \in 0 .. n \/ i = n + 1  OBVIOUS
    <3>6. n + 1 # 0 /\ (n + 1) - 1 = n  OBVIOUS
    <3>7. \A i \in 0 .. n + 1 : h[i] = IF i = 0 THEN <<>>
                        ELSE IF i \in P THEN Append(h[i - 1], v[i]) ELSE h[i - 1]
      BY <3>2, <3>3, <3>5, <3>6
    <3>8. Rec(h, n + 1)  BY <3>4, <3>7
    <3>. HIDE DEF Rec
    <3>. QED  BY <3>8, n + 1 \in Nat
  <2>. HIDE DEF S
  <2>. QED  BY <2>1, <2>2, NatBySet
<1>2. PICK g : Rec(g, Len(v))  BY <1>1, Zenon
<1>. HIDE DEF Rec
<1>. DEFINE out == CHOOSE f : Rec(f, Len(v))
<1>3. Rec(out, Len(v))  BY <1>2, Zenon
<1>4. Kept(P, v) = out[Len(v)]  BY DEF Kept, Rec
<1>. QED  BY <1>3, <1>4 DEF Rec

\* What a loop keeps stands at the positions it keeps.
LEMMA KeptIsRanked ==
    ASSUME NEW v, Len(v) \in Nat, NEW P \in SUBSET (1 .. Len(v))
    PROVE  Kept(P, v) = Ranked(P, v)
<1>1. PICK out :
        /\ out = [i \in 0 .. Len(v) |->
              IF i = 0 THEN <<>>
              ELSE IF i \in P THEN Append(out[i - 1], v[i]) ELSE out[i - 1]]
        /\ Kept(P, v) = out[Len(v)]
  BY KeptExists
<1>. DEFINE To(n) == P \intersect (1 .. n)
            S == {n \in Nat : n <= Len(v) => out[n] = Ranked(To(n), v)}
<1>2. 0 \in S
  <2>1. To(0) = {} /\ out[0] = <<>>  BY <1>1
  <2>. QED  BY <2>1, RankedNone
<1>3. ASSUME NEW n \in Nat, n \in S PROVE n + 1 \in S
  <2>. SUFFICES ASSUME n + 1 <= Len(v) PROVE out[n + 1] = Ranked(To(n + 1), v)
    OBVIOUS
  <2>1. out[n] = Ranked(To(n), v)  BY <1>3
  <2>2. out[n + 1] = IF n + 1 \in P THEN Append(out[n], v[n + 1]) ELSE out[n]
    <3>1. n + 1 \in 0 .. Len(v) /\ n + 1 # 0 /\ (n + 1) - 1 = n  OBVIOUS
    <3>. QED  BY <1>1, <3>1
  <2>3. CASE n + 1 \in P
    <3>1. To(n + 1) = To(n) \union {n + 1} /\ To(n) \in SUBSET (1 .. n)  BY <2>3
    <3>. HIDE DEF To
    <3>. QED  BY <2>1, <2>2, <2>3, <3>1, RankedAppend
  <2>4. CASE n + 1 \notin P
    <3>1. To(n + 1) = To(n)  BY <2>4
    <3>. QED  BY <2>1, <2>2, <2>4, <3>1
  <2>. QED  BY <2>3, <2>4
<1>. HIDE DEF S
<1>4. Len(v) \in S  BY <1>2, <1>3, NatBySet
<1>5. out[Len(v)] = Ranked(To(Len(v)), v)  BY <1>4 DEF S
<1>6. To(Len(v)) = P  OBVIOUS
<1>. QED  BY <1>1, <1>5, <1>6

LEMMA WrittenExists ==
    ASSUME NEW P, NEW pairs, Len(pairs) \in Nat
    PROVE  \E out : /\ out = [i \in 0 .. Len(pairs) |->
                        IF i = 0 THEN <<>>
                        ELSE IF i \in P THEN Put(out[i - 1], pairs[i][1], pairs[i][2])
                        ELSE out[i - 1]]
                    /\ Written(P, pairs) = out[Len(pairs)]
<1>. DEFINE Rec(g, n) == g = [i \in 0 .. n |->
                        IF i = 0 THEN <<>>
                        ELSE IF i \in P THEN Put(g[i - 1], pairs[i][1], pairs[i][2])
                        ELSE g[i - 1]]
            S == {n \in Nat : \E g : Rec(g, n)}
<1>1. \A n \in Nat : n \in S
  <2>1. 0 \in S
    <3>1. Rec([i \in 0 .. 0 |-> <<>>], 0)  OBVIOUS
    <3>. QED  BY <3>1, Zenon
  <2>2. ASSUME NEW n \in Nat, n \in S PROVE n + 1 \in S
    <3>1. PICK g : Rec(g, n)  BY <2>2, Zenon
    <3>. DEFINE more == IF n + 1 \in P THEN Put(g[n], pairs[n + 1][1], pairs[n + 1][2])
                        ELSE g[n]
                h == [i \in 0 .. n + 1 |-> IF i <= n THEN g[i] ELSE more]
    <3>. HIDE DEF more
    <3>2. ASSUME NEW i \in 0 .. n
          PROVE  h[i] = IF i = 0 THEN <<>>
                        ELSE IF i \in P THEN Put(h[i - 1], pairs[i][1], pairs[i][2])
                        ELSE h[i - 1]
      <4>1. h[i] = g[i] /\ (i # 0 => h[i - 1] = g[i - 1])  OBVIOUS
      <4>. HIDE DEF h
      <4>2. g[i] = IF i = 0 THEN <<>>
                   ELSE IF i \in P THEN Put(g[i - 1], pairs[i][1], pairs[i][2]) ELSE g[i - 1]
        BY <3>1
      <4>. QED  BY <4>1, <4>2
    <3>3. h[n + 1] = IF n + 1 \in P THEN Put(h[n], pairs[n + 1][1], pairs[n + 1][2]) ELSE h[n]
      <4>1. h[n] = g[n] /\ h[n + 1] = more  OBVIOUS
      <4>. HIDE DEF h
      <4>. QED  BY <4>1 DEF more
    <3>4. DOMAIN h = 0 .. n + 1 /\ h = [i \in 0 .. n + 1 |-> h[i]]  OBVIOUS
    <3>. HIDE DEF h
    <3>5. \A i \in 0 .. n + 1 : i \in 0 .. n \/ i = n + 1  OBVIOUS
    <3>6. n + 1 # 0 /\ (n + 1) - 1 = n  OBVIOUS
    <3>7. \A i \in 0 .. n + 1 : h[i] = IF i = 0 THEN <<>>
                        ELSE IF i \in P THEN Put(h[i - 1], pairs[i][1], pairs[i][2])
                        ELSE h[i - 1]
      BY <3>2, <3>3, <3>5, <3>6
    <3>8. Rec(h, n + 1)  BY <3>4, <3>7
    <3>. HIDE DEF Rec
    <3>. QED  BY <3>8, n + 1 \in Nat
  <2>. HIDE DEF S
  <2>. QED  BY <2>1, <2>2, NatBySet
<1>2. PICK g : Rec(g, Len(pairs))  BY <1>1, Zenon
<1>. HIDE DEF Rec
<1>. DEFINE out == CHOOSE f : Rec(f, Len(pairs))
<1>3. Rec(out, Len(pairs))  BY <1>2, Zenon
<1>4. Written(P, pairs) = out[Len(pairs)]  BY DEF Written, Rec
<1>. QED  BY <1>3, <1>4 DEF Rec

\* What a map holds that a loop has filled: under every key that came up, the last value.
LEMMA WrittenIsLast ==
    ASSUME NEW pairs, Len(pairs) \in Nat, NEW P \in SUBSET (1 .. Len(pairs))
    PROVE  LET f == Written(P, pairs) IN
           /\ DOMAIN f = {pairs[j][1] : j \in P}
           /\ \A k \in DOMAIN f : \E j \in P :
                 /\ pairs[j][1] = k /\ f[k] = pairs[j][2]
                 /\ \A l \in P : pairs[l][1] = k => l <= j
           /\ f = <<>> <=> P = {}
<1>1. PICK out :
        /\ out = [i \in 0 .. Len(pairs) |->
              IF i = 0 THEN <<>>
              ELSE IF i \in P THEN Put(out[i - 1], pairs[i][1], pairs[i][2]) ELSE out[i - 1]]
        /\ Written(P, pairs) = out[Len(pairs)]
  BY WrittenExists
<1>. DEFINE To(n) == P \intersect (1 .. n)
            Holds(f, Q) ==
              /\ DOMAIN f = {pairs[j][1] : j \in Q}
              /\ \A k \in DOMAIN f : \E j \in Q :
                    /\ pairs[j][1] = k /\ f[k] = pairs[j][2]
                    /\ \A l \in Q : pairs[l][1] = k => l <= j
              /\ Q = {} => f = <<>>
            S == {n \in Nat : n <= Len(pairs) => Holds(out[n], To(n))}
<1>2. 0 \in S
  <2>1. To(0) = {} /\ out[0] = <<>>  BY <1>1
  <2>2. Holds(<<>>, {})  OBVIOUS
  <2>. QED  BY <2>1, <2>2
<1>3. ASSUME NEW n \in Nat, n \in S PROVE n + 1 \in S
  <2>. SUFFICES ASSUME n + 1 <= Len(pairs) PROVE Holds(out[n + 1], To(n + 1))
    OBVIOUS
  <2>1. Holds(out[n], To(n))  BY <1>3
  <2>2. out[n + 1] = IF n + 1 \in P THEN Put(out[n], pairs[n + 1][1], pairs[n + 1][2])
                                   ELSE out[n]
    <3>1. n + 1 \in 0 .. Len(pairs) /\ n + 1 # 0 /\ (n + 1) - 1 = n  OBVIOUS
    <3>. QED  BY <1>1, <3>1
  <2>3. CASE n + 1 \in P
    <3>. DEFINE f == out[n]
                g == out[n + 1]
                key == pairs[n + 1][1]
                Q == To(n)
    <3>1. To(n + 1) = Q \union {n + 1} /\ (\A j \in Q : j \in Nat /\ j <= n)  BY <2>3
    <3>2. g = [x \in DOMAIN f \union {key} |-> IF x = key THEN pairs[n + 1][2] ELSE f[x]]
      BY <2>2, <2>3 DEF Put
    <3>. HIDE DEF g, key, Q, To
    <3>3. DOMAIN g = {pairs[j][1] : j \in Q \union {n + 1}}
      <4>1. DOMAIN g = {pairs[j][1] : j \in Q} \union {key}  BY <2>1, <3>2 DEF Q
      <4>. QED  BY <4>1 DEF key
    <3>4. ASSUME NEW k \in DOMAIN g
          PROVE  \E j \in Q \union {n + 1} :
                    /\ pairs[j][1] = k /\ g[k] = pairs[j][2]
                    /\ \A l \in Q \union {n + 1} : pairs[l][1] = k => l <= j
      <4>1. CASE k = key
        <5>1. g[k] = pairs[n + 1][2] /\ pairs[n + 1][1] = k  BY <3>2, <4>1 DEF key
        <5>2. \A l \in Q \union {n + 1} : l <= n + 1  BY <3>1
        <5>. QED  BY <5>1, <5>2
      <4>2. CASE k # key
        <5>1. k \in DOMAIN f /\ g[k] = f[k]  BY <3>2, <4>2
        <5>2. PICK j \in Q : /\ pairs[j][1] = k /\ f[k] = pairs[j][2]
                             /\ \A l \in Q : pairs[l][1] = k => l <= j
          BY <2>1, <5>1 DEF Q
        <5>3. \A l \in Q \union {n + 1} : pairs[l][1] = k => l \in Q  BY <4>2 DEF key
        <5>. QED  BY <5>1, <5>2, <5>3
      <4>. QED  BY <4>1, <4>2
    <3>. QED  BY <3>1, <3>3, <3>4 DEF g
  <2>4. CASE n + 1 \notin P
    <3>1. To(n + 1) = To(n)  BY <2>4
    <3>. HIDE DEF To, Holds
    <3>. QED  BY <2>1, <2>2, <2>4, <3>1
  <2>. QED  BY <2>3, <2>4
<1>. HIDE DEF S
<1>4. Len(pairs) \in S  BY <1>2, <1>3, NatBySet
<1>. HIDE DEF Holds
<1>5. Holds(out[Len(pairs)], To(Len(pairs)))  BY <1>4 DEF S
<1>6. To(Len(pairs)) = P  OBVIOUS
<1>7. Holds(Written(P, pairs), P)  BY <1>1, <1>5, <1>6
<1>8. Written(P, pairs) = <<>> => P = {}
  <2>1. DOMAIN Written(P, pairs) = {pairs[j][1] : j \in P}  BY <1>7 DEF Holds
  <2>2. DOMAIN <<>> = {}  OBVIOUS
  <2>. QED  BY <2>1, <2>2
<1>. QED  BY <1>7, <1>8 DEF Holds

LEMMA CurrentExists ==
    ASSUME NEW text, Len(text) \in Nat
    PROVE  \E out : /\ out = [i \in 0 .. Len(text) |->
                        IF i = 0 THEN <<>>
                        ELSE AddLine(out[i - 1], text[i])]
                    /\ Current(text) = out
<1>. DEFINE Rec(g, n) == g = [i \in 0 .. n |->
                        IF i = 0 THEN <<>>
                        ELSE AddLine(g[i - 1], text[i])]
            S == {n \in Nat : \E g : Rec(g, n)}
<1>1. \A n \in Nat : n \in S
  <2>1. 0 \in S
    <3>1. Rec([i \in 0 .. 0 |-> <<>>], 0)  OBVIOUS
    <3>. QED  BY <3>1, Zenon
  <2>2. ASSUME NEW n \in Nat, n \in S PROVE n + 1 \in S
    <3>1. PICK g : Rec(g, n)  BY <2>2, Zenon
    <3>. DEFINE more == AddLine(g[n], text[n + 1])
                h == [i \in 0 .. n + 1 |-> IF i <= n THEN g[i] ELSE more]
    <3>. HIDE DEF more
    <3>2. ASSUME NEW i \in 0 .. n
          PROVE  h[i] = IF i = 0 THEN <<>>
                        ELSE AddLine(h[i - 1], text[i])
      <4>1. h[i] = g[i] /\ (i # 0 => h[i - 1] = g[i - 1])  OBVIOUS
      <4>. HIDE DEF h
      <4>2. g[i] = IF i = 0 THEN <<>>
                   ELSE AddLine(g[i - 1], text[i])
        BY <3>1
      <4>. QED  BY <4>1, <4>2
    <3>3. h[n + 1] = AddLine(h[n], text[n + 1])
      <4>1. h[n] = g[n] /\ h[n + 1] = more  OBVIOUS
      <4>. HIDE DEF h
      <4>. QED  BY <4>1 DEF more
    <3>4. DOMAIN h = 0 .. n + 1 /\ h = [i \in 0 .. n + 1 |-> h[i]]  OBVIOUS
    <3>. HIDE DEF h
    <3>5. \A i \in 0 .. n + 1 : i \in 0 .. n \/ i = n + 1  OBVIOUS
    <3>6. n + 1 # 0 /\ (n + 1) - 1 = n  OBVIOUS
    <3>7. \A i \in 0 .. n + 1 : h[i] = IF i = 0 THEN <<>>
                        ELSE AddLine(h[i - 1], text[i])
      BY <3>2, <3>3, <3>5, <3>6
    <3>8. Rec(h, n + 1)  BY <3>4, <3>7
    <3>. HIDE DEF Rec
    <3>. QED  BY <3>8, n + 1 \in Nat
  <2>. HIDE DEF S
  <2>. QED  BY <2>1, <2>2, NatBySet
<1>2. PICK g : Rec(g, Len(text))  BY <1>1, Zenon
<1>. HIDE DEF Rec
<1>. DEFINE out == CHOOSE f : Rec(f, Len(text))
<1>3. Rec(out, Len(text))  BY <1>2, Zenon
<1>4. Current(text) = out  BY DEF Current, Rec
<1>. QED  BY <1>3, <1>4 DEF Rec

\* A row of a text, and the lines that make a table before a position.
LEMMA FilledCells ==
    ASSUME NEW cells \in Seq(STRING)
    PROVE  /\ Filled(cells) \in SUBSET (1 .. Len(cells)) /\ Len(cells) \in Nat
           /\ NonEmpty(cells) = Ranked(Filled(cells), cells)
           /\ NonEmpty(cells) \in Seq(STRING)
           /\ Len(NonEmpty(cells)) = Cardinality(Filled(cells))
<1>1. Len(cells) \in Nat /\ DOMAIN cells = 1 .. Len(cells)  BY LenProperties
<1>2. Filled(cells) \in SUBSET (1 .. Len(cells))  BY <1>1 DEF Filled
<1>3. NonEmpty(cells) = Ranked(Filled(cells), cells)
  BY <1>1, <1>2, KeptIsRanked DEF NonEmpty, Filled
<1>4. \A i \in Filled(cells) : cells[i] \in STRING  BY <1>2, ElementOfSeq
<1>. QED  BY <1>1, <1>2, <1>3, <1>4, RankedSeq

LEMMA CurrentIsRanked ==
    ASSUME NEW text \in Seq(Line)
    PROVE  \A n \in 0 .. Len(text) :
              Current(text)[n] = Ranked(TableLines(text, n + 1), Filling(text))
<1>1. Len(text) \in Nat /\ DOMAIN text = 1 .. Len(text)  BY LenProperties
<1>2. PICK out :
        /\ out = [i \in 0 .. Len(text) |->
                     IF i = 0 THEN <<>> ELSE AddLine(out[i - 1], text[i])]
        /\ Current(text) = out
  BY <1>1, CurrentExists
<1>. DEFINE S == {n \in Nat : n <= Len(text) =>
                     out[n] = Ranked(TableLines(text, n + 1), Filling(text))}
<1>3. 0 \in S
  <2>1. out[0] = <<>>  BY <1>1, <1>2
  <2>2. TableLines(text, 0 + 1) = {}  BY DEF TableLines
  <2>. QED  BY <2>1, <2>2, RankedNone
<1>4. ASSUME NEW n \in Nat, n \in S PROVE n + 1 \in S
  <2>. SUFFICES ASSUME n + 1 <= Len(text)
                PROVE  out[n + 1] = Ranked(TableLines(text, n + 2), Filling(text))
    OBVIOUS
  <2>. DEFINE line == text[n + 1]
              L == TableLines(text, n + 1)
              M == TableLines(text, n + 2)
              F == Filling(text)
  <2>1. out[n] = Ranked(L, F)  BY <1>1, <1>4
  <2>2. out[n + 1] = AddLine(out[n], line)
    <3>1. n + 1 \in 0 .. Len(text) /\ n + 1 # 0 /\ (n + 1) - 1 = n  BY <1>1
    <3>. QED  BY <1>2, <3>1
  <2>3. line \in Line  BY <1>1, ElementOfSeq, n + 1 \in 1 .. Len(text)
  <2>4. line.cells \in Seq(STRING)  BY <2>3 DEF Line
  <2>5. /\ NonEmpty(line.cells) = Ranked(Filled(line.cells), line.cells)
        /\ Len(NonEmpty(line.cells)) = Cardinality(Filled(line.cells))
    BY <2>4, FilledCells
  <2>6. F[n + 1] = NonEmpty(line.cells)  BY <1>1, <2>5 DEF Filling
  <2>7. L \in SUBSET (1 .. n)  BY DEF TableLines
  <2>8. CASE IsBlank(line)
    <3>1. \A i \in 1 .. n + 1 : n + 1 \in i .. n + 1  OBVIOUS
    <3>2. (n + 2) - 1 = n + 1  OBVIOUS
    <3>3. M = {}  BY <2>8, <3>1, <3>2 DEF TableLines
    <3>4. out[n + 1] = <<>>  BY <2>2, <2>8 DEF AddLine
    <3>. QED  BY <3>3, <3>4, RankedNone
  <2>9. ASSUME ~IsBlank(line)
        PROVE  M = IF Cardinality(Filled(line.cells)) >= 2 THEN L \union {n + 1} ELSE L
    <3>. DEFINE Free(i, e) == \A j \in i .. e - 1 : ~IsBlank(text[j])
                Two(i) == Cardinality(Filled(text[i].cells)) >= 2
    <3>1. ASSUME NEW i \in 1 .. n PROVE Free(i, n + 2) <=> Free(i, n + 1)
      <4>1. i .. (n + 2) - 1 = (i .. (n + 1) - 1) \union {n + 1}  OBVIOUS
      <4>. QED  BY <2>9, <4>1
    <3>2. Free(n + 1, n + 2)  BY <2>9
    <3>3. M = {i \in 1 .. n + 1 : Two(i) /\ Free(i, n + 2)}  BY DEF TableLines
    <3>4. L = {i \in 1 .. n : Two(i) /\ Free(i, n + 1)}  BY DEF TableLines
    <3>5. 1 .. n + 1 = (1 .. n) \union {n + 1}  OBVIOUS
    <3>6. Two(n + 1) <=> Cardinality(Filled(line.cells)) >= 2  OBVIOUS
    <3>. HIDE DEF Free, Two, L, M
    <3>. QED  BY <3>1, <3>2, <3>3, <3>4, <3>5, <3>6
  <2>10. CASE ~IsBlank(line) /\ Cardinality(Filled(line.cells)) >= 2
    <3>1. M = L \union {n + 1}  BY <2>9, <2>10
    <3>2. out[n + 1] = Append(out[n], F[n + 1])  BY <2>2, <2>5, <2>6, <2>10 DEF AddLine
    <3>. HIDE DEF L, M, F
    <3>. QED  BY <2>1, <2>7, <3>1, <3>2, RankedAppend DEF M, F
  <2>11. CASE ~IsBlank(line) /\ ~(Cardinality(Filled(line.cells)) >= 2)
    <3>1. M = L  BY <2>9, <2>11
    <3>2. out[n + 1] = out[n]  BY <2>2, <2>5, <2>11 DEF AddLine
    <3>. QED  BY <2>1, <3>1, <3>2
  <2>. QED  BY <2>8, <2>10, <2>11
<1>. HIDE DEF S
<1>5. \A n \in Nat : n \in S  BY <1>3, <1>4, NatBySet
<1>6. ASSUME NEW n \in 0 .. Len(text)
      PROVE  out[n] = Ranked(TableLines(text, n + 1), Filling(text))
  <2>1. n \in Nat /\ n <= Len(text)  BY <1>1
  <2>. QED  BY <1>5, <2>1 DEF S
<1>. QED  BY <1>2, <1>6

\* A function on 1 .. n is a sequence.
LEMMA FunctionIsSeq ==
    ASSUME NEW n \in Nat, NEW v, v = [i \in 1 .. n |-> v[i]]
    PROVE  Len(v) = n /\ DOMAIN v = 1 .. n
<1>. DEFINE T == {v[i] : i \in 1 .. n}
<1>1. v \in [1 .. n -> T]  OBVIOUS
<1>. HIDE DEF T
<1>2. v \in Seq(T)  BY <1>1, SeqDef, Zenon
<1>3. DOMAIN v = 1 .. n /\ DOMAIN v = 1 .. Len(v) /\ Len(v) \in Nat
  BY <1>1, <1>2, LenProperties
<1>. QED  BY <1>3

LEMMA DelimitedByPosition ==
    ASSUME NEW text \in Seq(Line)
    PROVE  LET ends == TableEnds(text)
               rows(k) == Ranked(TableLines(text, Nth(ends, k)), Filling(text))
           IN  /\ ends \in SUBSET (1 .. Len(text) + 1) /\ Cardinality(ends) \in Nat
               /\ \A k \in 1 .. Cardinality(ends) :
                     rows(k) \in Seq(Seq(STRING)) /\ Len(rows(k)) >= 2
               /\ DelimitedTables(text) =
                     [k \in 1 .. Cardinality(ends) |-> Entry(k - 1, rows(k))]
<1>. DEFINE ends == TableEnds(text)
            found(e) == Ranked(TableLines(text, e), Filling(text))
            rows == [e \in 1 .. Len(text) + 1 |-> Current(text)[e - 1]]
            ended == {e \in DOMAIN rows : e \in DOMAIN text => IsBlank(text[e])}
            counted == {e \in ended : Len(rows[e]) >= 2}
            blocks == Kept(counted, rows)
<1>1. Len(text) \in Nat /\ DOMAIN text = 1 .. Len(text)  BY LenProperties
<1>2. Len(rows) = Len(text) + 1 /\ DOMAIN rows = 1 .. Len(text) + 1
  <2>1. DOMAIN rows = 1 .. Len(text) + 1 /\ rows = [e \in 1 .. Len(text) + 1 |-> rows[e]]
    OBVIOUS
  <2>2. Len(text) + 1 \in Nat  BY <1>1
  <2>. HIDE DEF rows
  <2>. QED  BY <2>1, <2>2, FunctionIsSeq
<1>3. ASSUME NEW e \in 1 .. Len(text) + 1
      PROVE  /\ rows[e] = found(e) /\ Len(found(e)) = Cardinality(TableLines(text, e))
             /\ found(e) \in Seq(Seq(STRING))
  <2>1. e - 1 \in 0 .. Len(text) /\ (e - 1) + 1 = e /\ e - 1 \in Nat  BY <1>1
  <2>2. rows[e] = found(e)  BY <2>1, CurrentIsRanked
  <2>3. TableLines(text, e) \in SUBSET (1 .. e - 1)  BY DEF TableLines
  <2>4. ASSUME NEW i \in TableLines(text, e) PROVE Filling(text)[i] \in Seq(STRING)
    <3>1. i \in 1 .. Len(text)  BY <1>1, <2>3
    <3>0. text[i] \in Line  BY <3>1, ElementOfSeq
    <3>2. text[i].cells \in Seq(STRING)  BY <3>0 DEF Line
    <3>3. Filling(text)[i] = NonEmpty(text[i].cells)
      BY <1>1, <3>1, <3>2, FilledCells DEF Filling
    <3>. QED  BY <3>2, <3>3, FilledCells
  <2>5. /\ found(e) \in Seq(Seq(STRING))
        /\ Len(found(e)) = Cardinality(TableLines(text, e))
    BY <2>1, <2>3, <2>4, RankedSeq
  <2>. QED  BY <2>2, <2>5
<1>. HIDE DEF rows, found
<1>4. counted = ends  BY <1>1, <1>2, <1>3 DEF TableEnds
<1>5. ends \in SUBSET (1 .. Len(text) + 1)  BY DEF TableEnds
<1>6. Cardinality(ends) \in Nat  BY <1>1, <1>5, Positions, Len(text) + 1 \in Nat
<1>7. blocks = Ranked(ends, rows)
  BY <1>1, <1>2, <1>4, <1>5, KeptIsRanked, Len(text) + 1 \in Nat
<1>8. DOMAIN blocks = 1 .. Cardinality(ends)  BY <1>7 DEF Ranked
<1>9. ASSUME NEW k \in 1 .. Cardinality(ends)
      PROVE  /\ blocks[k] = found(Nth(ends, k)) /\ Len(found(Nth(ends, k))) >= 2
             /\ found(Nth(ends, k)) \in Seq(Seq(STRING))
  <2>1. Nth(ends, k) \in ends  BY <1>1, <1>5, NthTaken, Len(text) + 1 \in Nat
  <2>2. blocks[k] = rows[Nth(ends, k)]  BY <1>7 DEF Ranked
  <2>3. Cardinality(TableLines(text, Nth(ends, k))) >= 2  BY <2>1 DEF TableEnds
  <2>. QED  BY <1>3, <1>5, <2>1, <2>2, <2>3
<1>10. DelimitedTables(text) = [b \in DOMAIN blocks |-> Entry(b - 1, blocks[b])]
  BY DEF DelimitedTables, rows
<1>. HIDE DEF blocks, ends
<1>11. DelimitedTables(text) =
         [k \in 1 .. Cardinality(ends) |-> Entry(k - 1, found(Nth(ends, k)))]
  BY <1>8, <1>9, <1>10
<1>. QED  BY <1>5, <1>6, <1>9, <1>11 DEF found, ends

LEMMA HTMLByPosition ==
    ASSUME NEW html \in Seq(Seq(Seq(STRING)))
    PROVE  LET told == TextTables(html)
               rows(i) == Ranked({r \in DOMAIN html[i] : HasText(html[i][r])}, html[i])
           IN  /\ told \in SUBSET (1 .. Len(html)) /\ Cardinality(told) \in Nat
               /\ \A i \in told : rows(i) \in Seq(Seq(STRING)) /\ rows(i) # <<>>
               /\ HTMLTables(html) = [k \in 1 .. Cardinality(told) |->
                      Entry(Nth(told, k) - 1, rows(Nth(told, k)))]
<1>. DEFINE told == TextTables(html)
            at(i) == {r \in DOMAIN html[i] : HasText(html[i][r])}
            rows(i) == Ranked(at(i), html[i])
            entries == [i \in DOMAIN html |-> Entry(i - 1, TextRows(html[i]))]
<1>1. Len(html) \in Nat /\ DOMAIN html = 1 .. Len(html)  BY LenProperties
<1>2. ASSUME NEW i \in DOMAIN html
      PROVE  /\ TextRows(html[i]) = rows(i) /\ rows(i) \in Seq(Seq(STRING))
             /\ rows(i) = <<>> <=> i \notin told
  <2>1. html[i] \in Seq(Seq(STRING))  BY <1>1, ElementOfSeq
  <2>2. Len(html[i]) \in Nat /\ DOMAIN html[i] = 1 .. Len(html[i])  BY <2>1, LenProperties
  <2>3. at(i) \in SUBSET (1 .. Len(html[i]))  BY <2>2
  <2>4. TextRows(html[i]) = rows(i)  BY <2>2, <2>3, KeptIsRanked DEF TextRows
  <2>5. \A r \in at(i) : html[i][r] \in Seq(STRING)  BY <2>1, <2>3, ElementOfSeq
  <2>. HIDE DEF at
  <2>6. rows(i) \in Seq(Seq(STRING)) /\ Len(rows(i)) = Cardinality(at(i))
    BY <2>2, <2>3, <2>5, RankedSeq
  <2>7. IsFiniteSet(at(i)) /\ Cardinality(at(i)) \in Nat  BY <2>2, <2>3, Positions
  <2>8. at(i) = {} <=> Cardinality(at(i)) = 0  BY <2>7, FS_EmptySet
  <2>9. rows(i) = <<>> <=> Len(rows(i)) = 0  BY <2>6, EmptySeq
  <2>10. i \in told <=> at(i) # {}  BY DEF TextTables, at
  <2>. QED  BY <2>4, <2>6, <2>8, <2>9, <2>10
<1>. HIDE DEF rows
<1>3. {i \in DOMAIN html : TextRows(html[i]) # <<>>} = told  BY <1>2 DEF TextTables
<1>4. told \in SUBSET (1 .. Len(html))  BY <1>1 DEF TextTables
<1>5. Len(entries) = Len(html)
  <2>1. entries = [i \in 1 .. Len(html) |-> entries[i]]  BY <1>1
  <2>. HIDE DEF entries
  <2>. QED  BY <1>1, <2>1, FunctionIsSeq
<1>6. Kept(told, entries) = Ranked(told, entries)  BY <1>1, <1>4, <1>5, KeptIsRanked
<1>7. HTMLTables(html) = Ranked(told, entries)  BY <1>3, <1>6 DEF HTMLTables
<1>8. ASSUME NEW k \in 1 .. Cardinality(told)
      PROVE  entries[Nth(told, k)] = Entry(Nth(told, k) - 1, rows(Nth(told, k)))
  <2>1. Nth(told, k) \in told  BY <1>1, <1>4, NthTaken
  <2>. QED  BY <1>1, <1>2, <1>4, <2>1
<1>. HIDE DEF entries
<1>9. HTMLTables(html) =
        [k \in 1 .. Cardinality(told) |-> Entry(Nth(told, k) - 1, rows(Nth(told, k)))]
  BY <1>7, <1>8 DEF Ranked
<1>10. Cardinality(told) \in Nat  BY <1>1, <1>4, Positions
<1>. QED  BY <1>1, <1>2, <1>4, <1>9, <1>10 DEF rows

\* The text a mail is read as.
LEMMA TextOfLines ==
    ASSUME NEW m \in Documents
    PROVE  ExtractionText(m) \in Seq(Line) /\ m.html \in Seq(Seq(Seq(STRING)))
BY DocumentsAssumption DEF ExtractionText

\* The tables of a mail are the entries of what its text shows.
LEMMA TablesByPosition ==
    ASSUME NEW m \in Documents
    PROVE  /\ Len(Found(m)) \in Nat /\ DOMAIN Found(m) = 1 .. Len(Found(m))
           /\ \A k \in 1 .. Len(Found(m)) :
                 Found(m)[k].rows \in Seq(Seq(STRING)) /\ Found(m)[k].rows # <<>>
           /\ Tables(m) = [k \in 1 .. Len(Found(m)) |->
                             Entry(Found(m)[k].index, Found(m)[k].rows)]
<1>. DEFINE text == ExtractionText(m)
            html == m.html
<1>1. text \in Seq(Line) /\ html \in Seq(Seq(Seq(STRING)))  BY TextOfLines
<1>2. \A f : f = <<>> => DOMAIN f = {}  OBVIOUS
<1>3. Len(text) \in Nat /\ Len(html) \in Nat  BY <1>1, LenProperties
<1>4. CASE HTMLFound(html) = <<>>
  <2>. DEFINE ends == TableEnds(text)
              c == Cardinality(ends)
              rows(k) == Ranked(TableLines(text, Nth(ends, k)), Filling(text))
              told == TextTables(html)
  <2>1. Found(m) = DelimitedFound(text)  BY <1>4 DEF Found
  <2>2. /\ c \in Nat
        /\ \A k \in 1 .. c : rows(k) \in Seq(Seq(STRING)) /\ Len(rows(k)) >= 2
        /\ DelimitedTables(text) = [k \in 1 .. c |-> Entry(k - 1, rows(k))]
    BY <1>1, DelimitedByPosition
  <2>3. HTMLTables(html) = <<>>
    <3>1. DOMAIN HTMLFound(html) = 1 .. Cardinality(told)  BY DEF HTMLFound
    <3>2. 1 .. Cardinality(told) = {}  BY <1>2, <1>4, <3>1
    <3>3. HTMLTables(html) = [k \in 1 .. Cardinality(told) |->
             Entry(Nth(told, k) - 1,
                   Ranked({r \in DOMAIN html[Nth(told, k)] : HasText(html[Nth(told, k)][r])},
                          html[Nth(told, k)]))]
      BY <1>1, HTMLByPosition
    <3>. QED  BY <3>2, <3>3
  <2>4. Tables(m) = DelimitedTables(text)  BY <2>3 DEF Tables
  <2>5. Found(m) = [k \in 1 .. c |-> [index |-> k - 1, rows |-> rows(k)]]
    BY <2>1 DEF DelimitedFound
  <2>. HIDE DEF c, rows
  <2>6. Found(m) = [k \in 1 .. c |-> Found(m)[k]]  BY <2>5
  <2>7. Len(Found(m)) = c /\ DOMAIN Found(m) = 1 .. c  BY <2>2, <2>6, FunctionIsSeq
  <2>8. \A k \in 1 .. c : Found(m)[k].index = k - 1 /\ Found(m)[k].rows = rows(k)  BY <2>5
  <2>9. \A k \in 1 .. c : rows(k) # <<>>
    <3>1. Len(<<>>) = 0  OBVIOUS
    <3>. QED  BY <2>2, <3>1
  <2>. QED  BY <2>2, <2>4, <2>7, <2>8, <2>9
<1>5. CASE HTMLFound(html) # <<>>
  <2>. DEFINE told == TextTables(html)
              c == Cardinality(told)
              rows(i) == Ranked({r \in DOMAIN html[i] : HasText(html[i][r])}, html[i])
  <2>1. Found(m) = HTMLFound(html)  BY <1>5 DEF Found
  <2>2. /\ told \in SUBSET (1 .. Len(html)) /\ c \in Nat
        /\ \A i \in told : rows(i) \in Seq(Seq(STRING)) /\ rows(i) # <<>>
        /\ HTMLTables(html) = [k \in 1 .. c |-> Entry(Nth(told, k) - 1, rows(Nth(told, k)))]
    BY <1>1, HTMLByPosition
  <2>3. \A k \in 1 .. c : Nth(told, k) \in told  BY <1>3, <2>2, NthTaken
  <2>4. Found(m) = [k \in 1 .. c |-> [index |-> Nth(told, k) - 1, rows |-> rows(Nth(told, k))]]
    BY <2>1 DEF HTMLFound
  <2>. HIDE DEF c, rows, told
  <2>5. Found(m) = [k \in 1 .. c |-> Found(m)[k]]  BY <2>4
  <2>6. Len(Found(m)) = c /\ DOMAIN Found(m) = 1 .. c  BY <2>2, <2>5, FunctionIsSeq
  <2>7. c # 0
    <3>1. c = 0 => HTMLFound(html) = <<>>  BY <2>1, <2>4
    <3>. QED  BY <1>5, <3>1
  <2>8. HTMLTables(html) # <<>>
    <3>1. DOMAIN HTMLTables(html) = 1 .. c  BY <2>2
    <3>2. 1 \in 1 .. c  BY <2>2, <2>7
    <3>. QED  BY <1>2, <3>1, <3>2
  <2>9. Tables(m) = HTMLTables(html)  BY <2>8 DEF Tables
  <2>10. \A k \in 1 .. c : /\ Found(m)[k].index = Nth(told, k) - 1
                           /\ Found(m)[k].rows = rows(Nth(told, k))
    BY <2>4
  <2>. QED  BY <2>2, <2>3, <2>6, <2>9, <2>10
<1>. QED  BY <1>4, <1>5
-------------------------------------------------------------------------------
(* Records, and the answer. *)

\* The column that gives a field is the last of those that could.
LEMMA RecordOfGivers ==
    ASSUME NEW header \in Seq(STRING), NEW row \in Seq(STRING)
    PROVE  LET Keys == {SlugKey(header[j], j) : j \in DOMAIN header}
               rec == Record(header, row)
           IN  /\ DOMAIN rec = {k \in Keys : Givers(header, row, k) # {}}
               /\ \A k \in DOMAIN rec : \E j \in Givers(header, row, k) : rec[k] = row[j]
               /\ rec # <<>> <=> \E k \in Keys : Givers(header, row, k) # {}
<1>. DEFINE Keys == {SlugKey(header[j], j) : j \in DOMAIN header}
            pairs == [i \in DOMAIN header |-> <<SlugKey(header[i], i), Cell(row, i)>>]
            P == Given(header, row)
            rec == Record(header, row)
<1>1. /\ Len(header) \in Nat /\ DOMAIN header = 1 .. Len(header)
      /\ Len(row) \in Nat /\ DOMAIN row = 1 .. Len(row)
  BY LenProperties
<1>2. P \in SUBSET (1 .. Len(header))  BY <1>1 DEF Given
<1>3. Len(pairs) = Len(header)
  <2>1. pairs = [i \in 1 .. Len(header) |-> pairs[i]]  BY <1>1
  <2>. HIDE DEF pairs
  <2>. QED  BY <1>1, <2>1, FunctionIsSeq
<1>4. rec = Written(P, pairs)  BY DEF Record
<1>5. \A j \in P : pairs[j][1] = SlugKey(header[j], j) /\ pairs[j][2] = row[j]
  BY <1>1, <1>2 DEF Given, Cell
<1>6. \A j : j \in P <=> j \in (DOMAIN header) \intersect (DOMAIN row) /\ row[j] # ""
  BY DEF Given, Cell
<1>. HIDE DEF P, pairs, rec
<1>7. /\ DOMAIN rec = {pairs[j][1] : j \in P}
      /\ \A k \in DOMAIN rec : \E j \in P :
            /\ pairs[j][1] = k /\ rec[k] = pairs[j][2]
            /\ \A l \in P : pairs[l][1] = k => l <= j
      /\ rec = <<>> <=> P = {}
  <2>1. Len(pairs) \in Nat /\ P \in SUBSET (1 .. Len(pairs))  BY <1>1, <1>2, <1>3
  <2>. QED  BY <1>4, <2>1, WrittenIsLast
<1>8. ASSUME NEW k \in DOMAIN rec
      PROVE  k \in Keys /\ \E j \in Givers(header, row, k) : rec[k] = row[j]
  <2>1. PICK j \in P : /\ pairs[j][1] = k /\ rec[k] = pairs[j][2]
                       /\ \A l \in P : pairs[l][1] = k => l <= j
    BY <1>7
  <2>2. j \in Givers(header, row, k)  BY <1>5, <1>6, <2>1 DEF Givers
  <2>3. k \in Keys  BY <1>5, <1>6, <2>1
  <2>. QED  BY <1>5, <2>1, <2>2, <2>3
<1>9. ASSUME NEW k, Givers(header, row, k) # {}
      PROVE  k \in DOMAIN rec
  <2>1. PICK j \in P : SlugKey(header[j], j) = k  BY <1>6, <1>9 DEF Givers
  <2>. QED  BY <1>5, <1>7, <2>1
<1>10. rec # <<>> => \E k \in Keys : Givers(header, row, k) # {}
  <2>. SUFFICES ASSUME rec # <<>> PROVE \E k \in Keys : Givers(header, row, k) # {}
    OBVIOUS
  <2>1. PICK j \in P : TRUE  BY <1>7
  <2>2. pairs[j][1] \in DOMAIN rec  BY <1>7
  <2>. QED  BY <1>8, <2>2
<1>11. (\E k \in Keys : Givers(header, row, k) # {}) => rec # <<>>
  <2>1. DOMAIN <<>> = {}  OBVIOUS
  <2>. QED  BY <1>9, <2>1
<1>. HIDE DEF Keys
<1>12. DOMAIN rec = {k \in Keys : Givers(header, row, k) # {}}  BY <1>8, <1>9
<1>. QED  BY <1>8, <1>10, <1>11, <1>12 DEF Keys, rec

\* The records of a table, one for each row that gives some field.
LEMMA RecordsByPosition ==
    ASSUME NEW header \in Seq(STRING), NEW data \in Seq(Seq(STRING))
    PROVE  LET Keys == {SlugKey(header[j], j) : j \in DOMAIN header}
               given == {r \in DOMAIN data : \E k \in Keys : Givers(header, data[r], k) # {}}
               told == Ranked(given, data)
               records == RowsToRecords(header, data)
           IN  /\ Len(records) = Len(told)
               /\ DOMAIN records = 1 .. Len(told)
               /\ \A r \in DOMAIN records :
                     told[r] \in Seq(STRING) /\ records[r] = Record(header, told[r])
<1>. DEFINE Keys == {SlugKey(header[j], j) : j \in DOMAIN header}
            given == {r \in DOMAIN data : \E k \in Keys : Givers(header, data[r], k) # {}}
            told == Ranked(given, data)
            all == [r \in DOMAIN data |-> Record(header, data[r])]
            records == RowsToRecords(header, data)
            T == {all[r] : r \in DOMAIN data}
<1>1. Len(data) \in Nat /\ DOMAIN data = 1 .. Len(data)  BY LenProperties
<1>2. \A r \in DOMAIN data : data[r] \in Seq(STRING)  BY <1>1, ElementOfSeq
<1>3. Len(all) = Len(data)
  <2>1. all = [r \in 1 .. Len(data) |-> all[r]]  BY <1>1
  <2>. HIDE DEF all
  <2>. QED  BY <1>1, <2>1, FunctionIsSeq
<1>4. {r \in DOMAIN data : all[r] # <<>>} = given
  <2>1. \A r \in DOMAIN data :
           Record(header, data[r]) # <<>> <=> \E k \in Keys : Givers(header, data[r], k) # {}
    BY <1>2, RecordOfGivers
  <2>. QED  BY <2>1
<1>5. given \in SUBSET (1 .. Len(data))  BY <1>1
<1>6. \A r \in given : all[r] \in T /\ data[r] \in Seq(STRING)  BY <1>2
<1>7. \A r \in given : all[r] = Record(header, data[r])  OBVIOUS
<1>8. records = Kept(given, all)  BY <1>4 DEF RowsToRecords
<1>. HIDE DEF given, all, T
<1>9. records = Ranked(given, all)
  <2>1. Len(all) \in Nat /\ given \in SUBSET (1 .. Len(all))  BY <1>1, <1>3, <1>5
  <2>. QED  BY <1>8, <2>1, KeptIsRanked
<1>10. /\ records \in Seq(T) /\ Len(records) = Cardinality(given)
       /\ told \in Seq(Seq(STRING)) /\ Len(told) = Cardinality(given)
  BY <1>1, <1>5, <1>6, <1>9, RankedSeq
<1>11. DOMAIN records = 1 .. Len(told)  BY <1>10, LenProperties
<1>12. ASSUME NEW r \in DOMAIN records
       PROVE  told[r] \in Seq(STRING) /\ records[r] = Record(header, told[r])
  <2>1. r \in 1 .. Cardinality(given)  BY <1>10, <1>11
  <2>2. Nth(given, r) \in given  BY <1>1, <1>5, <2>1, NthTaken
  <2>3. records[r] = all[Nth(given, r)] /\ told[r] = data[Nth(given, r)]
    BY <1>9, <2>1 DEF Ranked
  <2>. QED  BY <1>6, <1>7, <2>2, <2>3
<1>. QED  BY <1>10, <1>11, <1>12 DEF given

\* What an answer holds, and what has been checked before it is made.
AnswerInv ==
    /\ mail \in Documents
    /\ pc = "run" => BodyLengthOk(mail)
    /\ pc = "answered" => /\ answer.tables = Tables(mail)
                          /\ answer.keyValues = KeyValues(ExtractionText(mail))

LEMMA AnswerStep == Spec => []AnswerInv
<1>1. Init => AnswerInv  BY DEF Init, AnswerInv
<1>2. AnswerInv /\ [Next]_vars => AnswerInv'
  <2>. SUFFICES ASSUME AnswerInv, [Next]_vars PROVE AnswerInv'
    OBVIOUS
  <2>. USE DEF AnswerInv
  <2>1. CASE GetFails  BY <2>1 DEF GetFails
  <2>2. CASE Validate  BY <2>2 DEF Validate
  <2>3. ASSUME NEW preview, Run(preview) PROVE AnswerInv'
    <3>1. /\ answer'.tables = Tables(mail)
          /\ answer'.keyValues = KeyValues(ExtractionText(mail))
      BY <2>3 DEF Run
    <3>. QED  BY <2>3, <3>1 DEF Run
  <2>4. CASE RunWhole  BY <2>3, <2>4 DEF RunWhole
  <2>5. CASE RunCut  BY <2>3, <2>5 DEF RunCut
  <2>6. CASE Panic  BY <2>6 DEF Panic
  <2>7. CASE Over \/ UNCHANGED vars  BY <2>7 DEF Over, vars
  <2>. QED  BY <2>1, <2>2, <2>4, <2>5, <2>6, <2>7 DEF Next
<1>. QED  BY <1>1, <1>2, PTL DEF Spec

\* Every table of the text or of the HTML is in the answer, in order, under its number and
\* with its rows as they stand, and nothing else is.
THEOREM TablesExactHolds == Spec => []TablesExact
<1>1. AnswerInv => TablesExact
  <2>. SUFFICES ASSUME AnswerInv, pc = "answered"
                PROVE  /\ Len(answer.tables) = Len(Found(mail))
                       /\ \A i \in DOMAIN answer.tables :
                             /\ answer.tables[i].index = Found(mail)[i].index
                             /\ answer.tables[i].rows # <<>> =>
                                   answer.tables[i].rows = Found(mail)[i].rows
    BY DEF TablesExact
  <2>. DEFINE t == answer.tables
              n == Len(Found(mail))
  <2>1. n \in Nat /\ t = [k \in 1 .. n |-> Entry(Found(mail)[k].index, Found(mail)[k].rows)]
    BY TablesByPosition DEF AnswerInv
  <2>2. Len(t) = n /\ DOMAIN t = 1 .. n
    <3>1. t = [k \in 1 .. n |-> t[k]]  BY <2>1
    <3>. HIDE DEF t, n
    <3>. QED  BY <2>1, <3>1, FunctionIsSeq
  <2>3. ASSUME NEW i \in DOMAIN t
        PROVE  /\ t[i].index = Found(mail)[i].index
               /\ t[i].rows # <<>> => t[i].rows = Found(mail)[i].rows
    <3>1. t[i] = Entry(Found(mail)[i].index, Found(mail)[i].rows)  BY <2>1, <2>2
    <3>. QED  BY <3>1 DEF Entry
  <2>. QED  BY <2>2, <2>3
<1>. QED  BY <1>1, AnswerStep, PTL

\* The records of a table tell what its rows say, whatever keys the headings share.
THEOREM RecordsTrueHolds == Spec => []RecordsTrue
<1>1. AnswerInv => RecordsTrue
  <2>. SUFFICES ASSUME AnswerInv, pc = "answered",
                       NEW i \in DOMAIN answer.tables, answer.tables[i].rows = <<>>
                PROVE  LET header == Head(Found(mail)[i].rows)
                           Keys == {SlugKey(header[j], j) : j \in DOMAIN header}
                           data == Tail(Found(mail)[i].rows)
                           told == Ranked({r \in DOMAIN data :
                                      \E k \in Keys : Givers(header, data[r], k) # {}}, data)
                           records == answer.tables[i].records
                       IN  /\ Len(records) = Len(told)
                           /\ \A r \in DOMAIN records :
                                 /\ DOMAIN records[r] =
                                       {k \in Keys : Givers(header, told[r], k) # {}}
                                 /\ \A k \in DOMAIN records[r] :
                                       \E j \in Givers(header, told[r], k) :
                                          records[r][k] = told[r][j]
    BY DEF RecordsTrue
  <2>. DEFINE rows == Found(mail)[i].rows
              header == Head(rows)
              data == Tail(rows)
              records == answer.tables[i].records
              Keys == {SlugKey(header[j], j) : j \in DOMAIN header}
              told == Ranked({r \in DOMAIN data :
                                \E k \in Keys : Givers(header, data[r], k) # {}}, data)
  <2>1. /\ rows \in Seq(Seq(STRING)) /\ rows # <<>>
        /\ answer.tables[i] = Entry(Found(mail)[i].index, rows)
    BY TablesByPosition DEF AnswerInv
  <2>2. header \in Seq(STRING) /\ data \in Seq(Seq(STRING)) /\ header = rows[1]
    <3>. HIDE DEF rows
    <3>1. rows \in Seq(Seq(STRING)) /\ rows # <<>>  BY <2>1
    <3>2. header \in Seq(STRING) /\ data \in Seq(Seq(STRING))  BY <3>1, HeadTailProperties
    <3>3. header = rows[1]  BY <3>1
    <3>. QED  BY <3>2, <3>3
  <2>3. records = RowsToRecords(header, data)  BY <2>1, <2>2 DEF Entry
  <2>. HIDE DEF rows, header, data, records
  <2>4. /\ Len(records) = Len(told)
        /\ \A r \in DOMAIN records :
              told[r] \in Seq(STRING) /\ records[r] = Record(header, told[r])
    BY <2>2, <2>3, RecordsByPosition
  <2>5. ASSUME NEW r \in DOMAIN records
        PROVE  /\ DOMAIN records[r] = {k \in Keys : Givers(header, told[r], k) # {}}
               /\ \A k \in DOMAIN records[r] :
                     \E j \in Givers(header, told[r], k) : records[r][k] = told[r][j]
    <3>1. told[r] \in Seq(STRING) /\ records[r] = Record(header, told[r])  BY <2>4
    <3>. DEFINE row == told[r]
    <3>. HIDE DEF told, row
    <3>2. row \in Seq(STRING) /\ records[r] = Record(header, row)  BY <3>1 DEF row
    <3>3. /\ DOMAIN Record(header, row) = {k \in Keys : Givers(header, row, k) # {}}
          /\ \A k \in DOMAIN Record(header, row) :
                \E j \in Givers(header, row, k) : Record(header, row)[k] = row[j]
      BY <2>2, <3>2, RecordOfGivers
    <3>. HIDE DEF Keys
    <3>. QED  BY <3>2, <3>3 DEF row
  <2>. QED  BY <2>4, <2>5 DEF header, data, records, rows
<1>. QED  BY <1>1, AnswerStep, PTL

\* No line's value is lost to an earlier line of its key, and none is made up.
THEOREM LastValueWinsHolds == Spec => []LastValueWins
<1>1. AnswerInv => LastValueWins
  <2>. SUFFICES ASSUME AnswerInv, pc = "answered" PROVE LastValueWins
    BY DEF LastValueWins
  <2>. DEFINE text == ExtractionText(mail)
              P == {i \in DOMAIN text : IsPair(text[i])}
              pairs == [i \in DOMAIN text |-> text[i].pair]
              kv == answer.keyValues
              Of(k) == {i \in DOMAIN text : IsPair(text[i]) /\ text[i].pair[1] = k}
  <2>1. text \in Seq(Line)  BY TextOfLines DEF AnswerInv
  <2>2. Len(text) \in Nat /\ DOMAIN text = 1 .. Len(text)  BY <2>1, LenProperties
  <2>3. Len(pairs) = Len(text)
    <3>1. pairs = [i \in 1 .. Len(text) |-> pairs[i]]  BY <2>2
    <3>. HIDE DEF pairs
    <3>. QED  BY <2>2, <3>1, FunctionIsSeq
  <2>4. kv = Written(P, pairs)  BY DEF AnswerInv, KeyValues
  <2>5. \A i \in P : pairs[i] = text[i].pair  OBVIOUS
  <2>6. P \in SUBSET (1 .. Len(pairs))  BY <2>2, <2>3
  <2>7. \A k : Of(k) = {i \in P : text[i].pair[1] = k}  OBVIOUS
  <2>8. {text[i].pair[1] : i \in P} = {pairs[i][1] : i \in P}  BY <2>5
  <2>. HIDE DEF pairs, P, kv, Of
  <2>9. /\ DOMAIN kv = {pairs[j][1] : j \in P}
        /\ \A k \in DOMAIN kv : \E j \in P :
              /\ pairs[j][1] = k /\ kv[k] = pairs[j][2]
              /\ \A l \in P : pairs[l][1] = k => l <= j
    BY <2>2, <2>3, <2>4, <2>6, WrittenIsLast
  <2>10. ASSUME NEW k \in DOMAIN kv PROVE kv[k] = text[Max(Of(k))].pair[2]
    <3>1. PICK j \in P : /\ pairs[j][1] = k /\ kv[k] = pairs[j][2]
                         /\ \A l \in P : pairs[l][1] = k => l <= j
      BY <2>9
    <3>2. j \in Of(k) /\ \A l \in Of(k) : j >= l  BY <2>3, <2>5, <2>6, <2>7, <3>1
    <3>3. Of(k) \in SUBSET Int
      <4>1. P \in SUBSET Int  BY <2>6
      <4>2. Of(k) \subseteq P  BY <2>7
      <4>. QED  BY <4>1, <4>2
    <3>4. Max(Of(k)) = j  BY <3>2, <3>3 DEF Max
    <3>. QED  BY <2>5, <3>1, <3>4
  <2>. QED  BY <2>8, <2>9, <2>10 DEF LastValueWins, P, kv, Of
<1>. QED  BY <1>1, AnswerStep, PTL

LEMMA RoomSuffices ==
    ASSUME BodyLengthOk(mail)
    PROVE  Room \in Rooms /\ Room >= Length /\ Length \in Nat
<1>1. Length \in Nat /\ Length <= MaxRunes
  BY RoomsAssumption DEF BodyLengthOk, Length
<1>. DEFINE fit == {room \in Rooms : room >= Length}
<1>2. fit # {} /\ fit \in SUBSET Nat
  <2>1. Length \in 0 .. MaxRunes  BY <1>1, RoomsAssumption
  <2>2. PICK room \in Rooms : room >= Length  BY <2>1, RoomsAssumption
  <2>. QED  BY <2>2, RoomsAssumption
<1>. HIDE DEF fit
<1>3. PICK m \in fit : \A k \in fit : ~(<<k, m>> \in OpToRel(<, Nat))
  BY <1>2, WFMin, NatLessThanWellFounded, Zenon
<1>4. \A k \in fit : ~(k < m)  BY <1>2, <1>3, Zenon DEF OpToRel
<1>5. \A k \in fit : m <= k  BY <1>2, <1>4
<1>6. Min(fit) \in fit  BY <1>5 DEF Min
<1>7. Room = Min(fit)  BY DEF Room, fit
<1>. QED  BY <1>1, <1>6, <1>7 DEF fit

\* The slice runs past its room for texts alone that have more bytes than the preview's limit
\* and fewer runes: neither a short text nor a long one (Run, structured.go:80).
PanicOnlyBetween ==
    pc = "panicked" =>
        /\ Bytes(ExtractionText(mail)) > Preview
        /\ Runes(ExtractionText(mail)) < Preview

\* A text that is not between the two counts of the preview's limit never has its slice run
\* past its room.
THEOREM PanicOnlyBetweenHolds == Spec => []PanicOnlyBetween
<1>1. Init => PanicOnlyBetween  BY DEF Init, PanicOnlyBetween
<1>2. AnswerInv /\ PanicOnlyBetween /\ [Next]_vars => PanicOnlyBetween'
  <2>. SUFFICES ASSUME AnswerInv, PanicOnlyBetween, [Next]_vars PROVE PanicOnlyBetween'
    OBVIOUS
  <2>. USE DEF PanicOnlyBetween
  <2>1. CASE GetFails  BY <2>1 DEF GetFails
  <2>2. CASE Validate  BY <2>2 DEF Validate
  <2>3. CASE RunWhole  BY <2>3 DEF RunWhole, Run
  <2>4. CASE RunCut  BY <2>4 DEF RunCut, Run
  <2>5. CASE Panic
    <3>1. BodyLengthOk(mail)  BY <2>5 DEF Panic, AnswerInv
    <3>2. Room \in Rooms /\ Room >= Length /\ Length \in Nat  BY <3>1, RoomSuffices
    <3>3. Cut /\ Room < Preview /\ mail' = mail  BY <2>5 DEF Panic
    <3>4. Room \in Nat /\ Preview \in Nat  BY <3>2, RoomsAssumption
    <3>5. Length < Preview  BY <3>2, <3>3, <3>4
    <3>. QED  BY <3>3, <3>5 DEF Cut, Length
  <2>6. CASE Over \/ UNCHANGED vars  BY <2>6 DEF Over, vars
  <2>. QED  BY <2>1, <2>2, <2>3, <2>4, <2>5, <2>6 DEF Next
<1>. QED  BY <1>1, <1>2, AnswerStep, PTL DEF Spec

===============================================================================
