----------------------------- MODULE ListNewProofs -----------------------------
(***************************************************************************)
(* ListNew for every bucket, page size and limit.                          *)
(***************************************************************************)
EXTENDS ListNew, FiniteSetTheorems, WellFoundedInduction, TLAPS

LEMMA InitTypeOK == Init => TypeOK
BY ListAssumption DEF Init, TypeOK

LEMMA NextTypeOK == TypeOK /\ [Next]_vars => TypeOK'
<1> SUFFICES ASSUME TypeOK, [Next]_vars PROVE TypeOK'
  OBVIOUS
<1> USE ListAssumption
<1>1. ASSUME NEW k \in Keys, Upload(k) PROVE TypeOK'
  BY <1>1 DEF TypeOK, Upload
<1>2. CASE Request
  BY <1>2 DEF TypeOK, Request
<1>3. CASE ListPage
  <2> DEFINE page == FirstOf(Rest, PageSize)
  <2>1. page \in SUBSET Keys
    BY DEF FirstOf, Rest, TypeOK
  <2>2. Collect(page) \in SUBSET Emails
    BY DEF Collect, FirstOf, TypeOK
  <2>3. token' \in Keys \union {0} /\ pc' \in {"list", "answer"}
    BY <1>3, <2>1 DEF ListPage, TypeOK
  <2> HIDE DEF page
  <2>4. keys' = Collect(page) /\ UNCHANGED <<objects, after, told, late, faults>>
    BY <1>3 DEF ListPage, page
  <2> QED
    BY <2>2, <2>3, <2>4 DEF TypeOK
<1>4. CASE Receive
  <2>1. after' \in Keys \union {0} /\ told' \in SUBSET Emails
    BY <1>4 DEF TypeOK, Receive
  <2>2. late' \in SUBSET Emails
    BY <1>4 DEF TypeOK, Receive, Forget
  <2> QED
    BY <1>4, <2>1, <2>2 DEF TypeOK, Receive, Forget
<1>5. CASE GiveUp
  <2>1. late' \in SUBSET Emails
    BY <1>5 DEF TypeOK, GiveUp, Forget
  <2> QED
    BY <1>5, <2>1 DEF TypeOK, GiveUp, Forget
<1>6. CASE UNCHANGED vars
  BY <1>6 DEF TypeOK, vars
<1> QED
  BY <1>1, <1>2, <1>3, <1>4, <1>5, <1>6 DEF Next, Poll

\* Every variable keeps its type: the keys listed are mails under the prefix.
THEOREM TypeCorrect == Spec => []TypeOK
<1>1. Init => TypeOK
  BY InitTypeOK
<1>2. TypeOK /\ [Next]_vars => TypeOK'
  BY NextTypeOK
<1> QED
  BY <1>1, <1>2, PTL DEF Spec

\* `after` separates the keys the caller has from those being collected.
Separated ==
    /\ \A k \in told : k <= after
    /\ \A k \in keys : after < k

LEMMA NextSeparated == TypeOK /\ Separated /\ [Next]_vars => Separated'
<1> SUFFICES ASSUME TypeOK, Separated, [Next]_vars PROVE Separated'
  OBVIOUS
<1> USE ListAssumption DEF Separated
<1>1. ASSUME NEW k \in Keys, Upload(k) PROVE Separated'
  BY <1>1 DEF Upload
<1>2. CASE Request
  BY <1>2 DEF Request
<1>3. CASE ListPage
  BY <1>3 DEF ListPage, Collect, FirstOf
<1>4. CASE Receive
  <2>1. keys \subseteq Nat /\ told \subseteq Nat /\ after \in Nat
    BY DEF TypeOK
  <2>2. CASE keys = {}
    BY <1>4, <2>2 DEF Receive, Forget
  <2>3. CASE keys # {}
    <3>1. after' \in keys /\ \A l \in keys : l <= after'
      BY <1>4, <2>3 DEF Receive
    <3>2. \A k \in told : k <= after'
      BY <2>1, <3>1
    <3> QED
      BY <1>4, <3>1, <3>2 DEF Receive, Forget
  <2> QED
    BY <2>2, <2>3
<1>5. CASE GiveUp
  BY <1>5 DEF GiveUp, Forget
<1>6. CASE UNCHANGED vars
  BY <1>6 DEF vars
<1> QED
  BY <1>1, <1>2, <1>3, <1>4, <1>5, <1>6 DEF Next, Poll

\* No mail is listed to the caller twice, whatever is stored between two pages
\* and however many requests are given up.
THEOREM ToldOnceHolds == Spec => []ToldOnce
<1>1. Init => Separated
  BY DEF Init, Separated
<1>2. TypeOK /\ Separated => ToldOnce
  BY ListAssumption DEF TypeOK, Separated, ToldOnce
<1> QED
  BY <1>1, <1>2, NextSeparated, TypeCorrect, PTL DEF Spec
--------------------------------------------------------------------------------
LEMMA LeastElement ==
    ASSUME NEW S \in SUBSET Nat, S # {}
    PROVE  \E m \in S : \A k \in S : m <= k
<1>1. PICK m \in S : \A k \in S : ~(<<k, m>> \in OpToRel(<, Nat))
  BY WFMin, NatLessThanWellFounded, Zenon
<1>2. \A k \in S : ~(k < m)
  BY <1>1, Zenon DEF OpToRel
<1> QED
  BY <1>2

\* What FirstOf takes lies below what it leaves.
LEMMA FirstOfDown ==
    ASSUME NEW S \in SUBSET Keys, NEW n \in Nat, NEW k \in FirstOf(S, n), NEW j \in S, j < k
    PROVE  j \in FirstOf(S, n)
<1> DEFINE below(x) == {l \in S : l < x}
<1>1. below(j) \subseteq below(k) /\ IsFiniteSet(below(k)) /\ IsFiniteSet(below(j))
  <2>1. IsFiniteSet(S)
    BY ListAssumption, FS_Subset
  <2>2. below(j) \subseteq below(k)
    <3>1. k \in Nat /\ j \in Nat /\ \A l \in S : l \in Nat
      BY ListAssumption DEF FirstOf
    <3>2. \A l \in S : l < j => l < k
      BY <3>1
    <3> QED
      BY <3>2
  <2> QED
    BY <2>1, <2>2, FS_Subset
<1>2. Cardinality(below(j)) <= Cardinality(below(k))
  BY <1>1, FS_Subset
<1>3. Cardinality(below(k)) < n
  BY DEF FirstOf
<1>4. Cardinality(below(j)) \in Nat /\ Cardinality(below(k)) \in Nat
  BY <1>1, FS_CardinalityType
<1>5. Cardinality(below(j)) < n
  BY <1>2, <1>3, <1>4
<1> QED
  BY <1>5 DEF FirstOf

\* FirstOf leaves a key only when it has taken n.
LEMMA FirstOfFull ==
    ASSUME NEW S \in SUBSET Keys, NEW n \in Nat, FirstOf(S, n) # S
    PROVE  Cardinality(FirstOf(S, n)) >= n
<1> DEFINE left == S \ FirstOf(S, n)
           below(x) == {l \in S : l < x}
<1>1. left # {} /\ left \in SUBSET Nat
  BY ListAssumption DEF FirstOf
<1>2. PICK m \in left : \A k \in left : m <= k
  BY <1>1, LeastElement
<1>3. IsFiniteSet(FirstOf(S, n)) /\ IsFiniteSet(below(m))
  <2>1. IsFiniteSet(S)
    BY ListAssumption, FS_Subset
  <2> QED
    BY <2>1, FS_Subset DEF FirstOf
<1>4. below(m) \subseteq FirstOf(S, n)
  BY <1>1, <1>2, ListAssumption
<1>5. Cardinality(below(m)) <= Cardinality(FirstOf(S, n))
  BY <1>3, <1>4, FS_Subset
<1>6. ~(Cardinality(below(m)) < n)
  BY DEF FirstOf
<1>0. Cardinality(below(m)) \in Nat /\ Cardinality(FirstOf(S, n)) \in Nat
  BY <1>3, FS_CardinalityType
<1> QED
  BY <1>5, <1>6, <1>0

\* Inductive: mail below `after` was told of, mail above it that the listing has passed
\* is collected, and what came in behind either is late.
NoGapInv ==
    /\ NoGap
    /\ pc = "idle" => token = 0 /\ keys = {}
    /\ pc = "list" => Cardinality(keys) < Limit /\ \A k \in keys : k <= token
    /\ \A k \in objects \intersect Emails :
          /\ after < k
          /\ k <= token \/ (pc = "answer" /\ \E l \in keys : k <= l)
          => k \in keys \union late

LEMMA NextNoGapInv ==
    ASSUME TypeOK, Separated, NoGapInv, [Next]_vars
    PROVE  NoGapInv'
<1> USE ListAssumption
<1>0. \A k \in Emails : ~(k <= 0)
  <2>1. \A k \in Emails : k \in Nat /\ k # 0
    OBVIOUS
  <2> QED
    BY <2>1
<1>1. ASSUME NEW k \in Keys, Upload(k) PROVE NoGapInv'
  BY <1>1 DEF Upload, Passed, NoGapInv, NoGap, TypeOK
<1>2. CASE Request
  BY <1>2, FS_EmptySet DEF Request, NoGapInv, NoGap
<1>3. CASE ListPage
  <2> DEFINE page == FirstOf(Rest, PageSize)
             new == {k \in page \intersect Emails : k > after}
             room == Limit - Cardinality(keys)
             taken == FirstOf(new, room)
  <2>1. /\ page \subseteq Rest /\ Rest \in SUBSET Keys /\ new \in SUBSET Keys
        /\ taken \subseteq new /\ keys \subseteq Keys
    BY DEF FirstOf, Rest, TypeOK
  <2>11. /\ \A k \in page : k > token /\ k \in Nat
         /\ \A k \in page \intersect Emails : after < k => k \in new
         /\ token \in Nat /\ after \in Nat /\ keys \subseteq Nat
    <3>0. /\ Keys \subseteq Nat /\ token \in Keys \union {0} /\ after \in Keys \union {0}
          /\ keys \subseteq Keys /\ page \subseteq Keys
      BY <2>1, Zenon DEF TypeOK, ListAssumption
    <3>1. /\ token \in Nat /\ after \in Nat /\ keys \subseteq Nat /\ page \subseteq Nat
      <4>1. keys \subseteq Nat /\ page \subseteq Nat
        BY <3>0, Zenon
      <4>2. token \in Nat /\ after \in Nat
        BY <3>0
      <4> QED
        BY <4>1, <4>2
    <3>2. \A k \in page : k > token /\ k \in Nat
      BY <2>1, <3>1 DEF Rest
    <3>3. \A k \in page \intersect Emails : after < k => k > after
      BY <3>1, <3>2
    <3> QED
      BY <3>1, <3>2, <3>3
  <2>2. IsFiniteSet(keys) /\ IsFiniteSet(taken)
    <3>1. keys \subseteq Keys /\ taken \subseteq Keys
      BY <2>1
    <3> QED
      BY <3>1, FS_Subset
  <2>3. /\ pc = "list" /\ keys' = keys \union taken
        /\ UNCHANGED <<objects, after, told, late>>
    BY <1>3 DEF ListPage, Collect
  <2>4. /\ Cardinality(keys) \in Nat /\ room \in Nat /\ Cardinality(taken) \in Nat
        /\ \A k \in keys : k <= token
    BY <2>2, <2>3, FS_CardinalityType DEF NoGapInv
  <2>5. Cardinality(keys') = Cardinality(keys) + Cardinality(taken)
    <3>1. \A k \in taken : k > token /\ k \in Nat
      BY <2>1, <2>11
    <3>2. keys \intersect taken = {}
      BY <2>4, <2>11, <3>1
    <3> QED
      BY <2>2, <2>3, <2>4, <3>2, FS_Union, FS_EmptySet
  <2>6. Cardinality(keys') < Limit => taken = new
    BY <2>1, <2>4, <2>5, FirstOfFull
  <2>7. ASSUME NEW k \in objects \intersect Emails, after < k,
               k <= token \/ (\E l \in page : k <= l /\ (l \in taken \/ taken = new))
        PROVE  k \in keys' \union late
    <3>1. CASE k <= token
      BY <2>3, <2>7, <3>1 DEF NoGapInv
    <3>2. CASE ~(k <= token)
      <4>1. PICK l \in page : k <= l /\ (l \in taken \/ taken = new)
        BY <2>7, <3>2
      <4>2. k \in Nat /\ l \in Nat /\ token \in Nat /\ k \in Emails
        <5>1. k \in Keys
          BY <2>7
        <5> QED
          BY <2>11, <5>1
      <4>3. k \in Rest
        BY <3>2, <4>2 DEF Rest
      <4>4. k \in page
        BY <2>1, <4>1, <4>2, <4>3, FirstOfDown
      <4>5. k \in new
        BY <2>7, <2>11, <4>2, <4>4
      <4>6. k \in taken
        BY <2>1, <2>4, <4>1, <4>2, <4>5, FirstOfDown
      <4> QED
        BY <2>3, <4>6
    <3> QED
      BY <3>1, <3>2
  <2>8. NoGap'
    BY <2>3 DEF NoGapInv, NoGap
  <2>9. CASE pc' = "answer"
    <3>1. token' = token
      BY <1>3, <2>3, <2>9 DEF ListPage
    <3>2. ASSUME NEW k \in objects \intersect Emails, after < k,
                 k <= token \/ \E l \in keys' : k <= l
          PROVE  k \in keys' \union late
      <4>1. CASE \E l \in keys : k <= l
        <5>1. k <= token
          <6>1. k \in Nat
            BY <3>2
          <6> QED
            BY <2>4, <2>11, <4>1, <6>1
        <5> QED
          BY <2>7, <3>2, <5>1
      <4>2. CASE \E l \in taken : k <= l
        BY <2>1, <2>7, <3>2, <4>2
      <4> QED
        BY <2>3, <2>7, <3>2, <4>1, <4>2
    <3> QED
      BY <2>3, <2>8, <2>9, <3>1, <3>2 DEF NoGapInv
  <2>10. CASE pc' # "answer"
    <3>1. /\ pc' = "list" /\ Cardinality(keys') < Limit
          /\ token' \in page /\ \A l \in page : l <= token'
      <4>1. ~(Cardinality(keys') >= Limit) /\ pc' = pc
            /\ token' \in page /\ \A l \in page : l <= token'
        BY <1>3, <2>10 DEF ListPage
      <4> QED
        BY <2>3, <2>4, <2>5, <4>1
    <3>2. taken = new
      BY <2>6, <3>1
    <3>3. ASSUME NEW k \in objects \intersect Emails, after < k, k <= token'
          PROVE  k \in keys' \union late
      BY <2>7, <3>1, <3>2, <3>3
    <3>4. token < token' /\ token \in Nat /\ token' \in Nat
      BY <2>11, <3>1
    <3>5. \A k \in keys' : k <= token'
      BY <2>1, <2>3, <2>4, <2>11, <3>1, <3>4
    <3> QED
      BY <2>3, <2>8, <3>1, <3>3, <3>5 DEF NoGapInv
  <2> QED
    BY <2>9, <2>10
<1>4. CASE Receive
  <2>1. /\ keys \subseteq Nat /\ after \in Nat /\ objects \intersect Emails \subseteq Nat
        /\ pc = "answer" /\ told' = told \union keys
        /\ objects' = objects /\ pc' = "idle" /\ token' = 0 /\ keys' = {}
        /\ late' = {k \in late : k <= after'}
    BY <1>4 DEF Receive, Forget, TypeOK
  <2>2. NoGap'
    <3> SUFFICES ASSUME NEW k \in objects \intersect Emails, k <= after'
                 PROVE  k \in told \union keys \union late
      BY <2>1 DEF NoGap
    <3>1. CASE k <= after
      BY <3>1 DEF NoGapInv, NoGap
    <3>2. CASE ~(k <= after)
      <4>1. after' \in keys
        BY <1>4, <3>2 DEF Receive
      <4> QED
        BY <2>1, <3>2, <4>1 DEF NoGapInv
    <3> QED
      BY <3>1, <3>2
  <2> QED
    BY <1>0, <2>1, <2>2 DEF NoGapInv
<1>5. CASE GiveUp
  BY <1>5, <1>0 DEF GiveUp, Forget, NoGapInv, NoGap
<1>6. CASE UNCHANGED vars
  BY <1>6 DEF vars, NoGapInv, NoGap
<1> QED
  BY <1>1, <1>2, <1>3, <1>4, <1>5, <1>6 DEF Next, Poll

\* Neither paging, nor the limit, nor a request given up after some of its pages leaves a
\* gap below `after`: what the caller was not told of there came in behind the listing.
THEOREM NoGapHolds == Spec => []NoGap
<1>1. Init => NoGapInv
  BY ListAssumption DEF Init, NoGapInv, NoGap
<1>2. Init => Separated
  BY DEF Init, Separated
<1>3. NoGapInv => NoGap
  BY DEF NoGapInv
<1> QED
  BY <1>1, <1>2, <1>3, NextNoGapInv, NextSeparated, TypeCorrect, PTL DEF Spec
================================================================================
