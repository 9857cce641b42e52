---------------------------- MODULE PagePollProofs ---------------------------
(***************************************************************************)
(* What the watermark functions do for every instant and every unit, and   *)
(* PagePoll for either provider, every page size, unit of time and set of  *)
(* mails.                                                                  *)
(***************************************************************************)
EXTENDS PagePoll, FiniteSetTheorems, TLAPS

LEMMA FloorBounds ==
    ASSUME NEW t \in Nat, NEW u \in Nat \ {0}
    PROVE  FloorTo(t, u) \in Nat /\ FloorTo(t, u) <= t /\ t < FloorTo(t, u) + u
BY DEF FloorTo

LEMMA FloorIsMultiple ==
    ASSUME NEW t \in Nat, NEW u \in Nat \ {0}
    PROVE  \E q \in Nat : FloorTo(t, u) = q * u
<1>1. t = u * (t \div u) + (t % u) /\ t \div u \in Nat
  OBVIOUS
<1>. QED  BY <1>1 DEF FloorTo

LEMMA Distributes ==
    ASSUME NEW a \in Nat, NEW b \in Nat, NEW u \in Nat
    PROVE  (a + b) * u = a * u + b * u /\ a * u \in Nat /\ b * u \in Nat
OBVIOUS

\* Multiples of a unit are a unit apart.
LEMMA MultiplesApart ==
    ASSUME NEW p \in Nat, NEW q \in Nat, NEW u \in Nat \ {0}, q * u < p * u + u
    PROVE  q * u <= p * u
<1>1. CASE q <= p
  <2>1. PICK d \in Nat : p = q + d  BY <1>1, p - q \in Nat
  <2>2. p * u = q * u + d * u /\ d * u \in Nat /\ q * u \in Nat  BY <2>1, Distributes
  <2>. QED  BY <2>2
<1>2. CASE q >= p + 1
  <2>1. PICK d \in Nat : q = (p + 1) + d  BY <1>2, q - (p + 1) \in Nat
  <2>2. q * u = (p + 1) * u + d * u /\ d * u \in Nat  BY <2>1, Distributes
  <2>3. (p + 1) * u = p * u + u  BY Distributes
  <2>4. p * u \in Nat  OBVIOUS
  <2>. QED  BY <1>1, <2>2, <2>3, <2>4
<1>. QED  BY <1>1, <1>2

\* The greatest multiple of the unit up to an instant.
LEMMA FloorGreatest ==
    ASSUME NEW t \in Nat, NEW u \in Nat \ {0}, NEW q \in Nat, q * u <= t
    PROVE  q * u <= FloorTo(t, u)
<1>1. PICK p \in Nat : FloorTo(t, u) = p * u  BY FloorIsMultiple
<1>2. t < FloorTo(t, u) + u /\ FloorTo(t, u) \in Nat  BY FloorBounds
<1>3. q * u \in Nat  OBVIOUS
<1>4. q * u < p * u + u  BY <1>1, <1>2, <1>3
<1>. QED  BY <1>1, <1>4, MultiplesApart

LEMMA FloorMonotone ==
    ASSUME NEW s \in Nat, NEW t \in Nat, NEW u \in Nat \ {0}, s <= t
    PROVE  FloorTo(s, u) <= FloorTo(t, u)
<1>1. PICK q \in Nat : FloorTo(s, u) = q * u  BY FloorIsMultiple
<1>2. q * u <= t  BY <1>1, FloorBounds
<1>. QED  BY <1>1, <1>2, FloorGreatest

\* Adding one unit moves the floor by one unit.
LEMMA FloorNext ==
    ASSUME NEW t \in Nat, NEW u \in Nat \ {0}
    PROVE  FloorTo(t + u, u) = FloorTo(t, u) + u
<1>1. PICK q \in Nat : FloorTo(t, u) = q * u  BY FloorIsMultiple
<1>0. t + u \in Nat  OBVIOUS
<1>2. PICK p \in Nat : FloorTo(t + u, u) = p * u  BY <1>0, FloorIsMultiple
<1>3. (q + 1) * u = q * u + u /\ q * u \in Nat /\ p * u \in Nat  BY Distributes
<1>4. q * u <= t /\ t < q * u + u  BY <1>1, FloorBounds
<1>5. p * u <= t + u  BY <1>2, FloorBounds, t + u \in Nat
<1>6. (q + 1) * u <= t + u  BY <1>3, <1>4
<1>7. (q + 1) * u <= p * u  BY <1>2, <1>6, FloorGreatest, t + u \in Nat, q + 1 \in Nat
<1>8. p * u < (q + 1) * u + u  BY <1>3, <1>4, <1>5
<1>9. p * u <= (q + 1) * u  BY <1>8, MultiplesApart, q + 1 \in Nat
<1>. QED  BY <1>1, <1>2, <1>3, <1>7, <1>9

\* An instant within one unit of a multiple has that multiple as its floor.
LEMMA FloorWithin ==
    ASSUME NEW t \in Nat, NEW u \in Nat \ {0}, NEW q \in Nat, q * u <= t, t < q * u + u
    PROVE  FloorTo(t, u) = q * u
<1>1. q * u <= FloorTo(t, u)  BY FloorGreatest
<1>2. PICK p \in Nat : FloorTo(t, u) = p * u  BY FloorIsMultiple
<1>3. FloorTo(t, u) <= t /\ FloorTo(t, u) \in Nat  BY FloorBounds
<1>4. q * u \in Nat  OBVIOUS
<1>5. p * u < q * u + u  BY <1>2, <1>3, <1>4
<1>6. p * u <= q * u  BY <1>5, MultiplesApart
<1>. QED  BY <1>1, <1>2, <1>3, <1>4, <1>6

\* The second of an instant, seen from a watermark of an earlier instant of it.
LEMMA SameSecond ==
    ASSUME NEW s \in Nat, NEW t \in Nat, FloorTo(s, SEC) <= t, t < FloorTo(s, SEC) + SEC
    PROVE  FloorTo(t, SEC) = FloorTo(s, SEC)
<1>1. PICK q \in Nat : FloorTo(s, SEC) = q * SEC  BY FloorIsMultiple, UnitsAssumption
<1>. QED  BY <1>1, FloorWithin, UnitsAssumption

\* Gmail: a watermark moved by a second or a millisecond from a listed date still
\* lists every later date, save those of the listed date's own second.
LEMMA GmailJump ==
    ASSUME NEW s \in Nat, NEW d \in Nat, NEW e \in Nat, NEW next \in {s + SEC, s + MS},
           GmailMatches(e, s), e <= d
    PROVE  GmailMatches(d, next) \/ FloorTo(e, SEC) = FloorTo(d, SEC)
<1>. USE UnitsAssumption
<1>1. next \in Nat /\ next <= s + SEC /\ s + SEC \in Nat  OBVIOUS
<1>2. FloorTo(next, SEC) <= FloorTo(s + SEC, SEC)  BY <1>1, FloorMonotone
<1>3. FloorTo(s + SEC, SEC) = FloorTo(s, SEC) + SEC  BY FloorNext
<1>4. FloorTo(s, SEC) \in Nat /\ FloorTo(next, SEC) \in Nat  BY <1>1, FloorBounds
<1>5. CASE d >= FloorTo(s, SEC) + SEC  BY <1>2, <1>3, <1>4, <1>5 DEF GmailMatches
<1>6. CASE d < FloorTo(s, SEC) + SEC
  <2>1. FloorTo(s, SEC) <= e  BY DEF GmailMatches
  <2>2. FloorTo(e, SEC) = FloorTo(s, SEC)  BY <1>4, <1>6, <2>1, SameSecond
  <2>3. FloorTo(d, SEC) = FloorTo(s, SEC)  BY <1>4, <1>6, <2>1, SameSecond
  <2>. QED  BY <2>2, <2>3
<1>. QED  BY <1>4, <1>5, <1>6

\* Graph: a listed date in whole milliseconds is later than the watermark itself.
LEMMA GraphLater ==
    ASSUME NEW s \in Nat, NEW q \in Nat, GraphMatches(q * MS, s)
    PROVE  q * MS > s
<1>. USE UnitsAssumption
<1>1. PICK p \in Nat : FloorTo(s, MS) = p * MS  BY FloorIsMultiple
<1>2. s < FloorTo(s, MS) + MS /\ FloorTo(s, MS) \in Nat  BY FloorBounds
<1>3. q * MS \in Nat /\ p * MS < q * MS  BY <1>1, <1>2 DEF GraphMatches
<1>4. SUFFICES ASSUME q * MS <= s PROVE FALSE  BY <1>3
<1>5. q * MS <= FloorTo(s, MS)  BY <1>4, FloorGreatest
<1>. QED  BY <1>1, <1>2, <1>3, <1>5

\* A nonempty page always moves the watermark; the latest date of the page, if
\* there is a later one, becomes the watermark; and it moves by a second at most
\* where there is none.
THEOREM ResolveAdvances ==
    ASSUME NEW old \in Nat, NEW latest \in Nat, latest >= old,
           NEW total \in Nat, NEW passed \in Nat, passed <= total
    PROVE  LET next == ResolveNewSince(old, latest, total, passed) IN
           /\ next \in Nat
           /\ next >= latest
           /\ total > 0 => next > old
           /\ total = 0 /\ latest = old => next = old
           /\ latest > old => next = latest
           /\ latest = old => next <= old + SEC
BY UnitsAssumption DEF ResolveNewSince, ZeroTime
-------------------------------------------------------------------------------
\* The types, and the arithmetic of a page: what is skipped was in the page.
TypeInv ==
    /\ TypeOK
    /\ skipped + Cardinality(page) <= listed
    /\ pc = "idle" => skipped = 0

LEMMA PageSize ==
    ASSUME NEW S \in SUBSET Mails
    PROVE  /\ IsFiniteSet(S) /\ Cardinality(S) \in Nat
           /\ S # {} <=> Cardinality(S) > 0
           /\ \A m \in S : Cardinality(S \ {m}) = Cardinality(S) - 1
<1>1. IsFiniteSet(S)  BY PageAssumption, FS_Subset
<1>2. Cardinality(S) \in Nat  BY <1>1, FS_CardinalityType
<1>3. S = {} <=> Cardinality(S) = 0  BY <1>1, FS_EmptySet
<1>4. \A m \in S : Cardinality(S \ {m}) = Cardinality(S) - 1  BY <1>1, FS_RemoveElement
<1>. QED  BY <1>1, <1>2, <1>3, <1>4

LEMMA TypeInvariant == Spec => []TypeInv
<1>. USE PageAssumption, UnitsAssumption DEF ZeroTime
<1>1. Init => TypeInv
  BY FS_EmptySet DEF Init, NoPoll, TypeInv, TypeOK
<1>2. TypeInv /\ [Next]_vars => TypeInv'
  <2>. SUFFICES ASSUME TypeInv, [Next]_vars PROVE TypeInv'
    OBVIOUS
  <2>. USE DEF caller, poll
  <2>1. CASE Tick  BY <2>1 DEF Tick, TypeInv, TypeOK
  <2>2. ASSUME NEW m \in Mails, Deliver(m) PROVE TypeInv'
    <3>1. now \in Nat /\ now <= Horizon  BY DEF TypeInv, TypeOK
    <3>2. FloorTo(now, Grain) \in 0 .. Horizon  BY <3>1, FloorBounds
    <3>. QED  BY <2>2, <3>2 DEF Deliver, TypeInv, TypeOK
  <2>3. CASE Initialize  BY <2>3 DEF Initialize, TypeInv, TypeOK
  <2>4. ASSUME NEW S \in SUBSET Mails, List(S) PROVE TypeInv'
    <3>1. skipped = 0 /\ skipped' = 0  BY <2>4 DEF List, TypeInv
    <3>. QED  BY <2>4, <3>1, PageSize DEF List, TypeInv, TypeOK, Matching
  <2>5. ASSUME NEW m \in Mails, Seen(m) PROVE maxCursor' \in Nat
    BY <2>5 DEF Seen, TypeInv, TypeOK
  <2>6. ASSUME NEW m \in Mails, Skip(m) PROVE TypeInv'
    <3>1. Cardinality(page \ {m}) = Cardinality(page) - 1 /\ Cardinality(page) \in Nat
          /\ Cardinality(page) > 0
      BY <2>6, PageSize DEF Skip, TypeInv, TypeOK
    <3>2. maxCursor' \in Nat  BY <2>5, <2>6 DEF Skip, TypeInv, TypeOK
    <3>. QED  BY <2>6, <3>1, <3>2 DEF Skip, TypeInv, TypeOK
  <2>7. ASSUME NEW m \in Mails, IngestOk(m) \/ FetchFails(m) \/ StoreFails(m) PROVE TypeInv'
    <3>1. Cardinality(page \ {m}) = Cardinality(page) - 1 /\ Cardinality(page) \in Nat
      BY <2>7, PageSize DEF IngestOk, FetchFails, StoreFails, TypeInv, TypeOK
    <3>2. maxCursor' \in Nat
      BY <2>5, <2>7 DEF IngestOk, FetchFails, StoreFails, TypeInv, TypeOK
    <3>. QED  BY <2>7, <3>1, <3>2 DEF IngestOk, FetchFails, StoreFails, TypeInv, TypeOK
  <2>8. CASE Finish
    <3>1. ResolveNewSince(since, maxCursor, listed, skipped) \in Nat
      BY DEF ResolveNewSince, TypeInv, TypeOK
    <3>. QED  BY <2>8, <3>1 DEF Finish, TypeInv, TypeOK
  <2>9. CASE Receive  BY <2>9, FS_EmptySet DEF Receive, Forget, TypeInv, TypeOK
  <2>10. CASE GiveUp  BY <2>10, FS_EmptySet DEF GiveUp, Forget, TypeInv, TypeOK
  <2>11. CASE UNCHANGED vars  BY <2>11 DEF vars, TypeInv, TypeOK
  <2>. QED  BY <2>1, <2>2, <2>3, <2>4, <2>6, <2>7, <2>8, <2>9, <2>10, <2>11 DEF Next, Poll
<1>. QED  BY <1>1, <1>2, PTL DEF Spec
-----------------------------------------------------------------------------
(* The watermark: where it is while a poll runs.                             *)

LEMMA MatchingFacts ==
    ASSUME TypeOK, NEW s
    PROVE  /\ Delivered = {m \in Mails : date[m] > 0}
           /\ Matching(s) \subseteq Delivered
BY DEF TypeOK, Delivered, Matching, Matches, ZeroTime

\* Inductive: the poll's latest date is the watermark or a mail's date, a nonempty
\* page moves the answer past the watermark, and what is handed over lies behind it.
CursorInv ==
    /\ pc = "loop" => since > 0 /\ maxCursor >= since
    /\ page # {} => pc = "loop"
    /\ page \subseteq Delivered /\ got \subseteq Delivered /\ known \subseteq Delivered
    /\ pc = "loop" => \A m \in got : date[m] <= maxCursor
    /\ pc = "idle" => got = {}
    /\ pc = "answer" =>
          /\ newSince >= since
          /\ listed > 0 => newSince > since
          /\ \A m \in got : date[m] <= newSince
    /\ KnownBehind

LEMMA CursorStep == ASSUME TypeInv, TypeInv', CursorInv, [Next]_vars PROVE CursorInv'
<1>. USE PageAssumption, UnitsAssumption DEF ZeroTime, caller, poll
<1>0. \A m \in Mails : date[m] \in Nat  BY DEF TypeInv, TypeOK
<1>1. CASE Tick  BY <1>1 DEF Tick, CursorInv, Delivered, KnownBehind
<1>2. ASSUME NEW m \in Mails, Deliver(m) PROVE CursorInv'
  <2>1. date[m] = 0 /\ m \notin Delivered  BY <1>2 DEF Deliver, Delivered
  <2>2. \A n \in Delivered : n \in Delivered' /\ date'[n] = date[n]
    BY <1>2, <2>1 DEF Deliver, Delivered, TypeInv, TypeOK
  <2>. QED  BY <1>2, <2>1, <2>2 DEF Deliver, CursorInv, KnownBehind
<1>3. CASE Initialize
  BY <1>3 DEF Initialize, CursorInv, Delivered, KnownBehind, TypeInv, TypeOK
<1>4. ASSUME NEW S \in SUBSET Mails, List(S) PROVE CursorInv'
  <2>1. S \subseteq Delivered  BY <1>4, MatchingFacts DEF List, Pages, TypeInv
  <2>. QED  BY <1>4, <2>1 DEF List, CursorInv, Delivered, KnownBehind, TypeInv, TypeOK
<1>5. ASSUME NEW m \in Mails, Skip(m) \/ IngestOk(m) \/ FetchFails(m) \/ StoreFails(m)
      PROVE CursorInv'
  <2>1. /\ maxCursor' \in {maxCursor, IF date[m] > maxCursor THEN date[m] ELSE maxCursor}
        /\ got' = got \/ (got' = got \union {m} /\ Seen(m))
        /\ page' = page \ {m} /\ m \in page /\ pc = "loop" /\ pc' = "loop"
        /\ UNCHANGED <<date, since, known>>
    BY <1>5 DEF Skip, IngestOk, FetchFails, StoreFails, Seen
  <2>. QED  BY <1>0, <2>1 DEF Seen, CursorInv, Delivered, KnownBehind, TypeInv, TypeOK
<1>6. CASE Finish
  <2>1. skipped <= listed /\ skipped \in Nat /\ listed \in Nat /\ since \in Nat /\ maxCursor \in Nat
        /\ maxCursor >= since
    BY <1>6 DEF Finish, CursorInv, TypeInv, TypeOK
  <2>2. newSince' >= maxCursor /\ (listed > 0 => newSince' > since) /\ newSince' \in Nat
    BY <1>6, <2>1, ResolveAdvances DEF Finish
  <2>3. \A m \in got : date[m] <= newSince'
    BY <1>0, <1>6, <2>1, <2>2 DEF Finish, CursorInv, TypeInv, TypeOK
  <2>4. UNCHANGED <<page, got, known, date, since, listed>> /\ pc' = "answer" /\ page = {}
    BY <1>6 DEF Finish
  <2>. QED  BY <2>1, <2>2, <2>3, <2>4 DEF CursorInv, Delivered, KnownBehind
<1>7. CASE Receive
  BY <1>0, <1>7 DEF Receive, Forget, CursorInv, Delivered, KnownBehind, TypeInv, TypeOK
<1>8. CASE GiveUp
  BY <1>8 DEF GiveUp, Forget, CursorInv, Delivered, KnownBehind, TypeInv, TypeOK
<1>9. CASE UNCHANGED vars  BY <1>9 DEF vars, CursorInv, Delivered, KnownBehind
<1>. QED  BY <1>1, <1>2, <1>3, <1>4, <1>5, <1>6, <1>7, <1>8, <1>9 DEF Next, Poll

LEMMA CursorInvariant == Spec => []CursorInv
<1>1. Init => CursorInv
  BY DEF Init, NoPoll, CursorInv, Delivered, KnownBehind
<1>2. TypeInv /\ TypeInv' /\ CursorInv /\ [Next]_vars => CursorInv'
  BY CursorStep
<1>. QED  BY <1>1, <1>2, TypeInvariant, PTL DEF Spec

\* The variables keep their types, and no more mails are skipped than listed.
THEOREM TypeCorrect == Spec => []TypeOK
<1>1. TypeInv => TypeOK  BY DEF TypeInv
<1>. QED  BY <1>1, TypeInvariant, PTL

\* No mail the caller was handed lies ahead of its watermark.
THEOREM KnownBehindHolds == Spec => []KnownBehind
<1>1. CursorInv => KnownBehind  BY DEF CursorInv
<1>. QED  BY <1>1, CursorInvariant, PTL

\* The watermark is monotone, and an answered poll that listed anything moves it.
THEOREM WatermarkAdvancesHolds == Spec => WatermarkAdvances
<1>1. /\ TypeInv /\ CursorInv /\ [Next]_vars
      => /\ since' >= since
         /\ (pc = "answer" /\ pc' = "idle" /\ listed > 0 /\ faults' = faults) => since' > since
  <2>. SUFFICES ASSUME TypeInv, CursorInv, [Next]_vars
                PROVE  /\ since' >= since
                       /\ (pc = "answer" /\ pc' = "idle" /\ listed > 0 /\ faults' = faults)
                          => since' > since
    OBVIOUS
  <2>1. CASE Receive  BY <2>1 DEF Receive, CursorInv, TypeInv, TypeOK
  <2>2. CASE GiveUp  BY <2>2 DEF GiveUp, caller, TypeInv, TypeOK
  <2>3. CASE since' = since /\ ~(pc = "answer" /\ pc' = "idle")  BY <2>3 DEF TypeInv, TypeOK
  <2>4. Receive \/ GiveUp \/ (since' = since /\ ~(pc = "answer" /\ pc' = "idle"))
    BY DEF Next, Poll, Tick, Deliver, Initialize, List, Skip, IngestOk, FetchFails, StoreFails,
       Finish, vars, caller, poll
  <2>. QED  BY <2>1, <2>2, <2>3, <2>4
<1>. QED  BY <1>1, TypeInvariant, CursorInvariant, PTL DEF Spec, WatermarkAdvances
-----------------------------------------------------------------------------
(* Loss: which mails a watermark can leave behind.                           *)

\* Graph dates its mail in whole milliseconds or a multiple of them, so that the
\* millisecond its filter is cut to tells two dates apart.
WholeMilliseconds == Provider = "graph" => \E k \in Nat : Grain = k * MS

\* The provider's filter, on a date.
At(d, s) == IF Provider = "graph" THEN GraphMatches(d, s) ELSE GmailMatches(d, s)

\* A mail has that date already, or one the filter does not tell from it.
Shared(d) == \E n \in Delivered : Bucket(date[n]) = Bucket(d)

\* Mail that is still to arrive will be listed after `s`, or fall under one of
\* the exceptions of LossExplained.
Covers(s) == \A d \in Nat : d > 0 /\ d >= FloorTo(now, Grain) =>
                 At(d, s) \/ Shared(d) \/ ~At(d, start)

\* Nobody is dated after the provider's present, and Graph's dates are whole.
DatesPast == \A m \in Delivered :
    /\ date[m] <= FloorTo(now, Grain)
    /\ Provider = "graph" => \E q \in Nat : date[m] = q * MS

\* What the poll remembers of the mails L of the page it listed.
Listing(L) ==
    /\ page \subseteq L /\ L \subseteq page \union got \union failed \union known
    /\ listed = 0 <=> L = {}
    /\ \A p \in L : Matches(p, since)
    /\ maxCursor = since \/ \E p \in L \ page : date[p] = maxCursor
    /\ Provider = "graph" => \A p \in L \ page : date[p] <= maxCursor
    /\ \A m \in Delivered \ (L \union cut) :
           Matches(m, since) => \A p \in L : date[p] <= date[m]

\* What the answer under way owes the mails that are not in it.
Kept(m) == Matches(m, newSince) \/ HasTwin(m) \/ ~Matches(m, start)

AnswerKeeps ==
    /\ \A m \in Delivered \ (known \union lost \union got \union failed \union cut) : Kept(m)
    /\ Covers(newSince)

\* Inductive: the stored watermark explains its losses, of the mails there are and
\* of those to come, and so does the watermark of an answer under way.
LossInv ==
    /\ DatesPast
    /\ since # ZeroTime => Covers(since)
    /\ LossExplained
    /\ pc = "loop" => \E L \in SUBSET Delivered : Listing(L)
    /\ (pc = "answer" /\ since # ZeroTime) => AnswerKeeps

LEMMA MatchesAt ==
    ASSUME NEW m, NEW s
    PROVE  Matches(m, s) <=> m \in Delivered /\ At(date[m], s)
BY DEF Matches, At

LEMMA Associates ==
    ASSUME NEW a \in Nat, NEW b \in Nat, NEW u \in Nat
    PROVE  a * (b * u) = (a * b) * u /\ a * b \in Nat
OBVIOUS

\* A date not before any of the page's is listed after the watermark the page
\* resolves to, or shares the bucket of one of them.
LEMMA NextKept ==
    ASSUME TypeInv, CursorInv, DatesPast, pc = "loop", page = {},
           NEW L \in SUBSET Delivered, Listing(L),
           NEW d \in Nat, At(d, since), \A p \in L : date[p] <= d
    PROVE  \/ At(d, ResolveNewSince(since, maxCursor, listed, skipped))
           \/ \E p \in L : Bucket(date[p]) = Bucket(d)
<1>. DEFINE next == ResolveNewSince(since, maxCursor, listed, skipped)
<1>. USE UnitsAssumption, PageAssumption
<1>1. /\ since \in Nat /\ maxCursor \in Nat /\ listed \in Nat /\ skipped \in Nat
      /\ skipped <= listed /\ maxCursor >= since /\ since > 0
      /\ \A m \in Mails : date[m] \in Nat
      /\ L \subseteq Mails
  BY DEF TypeInv, TypeOK, CursorInv, Delivered
<1>2. CASE maxCursor > since
  <2>1. next = maxCursor  BY <1>2 DEF ResolveNewSince
  <2>2. PICK p \in L : date[p] = maxCursor  BY <1>1, <1>2 DEF Listing
  <2>3. maxCursor <= d  BY <2>2
  <2>4. CASE Provider = "graph"
    <3>1. FloorTo(maxCursor, MS) \in Nat /\ FloorTo(maxCursor, MS) <= maxCursor
      BY <1>1, FloorBounds
    <3>2. CASE d = maxCursor  BY <2>2, <3>2
    <3>3. CASE d > maxCursor
      <4>1. GraphMatches(d, maxCursor)  BY <1>1, <3>1, <3>3 DEF GraphMatches
      <4>. QED  BY <2>1, <2>4, <4>1 DEF At
    <3>. QED  BY <1>1, <2>3, <3>2, <3>3
  <2>5. CASE Provider # "graph"
    <3>1. FloorTo(maxCursor, SEC) \in Nat /\ FloorTo(maxCursor, SEC) <= maxCursor
      BY <1>1, FloorBounds
    <3>2. GmailMatches(d, maxCursor)  BY <1>1, <2>3, <3>1 DEF GmailMatches
    <3>. QED  BY <2>1, <2>5, <3>2 DEF At
  <2>. QED  BY <2>4, <2>5
<1>3. CASE maxCursor = since /\ L = {}
  <2>1. listed = 0  BY <1>3 DEF Listing
  <2>2. next = since  BY <1>1, <1>3, <2>1 DEF ResolveNewSince
  <2>. QED  BY <2>2
<1>4. CASE maxCursor = since /\ L # {}
  <2>1. listed # 0  BY <1>4 DEF Listing
  <2>2. PICK p \in L : TRUE  BY <1>4
  <2>3. Matches(p, since) /\ p \in Delivered /\ date[p] <= d /\ date[p] \in Nat
    BY <1>1 DEF Listing
  <2>4. CASE Provider = "graph"
    <3>1. PICK q \in Nat : date[p] = q * MS  BY <2>3, <2>4 DEF DatesPast
    <3>2. GraphMatches(q * MS, since)  BY <2>3, <2>4, <3>1 DEF Matches
    <3>3. q * MS > since  BY <1>1, <3>2, GraphLater
    <3>4. date[p] <= maxCursor  BY <2>4 DEF Listing
    <3>. QED  BY <1>1, <1>4, <3>1, <3>3, <3>4
  <2>5. CASE Provider # "graph"
    <3>1. next \in {since + SEC, since + MS}  BY <1>1, <1>4, <2>1 DEF ResolveNewSince
    <3>2. GmailMatches(date[p], since)  BY <2>3, <2>5 DEF Matches
    <3>3. GmailMatches(d, next) \/ FloorTo(date[p], SEC) = FloorTo(d, SEC)
      BY <1>1, <2>3, <3>1, <3>2, GmailJump
    <3>. QED  BY <2>5, <3>3 DEF At, Bucket
  <2>. QED  BY <2>4, <2>5
<1>. QED  BY <1>1, <1>2, <1>3, <1>4

LEMMA LossStep ==
    ASSUME WholeMilliseconds, TypeInv, TypeInv', CursorInv, LossInv, [Next]_vars
    PROVE  LossInv'
<1>. USE PageAssumption, UnitsAssumption DEF ZeroTime
<1>0. /\ \A m \in Mails : date[m] \in Nat
      /\ now \in Nat /\ since \in Nat /\ newSince \in Nat /\ start \in Nat
      /\ FloorTo(now, Grain) \in Nat
      /\ \A m \in Mails : m \in Delivered <=> date[m] > 0
  <2>1. now \in Nat  BY DEF TypeInv, TypeOK
  <2>2. FloorTo(now, Grain) \in Nat  BY <2>1, FloorBounds
  <2>. QED  BY <2>1, <2>2 DEF TypeInv, TypeOK, Delivered
<1>1. CASE Tick
  <2>1. UNCHANGED <<date, caller, poll>> /\ now' = now + 1  BY <1>1 DEF Tick
  <2>2. FloorTo(now', Grain) \in Nat /\ FloorTo(now, Grain) <= FloorTo(now', Grain)
    <3>. now' \in Nat /\ now <= now'  BY <1>0, <2>1
    <3>. QED  BY <1>0, FloorBounds, FloorMonotone
  <2>3. Delivered' = Delivered  BY <2>1 DEF Delivered
  <2>4. \A s \in Nat : Covers(s) => Covers(s)'
    BY <1>0, <2>1, <2>2, <2>3 DEF Covers, Shared, caller, At, Bucket
  <2>5. DatesPast'
    BY <1>0, <2>1, <2>2, <2>3 DEF LossInv, DatesPast, Delivered
  <2>6. LossExplained'
    BY <2>1, <2>3 DEF LossInv, LossExplained, Matches, HasTwin, caller
  <2>7. ASSUME NEW L, Listing(L) PROVE Listing(L)'
    BY <2>1, <2>3, <2>7 DEF Listing, Matches, caller, poll
  <2>8. AnswerKeeps => AnswerKeeps'
    BY <1>0, <2>1, <2>3, <2>4 DEF AnswerKeeps, Kept, Matches, HasTwin, caller, poll
  <2>. QED
    BY <1>0, <2>1, <2>3, <2>4, <2>5, <2>6, <2>7, <2>8 DEF LossInv, caller, poll
<1>2. ASSUME NEW m \in Mails, Deliver(m) PROVE LossInv'
  <2>0. UNCHANGED <<now, caller, poll>> /\ date[m] = 0 /\ FloorTo(now, Grain) > 0
    BY <1>0, <1>2 DEF Deliver
  <2>1. /\ date'[m] = FloorTo(now, Grain)
        /\ m \notin Delivered /\ Delivered' = Delivered \union {m}
        /\ \A n \in Delivered : date'[n] = date[n] /\ n # m
    BY <1>0, <1>2, <2>0 DEF Deliver, Delivered, TypeInv, TypeOK
  <2>2. \A s : \A n \in Delivered : Matches(n, s)' <=> Matches(n, s)
    <3>. SUFFICES ASSUME NEW s, NEW n \in Delivered PROVE Matches(n, s)' <=> Matches(n, s)
      OBVIOUS
    <3>. QED  BY <2>1 DEF Matches
  <2>3. \A s \in Nat : Covers(s) => Covers(s)'
    BY <2>0, <2>1 DEF Covers, Shared, caller, At, Bucket
  <2>4. \A n \in Delivered : HasTwin(n) => HasTwin(n)'
    BY <2>1 DEF HasTwin, Bucket
  <2>5. ASSUME NEW s, Covers(s)
        PROVE  Matches(m, s)' \/ HasTwin(m)' \/ ~Matches(m, start)'
    <3>1. At(date'[m], s) \/ Shared(date'[m]) \/ ~At(date'[m], start)
      BY <1>0, <2>0, <2>1, <2>5 DEF Covers
    <3>2. At(date'[m], s) => Matches(m, s)'  BY <2>1 DEF At, Matches
    <3>3. Shared(date'[m]) => HasTwin(m)'  BY <2>1 DEF Shared, HasTwin, Bucket
    <3>4. ~At(date'[m], start) => ~Matches(m, start)'  BY <2>0 DEF At, Matches, caller
    <3>. QED  BY <3>1, <3>2, <3>3, <3>4
  <2>6. DatesPast'
    <3>1. date'[m] <= FloorTo(now, Grain)  BY <1>0, <2>1
    <3>2. ASSUME Provider = "graph" PROVE \E q \in Nat : date'[m] = q * MS
      <4>1. PICK k \in Nat : Grain = k * MS  BY <3>2 DEF WholeMilliseconds
      <4>2. PICK j \in Nat : FloorTo(now, Grain) = j * Grain  BY <1>0, FloorIsMultiple
      <4>3. j * (k * MS) = (j * k) * MS /\ j * k \in Nat  BY Associates
      <4>. QED  BY <2>1, <4>1, <4>2, <4>3
    <3>. QED  BY <2>0, <2>1, <3>1, <3>2 DEF LossInv, DatesPast
  <2>7. LossExplained'
    <3>. SUFFICES ASSUME since # 0, NEW n \in Delivered' \ (known \union lost)
                  PROVE  Matches(n, since)' \/ HasTwin(n)' \/ ~Matches(n, start)'
      BY <2>0 DEF LossExplained, caller, Matches
    <3>1. CASE n = m  BY <2>0, <2>5, <3>1 DEF LossInv, caller, Matches
    <3>2. CASE n \in Delivered
      <4>1. Matches(n, since) \/ HasTwin(n) \/ ~Matches(n, start)
        BY <3>2 DEF LossInv, LossExplained
      <4>. QED  BY <2>0, <2>1, <2>2, <2>4, <3>2, <4>1 DEF caller, Matches
    <3>. QED  BY <2>1, <3>1, <3>2
  <2>8. ASSUME NEW L \in SUBSET Delivered, Listing(L) PROVE Listing(L)'
    <3>1. \A p \in L : date[p] <= FloorTo(now, Grain)  BY DEF LossInv, DatesPast
    <3>2. \A p \in L : date'[p] = date[p] /\ date'[p] <= date'[m]  BY <2>1, <3>1
    <3>3. \A p \in L : Matches(p, since)'
      BY <2>0, <2>1, <2>2, <2>8 DEF Listing, caller, Matches
    <3>4. ASSUME NEW n \in Delivered' \ (L \union cut), Matches(n, since)'
          PROVE \A p \in L : date'[p] <= date'[n]
      <4>1. CASE n = m  BY <3>2, <4>1
      <4>2. CASE n \in Delivered
        <5>1. Matches(n, since)  BY <2>0, <2>1, <3>4, <4>2 DEF Matches, caller
        <5>2. \A p \in L : date[p] <= date[n]  BY <2>8, <3>4, <4>2, <5>1 DEF Listing
        <5>. QED  BY <2>1, <3>2, <4>2, <5>2
      <4>. QED  BY <2>1, <4>1, <4>2
    <3>. QED  BY <2>0, <2>8, <3>2, <3>3, <3>4 DEF Listing, caller, poll
  <2>9. AnswerKeeps => AnswerKeeps'
    <3>. SUFFICES ASSUME AnswerKeeps,
                         NEW n \in Delivered' \ (known \union lost \union got \union failed \union cut)
                  PROVE  Kept(n)'
      BY <1>0, <2>0, <2>3 DEF AnswerKeeps, caller, poll
    <3>1. CASE n = m  BY <2>0, <2>5, <3>1 DEF AnswerKeeps, Kept, poll, Matches
    <3>2. CASE n \in Delivered
      <4>1. Kept(n)  BY <3>2 DEF AnswerKeeps
      <4>. QED  BY <2>0, <2>1, <2>4, <3>2, <4>1 DEF Kept, caller, poll, Matches
    <3>. QED  BY <2>1, <3>1, <3>2
  <2>. QED
    BY <1>0, <2>0, <2>1, <2>3, <2>6, <2>7, <2>8, <2>9 DEF LossInv, caller, poll
<1>3. CASE Initialize
  BY <1>3 DEF Initialize, LossInv, LossExplained, DatesPast, Delivered, Covers, Shared, caller,
     Matches, HasTwin
<1>4. ASSUME NEW S \in SUBSET Mails, List(S) PROVE LossInv'
  <2>1. /\ S \in Pages(since) /\ page' = S /\ listed' = Cardinality(S) /\ maxCursor' = since
        /\ cut' = {n \in Matching(since) \ S : \E p \in S : date[n] < date[p]}
        /\ UNCHANGED <<now, date, caller, got, failed>> /\ pc' = "loop"
    BY <1>4 DEF List
  <2>2. S \subseteq Delivered  BY <2>1, MatchingFacts DEF Pages, TypeInv
  <2>3. Listing(S)'
    <3>1. Cardinality(S) = 0 <=> S = {}  BY PageSize
    <3>2. \A p \in S : Matches(p, since)  BY <2>1 DEF Pages, Matching
    <3>3. ASSUME NEW n \in Delivered \ (S \union cut'), Matches(n, since), NEW p \in S
          PROVE  date[p] <= date[n]
      <4>1. n \in Matching(since) \ S  BY <3>3 DEF Matching, Delivered
      <4>2. ~(date[n] < date[p])  BY <2>1, <3>3, <4>1
      <4>. QED  BY <1>0, <2>2, <4>2 DEF Delivered
    <3>. QED  BY <2>1, <3>1, <3>2, <3>3 DEF Listing, caller, Matches, Delivered
  <2>4. Delivered' = Delivered  BY <2>1 DEF Delivered
  <2>. QED
    BY <2>1, <2>2, <2>3, <2>4 DEF LossInv, LossExplained, DatesPast, Covers, Shared, caller,
       Matches, HasTwin, At, Bucket
<1>5. ASSUME NEW m \in Mails, Skip(m) \/ IngestOk(m) \/ FetchFails(m) \/ StoreFails(m)
      PROVE LossInv'
  <2>1. /\ m \in page /\ page' = page \ {m} /\ pc = "loop" /\ pc' = "loop"
        /\ UNCHANGED <<now, date, caller, listed, cut, newSince>>
        /\ got \subseteq got' /\ failed \subseteq failed'
        /\ m \in got' \union failed' \union known
        /\ Seen(m) \/ (maxCursor' = maxCursor /\ Provider # "graph")
    BY <1>5 DEF Skip, IngestOk, FetchFails, StoreFails
  <2>2. Delivered' = Delivered  BY <2>1 DEF Delivered
  <2>3. PICK L \in SUBSET Delivered : Listing(L)  BY <2>1 DEF LossInv
  <2>4. maxCursor \in Nat /\ L \subseteq Mails /\ m \in L
    BY <2>1, <2>3 DEF TypeInv, TypeOK, Delivered, Listing
  <2>5. maxCursor' = since \/ \E p \in L \ page' : date[p] = maxCursor'
    BY <2>1, <2>3, <2>4 DEF Listing, Seen
  <2>6. Provider = "graph" => \A p \in L \ page' : date[p] <= maxCursor'
    <3>. SUFFICES ASSUME Provider = "graph", NEW p \in L \ page' PROVE date[p] <= maxCursor'
      OBVIOUS
    <3>1. maxCursor' = IF date[m] > maxCursor THEN date[m] ELSE maxCursor  BY <2>1 DEF Seen
    <3>2. p = m \/ (p \in L \ page /\ date[p] <= maxCursor)  BY <2>1, <2>3 DEF Listing
    <3>. QED  BY <1>0, <2>4, <3>1, <3>2
  <2>7. Listing(L)'
    BY <2>1, <2>2, <2>3, <2>4, <2>5, <2>6 DEF Listing, caller, Matches
  <2>. QED
    BY <2>1, <2>2, <2>7 DEF LossInv, LossExplained, DatesPast, Covers, Shared, caller,
       Matches, HasTwin, At, Bucket
<1>6. CASE Finish
  <2>1. /\ pc = "loop" /\ page = {} /\ pc' = "answer"
        /\ newSince' = ResolveNewSince(since, maxCursor, listed, skipped)
        /\ UNCHANGED <<now, date, caller, got, failed, cut>>
    BY <1>6 DEF Finish
  <2>2. Delivered' = Delivered  BY <2>1 DEF Delivered
  <2>3. PICK L \in SUBSET Delivered : Listing(L)  BY <2>1 DEF LossInv
  <2>4. since > 0 /\ DatesPast  BY <2>1 DEF CursorInv, LossInv
  <2>5. ASSUME NEW d \in Nat, At(d, since), \A p \in L : date[p] <= d
        PROVE  At(d, newSince') \/ \E p \in L : Bucket(date[p]) = Bucket(d)
    BY <2>1, <2>3, <2>4, <2>5, NextKept
  <2>6. ASSUME NEW n \in Delivered \ (known \union lost \union got \union failed \union cut)
        PROVE  Matches(n, newSince') \/ HasTwin(n) \/ ~Matches(n, start)
    <3>1. n \notin L  BY <2>1, <2>3 DEF Listing
    <3>2. Matches(n, since) \/ HasTwin(n) \/ ~Matches(n, start)
      BY <1>0, <2>4 DEF LossInv, LossExplained
    <3>3. CASE Matches(n, since)
      <4>1. date[n] \in Nat /\ At(date[n], since)  BY <1>0, <3>3, MatchesAt DEF Delivered
      <4>2. \A p \in L : date[p] <= date[n]  BY <2>3, <3>1, <3>3 DEF Listing
      <4>3. At(date[n], newSince') => Matches(n, newSince')  BY MatchesAt
      <4>4. (\E p \in L : Bucket(date[p]) = Bucket(date[n])) => HasTwin(n)
        BY <3>1 DEF HasTwin
      <4>. QED  BY <2>5, <4>1, <4>2, <4>3, <4>4
    <3>. QED  BY <3>2, <3>3
  <2>7. ASSUME NEW d \in Nat, d > 0, d >= FloorTo(now, Grain)
        PROVE  At(d, newSince') \/ Shared(d) \/ ~At(d, start)
    <3>1. At(d, since) \/ Shared(d) \/ ~At(d, start)  BY <2>4, <2>7 DEF LossInv, Covers
    <3>2. CASE At(d, since)
      <4>1. \A p \in L : date[p] <= d
        <5>. SUFFICES ASSUME NEW p \in L PROVE date[p] <= d  OBVIOUS
        <5>1. date[p] <= FloorTo(now, Grain) /\ date[p] \in Nat
          BY <1>0, <2>4 DEF DatesPast, Delivered
        <5>. QED  BY <1>0, <2>7, <5>1
      <4>2. (\E p \in L : Bucket(date[p]) = Bucket(d)) => Shared(d)  BY DEF Shared
      <4>. QED  BY <2>5, <3>2, <4>1, <4>2
    <3>. QED  BY <3>1, <3>2
  <2>8. AnswerKeeps'
    BY <2>1, <2>2, <2>6, <2>7 DEF AnswerKeeps, Kept, Covers, Shared, caller,
       Matches, HasTwin, At, Bucket
  <2>. QED
    BY <2>1, <2>2, <2>8 DEF LossInv, LossExplained, DatesPast, Covers, Shared, caller,
       Matches, HasTwin, At, Bucket
<1>7. CASE Receive
  <2>1. /\ pc = "answer" /\ pc' = "idle" /\ since' = newSince /\ known' = known \union got
        /\ start' = IF since = 0 THEN newSince ELSE start
        /\ lost' = lost \union {n \in failed \union cut : ~Matches(n, newSince)}
        /\ UNCHANGED <<now, date>>
    BY <1>7 DEF Receive, Forget
  <2>2. Delivered' = Delivered  BY <2>1 DEF Delivered
  <2>3. CASE since = 0
    <3>1. start' = since'  BY <2>1, <2>3
    <3>2. LossExplained'  BY <3>1 DEF LossExplained, Matches
    <3>3. Covers(since)'  BY <3>1 DEF Covers, At
    <3>. QED  BY <2>1, <2>2, <3>2, <3>3 DEF LossInv, DatesPast
  <2>4. CASE since # 0
    <3>1. AnswerKeeps /\ start' = start  BY <2>1, <2>4 DEF LossInv
    <3>2. LossExplained'
      <4>. SUFFICES ASSUME NEW n \in Delivered \ (known' \union lost')
                    PROVE  Matches(n, newSince) \/ HasTwin(n) \/ ~Matches(n, start)
        BY <2>1, <2>2, <3>1 DEF LossExplained, Matches, HasTwin
      <4>1. CASE n \in failed \union cut  BY <2>1, <4>1
      <4>2. CASE n \notin failed \union cut  BY <2>1, <3>1, <4>2 DEF AnswerKeeps, Kept
      <4>. QED  BY <4>1, <4>2
    <3>3. Covers(since)'
      BY <2>1, <2>2, <3>1 DEF AnswerKeeps, Covers, Shared, At, Bucket
    <3>. QED  BY <2>1, <2>2, <3>2, <3>3 DEF LossInv, DatesPast
  <2>. QED  BY <2>3, <2>4
<1>8. CASE GiveUp
  BY <1>8 DEF GiveUp, Forget, LossInv, LossExplained, DatesPast, Delivered, Covers, Shared,
     caller, Matches, HasTwin, At, Bucket
<1>9. CASE UNCHANGED vars
  BY <1>9 DEF vars, LossInv, LossExplained, DatesPast, Delivered, Covers, Shared, Matches,
     HasTwin, At, Bucket, Listing, AnswerKeeps, Kept
<1>. QED  BY <1>1, <1>2, <1>3, <1>4, <1>5, <1>6, <1>7, <1>8, <1>9 DEF Next, Poll

LEMMA LossInvariant ==
    ASSUME WholeMilliseconds
    PROVE  Spec => []LossInv
<1>1. Init => LossInv
  BY DEF Init, NoPoll, LossInv, LossExplained, DatesPast, Delivered
<1>2. TypeInv /\ TypeInv' /\ CursorInv /\ LossInv /\ [Next]_vars => LossInv'
  BY LossStep
<1>. QED  BY <1>1, <1>2, TypeInvariant, CursorInvariant, PTL DEF Spec

\* No mail falls behind the watermark but in the ways LossExplained names.
THEOREM LossExplainedHolds ==
    ASSUME WholeMilliseconds
    PROVE  Spec => []LossExplained
<1>1. LossInv => LossExplained  BY DEF LossInv
<1>. QED  BY <1>1, LossInvariant, PTL

\* Graph dates every mail in whole milliseconds, so a nonempty page always holds a
\* date after the watermark and the bump branches of ResolveNewSince are not reached.
THEOREM GraphNeverBumpsHolds ==
    ASSUME WholeMilliseconds
    PROVE  Spec => []GraphNeverBumps
<1>1. TypeInv /\ CursorInv /\ LossInv => GraphNeverBumps
  <2>. SUFFICES ASSUME TypeInv, CursorInv, LossInv,
                       Provider = "graph", pc = "loop", listed > 0, page = {}
                PROVE  maxCursor > since
    BY DEF GraphNeverBumps
  <2>1. PICK L \in SUBSET Delivered : Listing(L)  BY DEF LossInv
  <2>2. PICK p \in L : Matches(p, since) /\ date[p] <= maxCursor  BY <2>1 DEF Listing
  <2>3. PICK q \in Nat : date[p] = q * MS  BY <2>1, <2>2 DEF LossInv, DatesPast
  <2>4. GraphMatches(q * MS, since)  BY <2>2, <2>3 DEF Matches
  <2>5. since \in Nat /\ maxCursor \in Nat  BY DEF TypeInv, TypeOK
  <2>6. q * MS > since  BY <2>4, <2>5, GraphLater
  <2>. QED  BY <2>2, <2>3, <2>5, <2>6, UnitsAssumption
<1>. QED  BY <1>1, TypeInvariant, CursorInvariant, LossInvariant, PTL
-----------------------------------------------------------------------------
(* The refinement of MailStore.                                              *)

\* Inductive: what an answer hands over, or has handed over, is in S3.
StoredInv == got \subseteq stored /\ known \subseteq stored

LEMMA StoredInvariant == Spec => []StoredInv
<1>1. Init => StoredInv  BY DEF Init, NoPoll, StoredInv
<1>2. StoredInv /\ [Next]_vars => StoredInv'
  BY DEF Next, Poll, Tick, Deliver, Initialize, List, Skip, IngestOk, FetchFails, StoreFails,
     Finish, Receive, GiveUp, Forget, vars, caller, poll, StoredInv
<1>. QED  BY <1>1, <1>2, PTL DEF Spec

\* Through the watermark handlers too, the caller only ever learns of stored mail.
THEOREM ImplementsStoreHolds == Spec => ImplementsStore
<1>1. Init => Store!Init  BY DEF Init, NoPoll, Store!Init
<1>2. StoredInv /\ TypeOK /\ [Next]_vars => [Store!Next]_(Store!vars)
  <2>. SUFFICES ASSUME StoredInv, TypeOK, [Next]_vars PROVE [Store!Next]_(Store!vars)
    OBVIOUS
  <2>. USE DEF Store!Next, Store!vars
  <2>1. ASSUME NEW m \in Mails, IngestOk(m) \/ StoreFails(m) PROVE Store!Store(m) \/ UNCHANGED Store!vars
    BY <2>1 DEF IngestOk, StoreFails, caller, Store!Store
  <2>2. CASE Receive
    <3>1. got \in SUBSET Mails /\ Store!Report(got)
      BY <2>2 DEF Receive, StoredInv, TypeOK, Store!Report
    <3>. QED  BY <3>1
  <2>3. CASE UNCHANGED <<stored, known>>  BY <2>3
  <2>4. (\E m \in Mails : IngestOk(m) \/ StoreFails(m)) \/ Receive \/ UNCHANGED <<stored, known>>
    BY DEF Next, Poll, Tick, Deliver, Initialize, List, Skip, FetchFails, Finish, GiveUp,
       vars, caller
  <2>. QED  BY <2>1, <2>2, <2>3, <2>4
<1>. QED
  BY <1>1, <1>2, TypeCorrect, StoredInvariant, PTL DEF Spec, ImplementsStore, Store!Spec

\* With the loss analysis: a mail that has fallen behind the watermark is in S3 and with the
\* caller, or was given up in one of the ways LossExplained names.
THEOREM BehindIsStored ==
    ASSUME WholeMilliseconds
    PROVE  Spec => [](since # ZeroTime =>
              \A m \in Delivered \ ((known \intersect stored) \union lost) :
                 Matches(m, since) \/ HasTwin(m) \/ ~Matches(m, start))
<1>1. StoredInv /\ LossExplained =>
        (since # ZeroTime =>
           \A m \in Delivered \ ((known \intersect stored) \union lost) :
              Matches(m, since) \/ HasTwin(m) \/ ~Matches(m, start))
  BY DEF StoredInv, LossExplained
<1>. QED  BY <1>1, StoredInvariant, LossExplainedHolds, PTL

==============================================================================
