------------------------------ MODULE PollCursor ------------------------------
(***************************************************************************)
(* internal/pollcursor and the time filters the providers are given.  An   *)
(* instant is a number of ticks of the watermark's precision (nanoseconds  *)
(* in Go: FormatStored and ParseStored lose nothing of it); 0 is Go's zero *)
(* time.                                                                   *)
(***************************************************************************)
EXTENDS Naturals

CONSTANTS
    MS,    \* ticks in a millisecond
    SEC    \* ticks in a second

ASSUME UnitsAssumption == MS \in Nat \ {0} /\ SEC \in Nat \ {0} /\ MS <= SEC

ZeroTime == 0

FloorTo(t, unit) == t - (t % unit)

\* Mutant of ResolveNewSince: no bump where the watermark did not move.
ResolveStill(since, maxCursor, listed, skipped) ==
    IF maxCursor > since THEN maxCursor ELSE since

\* The watermark that follows a page: `listed` messages, `skipped` of them known
\* to the caller, `maxCursor` the latest timestamp seen (at least `since`).
ResolveNewSince(since, maxCursor, listed, skipped) ==
    IF maxCursor > since THEN maxCursor
    ELSE IF listed = 0
         THEN IF skipped > 0 /\ since # ZeroTime THEN since + SEC ELSE since
         ELSE IF skipped = listed \/ maxCursor = ZeroTime THEN since + SEC
              ELSE maxCursor + MS

\* Mutant of GraphMatches: `ge` for `gt`.
GraphMatchesFrom(t, since) == t >= FloorTo(since, MS)

\* Graph: $filter=<date> gt <since, cut to milliseconds>.
GraphMatches(t, since) == t > FloorTo(since, MS)

\* Gmail: q=after:<since in Unix seconds>; the second itself is included.
GmailMatches(t, since) == t >= FloorTo(since, SEC)
===============================================================================
