-------------------------------- MODULE ListNew --------------------------------
(***************************************************************************)
(* /v1/list-new: the raw mails the caller has not been told of.  S3 hands  *)
(* out the objects under the raw prefix in key order, a page at a time,    *)
(* and each page shows the bucket as it is when the page is asked for.     *)
(* The service keeps the keys above `after`; the caller passes the last    *)
(* key of the last answer it got.                                          *)
(*                                                                         *)
(* Keys are numbers in S3's order.  A mail takes whatever key its source   *)
(* gives it: new mail need not come at the end.  No object is deleted.     *)
(***************************************************************************)
EXTENDS Naturals, FiniteSets

CONSTANTS
    Keys,
    Emails,     \* keys that end in .eml
    PageSize,   \* objects per ListObjectsV2 page
    Limit,
    MaxFaults   \* bound: requests that end in an error, or whose answer is lost

ASSUME ListAssumption ==
    /\ Keys \subseteq Nat \ {0}
    /\ IsFiniteSet(Keys)
    /\ Emails \subseteq Keys
    /\ PageSize \in Nat \ {0}
    /\ Limit \in Nat \ {0}
    /\ MaxFaults \in Nat

VARIABLES
    objects,   \* keys in the bucket
    after,     \* caller: the last key it was told, 0 before the first answer
    told,      \* caller: keys it was told
    late,      \* history: mails stored where the listing had already been
    faults,
    pc,        \* the request: "idle", "list" or "answer"
    token,     \* continuation: the last key a page has shown, 0 at first
    keys       \* keys collected

vars == <<objects, after, told, late, faults, pc, token, keys>>

TypeOK ==
    /\ objects \in SUBSET Keys
    /\ after \in Keys \union {0}
    /\ token \in Keys \union {0}
    /\ told \in SUBSET Emails /\ late \in SUBSET Emails /\ keys \in SUBSET Emails
    /\ faults \in 0 .. MaxFaults
    /\ pc \in {"idle", "list", "answer"}

Init ==
    /\ objects \in SUBSET Keys
    /\ after = 0 /\ told = {} /\ late = {}
    /\ faults = 0
    /\ pc = "idle" /\ token = 0 /\ keys = {}

\* Where the listing in progress, or an earlier one, has been.
Passed(k) ==
    \/ k <= after
    \/ k <= token
    \/ pc = "answer" /\ \E l \in keys : k < l

\* A poll handler, or SES, stores a raw object under a new key.
Upload(k) ==
    /\ k \notin objects
    /\ objects' = objects \union {k}
    /\ late' = IF k \in Emails /\ Passed(k) THEN late \union {k} ELSE late
    /\ UNCHANGED <<after, told, faults, pc, token, keys>>

Request ==
    /\ pc = "idle"
    /\ pc' = "list"
    /\ UNCHANGED <<objects, after, told, late, faults, token, keys>>

\* The n smallest keys of S.
FirstOf(S, n) == {k \in S : Cardinality({l \in S : l < k}) < n}

\* Mutants of Rest: every page is the first; a page begins one key late.
RestAgain == objects
RestLate == {k \in objects : token = 0 \/ k > token + 1}

\* What the continuation token leaves to be shown.
Rest == {k \in objects : k > token}

\* Mutant of Collect: `after` is not looked at.
CollectBehind(page) == keys \union FirstOf(page \intersect Emails, Limit - Cardinality(keys))

\* The .eml keys of a page above `after`, as far as the limit goes.
Collect(page) ==
    keys \union FirstOf({k \in page \intersect Emails : k > after}, Limit - Cardinality(keys))

\* One page: the last one if it reaches the limit or S3 has no more.
ListPage ==
    LET page == FirstOf(Rest, PageSize) IN
    /\ pc = "list"
    /\ keys' = Collect(page)
    /\ IF Cardinality(keys') >= Limit \/ page = Rest
       THEN pc' = "answer" /\ UNCHANGED token
       ELSE /\ UNCHANGED pc
            /\ \E k \in page : (\A l \in page : l <= k) /\ token' = k
    /\ UNCHANGED <<objects, after, told, late, faults>>

\* The request is over: mail above the caller's key is no longer behind the listing.
Forget(a) ==
    /\ pc' = "idle" /\ token' = 0 /\ keys' = {}
    /\ late' = {k \in late : k <= a}

\* The caller takes the answer over; an empty one leaves `after` alone.
Receive ==
    /\ pc = "answer"
    /\ \/ keys = {} /\ UNCHANGED after
       \/ \E k \in keys : (\A l \in keys : l <= k) /\ after' = k
    /\ told' = told \union keys
    /\ Forget(after')
    /\ UNCHANGED <<objects, faults>>

\* A page fails and the keys collected are dropped, or the answer is lost.
GiveUp ==
    /\ pc # "idle"
    /\ faults < MaxFaults
    /\ faults' = faults + 1
    /\ Forget(after)
    /\ UNCHANGED <<objects, after, told>>

Poll == Request \/ ListPage \/ Receive

Next == (\E k \in Keys : Upload(k)) \/ Poll \/ GiveUp

Spec == Init /\ [][Next]_vars

\* The caller asks again and S3 answers.
FairSpec == Spec /\ WF_vars(Poll)
--------------------------------------------------------------------------------
\* The only mail below `after` the caller was never told of is mail that was
\* stored where the listing had already been: neither the paging, nor the limit,
\* nor a request that failed after some of its pages leaves a gap.
NoGap == \A k \in objects \intersect Emails : k <= after => k \in told \union late

\* No mail is listed to the caller twice, whatever is stored between two pages.
ToldOnce == keys \intersect told = {}

\* Once nothing more is stored, the caller is told of everything that did not
\* come in behind the listing.
EventuallyTold == <>[](objects \intersect Emails \subseteq told \union late)
================================================================================
