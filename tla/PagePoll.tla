------------------------------- MODULE PagePoll -------------------------------
(***************************************************************************)
(* One mailbox polled through the watermark handlers: graphPollPageHandler *)
(* and pollMicrosoftOAuthPage (Provider = "graph"), gmailDWDPollPageHandler*)
(* and pollGoogleOAuthPage (Provider = "gmail").  The service keeps no     *)
(* state: the caller stores the watermark `since` and the ids it has, and  *)
(* sends both with the next poll.                                          *)
(*                                                                         *)
(* The provider dates a mail when it arrives, to the precision Grain, and  *)
(* shows it at once.  Graph returns the oldest Batch matches; Gmail is     *)
(* asked for no order and may return any Batch of them.                    *)
(*                                                                         *)
(* The steps of one mail (download, S3, parse: module Ingest) are one step *)
(* here, in which the mail gets through or fails.  A poll that ends in an  *)
(* error, whose answer is lost or whose process dies is given up, and the  *)
(* caller polls again from the same watermark.                             *)
(***************************************************************************)
EXTENDS PollCursor, FiniteSets

CONSTANTS
    Mails,
    Provider,   \* "graph" or "gmail"
    Grain,      \* ticks between two dates the provider can give
    Batch,      \* messages per page
    Horizon,    \* bound: the clock stops there
    MaxFaults   \* bound: polls given up

ASSUME PageAssumption ==
    /\ IsFiniteSet(Mails)
    /\ Provider \in {"graph", "gmail"}
    /\ Grain \in Nat \ {0}
    /\ Batch \in Nat \ {0}
    /\ Horizon \in Nat \ {0}
    /\ MaxFaults \in Nat

VARIABLES
    now,
    date,      \* provider's date of each mail, ZeroTime until it arrives
    since,     \* caller: watermark, ZeroTime before the first answer
    known,     \* caller: mails it has, the skip list of its polls
    stored,    \* mails whose objects are in S3
    faults,
    pc,        \* the poll: "idle", "loop" over its page, or "answer" on its way
    page,      \* mails of the page still to go through
    listed,    \* resp.Fetched
    skipped,   \* skippedKnown
    maxCursor,
    got,       \* resp.Messages
    newSince,  \* resp.NewSince
    failed,    \* history: mails of the page that did not get through
    cut,       \* history: mails the page left out in favour of later ones
    start,     \* history: the watermark of the first answer
    lost       \* history: mails failed in, or cut from, a page whose answer moved past them

caller == <<since, known, start, lost>>
poll == <<pc, page, listed, skipped, maxCursor, got, newSince, failed, cut>>
vars == <<now, date, since, known, stored, faults, pc, page, listed, skipped,
          maxCursor, got, newSince, failed, cut, start, lost>>

Delivered == {m \in Mails : date[m] # ZeroTime}

Matches(m, s) ==
    /\ m \in Delivered
    /\ IF Provider = "graph" THEN GraphMatches(date[m], s) ELSE GmailMatches(date[m], s)

Matching(s) == {m \in Mails : Matches(m, s)}

\* What the provider may answer to one list request.
Pages(s) ==
    {S \in SUBSET Matching(s) :
        /\ Cardinality(S) <= Batch
        /\ Cardinality(S) < Batch => S = Matching(s)
        /\ Provider = "graph" =>
              \A m \in S, n \in Matching(s) \ S : date[m] <= date[n]}

TypeOK ==
    /\ now \in 1 .. Horizon
    /\ date \in [Mails -> 0 .. Horizon]
    /\ since \in Nat /\ start \in Nat /\ newSince \in Nat /\ maxCursor \in Nat
    /\ known \in SUBSET Mails /\ stored \in SUBSET Mails /\ lost \in SUBSET Mails
    /\ page \in SUBSET Mails /\ got \in SUBSET Mails
    /\ failed \in SUBSET Mails /\ cut \in SUBSET Mails
    /\ faults \in 0 .. MaxFaults
    /\ pc \in {"idle", "loop", "answer"}
    /\ listed \in Nat /\ skipped \in 0 .. listed

NoPoll ==
    /\ page = {} /\ listed = 0 /\ skipped = 0 /\ maxCursor = 0
    /\ got = {} /\ newSince = 0 /\ failed = {} /\ cut = {}

Init ==
    /\ now = 1
    /\ date = [m \in Mails |-> ZeroTime]
    /\ since = ZeroTime /\ start = ZeroTime
    /\ known = {} /\ stored = {} /\ lost = {}
    /\ faults = 0
    /\ pc = "idle"
    /\ NoPoll

\* The provider's clock.
Tick ==
    /\ now < Horizon
    /\ now' = now + 1
    /\ UNCHANGED <<date, stored, faults, caller, poll>>

\* A mail arrives and can be listed from now on.
Deliver(m) ==
    /\ date[m] = ZeroTime
    /\ FloorTo(now, Grain) # ZeroTime
    /\ date' = [date EXCEPT ![m] = FloorTo(now, Grain)]
    /\ UNCHANGED <<now, stored, faults, caller, poll>>

\* No watermark yet: answer with the present instant and list nothing.
Initialize ==
    /\ pc = "idle"
    /\ since = ZeroTime
    /\ newSince' = now
    /\ pc' = "answer"
    /\ UNCHANGED <<now, date, stored, faults, caller, page, listed, skipped, maxCursor,
                   got, failed, cut>>

\* The handler lists one page after the watermark it was given.
List(S) ==
    /\ pc = "idle"
    /\ since # ZeroTime
    /\ S \in Pages(since)
    /\ page' = S
    /\ listed' = Cardinality(S)
    /\ cut' = {n \in Matching(since) \ S : \E m \in S : date[n] < date[m]}
    /\ maxCursor' = since
    /\ pc' = "loop"
    /\ UNCHANGED <<now, date, stored, faults, caller, skipped, got, newSince, failed>>

\* Mutants of Seen: the date is not taken over; the present instant is.
SeenNothing(m) == UNCHANGED maxCursor
SeenNow(m) == maxCursor' = now

Seen(m) == maxCursor' = IF date[m] > maxCursor THEN date[m] ELSE maxCursor

\* A mail the caller has: Graph takes its date from the listing before the skip,
\* Gmail would have to download it, and skips it first.
Skip(m) ==
    /\ pc = "loop"
    /\ m \in page \cap known
    /\ page' = page \ {m}
    /\ skipped' = skipped + 1
    /\ IF Provider = "graph" THEN Seen(m) ELSE UNCHANGED maxCursor
    /\ UNCHANGED <<now, date, stored, faults, caller, pc, listed, got, newSince, failed, cut>>

\* Downloaded, stored, parsed: it joins the answer.
IngestOk(m) ==
    /\ pc = "loop"
    /\ m \in page \ known
    /\ page' = page \ {m}
    /\ Seen(m)
    /\ stored' = stored \union {m}
    /\ got' = got \union {m}
    /\ UNCHANGED <<now, date, faults, caller, pc, listed, skipped, newSince, failed, cut>>

\* The download fails: only Graph knows the date of the mail by then.
FetchFails(m) ==
    /\ pc = "loop"
    /\ m \in page \ known
    /\ page' = page \ {m}
    /\ IF Provider = "graph" THEN Seen(m) ELSE UNCHANGED maxCursor
    /\ failed' = failed \union {m}
    /\ UNCHANGED <<now, date, stored, faults, caller, pc, listed, skipped, got, newSince, cut>>

\* Mutant of StoreFails: the mail joins the answer all the same.
StoreUnchecked(m) ==
    /\ pc = "loop"
    /\ m \in page \ known
    /\ page' = page \ {m}
    /\ Seen(m)
    /\ got' = got \union {m}
    /\ UNCHANGED <<now, date, stored, faults, caller, pc, listed, skipped, newSince, failed, cut>>

\* The upload or the parse fails, or seems to (a PUT whose answer was lost may have
\* been the last one): the mail's date has counted already.
StoreFails(m) ==
    /\ pc = "loop"
    /\ m \in page \ known
    /\ page' = page \ {m}
    /\ Seen(m)
    /\ stored' \in {stored, stored \union {m}}
    /\ failed' = failed \union {m}
    /\ UNCHANGED <<now, date, faults, caller, pc, listed, skipped, got, newSince, cut>>

\* Mutant of Finish: the watermark stays where no mail got through.
FinishIfAny ==
    /\ pc = "loop"
    /\ page = {}
    /\ newSince' = IF got = {} THEN since ELSE ResolveNewSince(since, maxCursor, listed, skipped)
    /\ pc' = "answer"
    /\ UNCHANGED <<now, date, stored, faults, caller, page, listed, skipped, maxCursor,
                   got, failed, cut>>

\* The page is done: the next watermark is resolved and the answer sent.
Finish ==
    /\ pc = "loop"
    /\ page = {}
    /\ newSince' = ResolveNewSince(since, maxCursor, listed, skipped)
    /\ pc' = "answer"
    /\ UNCHANGED <<now, date, stored, faults, caller, page, listed, skipped, maxCursor,
                   got, failed, cut>>

Forget ==
    /\ pc' = "idle"
    /\ page' = {} /\ listed' = 0 /\ skipped' = 0 /\ maxCursor' = 0
    /\ got' = {} /\ newSince' = 0 /\ failed' = {} /\ cut' = {}

\* The caller takes the answer over in one transaction.
Receive ==
    /\ pc = "answer"
    /\ since' = newSince
    /\ start' = IF since = ZeroTime THEN newSince ELSE start
    /\ known' = known \union got
    /\ lost' = lost \union {m \in failed \union cut : ~Matches(m, newSince)}
    /\ Forget
    /\ UNCHANGED <<now, date, stored, faults>>

\* The poll ends in an error, or its answer never arrives.
GiveUp ==
    /\ pc # "idle"
    /\ faults < MaxFaults
    /\ faults' = faults + 1
    /\ Forget
    /\ UNCHANGED <<now, date, stored, caller>>

Poll ==
    \/ Initialize
    \/ \E S \in SUBSET Mails : List(S)
    \/ \E m \in Mails : Skip(m) \/ IngestOk(m) \/ FetchFails(m) \/ StoreFails(m)
    \/ Finish
    \/ Receive

Next == Tick \/ (\E m \in Mails : Deliver(m)) \/ Poll \/ GiveUp

Spec == Init /\ [][Next]_vars

\* The caller polls on and every provider call returns (45 s HTTP timeouts).
FairSpec == Spec /\ WF_vars(Poll)
-------------------------------------------------------------------------------
\* Mails with the same date for the provider's filter.
Bucket(t) == IF Provider = "graph" THEN t ELSE FloorTo(t, SEC)
HasTwin(m) == \E n \in Delivered \ {m} : Bucket(date[n]) = Bucket(date[m])

\* The only ways a mail can fall behind the watermark without reaching the
\* caller: it failed in the page that moved the watermark, Gmail filled that page
\* with later mails, it is dated before the first watermark, or another mail
\* shares its timestamp (its second, for Gmail).  Whatever else goes wrong -- lost answers, re-listed pages, mail
\* arriving in the middle of a poll -- it is still listed by the next poll.
LossExplained ==
    (since # ZeroTime) =>
        \A m \in Delivered \ (known \union lost) :
            Matches(m, since) \/ HasTwin(m) \/ ~Matches(m, start)

\* A mail the caller has never lies ahead of its watermark, so the skip list
\* only ever needs the ids of the watermark's own second.
KnownBehind == \A m \in known : date[m] <= since

\* The watermark never goes back, and an answer about a page that listed
\* anything moves it: the same page cannot come back for ever.
WatermarkAdvances ==
    [][/\ since' >= since
       /\ (pc = "answer" /\ pc' = "idle" /\ listed > 0 /\ faults' = faults) => since' > since]_vars

\* Once no more mail arrives, polling reaches the end of the mailbox: from some
\* time on the provider lists nothing after the watermark, whatever failed.
EventuallyQuiet == <>[](since # ZeroTime /\ Matching(since) = {})

\* Where the provider's dates are no finer than a millisecond, Graph never lists
\* a page that leaves the watermark alone: the bump branches of ResolveNewSince
\* are Gmail's.
GraphNeverBumps ==
    (Provider = "graph" /\ pc = "loop" /\ listed > 0 /\ page = {}) => maxCursor > since
-------------------------------------------------------------------------------
Store == INSTANCE MailStore WITH durable <- stored, reported <- known

\* A mail the caller knows of is stored, and stays so, across every lost answer.
ImplementsStore == Store!Spec
===============================================================================
