------------------------------- MODULE ImapPoll -------------------------------
(***************************************************************************)
(* One IMAP folder polled through imapPollFolderHandler.  The caller keeps *)
(* the cursor (last UID) and the keys it has ingested; the service keeps   *)
(* nothing between two polls.  The server numbers mails upwards and any    *)
(* client may expunge them, also between the SEARCH and the FETCH of one   *)
(* poll.  UIDVALIDITY is assumed not to change: the code never reads it.   *)
(*                                                                         *)
(* The steps of one mail (S3, parse: module Ingest) are one step here, in  *)
(* which the mail gets through or fails.  A poll that ends in an error, or *)
(* whose answer is lost, is given up; the caller polls again.              *)
(***************************************************************************)
EXTENDS Naturals, FiniteSets

CONSTANTS
    FirstUid,    \* the first UID this folder hands out from here on
    LastUid,     \* bound: no mail arrives beyond it
    Limit,       \* batch size
    Unreadable,  \* mails whose FETCH may come without a readable body
    MaxFaults    \* bound: polls given up

ASSUME ImapAssumption ==
    /\ FirstUid \in Nat \ {0}
    /\ LastUid \in Nat
    /\ Limit \in Nat \ {0}
    /\ MaxFaults \in Nat

Uids == FirstUid .. LastUid

VARIABLES
    box,       \* UIDs in the folder
    nextUid,   \* UIDNEXT
    cursor,    \* caller: last_uid, 0 before the first answer
    known,     \* caller: mails it has, the skip list of its polls
    stored,    \* mails whose objects are in S3
    faults,
    pc,        \* the poll: "idle", "fetch", "loop" over the mails, or "answer"
    page,      \* UIDs found, then mails fetched and still to go through
    newLast,   \* resp.NewLastUID
    got,       \* resp.Messages
    failed,    \* history: mails of the page that did not get through
    cut,       \* history: UIDs the limit left out of the page in favour of newer ones
    newest,    \* history: the newest mail an initializing poll saw, 0 for none
    start,     \* history: the cursor the last initializing answer set
    lost,      \* history: mails failed in, or cut from, a poll that took the cursor past them
    spared     \* history: mails that were the newest when the cursor was initialized

server == <<box, nextUid>>
caller == <<cursor, known, start, lost, spared>>
vars == <<box, nextUid, cursor, known, stored, faults, pc, page, newLast, got, failed,
          cut, newest, start, lost, spared>>

TypeOK ==
    /\ box \in SUBSET Uids
    /\ nextUid \in Nat /\ nextUid >= FirstUid
    /\ \A u \in box : u < nextUid
    /\ cursor \in Nat /\ start \in Nat /\ newLast \in Nat
    /\ known \in SUBSET Uids /\ stored \in SUBSET Uids
    /\ lost \in SUBSET Uids /\ spared \in SUBSET Uids
    /\ page \in SUBSET Uids /\ got \in SUBSET Uids
    /\ failed \in SUBSET Uids /\ cut \in SUBSET Uids
    /\ newest \in Uids \union {0}
    /\ faults \in 0 .. MaxFaults
    /\ pc \in {"idle", "fetch", "loop", "answer"}

Init ==
    /\ box = {} /\ nextUid = FirstUid
    /\ cursor = 0 /\ start = 0
    /\ known = {} /\ stored = {} /\ lost = {} /\ spared = {}
    /\ faults = 0
    /\ pc = "idle"
    /\ page = {} /\ newLast = 0 /\ got = {} /\ failed = {} /\ cut = {} /\ newest = 0

\* A mail arrives and takes the next UID.
Deliver ==
    /\ nextUid <= LastUid
    /\ box' = box \union {nextUid}
    /\ nextUid' = nextUid + 1
    /\ UNCHANGED <<stored, faults, caller, pc, page, newLast, got, failed, cut, newest>>

\* A mail client deletes or moves a mail.
Expunge(u) ==
    /\ u \in box
    /\ box' = box \ {u}
    /\ UNCHANGED <<nextUid, stored, faults, caller, pc, page, newLast, got, failed, cut, newest>>

IsNewest(u) == u \in box /\ \A v \in box : v <= u

\* Mutant of Initialize: an empty folder counts as one whose highest UID is 0.
InitializeUnguarded ==
    /\ pc = "idle"
    /\ cursor = 0
    /\ \/ box = {} /\ newest' = 0 /\ newLast' = 0 - 1
       \/ \E u \in box : IsNewest(u) /\ newest' = u /\ newLast' = u - 1
    /\ pc' = "answer"
    /\ UNCHANGED <<server, stored, faults, caller, page, got, failed, cut>>

\* last_uid = 0: answer with the highest UID less one, fetching nothing.
Initialize ==
    /\ pc = "idle"
    /\ cursor = 0
    /\ \/ box = {} /\ newest' = 0 /\ newLast' = 0
       \/ \E u \in box : IsNewest(u) /\ newest' = u /\ newLast' = u - 1
    /\ pc' = "answer"
    /\ UNCHANGED <<server, stored, faults, caller, page, got, failed, cut>>

\* Mutant of Found: the search starts one UID late.
FoundLate == {u \in box : u > cursor + 1 \/ IsNewest(u)}

\* UID SEARCH UID cursor+1:*.  A range that begins above the last mail still
\* names the last mail; so does the range "*" to which cursor+1 wraps at 2^32.
Found == {u \in box : u > cursor \/ IsNewest(u)}

\* uids[:limit].  The code takes the SEARCH answer as it comes, and IMAP promises
\* no order: any Limit of the mails found may come first.
Pages ==
    {S \in SUBSET Found :
        /\ Cardinality(S) <= Limit
        /\ Cardinality(S) < Limit => S = Found}

Search(S) ==
    /\ pc = "idle"
    /\ cursor > 0
    /\ S \in Pages
    /\ page' = S
    /\ cut' = {v \in Found \ S : \E u \in S : v < u}
    /\ newLast' = cursor
    /\ pc' = "fetch"
    /\ UNCHANGED <<server, stored, faults, caller, got, failed, newest>>

\* UID FETCH: mails expunged meanwhile are not returned, mails without a readable
\* body are passed over.
Fetch(F) ==
    /\ pc = "fetch"
    /\ F \subseteq page \cap box
    /\ (page \cap box) \ F \subseteq Unreadable
    /\ page' = F
    /\ failed' = (page \cap box) \ F
    /\ pc' = "loop"
    /\ UNCHANGED <<server, stored, faults, caller, newLast, got, cut, newest>>

\* Mutant of Pass: the cursor takes the UID of the last mail looked at.
PassLast(u) ==
    /\ pc = "loop"
    /\ u \in page
    /\ page' = page \ {u}
    /\ newLast' = u

\* The head of the loop: the cursor passes the mail before anything is done to it.
Pass(u) ==
    /\ pc = "loop"
    /\ u \in page
    /\ page' = page \ {u}
    /\ newLast' = IF u > newLast THEN u ELSE newLast

Skip(u) ==
    /\ Pass(u)
    /\ u \in known
    /\ UNCHANGED <<server, stored, faults, caller, pc, got, failed, cut, newest>>

IngestOk(u) ==
    /\ Pass(u)
    /\ u \notin known
    /\ stored' = stored \union {u}
    /\ got' = got \union {u}
    /\ UNCHANGED <<server, faults, caller, pc, failed, cut, newest>>

\* Mutants of IngestFails: the mail joins the answer; the cursor does not pass it.
IngestUnchecked(u) ==
    /\ Pass(u)
    /\ u \notin known
    /\ got' = got \union {u}
    /\ UNCHANGED <<server, stored, faults, caller, pc, failed, cut, newest>>

IngestHeld(u) ==
    /\ pc = "loop"
    /\ u \in page \ known
    /\ page' = page \ {u}
    /\ failed' = failed \union {u}
    /\ UNCHANGED <<server, stored, faults, caller, pc, newLast, got, cut, newest>>

\* The upload or the parse fails (or seems to: the last PUT may have taken effect).
IngestFails(u) ==
    /\ Pass(u)
    /\ u \notin known
    /\ stored' \in {stored, stored \union {u}}
    /\ failed' = failed \union {u}
    /\ UNCHANGED <<server, faults, caller, pc, got, cut, newest>>

Finish ==
    /\ pc = "loop"
    /\ page = {}
    /\ pc' = "answer"
    /\ UNCHANGED <<server, stored, faults, caller, page, newLast, got, failed, cut, newest>>

Forget ==
    /\ pc' = "idle"
    /\ page' = {} /\ newLast' = 0 /\ got' = {} /\ failed' = {} /\ cut' = {} /\ newest' = 0

\* The caller takes the answer over in one transaction.
Receive ==
    /\ pc = "answer"
    /\ cursor' = newLast
    /\ known' = known \union got
    /\ lost' = lost \union {u \in failed \union cut : u <= newLast}
    /\ start' = IF cursor = 0 THEN newLast ELSE start
    /\ spared' = spared \union ({newest} \ {0})
    /\ Forget
    /\ UNCHANGED <<server, stored, faults>>

\* The poll ends in an error, or its answer never arrives.
GiveUp ==
    /\ pc # "idle"
    /\ faults < MaxFaults
    /\ faults' = faults + 1
    /\ Forget
    /\ UNCHANGED <<server, stored, caller>>

Poll ==
    \/ Initialize
    \/ \E S \in SUBSET Uids : Search(S)
    \/ \E F \in SUBSET Uids : Fetch(F)
    \/ \E u \in Uids : Skip(u) \/ IngestOk(u) \/ IngestFails(u)
    \/ Finish
    \/ Receive

Next == Deliver \/ (\E u \in Uids : Expunge(u)) \/ Poll \/ GiveUp

Spec == Init /\ [][Next]_vars

\* The caller polls on and the server answers.
FairSpec == Spec /\ WF_vars(Poll)
-------------------------------------------------------------------------------
\* A mail newer than the initial cursor that is still in the folder is behind the
\* cursor only if the caller has it, or the answered poll that took the cursor past
\* it failed on it, or preferred newer mails to it (which a server that sorts its
\* SEARCH answers never does): lost answers, mails that arrive during a poll and
\* mails expunged between SEARCH and FETCH cost nothing.
NothingPassedSilently ==
    \A u \in box : (start < u /\ u <= cursor) => u \in known \union lost

\* The cursor never goes back, and a mail handed over never lies ahead of it: only
\* the last mail, which n:* always names, can be found a second time.
CursorAdvances ==
    [][/\ cursor' >= cursor
       /\ known' # known => \A u \in known' : u <= cursor']_vars

\* Once no more mail arrives, polling reaches the end of the folder: what stays
\* ahead of the cursor are mails that cannot be read.  It takes a page larger
\* than the unreadable mails, and a folder whose UIDs do not start at 1.
EventuallyCaughtUp ==
    <>[](\A u \in box : u > cursor => u \in Unreadable)

\* The claim of poll_handlers.go:84-85: an initializing poll leaves the newest
\* mail ahead, so that the next poll ingests it instead of skipping it.
NewestNotSkipped ==
    \A u \in spared : (u \in box /\ u <= cursor) => u \in known \union lost
-------------------------------------------------------------------------------
Store == INSTANCE MailStore WITH Mails <- Uids, durable <- stored, reported <- known

\* A mail the caller knows of is stored, and stays so.
ImplementsStore == Store!Spec
===============================================================================
