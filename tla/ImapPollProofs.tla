---------------------------- MODULE ImapPollProofs ---------------------------
(***************************************************************************)
(* ImapPoll for every folder, page size and set of mails that cannot be    *)
(* read.                                                                   *)
(***************************************************************************)
EXTENDS ImapPoll, TLAPS

LEMMA UidsTyped == \A u \in Uids : u \in Nat /\ u > 0 /\ u >= FirstUid /\ u <= LastUid
BY ImapAssumption DEF Uids

\* Cursor, pages and histories are sets of UIDs of this folder, whatever happens.
THEOREM TypeCorrect == Spec => []TypeOK
<1>. USE ImapAssumption
<1>1. Init => TypeOK
  BY DEF Init, TypeOK
<1>2. TypeOK /\ [Next]_vars => TypeOK'
  <2>. SUFFICES ASSUME TypeOK, [Next]_vars PROVE TypeOK'
    OBVIOUS
  <2>. USE UidsTyped DEF server, caller
  <2>1. CASE Deliver
    <3>1. nextUid \in Uids  BY <2>1 DEF Deliver, TypeOK, Uids
    <3>. QED  BY <2>1, <3>1 DEF Deliver, TypeOK
  <2>2. ASSUME NEW u \in Uids, Expunge(u) PROVE TypeOK'
    BY <2>2 DEF Expunge, TypeOK
  <2>3. CASE Initialize  BY <2>3 DEF Initialize, TypeOK
  <2>4. ASSUME NEW S \in SUBSET Uids, Search(S) PROVE TypeOK'
    <3>1. Found \subseteq Uids  BY DEF Found, TypeOK
    <3>. QED  BY <2>4, <3>1 DEF Search, TypeOK
  <2>5. ASSUME NEW F \in SUBSET Uids, Fetch(F) PROVE TypeOK'
    BY <2>5 DEF Fetch, TypeOK
  <2>6. ASSUME NEW u \in Uids, Skip(u) \/ IngestOk(u) \/ IngestFails(u) PROVE TypeOK'
    BY <2>6 DEF Skip, IngestOk, IngestFails, Pass, TypeOK
  <2>7. CASE Finish  BY <2>7 DEF Finish, TypeOK
  <2>8. CASE Receive  BY <2>8 DEF Receive, Forget, TypeOK
  <2>9. CASE GiveUp  BY <2>9 DEF GiveUp, Forget, TypeOK
  <2>10. CASE UNCHANGED vars  BY <2>10 DEF vars, TypeOK
  <2>. QED  BY <2>1, <2>2, <2>3, <2>4, <2>5, <2>6, <2>7, <2>8, <2>9, <2>10 DEF Next, Poll
<1>. QED  BY <1>1, <1>2, PTL DEF Spec
-----------------------------------------------------------------------------
\* Mails a poll in progress answers for.
InHand == page \union got \union failed \union cut

\* Inductive: a mail ahead of the cursor is in the poll's hands, known, or still
\* ahead of everything the poll has passed or will pass.
PollInv ==
    /\ page # {} => pc \in {"fetch", "loop"}
    /\ pc = "idle" => got = {}
    /\ pc \in {"idle", "fetch"} => failed = {}
    /\ pc \in {"fetch", "loop"} => cursor > 0
    /\ pc # "idle" => cursor <= newLast /\ newLast < nextUid
    /\ cursor < nextUid
    /\ \A u \in got : u <= newLast
    /\ \A u \in known : u <= cursor
    /\ pc # "idle" /\ cursor > 0 =>
          \A u \in box : u > cursor =>
              \/ u \in InHand \union known
              \/ u > newLast /\ \A v \in page : v < u
    /\ \A u \in page : u < nextUid
    /\ NothingPassedSilently

LEMMA PollStep == ASSUME TypeOK, TypeOK', PollInv, [Next]_vars PROVE PollInv'
<1>. USE ImapAssumption, UidsTyped DEF server, caller
<1>1. CASE Deliver
  <2>1. box' = box \union {nextUid} /\ nextUid' = nextUid + 1 /\ nextUid \in Nat
    BY <1>1 DEF Deliver, TypeOK
  <2>2. UNCHANGED <<pc, page, newLast, got, failed, cut, known, lost, cursor, start>>
    BY <1>1 DEF Deliver
  <2>. QED  BY <2>1, <2>2 DEF PollInv, InHand, NothingPassedSilently, TypeOK
<1>2. ASSUME NEW u \in Uids, Expunge(u) PROVE PollInv'
  BY <1>2 DEF Expunge, PollInv, InHand, NothingPassedSilently, TypeOK
<1>3. CASE Initialize
  BY <1>3 DEF Initialize, IsNewest, PollInv, InHand, NothingPassedSilently, TypeOK
<1>4. ASSUME NEW S \in SUBSET Uids, Search(S) PROVE PollInv'
  <2>1. S \subseteq Found /\ Found \subseteq box  BY <1>4 DEF Search, Pages, Found
  <2>2. \A u \in box : u > cursor => u \in S \/ u \in cut' \/ \A v \in S : v < u
    <3>1. cut' = {v \in Found \ S : \E u \in S : v < u}  BY <1>4 DEF Search
    <3>2. \A u \in box : u > cursor => u \in Found  BY DEF Found
    <3>3. box \subseteq Uids  BY DEF TypeOK
    <3>. QED  BY <3>1, <3>2, <3>3
  <2>3. \A u \in S : u < nextUid  BY <2>1 DEF TypeOK
  <2>4. newLast' = cursor /\ page' = S /\ pc' = "fetch" /\ cursor > 0
        /\ UNCHANGED <<box, nextUid, cursor, known, lost, start, got, failed>>
    BY <1>4 DEF Search
  <2>5. pc = "idle"  BY <1>4 DEF Search
  <2>. QED  BY <2>2, <2>3, <2>4, <2>5 DEF PollInv, InHand, NothingPassedSilently, TypeOK
<1>5. ASSUME NEW F \in SUBSET Uids, Fetch(F) PROVE PollInv'
  <2>1. F \subseteq page /\ page \cap box \subseteq F \union failed' /\ failed' \subseteq page
    BY <1>5 DEF Fetch
  <2>2. page' = F /\ pc' = "loop" /\ pc = "fetch"
        /\ UNCHANGED <<box, nextUid, cursor, known, lost, start, got, newLast, cut>>
    BY <1>5 DEF Fetch
  <2>3. failed = {}  BY <2>2 DEF PollInv
  <2>. QED  BY <2>1, <2>2, <2>3 DEF PollInv, InHand, NothingPassedSilently, TypeOK
<1>6. ASSUME NEW u \in Uids, Skip(u) \/ IngestOk(u) \/ IngestFails(u) PROVE PollInv'
  <2>1. page' = page \ {u} /\ u \in page /\ pc = "loop" /\ pc' = "loop"
        /\ newLast' = (IF u > newLast THEN u ELSE newLast)
        /\ UNCHANGED <<box, nextUid, cursor, known, lost, start, cut>>
    BY <1>6 DEF Skip, IngestOk, IngestFails, Pass
  <2>2. got \subseteq got' /\ got' \subseteq got \union {u} /\ failed \subseteq failed'
        /\ u \in got' \union failed' \union known
    BY <1>6 DEF Skip, IngestOk, IngestFails, Pass
  <2>. QED  BY <2>1, <2>2 DEF PollInv, InHand, NothingPassedSilently, TypeOK
<1>7. CASE Finish
  BY <1>7 DEF Finish, PollInv, InHand, NothingPassedSilently, TypeOK
<1>8. CASE Receive
  BY <1>8 DEF Receive, Forget, PollInv, InHand, NothingPassedSilently, TypeOK
<1>9. CASE GiveUp
  BY <1>9 DEF GiveUp, Forget, PollInv, InHand, NothingPassedSilently, TypeOK
<1>10. CASE UNCHANGED vars
  BY <1>10 DEF vars, PollInv, InHand, NothingPassedSilently, TypeOK
<1>. QED  BY <1>1, <1>2, <1>3, <1>4, <1>5, <1>6, <1>7, <1>8, <1>9, <1>10 DEF Next, Poll

LEMMA PollInvariant == Spec => []PollInv
<1>1. Init => PollInv
  BY ImapAssumption DEF Init, PollInv, InHand, NothingPassedSilently
<1>2. TypeOK /\ TypeOK' /\ PollInv /\ [Next]_vars => PollInv'
  BY PollStep
<1>. QED  BY <1>1, <1>2, TypeCorrect, PTL DEF Spec

\* Lost answers, mails that arrive or vanish during a poll, and pages cut off by
\* the limit never make the cursor pass a mail silently.
THEOREM NothingPassedSilentlyHolds == Spec => []NothingPassedSilently
<1>1. PollInv => NothingPassedSilently  BY DEF PollInv
<1>. QED  BY <1>1, PollInvariant, PTL

\* The cursor is monotone and covers every mail handed over.
THEOREM CursorAdvancesHolds == Spec => CursorAdvances
<1>1. /\ TypeOK /\ PollInv /\ [Next]_vars
      => /\ cursor' >= cursor
         /\ known' # known => \A u \in known' : u <= cursor'
  <2>. SUFFICES ASSUME TypeOK, PollInv, [Next]_vars
                PROVE  /\ cursor' >= cursor
                       /\ known' # known => \A u \in known' : u <= cursor'
    OBVIOUS
  <2>. USE UidsTyped
  <2>1. CASE Receive  BY <2>1 DEF Receive, PollInv, TypeOK
  <2>2. CASE UNCHANGED <<cursor, known>>  BY <2>2 DEF TypeOK
  <2>3. Receive \/ UNCHANGED <<cursor, known>>
    BY DEF Next, Poll, Deliver, Expunge, Initialize, Search, Fetch, Skip, IngestOk, IngestFails,
       Finish, GiveUp, vars, caller
  <2>. QED  BY <2>1, <2>2, <2>3
<1>. QED  BY <1>1, TypeCorrect, PollInvariant, PTL DEF Spec, CursorAdvances
-----------------------------------------------------------------------------
\* Inductive: what a poll is about to hand over is stored.
StoredInv == got \subseteq stored /\ known \subseteq stored

\* One step of a poll stores at most one mail, an answer only names stored ones:
\* ImapPoll keeps the promise of MailStore.
THEOREM ImplementsStoreHolds == Spec => ImplementsStore
<1>1. Init => Store!Init /\ StoredInv
  BY DEF Init, Store!Init, StoredInv
<1>2. TypeOK /\ StoredInv /\ [Next]_vars => StoredInv' /\ [Store!Next]_(Store!vars)
  <2>. SUFFICES ASSUME TypeOK, StoredInv, [Next]_vars
                PROVE  StoredInv' /\ [Store!Next]_(Store!vars)
    OBVIOUS
  <2>1. ASSUME NEW u \in Uids, IngestOk(u) \/ IngestFails(u)
        PROVE StoredInv' /\ [Store!Next]_(Store!vars)
    BY <2>1 DEF IngestOk, IngestFails, StoredInv, Store!Next, Store!Store, Store!vars, caller
  <2>2. CASE Receive
    BY <2>2 DEF Receive, Forget, StoredInv, Store!Next, Store!Report, Store!vars, TypeOK
  <2>3. CASE UNCHANGED <<stored, known>> /\ got' \subseteq got
    BY <2>3 DEF StoredInv, Store!vars
  <2>4. \/ \E u \in Uids : IngestOk(u) \/ IngestFails(u)
        \/ Receive
        \/ UNCHANGED <<stored, known>> /\ got' \subseteq got
    BY DEF Next, Poll, Deliver, Expunge, Initialize, Search, Fetch, Skip,
       Finish, GiveUp, Forget, vars, caller
  <2>. QED  BY <2>1, <2>2, <2>3, <2>4
<1>. QED  BY <1>1, <1>2, TypeCorrect, PTL DEF Spec, ImplementsStore, Store!Spec

\* The promise of MailStore, of any state of the poller: the caller knows of stored mails only.
\* With NothingPassedSilently: a mail that the cursor has passed is in S3 and with the
\* caller, or the answered poll that passed it failed on it or preferred newer ones.
THEOREM PassedIsStored ==
    Spec => []( /\ Store!ReportedIsDurable
                /\ \A u \in box : (start < u /\ u <= cursor) => u \in (known \intersect stored) \union lost)
<1>1. Store!Init => Store!ReportedIsDurable  BY DEF Store!Init, Store!ReportedIsDurable
<1>2. Store!ReportedIsDurable /\ [Store!Next]_(Store!vars) => Store!ReportedIsDurable'
  BY DEF Store!Next, Store!Store, Store!Report, Store!vars, Store!ReportedIsDurable
<1>3. Store!Spec => []Store!ReportedIsDurable  BY <1>1, <1>2, PTL DEF Store!Spec
<1>4. Store!ReportedIsDurable /\ NothingPassedSilently =>
        \A u \in box : (start < u /\ u <= cursor) => u \in (known \intersect stored) \union lost
  BY DEF Store!ReportedIsDurable, NothingPassedSilently
<1>. QED
  BY <1>3, <1>4, ImplementsStoreHolds, NothingPassedSilentlyHolds, PTL DEF ImplementsStore
-----------------------------------------------------------------------------
\* Inductive: an initializing answer leaves its newest mail just ahead of the cursor it
\* sets, and is the last one unless it left the cursor at 0, which only UID 1 does.
SparedInv ==
    /\ pc # "answer" => newest = 0
    /\ newest # 0 => cursor = 0 /\ newLast + 1 = newest
    /\ cursor = 0 => start = 0
    /\ \A u \in spared : u = 1 \/ (cursor > 0 /\ u = start + 1)

LEMMA SparedStep == ASSUME TypeOK, PollInv, SparedInv, [Next]_vars PROVE SparedInv'
<1>. USE UidsTyped DEF server, caller
<1>1. CASE Initialize
  BY <1>1 DEF Initialize, SparedInv, TypeOK
<1>2. CASE Receive
  <2>1. cursor <= newLast  BY <1>2 DEF Receive, PollInv
  <2>2. CASE newest = 0
    <3>1. spared' = spared /\ cursor' = newLast /\ newest' = 0
      BY <1>2, <2>2 DEF Receive, Forget
    <3>2. start' = IF cursor = 0 THEN newLast ELSE start  BY <1>2 DEF Receive
    <3>3. cursor = 0 => \A u \in spared : u = 1  BY DEF SparedInv, TypeOK
    <3>. QED  BY <1>2, <2>1, <3>1, <3>2, <3>3 DEF SparedInv, Receive, Forget, TypeOK
  <2>3. CASE newest # 0
    <3>1. cursor = 0 /\ newLast + 1 = newest  BY <2>3 DEF SparedInv
    <3>2. spared' = spared \union {newest} /\ cursor' = newLast /\ start' = newLast
          /\ newest' = 0 /\ pc' = "idle"
      BY <1>2, <2>3, <3>1 DEF Receive, Forget
    <3>3. \A u \in spared : u = 1  BY <3>1 DEF SparedInv
    <3>4. \A u \in spared' : u = 1 \/ (cursor' > 0 /\ u = start' + 1)
      BY <3>1, <3>2, <3>3 DEF TypeOK
    <3>. QED  BY <3>2, <3>4 DEF SparedInv
  <2>. QED  BY <2>2, <2>3
<1>3. CASE GiveUp
  BY <1>3 DEF GiveUp, Forget, SparedInv, TypeOK
<1>4. ASSUME NEW S \in SUBSET Uids, Search(S) PROVE SparedInv'
  BY <1>4 DEF Search, SparedInv, TypeOK
<1>5. ASSUME NEW F \in SUBSET Uids, Fetch(F) PROVE SparedInv'
  BY <1>5 DEF Fetch, SparedInv, TypeOK
<1>6. ASSUME NEW u \in Uids, Skip(u) \/ IngestOk(u) \/ IngestFails(u) PROVE SparedInv'
  BY <1>6 DEF Skip, IngestOk, IngestFails, Pass, SparedInv, TypeOK
<1>7. CASE Deliver \/ (\E u \in Uids : Expunge(u)) \/ Finish \/ UNCHANGED vars
  BY <1>7 DEF Deliver, Expunge, Finish, vars, SparedInv, TypeOK
<1>. QED  BY <1>1, <1>2, <1>3, <1>4, <1>5, <1>6, <1>7 DEF Next, Poll

\* Where no mail of the folder can have UID 1, the claim of poll_handlers.go:84-85 is true:
\* the mail that was the newest when the cursor was set is not passed over silently.
THEOREM NewestNotSkippedAboveOne ==
    ASSUME FirstUid > 1
    PROVE  Spec => []NewestNotSkipped
<1>1. Init => SparedInv  BY DEF Init, SparedInv
<1>2. TypeOK /\ PollInv /\ SparedInv /\ [Next]_vars => SparedInv'
  BY SparedStep
<1>3. TypeOK /\ PollInv /\ SparedInv => NewestNotSkipped
  <2>. SUFFICES ASSUME TypeOK, PollInv, SparedInv, NEW u \in spared, u \in box, u <= cursor
                PROVE  u \in known \union lost
    BY DEF NewestNotSkipped
  <2>1. u # 1  BY ImapAssumption, UidsTyped DEF TypeOK
  <2>2. start < u  BY <2>1 DEF SparedInv, TypeOK
  <2>. QED  BY <2>2 DEF PollInv, NothingPassedSilently
<1>. QED  BY <1>1, <1>2, <1>3, TypeCorrect, PollInvariant, PTL DEF Spec
==============================================================================
