----------------------------- MODULE StorageProofs ---------------------------
(***************************************************************************)
(* Storage for any number of puts, of any sizes, under any names.          *)
(***************************************************************************)
EXTENDS Storage, TLAPS

LEMMA ContentTypes ==
    ASSUME TypeOK, NEW p \in Puts, loc[p] \in Locations, NEW k \in Nat
    PROVE  Empty \in Contents /\ Whole(p) \in Contents /\ Overlay(p, k) \in Contents
BY StorageAssumption DEF Empty, Whole, Overlay, Contents, TypeOK

LEMMA HoldTypes ==
    ASSUME TypeOK, NEW p \in Puts, loc[p] \in Locations, NEW c \in Contents, Hold(p, c)
    PROVE  file' \in [Locations -> Contents] /\ spoiled' \in SUBSET Puts
BY DEF Hold, TypeOK

LEMMA EndTypes ==
    ASSUME TypeOK, NEW p \in Puts, NEW ok \in BOOLEAN, End(p, ok)
    PROVE  /\ stage' \in [Puts -> {"new", "put", "open", "write", "reply", "end"}]
           /\ saved' \in [Puts -> BOOLEAN]
           /\ result' \in [Puts -> {"none", "ok", "failed", "refused"}]
           /\ \A q \in Puts \ {p} : stage'[q] = stage[q]
           /\ stage'[p] \in {"reply", "end"}
BY DEF End, TypeOK

\* However a write ends, it got up to some position, and to the last one on success.
LEMMA WriteReaches ==
    ASSUME TypeOK, NEW p \in Puts, Write(p) \/ WriteFails(p)
    PROVE  \E k \in sent[p] .. Size[p] :
              /\ Hold(p, Overlay(p, k))
              /\ sent' = [sent EXCEPT ![p] = k]
              /\ End(p, FALSE) \/ (End(p, TRUE) /\ k = Size[p])
<1>1. Size[p] \in sent[p] .. Size[p]  BY StorageAssumption DEF TypeOK
<1>2. CASE Write(p)
  <2>. WITNESS Size[p] \in sent[p] .. Size[p]
  <2>. QED  BY <1>2 DEF Write
<1>3. CASE WriteFails(p)  BY <1>3 DEF WriteFails
<1>. QED  BY <1>2, <1>3

\* The state of the puts and their files keeps its types; no write overruns.
THEOREM TypeCorrect == Spec => []TypeOK
<1>. USE StorageAssumption
<1>1. Init => TypeOK
  BY DEF Init, TypeOK, Empty, Contents
<1>2. TypeOK /\ [Next]_vars => TypeOK'
  <2>. SUFFICES ASSUME TypeOK, [Next]_vars PROVE TypeOK'
    OBVIOUS
  <2>0. \A p \in Puts : Size[p] \in 1 .. MaxSize /\ sent[p] \in 0 .. MaxSize /\ sent[p] <= Size[p]
    BY DEF TypeOK
  <2>1. CASE Tick  BY <2>1 DEF Tick, TypeOK
  <2>2. CASE UNCHANGED vars  BY <2>2 DEF vars, TypeOK
  <2>3. ASSUME NEW p \in Puts, NEW dest \in Dests, NEW base \in Bases \union {Nothing},
               NEW stamped \in BOOLEAN, Accept(p, dest, base, stamped)
        PROVE  TypeOK'
    <3>1. LocationOf(p, dest, base, stamped) \in Locations
      BY DEF LocationOf, Locations, TypeOK
    <3>. QED  BY <2>3, <3>1 DEF Accept, TypeOK
  <2>4. ASSUME NEW p \in Puts, Refuse(p) \/ Reply(p) \/ TimesOut(p) \/ Hang(p)
        PROVE  TypeOK'
    BY <2>4 DEF Refuse, Reply, TimesOut, Hang, TypeOK
  <2>5. ASSUME NEW p \in Puts, PutS3(p) PROVE TypeOK'
    <3>1. loc[p] \in Locations  BY <2>5 DEF PutS3, TypeOK
    <3>2. file' \in [Locations -> Contents] /\ spoiled' \in SUBSET Puts
      BY <2>5, <3>1, <2>0, ContentTypes, HoldTypes DEF PutS3, TypeOK
    <3>3. End(p, TRUE) \/ End(p, FALSE)  BY <2>5 DEF PutS3
    <3>. QED  BY <2>5, <3>1, <3>2, <3>3, EndTypes DEF PutS3, TypeOK
  <2>6. ASSUME NEW p \in Puts, Open(p) PROVE TypeOK'
    <3>1. loc[p] \in Locations  BY <2>6 DEF Open, TypeOK
    <3>2. file' \in [Locations -> Contents] /\ spoiled' \in SUBSET Puts
      BY <2>6, <2>0, <3>1, ContentTypes, HoldTypes DEF Open
    <3>. QED  BY <2>6, <3>1, <3>2 DEF Open, TypeOK
  <2>7. ASSUME NEW p \in Puts, OpenFails(p) PROVE TypeOK'
    <3>1. loc[p] \in Locations  BY <2>7 DEF OpenFails, TypeOK
    <3>. QED  BY <2>7, <3>1, EndTypes DEF OpenFails, TypeOK
  <2>8. ASSUME NEW p \in Puts, NEW k \in Positions, WritePacket(p, k) PROVE TypeOK'
    <3>1. loc[p] \in Locations /\ k \in Nat /\ k \in 0 .. MaxSize /\ k <= Size[p]
      BY <2>0, <2>8 DEF WritePacket, TypeOK, Positions
    <3>2. file' \in [Locations -> Contents] /\ spoiled' \in SUBSET Puts
      BY <2>8, <3>1, ContentTypes, HoldTypes DEF WritePacket
    <3>. QED  BY <2>8, <3>1, <3>2 DEF WritePacket, TypeOK
  <2>9. ASSUME NEW p \in Puts, Write(p) \/ WriteFails(p) PROVE TypeOK'
    <3>1. loc[p] \in Locations  BY <2>9 DEF Write, WriteFails, TypeOK
    <3>2. PICK k \in sent[p] .. Size[p] :
              Hold(p, Overlay(p, k)) /\ sent' = [sent EXCEPT ![p] = k]
      BY <2>9, WriteReaches
    <3>3. k \in Nat /\ k \in 0 .. MaxSize /\ k <= Size[p]  BY <2>0
    <3>4. file' \in [Locations -> Contents] /\ spoiled' \in SUBSET Puts
      BY <3>1, <3>2, <3>3, ContentTypes, HoldTypes
    <3>5. (End(p, TRUE) \/ End(p, FALSE)) /\ UNCHANGED <<now, loc, hung>>
      BY <2>9 DEF Write, WriteFails
    <3>. QED  BY <3>1, <3>2, <3>3, <3>4, <3>5, EndTypes DEF TypeOK
  <2>. QED  BY <2>1, <2>2, <2>3, <2>4, <2>5, <2>6, <2>7, <2>8, <2>9 DEF Next, Arrive, Step
<1>. QED  BY <1>1, <1>2, PTL DEF Spec
-----------------------------------------------------------------------------
\* What a put alone at work on its file has written so far.
SoFar(p) == [i \in Positions |-> IF i <= sent[p] THEN p ELSE Nothing]

Complete(p) == saved[p] \/ result[p] = "ok"

\* Inductive: an undisturbed file holds what its put has written, and success is
\* only recorded of a put that has written everything.
SavedInv ==
    \A p \in Puts :
        /\ stage[p] \in {"new", "put", "open"} => sent[p] = 0 /\ p \notin spoiled
        /\ Complete(p) => stage[p] \in {"reply", "end"} /\ loc[p] \in Locations
        /\ stage[p] = "write" /\ p \notin spoiled => file[loc[p]] = SoFar(p)
        /\ Complete(p) /\ p \notin spoiled => file[loc[p]] = Whole(p)

\* A step of one put leaves an undisturbed file of another alone.
LEMMA OthersKept ==
    ASSUME TypeOK, NEW p \in Puts, loc[p] \in Locations, NEW c \in Contents, Hold(p, c),
           NEW q \in Puts \ {p}, loc[q] \in Locations, Begun(q), q \notin spoiled'
    PROVE  q \notin spoiled /\ file'[loc[q]] = file[loc[q]]
BY DEF Hold, TypeOK

LEMMA SavedStep == ASSUME TypeOK, TypeOK', SavedInv, [Next]_vars PROVE SavedInv'
<1>. USE StorageAssumption
<1>1. CASE Tick  BY <1>1 DEF Tick, SavedInv, Complete, SoFar
<1>2. CASE UNCHANGED vars  BY <1>2 DEF vars, SavedInv, Complete, SoFar
<1>3. ASSUME NEW p \in Puts, NEW dest \in Dests, NEW base \in Bases \union {Nothing},
             NEW stamped \in BOOLEAN, Accept(p, dest, base, stamped)
      PROVE  SavedInv'
  <2>1. ~Complete(p) /\ ~Complete(p)'  BY <1>3 DEF Accept, SavedInv, Complete
  <2>2. \A q \in Puts \ {p} : loc'[q] = loc[q] /\ stage'[q] = stage[q]
    BY <1>3 DEF Accept, TypeOK
  <2>3. stage[p] = "new" /\ stage'[p] \in {"put", "open"}
        /\ UNCHANGED <<file, sent, saved, result, spoiled>>
    BY <1>3 DEF Accept, TypeOK
  <2>. QED  BY <2>1, <2>2, <2>3 DEF SavedInv, Complete, SoFar
<1>4. ASSUME NEW p \in Puts, Refuse(p) \/ TimesOut(p) \/ Hang(p) PROVE SavedInv'
  BY <1>4 DEF Refuse, TimesOut, Hang, SavedInv, Complete, SoFar, TypeOK
<1>5. ASSUME NEW p \in Puts, Reply(p) PROVE SavedInv'
  BY <1>5 DEF Reply, SavedInv, Complete, SoFar, TypeOK
<1>6. ASSUME NEW p \in Puts, OpenFails(p) PROVE SavedInv'
  BY <1>6 DEF OpenFails, End, SavedInv, Complete, SoFar, TypeOK
<1>7. ASSUME NEW p \in Puts, NEW c \in Contents, loc[p] \in Locations, Hold(p, c),
             stage[p] \in {"put", "open", "write"}, stage'[p] \in {"write", "reply", "end"},
             UNCHANGED loc,
             \A q \in Puts \ {p} : stage'[q] = stage[q] /\ sent'[q] = sent[q]
                                   /\ saved'[q] = saved[q] /\ result'[q] = result[q],
             stage'[p] = "write" => ~Complete(p)',
             stage'[p] = "write" /\ p \notin spoiled => c = SoFar(p)',
             Complete(p)' /\ p \notin spoiled => c = Whole(p)
      PROVE  SavedInv'
  <2>1. file'[loc[p]] = c /\ (p \in spoiled' <=> p \in spoiled)
    BY <1>7 DEF Hold, TypeOK
  <2>2. ASSUME NEW q \in Puts \ {p}, stage[q] = "write" \/ Complete(q), q \notin spoiled'
        PROVE  q \notin spoiled /\ file'[loc[q]] = file[loc[q]]
    <3>1. Begun(q) /\ loc[q] \in Locations  BY <2>2 DEF SavedInv, Begun, TypeOK
    <3>. QED  BY <1>7, <2>2, <3>1, OthersKept
  <2>3. ASSUME NEW q \in Puts \ {p}, stage[q] \in {"new", "put", "open"}
        PROVE  q \notin spoiled'
    BY <1>7, <2>3 DEF Hold, Begun, SavedInv
  <2>4. \A q \in Puts \ {p} : Complete(q)' = Complete(q) /\ SoFar(q)' = SoFar(q)
    BY <1>7 DEF Complete, SoFar
  <2>5. ASSUME NEW q \in Puts \ {p}
        PROVE  /\ stage'[q] \in {"new", "put", "open"} => sent'[q] = 0 /\ q \notin spoiled'
               /\ Complete(q)' => stage'[q] \in {"reply", "end"} /\ loc'[q] \in Locations
               /\ stage'[q] = "write" /\ q \notin spoiled' => file'[loc'[q]] = SoFar(q)'
               /\ Complete(q)' /\ q \notin spoiled' => file'[loc'[q]] = Whole(q)
    BY <1>7, <2>2, <2>3, <2>4, <2>5 DEF SavedInv
  <2>6. /\ stage'[p] \in {"new", "put", "open"} => sent'[p] = 0 /\ p \notin spoiled'
        /\ Complete(p)' => stage'[p] \in {"reply", "end"} /\ loc'[p] \in Locations
        /\ stage'[p] = "write" /\ p \notin spoiled' => file'[loc'[p]] = SoFar(p)'
        /\ Complete(p)' /\ p \notin spoiled' => file'[loc'[p]] = Whole(p)
    BY <1>7, <2>1
  <2>7. \A q \in Puts : Whole(q)' = Whole(q)  BY DEF Whole
  <2>. QED  BY <2>5, <2>6, <2>7 DEF SavedInv
<1>8. ASSUME NEW p \in Puts, Open(p) PROVE SavedInv'
  <2>1. Empty \in Contents /\ loc[p] \in Locations
    BY <1>8, 0 \in Nat, ContentTypes DEF Open, TypeOK
  <2>2. sent[p] = 0 /\ ~Complete(p)  BY <1>8 DEF Open, SavedInv
  <2>3. Empty = SoFar(p)'  BY <1>8, <2>2 DEF Open, Empty, SoFar, Positions
  <2>4. ~Complete(p)' /\ Hold(p, Empty) /\ stage[p] = "open" /\ stage'[p] = "write"
        /\ UNCHANGED <<loc, sent, saved, result>>
        /\ \A q \in Puts \ {p} : stage'[q] = stage[q]
    BY <1>8, <2>2 DEF Open, Complete, TypeOK
  <2>. QED  BY <1>7, <2>1, <2>3, <2>4
<1>9. ASSUME NEW p \in Puts, NEW k \in Positions, WritePacket(p, k) PROVE SavedInv'
  <2>1. Overlay(p, k) \in Contents /\ loc[p] \in Locations
    BY <1>9, ContentTypes DEF WritePacket, TypeOK, Positions
  <2>2. ~Complete(p)  BY <1>9 DEF WritePacket, SavedInv
  <2>3. sent'[p] = k /\ sent[p] < k /\ stage'[p] = "write" /\ stage[p] = "write"
        /\ Hold(p, Overlay(p, k)) /\ UNCHANGED <<loc, stage, saved, result>>
        /\ \A q \in Puts \ {p} : sent'[q] = sent[q]
    BY <1>9 DEF WritePacket, TypeOK
  <2>4. ASSUME p \notin spoiled PROVE Overlay(p, k) = SoFar(p)'
    <3>1. file[loc[p]] = SoFar(p)  BY <2>3, <2>4 DEF SavedInv
    <3>2. sent[p] \in Nat /\ k \in Nat  BY DEF TypeOK, Positions
    <3>. QED  BY <2>3, <3>1, <3>2 DEF Overlay, SoFar, Positions
  <2>. QED  BY <1>7, <2>1, <2>2, <2>3, <2>4 DEF Complete
<1>10. ASSUME NEW p \in Puts, PutS3(p) PROVE SavedInv'
  <2>1. Whole(p) \in Contents /\ loc[p] \in Locations
    BY <1>10, 0 \in Nat, ContentTypes DEF PutS3, TypeOK
  <2>2. ~Complete(p)  BY <1>10 DEF PutS3, SavedInv
  <2>3. CASE Hold(p, Whole(p))
    <3>1. End(p, TRUE) \/ End(p, FALSE)  BY <1>10 DEF PutS3
    <3>2. stage'[p] \in {"reply", "end"} /\ stage[p] = "put" /\ UNCHANGED <<loc, sent>>
          /\ \A q \in Puts \ {p} : stage'[q] = stage[q] /\ saved'[q] = saved[q]
                                   /\ result'[q] = result[q]
      BY <1>10, <3>1 DEF PutS3, End, TypeOK
    <3>. QED  BY <1>7, <2>1, <2>3, <3>2
  <2>4. CASE UNCHANGED <<file, spoiled>> /\ End(p, FALSE)
    BY <1>10, <2>2, <2>4 DEF PutS3, End, SavedInv, Complete, SoFar, TypeOK
  <2>. QED  BY <1>10, <2>3, <2>4 DEF PutS3
<1>11. ASSUME NEW p \in Puts, Write(p) \/ WriteFails(p) PROVE SavedInv'
  <2>1. PICK k \in sent[p] .. Size[p] :
            /\ Hold(p, Overlay(p, k))
            /\ sent' = [sent EXCEPT ![p] = k]
            /\ End(p, FALSE) \/ (End(p, TRUE) /\ k = Size[p])
    BY <1>11, WriteReaches
  <2>2. k \in Nat /\ sent[p] \in Nat  BY DEF TypeOK
  <2>3. Overlay(p, k) \in Contents /\ loc[p] \in Locations
    BY <1>11, <2>2, ContentTypes DEF Write, WriteFails, TypeOK
  <2>4. ~Complete(p) /\ stage[p] = "write" /\ UNCHANGED loc
    BY <1>11 DEF Write, WriteFails, SavedInv
  <2>5. stage'[p] \in {"reply", "end"}
        /\ \A q \in Puts \ {p} : stage'[q] = stage[q] /\ saved'[q] = saved[q]
                                 /\ result'[q] = result[q] /\ sent'[q] = sent[q]
    BY <2>1 DEF End, TypeOK
  <2>6. ASSUME Complete(p)', p \notin spoiled PROVE Overlay(p, k) = Whole(p)
    <3>1. k = Size[p]  BY <2>1, <2>4, <2>6 DEF End, Complete, TypeOK
    <3>2. file[loc[p]] = SoFar(p)  BY <2>4, <2>6 DEF SavedInv
    <3>. QED  BY <2>2, <3>1, <3>2 DEF Overlay, SoFar, Whole, Positions
  <2>. QED  BY <1>7, <2>1, <2>3, <2>4, <2>5, <2>6
<1>. QED  BY <1>1, <1>2, <1>3, <1>4, <1>5, <1>6, <1>8, <1>9, <1>10, <1>11 DEF Next, Arrive, Step

\* Whatever else is written, fails or is given up, an undisturbed successful put
\* is whole.
THEOREM SavedIntactHolds == Spec => []SavedIntact
<1>1. Init => SavedInv
  BY DEF Init, SavedInv, Complete
<1>2. TypeOK /\ TypeOK' /\ SavedInv /\ [Next]_vars => SavedInv'
  BY SavedStep
<1>3. SavedInv => SavedIntact  BY DEF SavedInv, SavedIntact, Complete
<1>. QED  BY <1>1, <1>2, <1>3, TypeCorrect, PTL DEF Spec
==============================================================================
