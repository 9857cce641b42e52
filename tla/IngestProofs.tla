----------------------------- MODULE IngestProofs ----------------------------
(***************************************************************************)
(* Ingest for every set of mails, keys and requests.  Types come first;    *)
(* then the bucket's invariants, each step of a request in turn; last,     *)
(* that Ingest implements MailStore.                                       *)
(***************************************************************************)
EXTENDS Ingest, TLAPS

LEMMA NoJobTyped == NoJob \in Jobs
BY ConstantsAssumption DEF NoJob, Jobs

\* Every variable keeps its type: an answer, a stored document and a job in hand
\* always are what the handlers expect them to be.
THEOREM TypeCorrect == Spec => []TypeOK
<1>1. Init => TypeOK
  BY NoJobTyped DEF Init, TypeOK
<1>2. TypeOK /\ [Next]_vars => TypeOK'
  <2>. SUFFICES ASSUME TypeOK, [Next]_vars PROVE TypeOK'
    OBVIOUS
  <2>. USE ConstantsAssumption
  <2>1. ASSUME NEW m \in Msgs, Upload(m) PROVE TypeOK'
    BY <2>1 DEF TypeOK, Upload, locals
  <2>2. ASSUME NEW w \in Workers, Arrive(w) PROVE TypeOK'
    <3>1. ASSUME NEW jobs \in SUBSET Jobs, Start(w, jobs) PROVE TypeOK'
      BY <3>1 DEF TypeOK, Start, Goto, store
    <3>2. \A S \in SUBSET Msgs : PollJobs(S) \in SUBSET Jobs
      BY DEF PollJobs, Jobs
    <3>3. \A K \in SUBSET Keys : ParseJobs(K) \in SUBSET Jobs
      BY DEF ParseJobs, Jobs
    <3>. QED  BY <2>2, <3>1, <3>2, <3>3 DEF Arrive, StartPoll, StartParse
  <2>3. ASSUME NEW w \in Workers, Drop(w), Goto(w, "next") \/ Goto(w, "idle")
        PROVE  /\ pc' \in [Workers -> {"idle", "next", "putRaw", "read", "attach"}]
               /\ job' \in [Workers -> Jobs]
               /\ data' \in [Workers -> Msgs \union {NoMsg}]
               /\ \A v \in Workers : pc'[v] = "attach" => data'[v] # NoMsg
               /\ \A v \in Workers : pc'[v] = "putRaw" => job'[v].msg # NoMsg
               /\ parts' \in [Workers -> SUBSET Parts]
    BY <2>3, NoJobTyped DEF Drop, TypeOK, Goto
  <2>4. ASSUME NEW w \in Workers, NEW j \in left[w], Take(w, j) PROVE TypeOK'
    BY <2>4 DEF TypeOK, Take, Goto, store
  <2>5. ASSUME NEW w \in Workers, PutRaw(w) \/ PutRawFails(w) PROVE TypeOK'
    <3>1. job[w].key \in Keys /\ job[w].msg \in Msgs \union {NoMsg}
      BY DEF TypeOK, Jobs
    <3>2. CASE PutRaw(w)  BY <3>1, <3>2 DEF TypeOK, PutRaw, Goto
    <3>3. CASE PutRawFails(w)
      <4>1. raw' \in [Keys -> Msgs \union {NoMsg}]  BY <3>1, <3>3 DEF TypeOK, PutRawFails
      <4>. QED  BY <3>3, <4>1, <2>3 DEF TypeOK, PutRawFails
    <3>. QED  BY <2>5, <3>2, <3>3
  <2>6. ASSUME NEW w \in Workers, ReadRaw(w) \/ ReadRawFails(w) PROVE TypeOK'
    <3>1. CASE ReadRaw(w)  BY <3>1 DEF TypeOK, ReadRaw, Goto, store
    <3>2. CASE ReadRawFails(w)  BY <3>2, <2>3 DEF TypeOK, ReadRawFails, store
    <3>. QED  BY <2>6, <3>1, <3>2
  <2>7. ASSUME NEW w \in Workers, NEW p \in parts[w],
               PutAttachment(w, p) \/ PutAttachmentFails(w, p)
        PROVE TypeOK'
    <3>1. <<Id(w), p>> \in Ids \X Parts  BY DEF TypeOK, Jobs, Id
    <3>2. CASE PutAttachment(w, p)  BY <3>1, <3>2 DEF TypeOK, PutAttachment
    <3>3. CASE PutAttachmentFails(w, p)
      <4>1. att' \in SUBSET (Ids \X Parts)  BY <3>1, <3>3 DEF TypeOK, PutAttachmentFails
      <4>. QED  BY <3>3, <4>1, <2>3 DEF TypeOK, PutAttachmentFails
    <3>. QED  BY <2>7, <3>2, <3>3
  <2>8. ASSUME NEW w \in Workers, PutParsed(w) \/ PutParsedFails(w)
        PROVE TypeOK'
    <3>0. data[w] \in Msgs  BY <2>8 DEF TypeOK, PutParsed, PutParsedFails
    <3>1. DocOf(w) \in Docs /\ Id(w) \in Ids /\ job[w].msg \in Msgs \union {NoMsg}
      BY <3>0 DEF TypeOK, Jobs, Docs, DocOf, Id
    <3>2. CASE PutParsed(w)
      <4>1. parsed' \in [Ids -> Docs \union {NoDoc}]  BY <3>1, <3>2 DEF TypeOK, PutParsed
      <4>2. [asked |-> job[w].msg, doc |-> DocOf(w)] \in Answers  BY <3>1 DEF Answers
      <4>3. results' \in [Workers -> SUBSET Answers]  BY <4>2, <3>2 DEF TypeOK, PutParsed
      <4>. QED  BY <3>2, <4>1, <4>3, <2>3 DEF TypeOK, PutParsed
    <3>3. CASE PutParsedFails(w)
      <4>1. parsed' \in [Ids -> Docs \union {NoDoc}]  BY <3>1, <3>3 DEF TypeOK, PutParsedFails
      <4>. QED  BY <3>3, <4>1, <2>3 DEF TypeOK, PutParsedFails
    <3>. QED  BY <2>8, <3>2, <3>3
  <2>9. ASSUME NEW w \in Workers, Reply(w) PROVE TypeOK'
    <3>1. {a.doc : a \in results[w]} \subseteq Docs  BY DEF TypeOK, Answers
    <3>. QED  BY <2>9, <3>1 DEF TypeOK, Reply, Goto
  <2>10. ASSUME NEW w \in Workers, Abort(w) PROVE TypeOK'
    BY <2>10, <2>3 DEF TypeOK, Abort, store
  <2>11. ASSUME UNCHANGED vars PROVE TypeOK'
    BY <2>11 DEF TypeOK, vars
  <2>. QED  BY <2>1, <2>2, <2>4, <2>5, <2>6, <2>7, <2>8, <2>9, <2>10, <2>11 DEF Next, Step
<1>. QED  BY <1>1, <1>2, PTL DEF Spec

-----------------------------------------------------------------------------
(* The bucket never loses an object, whatever collides.                      *)

\* Every object an answer names for a document exists.
Exists(d) ==
    /\ raw[d.key] # NoMsg
    /\ parsed[StorageId[d.key]] # NoDoc
    /\ HasAttachments(d)

\* Inductive: what a request has done so far is in the bucket.
BucketInv ==
    /\ AttachmentsDurable
    /\ \A d \in answered : Exists(d)
    /\ \A w \in Workers : \A a \in results[w] : Exists(a.doc)
    /\ \A w \in Workers : pc[w] = "attach" =>
          /\ raw[job[w].key] # NoMsg
          /\ \A p \in Atts[data[w]] \ parts[w] : <<Id(w), p>> \in att

LEMMA BucketGrows ==
    ASSUME TypeOK, TypeOK', [Next]_vars
    PROVE  /\ att \subseteq att'
           /\ \A k \in Keys : raw[k] # NoMsg => raw'[k] # NoMsg
           /\ \A i \in Ids : parsed[i] # NoDoc => parsed'[i] # NoDoc
<1>. USE ConstantsAssumption, NoDocAssumption
<1>1. ASSUME NEW m \in Msgs, Upload(m) PROVE raw'[RawKey[m]] # NoMsg /\ UNCHANGED <<att, parsed>>
                /\ \A k \in Keys : k # RawKey[m] => raw'[k] = raw[k]
  BY <1>1 DEF Upload, TypeOK
<1>2. ASSUME NEW w \in Workers, PutRaw(w) \/ PutRawFails(w)
      PROVE  UNCHANGED <<att, parsed>> /\ \A k \in Keys : raw[k] # NoMsg => raw'[k] # NoMsg
  <2>1. job[w].key \in Keys  BY DEF TypeOK, Jobs
  <2>2. job[w].msg # NoMsg  BY <1>2 DEF TypeOK, PutRaw, PutRawFails
  <2>. QED  BY <1>2, <2>1, <2>2 DEF TypeOK, PutRaw, PutRawFails
<1>3. ASSUME NEW w \in Workers, PutParsed(w) \/ PutParsedFails(w)
      PROVE  UNCHANGED <<att, raw>> /\ \A i \in Ids : parsed[i] # NoDoc => parsed'[i] # NoDoc
  <2>1. data[w] \in Msgs /\ job[w].key \in Keys
    BY <1>3 DEF TypeOK, PutParsed, PutParsedFails, Jobs
  <2>2. DocOf(w) \in Docs /\ Id(w) \in Ids  BY <2>1 DEF DocOf, Docs, Id
  <2>3. DocOf(w) # NoDoc  BY <2>2
  <2>. QED  BY <1>3, <2>2, <2>3 DEF TypeOK, PutParsed, PutParsedFails
<1>4. ASSUME NEW w \in Workers, NEW p \in parts[w], PutAttachment(w, p) \/ PutAttachmentFails(w, p)
      PROVE  att \subseteq att' /\ UNCHANGED <<raw, parsed>>
  BY <1>4 DEF PutAttachment, PutAttachmentFails
<1>5. ASSUME NEW w \in Workers,
             \/ Arrive(w) \/ Abort(w) \/ ReadRaw(w) \/ ReadRawFails(w) \/ Reply(w)
             \/ \E j \in left[w] : Take(w, j)
      PROVE  UNCHANGED <<raw, att, parsed>>
  BY <1>5 DEF Arrive, StartPoll, StartParse, Start, Abort, ReadRaw, ReadRawFails, Reply, Take, store
<1>6. CASE UNCHANGED vars  BY <1>6 DEF vars
<1>7. \A m \in Msgs : RawKey[m] \in Keys  OBVIOUS
<1>8. ASSUME NEW m \in Msgs, Upload(m)
      PROVE  UNCHANGED <<att, parsed>> /\ \A k \in Keys : raw[k] # NoMsg => raw'[k] # NoMsg
  BY <1>1, <1>8
<1>. QED  BY <1>2, <1>3, <1>4, <1>5, <1>6, <1>8 DEF Next, Step

\* What existed keeps existing, so each step answers only for what it adds.
LEMMA ExistsGrows ==
    ASSUME TypeOK, TypeOK', [Next]_vars
    PROVE  \A d \in Docs : /\ Exists(d) => Exists(d)'
                           /\ HasAttachments(d) => HasAttachments(d)'
<1>1. \A d \in Docs : HasAttachments(d) => HasAttachments(d)'
  BY BucketGrows DEF HasAttachments
<1>2. \A d \in Docs : d.key \in Keys /\ StorageId[d.key] \in Ids
  BY ConstantsAssumption DEF Docs
<1>. QED  BY <1>1, <1>2, BucketGrows DEF Exists

LEMMA BucketStep ==
    ASSUME TypeOK, TypeOK', BucketInv, [Next]_vars
    PROVE  BucketInv'
<1>. USE ConstantsAssumption, NoDocAssumption
<1>1. AttachmentsDurable'
  <2>. SUFFICES ASSUME NEW i \in Ids, parsed'[i] # NoDoc PROVE HasAttachments(parsed[i])'
    BY DEF AttachmentsDurable
  <2>1. CASE parsed'[i] = parsed[i]
    BY <2>1, ExistsGrows DEF BucketInv, AttachmentsDurable, TypeOK, HasAttachments
  <2>2. CASE parsed'[i] # parsed[i]
    <3>1. PICK w \in Workers : PutParsed(w) \/ PutParsedFails(w)
      BY <2>2 DEF Next, Step, Arrive, StartPoll, StartParse, Start, Abort, ReadRaw, ReadRawFails,
         Reply, Take, store, Upload, PutRaw, PutRawFails, PutAttachment, PutAttachmentFails, vars
    <3>2. pc[w] = "attach" /\ parts[w] = {} /\ att' = att  BY <3>1 DEF PutParsed, PutParsedFails
    <3>3. i = Id(w) /\ parsed'[i] = DocOf(w)
      BY <3>1, <2>2 DEF PutParsed, PutParsedFails, TypeOK
    <3>4. \A p \in Atts[data[w]] : <<StorageId[job[w].key], p>> \in att
      BY <3>2 DEF BucketInv, Id
    <3>. QED  BY <3>2, <3>3, <3>4 DEF HasAttachments, DocOf
  <2>. QED  BY <2>1, <2>2
<1>2. ASSUME NEW w \in Workers, NEW a \in results'[w] PROVE Exists(a.doc)'
  <2>1. CASE a \in results[w]
    BY <2>1, ExistsGrows DEF BucketInv, TypeOK, Answers
  <2>2. CASE a \notin results[w]
    <3>1. PutParsed(w)
      BY <2>2, <1>2 DEF TypeOK, Next, Step, Arrive, StartPoll, StartParse, Start, Abort, ReadRaw,
         ReadRawFails, Reply, Take, store, Upload, PutRaw, PutRawFails, PutAttachment,
         PutAttachmentFails, PutParsed, PutParsedFails, vars, locals
    <3>2. a.doc = DocOf(w)  BY <3>1, <2>2, <1>2 DEF PutParsed, TypeOK
    <3>3. parsed' = [parsed EXCEPT ![Id(w)] = DocOf(w)] /\ UNCHANGED <<raw, att>>
      BY <3>1 DEF PutParsed
    <3>4. data[w] \in Msgs /\ job[w].key \in Keys  BY <3>1 DEF PutParsed, TypeOK, Jobs
    <3>5. DocOf(w) \in Docs /\ Id(w) \in Ids  BY <3>4 DEF DocOf, Docs, Id
    <3>6. parsed'[Id(w)] = DocOf(w) /\ DocOf(w) # NoDoc  BY <3>3, <3>5 DEF TypeOK
    <3>7. raw[job[w].key] # NoMsg /\ HasAttachments(DocOf(w))
      BY <3>1 DEF PutParsed, BucketInv, HasAttachments, DocOf, Id
    <3>8. HasAttachments(a.doc)'  BY <3>2, <3>3, <3>7 DEF HasAttachments
    <3>9. a.doc.key = job[w].key /\ StorageId[a.doc.key] = Id(w)  BY <3>2 DEF DocOf, Id
    <3>. QED  BY <3>2, <3>3, <3>6, <3>7, <3>8, <3>9 DEF Exists
  <2>. QED  BY <2>1, <2>2
<1>3. ASSUME NEW d \in answered' PROVE Exists(d)'
  <2>1. d \in answered \/ \E w \in Workers : \E a \in results[w] : d = a.doc
    BY <1>3 DEF TypeOK, Next, Step, Arrive, StartPoll, StartParse, Start, Abort, ReadRaw,
       ReadRawFails, Reply, Take, store, Upload, PutRaw, PutRawFails, PutAttachment,
       PutAttachmentFails, PutParsed, PutParsedFails, vars, locals
  <2>2. Exists(d) /\ d \in Docs  BY <2>1 DEF BucketInv, TypeOK, Answers
  <2>. QED  BY <2>2, ExistsGrows
<1>4. ASSUME NEW w \in Workers, pc'[w] = "attach"
      PROVE  /\ raw'[job'[w].key] # NoMsg
             /\ \A p \in Atts[data'[w]] \ parts'[w] : <<Id(w)', p>> \in att'
  <2>0. job[w].key \in Keys  BY DEF TypeOK, Jobs
  <2>1. CASE pc[w] = "attach" /\ UNCHANGED <<job[w], data[w]>> /\ parts'[w] = parts[w]
    BY <2>0, <2>1, BucketGrows DEF BucketInv, Id
  <2>2. CASE ReadRaw(w)
    BY <2>0, <2>2 DEF ReadRaw, TypeOK, store
  <2>3. ASSUME NEW p \in parts[w], PutAttachment(w, p)
        PROVE  /\ raw'[job'[w].key] # NoMsg
               /\ \A q \in Atts[data'[w]] \ parts'[w] : <<Id(w)', q>> \in att'
    <3>1. pc[w] = "attach" /\ UNCHANGED <<job, data, raw>> /\ parts'[w] = parts[w] \ {p}
          /\ att' = att \union {<<Id(w), p>>}
      BY <2>3 DEF PutAttachment, TypeOK
    <3>. QED  BY <3>1 DEF BucketInv, Id
  <2>4. \/ pc[w] = "attach" /\ UNCHANGED <<job[w], data[w]>> /\ parts'[w] = parts[w]
        \/ ReadRaw(w)
        \/ \E p \in parts[w] : PutAttachment(w, p)
    <3>1. CASE \E v \in Workers : v # w /\ (Arrive(v) \/ Step(v) \/ Abort(v))
      BY <1>4, <3>1 DEF TypeOK, Step, Arrive, StartPoll, StartParse, Start, Abort, ReadRaw,
         ReadRawFails, Reply, Take, store, PutRaw, PutRawFails, PutAttachment,
         PutAttachmentFails, PutParsed, PutParsedFails, Goto, Drop
    <3>2. CASE Arrive(w) \/ Step(w) \/ Abort(w)
      BY <1>4, <3>2 DEF TypeOK, Step, Arrive, StartPoll, StartParse, Start, Abort,
         ReadRawFails, Reply, Take, PutRaw, PutRawFails,
         PutAttachmentFails, PutParsed, PutParsedFails, Goto, Drop
    <3>3. CASE UNCHANGED vars \/ \E m \in Msgs : Upload(m)
      BY <1>4, <3>3 DEF vars, Upload, locals
    <3>. QED  BY <3>1, <3>2, <3>3 DEF Next
  <2>. QED  BY <2>1, <2>2, <2>3, <2>4
<1>. QED  BY <1>1, <1>2, <1>3, <1>4 DEF BucketInv

LEMMA BucketInvariant == Spec => []BucketInv
<1>1. Init => BucketInv
  BY ConstantsAssumption DEF Init, BucketInv, AttachmentsDurable
<1>2. TypeOK /\ TypeOK' /\ BucketInv /\ [Next]_vars => BucketInv'
  BY BucketStep
<1>. QED  BY <1>1, <1>2, TypeCorrect, PTL DEF Spec

\* However many requests interleave and fail, a parsed document in the bucket
\* never names a missing attachment -- no assumption on keys is needed.
THEOREM AttachmentsDurableHolds == Spec => []AttachmentsDurable
<1>1. BucketInv => AttachmentsDurable  BY DEF BucketInv
<1>. QED  BY <1>1, BucketInvariant, PTL

\* Every object an answer names exists, even when keys collide.
THEOREM AnsweredExistsHolds == Spec => []AnsweredExists
<1>1. BucketInv => AnsweredExists  BY DEF BucketInv, AnsweredExists, Exists
<1>. QED  BY <1>1, BucketInvariant, PTL

-----------------------------------------------------------------------------
(* A mail that shares its keys with no other: nothing takes its place.       *)

\* A document is named by the raw key of its content.
Named(d) == d.key = RawKey[d.msg]

OwnKey(j) == j.msg # NoMsg => j.key = RawKey[j.msg]

\* Inductive: everything lies under the key, and the id, of its content.
KeyInv ==
    /\ \A k \in Keys : raw[k] # NoMsg => k = RawKey[raw[k]]
    /\ \A i \in Ids : parsed[i] # NoDoc => StorageId[parsed[i].key] = i /\ Named(parsed[i])
    /\ \A w \in Workers :
          /\ OwnKey(job[w])
          /\ \A j \in left[w] : OwnKey(j)
          /\ pc[w] = "attach" => job[w].key = RawKey[data[w]]
          /\ \A a \in results[w] : Named(a.doc) /\ OwnKey([key |-> a.doc.key, msg |-> a.asked])
    /\ \A d \in answered : Named(d)

LEMMA KeyStep ==
    ASSUME TypeOK, TypeOK', KeyInv, [Next]_vars
    PROVE  KeyInv'
<1>. USE ConstantsAssumption, NoDocAssumption
<1>1. ASSUME NEW k \in Keys, raw'[k] # NoMsg PROVE k = RawKey[raw'[k]]
  <2>1. ASSUME NEW m \in Msgs, Upload(m) PROVE k = RawKey[raw'[k]]
    BY <1>1, <2>1 DEF Upload, TypeOK, KeyInv
  <2>2. ASSUME NEW w \in Workers, PutRaw(w) \/ PutRawFails(w) PROVE k = RawKey[raw'[k]]
    <3>1. job[w].key \in Keys /\ job[w].msg \in Msgs /\ job[w].key = RawKey[job[w].msg]
      BY <2>2 DEF TypeOK, Jobs, KeyInv, OwnKey, PutRaw, PutRawFails
    <3>. QED  BY <1>1, <2>2, <3>1 DEF TypeOK, KeyInv, PutRaw, PutRawFails
  <2>3. raw' = raw \/ (\E m \in Msgs : Upload(m)) \/ \E w \in Workers : PutRaw(w) \/ PutRawFails(w)
    BY DEF Next, Step, Arrive, StartPoll, StartParse, Start, Abort, ReadRaw, ReadRawFails,
       Reply, Take, store, PutAttachment, PutAttachmentFails, PutParsed, PutParsedFails, vars
  <2>. QED  BY <1>1, <2>1, <2>2, <2>3 DEF KeyInv
<1>2. ASSUME NEW i \in Ids, parsed'[i] # NoDoc
      PROVE  StorageId[parsed'[i].key] = i /\ Named(parsed'[i])
  <2>1. CASE parsed'[i] = parsed[i]  BY <1>2, <2>1 DEF KeyInv
  <2>2. CASE parsed'[i] # parsed[i]
    <3>1. PICK w \in Workers : PutParsed(w) \/ PutParsedFails(w)
      BY <2>2 DEF Next, Step, Arrive, StartPoll, StartParse, Start, Abort, ReadRaw, ReadRawFails,
         Reply, Take, store, Upload, PutRaw, PutRawFails, PutAttachment, PutAttachmentFails, vars
    <3>2. i = Id(w) /\ parsed'[i] = DocOf(w) /\ pc[w] = "attach"
      BY <3>1, <2>2 DEF PutParsed, PutParsedFails, TypeOK
    <3>. QED  BY <3>2 DEF DocOf, Id, KeyInv, Named
  <2>. QED  BY <2>1, <2>2
<1>3. ASSUME NEW w \in Workers PROVE OwnKey(job'[w]) /\ \A j \in left'[w] : OwnKey(j)
  <2>1. CASE \E v \in Workers : \E j \in left[v] : Take(v, j)
    BY <2>1 DEF Take, TypeOK, KeyInv
  <2>2. CASE \E v \in Workers : Arrive(v)
    <3>1. \A S \in SUBSET Msgs : \A j \in PollJobs(S) : OwnKey(j)  BY DEF PollJobs, OwnKey
    <3>2. \A K \in SUBSET Keys : \A j \in ParseJobs(K) : OwnKey(j)  BY DEF ParseJobs, OwnKey
    <3>3. ASSUME NEW v \in Workers, NEW jobs \in SUBSET Jobs, \A j \in jobs : OwnKey(j), Start(v, jobs)
          PROVE  OwnKey(job'[w]) /\ \A j \in left'[w] : OwnKey(j)
      BY <3>3 DEF Start, TypeOK, KeyInv
    <3>4. \A S \in SUBSET Msgs : PollJobs(S) \in SUBSET Jobs  BY DEF PollJobs, Jobs
    <3>5. \A K \in SUBSET Keys : ParseJobs(K) \in SUBSET Jobs  BY DEF ParseJobs, Jobs
    <3>. QED  BY <2>2, <3>1, <3>2, <3>3, <3>4, <3>5 DEF Arrive, StartPoll, StartParse
  <2>3. OwnKey(NoJob)  BY NoJobTyped DEF OwnKey, NoJob
  <2>4. \/ \E v \in Workers : \E j \in left[v] : Take(v, j)
        \/ \E v \in Workers : Arrive(v)
        \/ (job'[w] = job[w] \/ job'[w] = NoJob) /\ (left'[w] = left[w] \/ left'[w] = {})
    BY DEF TypeOK, Next, Step, Abort, ReadRaw, ReadRawFails, Reply, store, Upload, PutRaw,
       PutRawFails, PutAttachment, PutAttachmentFails, PutParsed, PutParsedFails, vars, locals, Drop
  <2>. QED  BY <2>1, <2>2, <2>3, <2>4 DEF KeyInv
<1>4. ASSUME NEW w \in Workers, pc'[w] = "attach" PROVE job'[w].key = RawKey[data'[w]]
  <2>0. job[w].key \in Keys  BY DEF TypeOK, Jobs
  <2>1. CASE ReadRaw(w)  BY <2>0, <2>1 DEF ReadRaw, TypeOK, KeyInv
  <2>2. CASE pc[w] = "attach" /\ job'[w] = job[w] /\ data'[w] = data[w]
    BY <2>2 DEF KeyInv
  <2>3. ReadRaw(w) \/ (pc[w] = "attach" /\ job'[w] = job[w] /\ data'[w] = data[w])
    <3>1. CASE \E v \in Workers : v # w /\ (Arrive(v) \/ Step(v) \/ Abort(v))
      BY <1>4, <3>1 DEF TypeOK, Step, Arrive, StartPoll, StartParse, Start, Abort, ReadRaw,
         ReadRawFails, Reply, Take, store, PutRaw, PutRawFails, PutAttachment,
         PutAttachmentFails, PutParsed, PutParsedFails, Goto, Drop
    <3>2. CASE Arrive(w) \/ Step(w) \/ Abort(w)
      BY <1>4, <3>2 DEF TypeOK, Step, Arrive, StartPoll, StartParse, Start, Abort,
         ReadRawFails, Reply, Take, PutRaw, PutRawFails, PutAttachment,
         PutAttachmentFails, PutParsed, PutParsedFails, Goto, Drop
    <3>3. CASE UNCHANGED vars \/ \E m \in Msgs : Upload(m)
      BY <1>4, <3>3 DEF vars, Upload, locals
    <3>. QED  BY <3>1, <3>2, <3>3 DEF Next
  <2>. QED  BY <2>1, <2>2, <2>3
<1>5. ASSUME NEW w \in Workers, NEW a \in results'[w]
      PROVE  Named(a.doc) /\ OwnKey([key |-> a.doc.key, msg |-> a.asked])
  <2>1. CASE a \in results[w]  BY <2>1 DEF KeyInv
  <2>2. CASE a \notin results[w]
    <3>1. PutParsed(w)
      BY <2>2, <1>5 DEF TypeOK, Next, Step, Arrive, StartPoll, StartParse, Start, Abort, ReadRaw,
         ReadRawFails, Reply, Take, store, Upload, PutRaw, PutRawFails, PutAttachment,
         PutAttachmentFails, PutParsed, PutParsedFails, vars, locals
    <3>2. a = [asked |-> job[w].msg, doc |-> DocOf(w)]  BY <3>1, <2>2, <1>5 DEF PutParsed, TypeOK
    <3>3. job[w].key = RawKey[data[w]] /\ OwnKey(job[w])  BY <3>1 DEF PutParsed, KeyInv
    <3>. QED  BY <3>2, <3>3 DEF DocOf, Named, OwnKey
  <2>. QED  BY <2>1, <2>2
<1>6. ASSUME NEW d \in answered' PROVE Named(d)
  <2>1. d \in answered \/ \E w \in Workers : \E a \in results[w] : d = a.doc
    BY <1>6 DEF TypeOK, Next, Step, Arrive, StartPoll, StartParse, Start, Abort, ReadRaw,
       ReadRawFails, Reply, Take, store, Upload, PutRaw, PutRawFails, PutAttachment,
       PutAttachmentFails, PutParsed, PutParsedFails, vars, locals
  <2>. QED  BY <2>1 DEF KeyInv
<1>. QED  BY <1>1, <1>2, <1>3, <1>4, <1>5, <1>6 DEF KeyInv, OwnKey, Named

LEMMA KeyInvariant == Spec => []KeyInv
<1>1. Init => KeyInv
  BY ConstantsAssumption DEF Init, KeyInv, OwnKey, NoJob
<1>2. TypeOK /\ TypeOK' /\ KeyInv /\ [Next]_vars => KeyInv'
  BY KeyStep
<1>. QED  BY <1>1, <1>2, TypeCorrect, PTL DEF Spec

MailDoc(m) == [key |-> RawKey[m], msg |-> m]

\* The objects of a mail that is alone can only be its own: existing is enough.
LEMMA AloneIntact ==
    ASSUME TypeOK, BucketInv, KeyInv, NEW m \in Msgs, Alone(m)
    PROVE  /\ raw[RawKey[m]] \in {m, NoMsg}
           /\ parsed[StorageId[RawKey[m]]] \in {MailDoc(m), NoDoc}
           /\ parsed[StorageId[RawKey[m]]] # NoDoc => HasAttachments(MailDoc(m))
<1>. USE ConstantsAssumption, NoDocAssumption
<1>1. raw[RawKey[m]] \in {m, NoMsg}
  BY DEF TypeOK, KeyInv, Alone
<1>2. ASSUME parsed[StorageId[RawKey[m]]] # NoDoc
      PROVE  parsed[StorageId[RawKey[m]]] = MailDoc(m) /\ HasAttachments(MailDoc(m))
  <2>. DEFINE d == parsed[StorageId[RawKey[m]]]
  <2>1. d \in Docs /\ StorageId[d.key] = StorageId[RawKey[m]] /\ Named(d) /\ HasAttachments(d)
    BY <1>2 DEF TypeOK, KeyInv, BucketInv, AttachmentsDurable
  <2>2. d.key = RawKey[m]  BY <2>1 DEF Alone, Docs
  <2>3. d.msg = m  BY <2>1, <2>2 DEF Alone, Docs, Named
  <2>. QED  BY <2>1, <2>2, <2>3 DEF Docs, MailDoc
<1>. QED  BY <1>1, <1>2

\* Whatever collides among other mails, an answer about a mail that shares its keys
\* with no other is about the mail that was asked for, and everything it names is there.
THEOREM ReportedIntactHolds == Spec => []ReportedIntact
<1>1. TypeOK /\ BucketInv /\ KeyInv => ReportedIntact
  <2>. SUFFICES ASSUME TypeOK, BucketInv, KeyInv PROVE ReportedIntact
    OBVIOUS
  <2>1. ASSUME NEW w \in Workers, NEW a \in results[w], a.asked # NoMsg,
               Alone(a.asked) \/ Alone(a.doc.msg)
        PROVE  a.doc.msg = a.asked
    <3>1. a.asked \in Msgs /\ a.doc.msg \in Msgs  BY <2>1 DEF TypeOK, Answers, Docs
    <3>2. RawKey[a.asked] = RawKey[a.doc.msg]  BY <2>1 DEF KeyInv, Named, OwnKey
    <3>. QED  BY <2>1, <3>1, <3>2 DEF Alone
  <2>2. ASSUME NEW d \in answered, Alone(d.msg)
        PROVE  /\ raw[d.key] = d.msg
               /\ parsed[StorageId[d.key]] = d
               /\ HasAttachments(d)
    <3>1. d \in Docs /\ d.msg \in Msgs /\ d.key = RawKey[d.msg] /\ Exists(d)
      BY DEF TypeOK, Docs, KeyInv, Named, BucketInv
    <3>2. d = MailDoc(d.msg)  BY <3>1 DEF Docs, MailDoc
    <3>. QED  BY <2>2, <3>1, <3>2, AloneIntact DEF Exists
  <2>. QED  BY <2>1, <2>2 DEF ReportedIntact
<1>. QED  BY <1>1, TypeCorrect, BucketInvariant, KeyInvariant, PTL

-----------------------------------------------------------------------------
(* Ingest implements MailStore.                                              *)

DurableLoners == Durable \cap Loners
Reported == {d.msg : d \in answered} \cap Loners

\* The document is written last, so it alone tells whether a mail is stored.
ParsedLoners == {m \in Loners : parsed[StorageId[RawKey[m]]] # NoDoc}

\* A document was written after its raw object was read back: it never lacks one.
RawInv == \A i \in Ids : parsed[i] # NoDoc => raw[parsed[i].key] # NoMsg

LEMMA RawInvariant == Spec => []RawInv
<1>. USE ConstantsAssumption, NoDocAssumption
<1>1. Init => RawInv  BY DEF Init, RawInv
<1>2. ASSUME TypeOK, TypeOK', BucketInv, RawInv, [Next]_vars PROVE RawInv'
  <2>. SUFFICES ASSUME NEW i \in Ids, parsed'[i] # NoDoc PROVE raw'[parsed'[i].key] # NoMsg
    BY <1>2 DEF RawInv
  <2>1. CASE parsed'[i] = parsed[i]
    <3>1. parsed[i].key \in Keys  BY <1>2, <2>1 DEF TypeOK, Docs
    <3>. QED  BY <1>2, <2>1, <3>1, BucketGrows DEF RawInv
  <2>2. CASE parsed'[i] # parsed[i]
    <3>1. PICK w \in Workers : PutParsed(w) \/ PutParsedFails(w)
      BY <1>2, <2>2 DEF Next, Step, Arrive, StartPoll, StartParse, Start, Abort, ReadRaw, ReadRawFails,
         Reply, Take, store, Upload, PutRaw, PutRawFails, PutAttachment, PutAttachmentFails, vars
    <3>2. i = Id(w) /\ parsed'[i] = DocOf(w) /\ pc[w] = "attach" /\ raw' = raw
      BY <1>2, <3>1, <2>2 DEF PutParsed, PutParsedFails, TypeOK
    <3>. QED  BY <1>2, <3>2 DEF DocOf, BucketInv
  <2>. QED  BY <2>1, <2>2
<1>. QED  BY <1>1, <1>2, TypeCorrect, BucketInvariant, PTL DEF Spec

LEMMA DurableIsParsed == TypeOK /\ BucketInv /\ KeyInv /\ RawInv => DurableLoners = ParsedLoners
<1>. USE ConstantsAssumption, NoDocAssumption
<1>. SUFFICES ASSUME TypeOK, BucketInv, KeyInv, RawInv, NEW m \in Loners
              PROVE  m \in Durable <=> parsed[StorageId[RawKey[m]]] # NoDoc
  BY DEF DurableLoners, ParsedLoners
<1>0. m \in Msgs /\ Alone(m) /\ MailDoc(m) \in Docs /\ StorageId[RawKey[m]] \in Ids
  BY DEF Loners, MailDoc, Docs
<1>1. CASE parsed[StorageId[RawKey[m]]] # NoDoc
  <2>1. parsed[StorageId[RawKey[m]]] = MailDoc(m) /\ HasAttachments(MailDoc(m))
    BY <1>0, <1>1, AloneIntact
  <2>2. raw[RawKey[m]] = m
    BY <1>0, <1>1, <2>1, AloneIntact DEF RawInv, MailDoc
  <2>. QED  BY <1>0, <1>1, <2>1, <2>2 DEF Durable, MailDoc
<1>2. CASE parsed[StorageId[RawKey[m]]] = NoDoc
  BY <1>0, <1>2 DEF Durable, MailDoc
<1>. QED  BY <1>1, <1>2

LEMMA LonersParsed ==
    TypeOK /\ BucketInv /\ KeyInv =>
        \A m \in Loners : parsed[StorageId[RawKey[m]]] \in {MailDoc(m), NoDoc}
BY AloneIntact DEF Loners

LEMMA StoreStep ==
    ASSUME TypeOK, TypeOK', BucketInv, BucketInv', KeyInv, KeyInv', RawInv, RawInv', [Next]_vars
    PROVE  [Store!Next]_(Store!vars)
<1>. USE ConstantsAssumption, NoDocAssumption
<1>0. \A m \in Loners : m \in Msgs /\ Alone(m) /\ StorageId[RawKey[m]] \in Ids  BY DEF Loners
<1>1. DurableLoners = ParsedLoners  BY DurableIsParsed
<1>2. DurableLoners' = ParsedLoners'
  <2>1. (TypeOK /\ BucketInv /\ KeyInv /\ RawInv => DurableLoners = ParsedLoners)'
    BY DurableIsParsed, PTL
  <2>. QED  BY <2>1
<1>3. ParsedLoners \subseteq ParsedLoners'
  BY <1>0, BucketGrows DEF ParsedLoners, Loners, Alone
<1>4. \A m \in Loners : parsed'[StorageId[RawKey[m]]] \in {MailDoc(m), NoDoc}
  <2>1. (TypeOK /\ BucketInv /\ KeyInv =>
           \A m \in Loners : parsed[StorageId[RawKey[m]]] \in {MailDoc(m), NoDoc})'
    BY LonersParsed, PTL
  <2>. QED  BY <2>1 DEF Loners, Alone, MailDoc
<1>5. ASSUME NEW w \in Workers, PutParsed(w) \/ PutParsedFails(w)
      PROVE  [Store!Next]_(Store!vars)
  <2>1. answered' = answered  BY <1>5 DEF PutParsed, PutParsedFails
  <2>2. data[w] \in Msgs /\ Id(w) \in Ids  BY <1>5 DEF PutParsed, PutParsedFails, TypeOK, Jobs, Id
  <2>3. \A i \in Ids : parsed'[i] = parsed[i] \/ (i = Id(w) /\ parsed'[i] = DocOf(w))
    BY <1>5, <2>2 DEF PutParsed, PutParsedFails, TypeOK
  <2>4. ASSUME NEW m \in ParsedLoners', m \notin ParsedLoners PROVE m = data[w]
    <3>1. m \in Loners /\ parsed'[StorageId[RawKey[m]]] = DocOf(w)
      BY <1>0, <2>3, <2>4 DEF ParsedLoners, Loners, Alone
    <3>2. parsed'[StorageId[RawKey[m]]] = MailDoc(m)
      BY <1>4, <2>4, <3>1 DEF ParsedLoners
    <3>. QED  BY <3>1, <3>2 DEF MailDoc, DocOf
  <2>5. DurableLoners' = DurableLoners
        \/ (data[w] \in Loners /\ DurableLoners' = DurableLoners \union {data[w]})
    BY <1>1, <1>2, <1>3, <2>4 DEF ParsedLoners, Loners, Alone
  <2>. QED  BY <2>1, <2>5 DEF Store!Next, Store!Store, Store!vars, DurableLoners
<1>6. ASSUME parsed' = parsed PROVE DurableLoners' = DurableLoners
  BY <1>1, <1>2, <1>6 DEF ParsedLoners, Loners, Alone
<1>7. ASSUME NEW w \in Workers, Reply(w) PROVE [Store!Next]_(Store!vars)
  <2>. DEFINE S == {a.doc.msg : a \in results[w]} \cap Loners
  <2>1. DurableLoners' = DurableLoners  BY <1>6, <1>7 DEF Reply
  <2>2. S \subseteq DurableLoners
    <3>. SUFFICES ASSUME NEW a \in results[w], a.doc.msg \in Loners
                  PROVE  a.doc.msg \in ParsedLoners
      BY <1>1
    <3>1. a.doc.key = RawKey[a.doc.msg] /\ Exists(a.doc)  BY DEF KeyInv, Named, BucketInv
    <3>. QED  BY <3>1 DEF Exists, ParsedLoners
  <2>3. Reported' = Reported \union S  BY <1>7 DEF Reply, Reported, Loners, Alone
  <2>4. S \in SUBSET Loners  OBVIOUS
  <2>. QED  BY <2>1, <2>2, <2>3, <2>4 DEF Store!Next, Store!Report, Reported, DurableLoners
<1>8. ASSUME parsed' = parsed, answered' = answered PROVE [Store!Next]_(Store!vars)
  BY <1>6, <1>8 DEF Store!vars, DurableLoners, Loners, Alone
<1>9. \/ \E w \in Workers : PutParsed(w) \/ PutParsedFails(w) \/ Reply(w)
      \/ parsed' = parsed /\ answered' = answered
  BY DEF Next, Step, Arrive, StartPoll, StartParse, Start, Abort, ReadRaw, ReadRawFails,
     Take, store, PutAttachment, PutAttachmentFails, PutRaw, PutRawFails, Upload, vars
<1>. QED  BY <1>5, <1>7, <1>8, <1>9

\* Whatever requests do to the bucket, one step stores at most one mail, none is
\* ever lost, and an answer names stored mails only: the promise of MailStore, for
\* every mail that shares its keys with no other.
THEOREM ImplementsStoreHolds == Spec => ImplementsStore
<1>1. Init => Store!Init
  <2>. SUFFICES ASSUME Init PROVE DurableLoners = {} /\ Reported = {}
    BY DEF Store!Init, Reported, DurableLoners
  <2>1. \A k \in Keys : raw[k] \notin Msgs  BY ConstantsAssumption DEF Init
  <2>. QED  BY <2>1, ConstantsAssumption DEF Init, Durable, DurableLoners, Reported
<1>2. /\ TypeOK /\ TypeOK' /\ BucketInv /\ BucketInv' /\ KeyInv /\ KeyInv' /\ RawInv /\ RawInv'
      /\ [Next]_vars
      => [Store!Next]_(Store!vars)
  BY StoreStep
<1>. QED  BY <1>1, <1>2, TypeCorrect, BucketInvariant, KeyInvariant, RawInvariant, PTL
          DEF Spec, ImplementsStore, Store!Spec

\* What MailStore promises, said of S3: a mail handed out that shares its keys with no other
\* is in the bucket with its attachments and its document, and no later request, failed
\* write or crash takes it out again.
THEOREM StoredForGood ==
    Spec => /\ []Store!ReportedIsDurable
            /\ [][\A m \in Loners : m \in Durable => m \in Durable']_vars
<1>1. Store!Init => Store!ReportedIsDurable  BY DEF Store!Init, Store!ReportedIsDurable
<1>2. Store!ReportedIsDurable /\ [Store!Next]_(Store!vars) => Store!ReportedIsDurable'
  BY DEF Store!Next, Store!Store, Store!Report, Store!vars, Store!ReportedIsDurable
<1>3. Store!Spec => []Store!ReportedIsDurable  BY <1>1, <1>2, PTL DEF Store!Spec
<1>4. [Store!Next]_(Store!vars) => \A m \in Loners : m \in Durable => m \in Durable'
  <2>. SUFFICES ASSUME [Store!Next]_(Store!vars), NEW m \in Loners, m \in Durable
                PROVE  m \in Durable'
    OBVIOUS
  <2>1. Loners' = Loners  BY DEF Loners, Alone
  <2>2. Durable \cap Loners \subseteq (Durable \cap Loners)'
    BY DEF Store!Next, Store!Store, Store!Report, Store!vars
  <2>. QED  BY <2>2
<1>5. /\ TypeOK /\ TypeOK' /\ BucketInv /\ BucketInv' /\ KeyInv /\ KeyInv' /\ RawInv /\ RawInv'
      /\ [Next]_vars
      => [Store!Next]_(Store!vars)
  BY StoreStep
<1>. QED
  BY <1>3, <1>4, <1>5, ImplementsStoreHolds, TypeCorrect, BucketInvariant, KeyInvariant, RawInvariant,
     PTL DEF Spec, ImplementsStore
-----------------------------------------------------------------------------
\* What is left of a request: its mails, then the calls left for the mail in hand, then
\* the attachments of that mail.
Rank == [putRaw |-> 3, read |-> 2, attach |-> 1, next |-> 0]
Less(S, T) == S \subseteq T /\ S # T
Closer(w) ==
    \/ pc'[w] = "idle"
    \/ Less(left'[w], left[w])
    \/ /\ left'[w] = left[w]
       /\ \/ Rank[pc'[w]] < Rank[pc[w]]
          \/ pc'[w] = pc[w] /\ Less(parts'[w], parts[w])

\* Every answer of S3, an error too, brings a request nearer its end: nothing is retried,
\* and no other request lengthens it.
StepsRunOut == [][\A w \in Workers : Step(w) => Closer(w)]_vars

LEMMA StepIsCloser ==
    ASSUME TypeOK, NEW w \in Workers, Step(w)
    PROVE  Closer(w)
<1>1. ASSUME NEW j \in left[w], Take(w, j) PROVE Closer(w)
  BY <1>1 DEF Take, Closer, Less, TypeOK
<1>2. CASE PutRaw(w) \/ ReadRaw(w)
  BY <1>2 DEF PutRaw, ReadRaw, Goto, Closer, Rank, TypeOK
<1>3. CASE PutRawFails(w) \/ ReadRawFails(w) \/ PutParsed(w) \/ PutParsedFails(w)
  BY <1>3 DEF PutRawFails, ReadRawFails, PutParsed, PutParsedFails, Goto, Closer, Rank, TypeOK
<1>4. ASSUME NEW p \in parts[w], PutAttachment(w, p) PROVE Closer(w)
  BY <1>4 DEF PutAttachment, Closer, Less, TypeOK
<1>5. ASSUME NEW p \in parts[w], PutAttachmentFails(w, p) PROVE Closer(w)
  BY <1>5 DEF PutAttachmentFails, Goto, Closer, Rank, TypeOK
<1>6. CASE Reply(w)
  BY <1>6 DEF Reply, Goto, Closer, TypeOK
<1>. QED  BY <1>1, <1>2, <1>3, <1>4, <1>5, <1>6 DEF Step

\* Any number of requests over any mails: each step of each brings it nearer its end, so a
\* request of finitely many mails and attachments makes finitely many S3 calls.
THEOREM StepsRunOutHolds == Spec => StepsRunOut
<1>1. TypeOK /\ [Next]_vars => [\A w \in Workers : Step(w) => Closer(w)]_vars
  BY StepIsCloser
<1>. QED  BY <1>1, TypeCorrect, PTL DEF Spec, StepsRunOut
==============================================================================
