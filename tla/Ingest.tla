------------------------------- MODULE Ingest --------------------------------
(***************************************************************************)
(* The pipeline every poll handler and the parse handlers share: store the *)
(* raw .eml in S3 (s3store.PutObject), read it back and parse it           *)
(* (parser.ParseFromS3, ParseRaw), store each attachment, store the parsed *)
(* JSON, and answer with the mails that got through.                       *)
(*                                                                         *)
(* A worker is one HTTP request, served by a goroutine of its own.  Every  *)
(* S3 call is one step, so requests interleave between calls; every call   *)
(* may fail, and a failed PUT may have taken effect (the answer was lost). *)
(*                                                                         *)
(* Abstracted: the bytes of a mail are the mail itself, an attachment is a *)
(* part (file name and content), the document is the pair (key, content)   *)
(* it was made from -- ParsedAt, which differs between two parses, is left *)
(* out -- and the keys of one request form a set.                          *)
(***************************************************************************)

EXTENDS Naturals, FiniteSets

CONSTANTS
    Msgs,       \* mails, standing for their raw bytes
    Keys,       \* raw object keys a request may name
    Ids,        \* storage ids: hashes of lower-cased raw keys
    Parts,      \* attachments: a file name with its content
    Workers,    \* requests being served
    RawKey,     \* the raw key a poll handler builds for a mail
    StorageId,  \* parser.StorageIDFromRawKey
    Atts,       \* the attachments of a mail
    Malformed,  \* mails enmime.ReadEnvelope rejects
    MaxJobs,    \* bound: mails or keys of one request
    NoMsg,
    NoDoc

ASSUME ConstantsAssumption ==
    /\ Keys # {}
    /\ RawKey \in [Msgs -> Keys]
    /\ StorageId \in [Keys -> Ids]
    /\ Atts \in [Msgs -> SUBSET Parts]
    /\ Malformed \subseteq Msgs
    /\ NoMsg \notin Msgs

VARIABLES
    raw,       \* raw objects: key -> bytes, or NoMsg
    att,       \* attachment objects, as <<storage id, part>>
    parsed,    \* parsed JSON objects: storage id -> document, or NoDoc
    answered,  \* documents the answers handed to the callers
    pc,        \* where each request is
    left,      \* jobs of the request still to do
    job,       \* job in hand
    data,      \* bytes read back from S3
    parts,     \* attachments still to store
    results    \* resp.Messages / resp.Results so far

store == <<raw, att, parsed, answered>>
locals == <<pc, left, job, data, parts, results>>
vars == <<raw, att, parsed, answered, pc, left, job, data, parts, results>>

Docs == [key : Keys, msg : Msgs]
ASSUME NoDocAssumption == NoDoc \notin Docs

\* A poll handler stores `msg` under its key first; a parse request has only a key.
Jobs == [key : Keys, msg : Msgs \union {NoMsg}]
Answers == [asked : Msgs \union {NoMsg}, doc : Docs]
NoJob == [key |-> CHOOSE k \in Keys : TRUE, msg |-> NoMsg]

PollJobs(S) == {[key |-> RawKey[m], msg |-> m] : m \in S}
ParseJobs(K) == {[key |-> k, msg |-> NoMsg] : k \in K}

Id(w) == StorageId[job[w].key]

TypeOK ==
    /\ raw \in [Keys -> Msgs \union {NoMsg}]
    /\ att \in SUBSET (Ids \X Parts)
    /\ parsed \in [Ids -> Docs \union {NoDoc}]
    /\ answered \in SUBSET Docs
    /\ pc \in [Workers -> {"idle", "next", "putRaw", "read", "attach"}]
    /\ left \in [Workers -> SUBSET Jobs]
    /\ job \in [Workers -> Jobs]
    /\ data \in [Workers -> Msgs \union {NoMsg}]
    /\ \A w \in Workers : pc[w] = "attach" => data[w] # NoMsg
    /\ \A w \in Workers : pc[w] = "putRaw" => job[w].msg # NoMsg
    /\ parts \in [Workers -> SUBSET Parts]
    /\ results \in [Workers -> SUBSET Answers]

Init ==
    /\ raw = [k \in Keys |-> NoMsg]
    /\ att = {}
    /\ parsed = [i \in Ids |-> NoDoc]
    /\ answered = {}
    /\ pc = [w \in Workers |-> "idle"]
    /\ left = [w \in Workers |-> {}]
    /\ job = [w \in Workers |-> NoJob]
    /\ data = [w \in Workers |-> NoMsg]
    /\ parts = [w \in Workers |-> {}]
    /\ results = [w \in Workers |-> {}]

Goto(w, where) == pc' = [pc EXCEPT ![w] = where]

Drop(w) ==
    /\ job' = [job EXCEPT ![w] = NoJob]
    /\ data' = [data EXCEPT ![w] = NoMsg]
    /\ parts' = [parts EXCEPT ![w] = {}]

\* SES itself puts a received mail under the inbound prefix; /v1/emails/parse names it later.
Upload(m) ==
    /\ raw' = [raw EXCEPT ![RawKey[m]] = m]
    /\ UNCHANGED <<att, parsed, answered, locals>>

\* A request arrives: the mails a poll fetched and did not skip, or the keys to parse.
Start(w, jobs) ==
    /\ pc[w] = "idle"
    /\ Cardinality(jobs) <= MaxJobs
    /\ Goto(w, "next")
    /\ left' = [left EXCEPT ![w] = jobs]
    /\ UNCHANGED <<store, job, data, parts, results>>

StartPoll(w, S) == Start(w, PollJobs(S))
StartParse(w, K) == Start(w, ParseJobs(K))

\* Mutant of Take: a parse request stores the mail it does not have.
TakePutting(w, j) ==
    /\ pc[w] = "next"
    /\ j \in left[w]
    /\ left' = [left EXCEPT ![w] = @ \ {j}]
    /\ job' = [job EXCEPT ![w] = j]
    /\ Goto(w, "putRaw")
    /\ UNCHANGED <<store, data, parts, results>>

\* The loop takes its next mail or key.
Take(w, j) ==
    /\ pc[w] = "next"
    /\ j \in left[w]
    /\ left' = [left EXCEPT ![w] = @ \ {j}]
    /\ job' = [job EXCEPT ![w] = j]
    /\ Goto(w, IF j.msg = NoMsg THEN "read" ELSE "putRaw")
    /\ UNCHANGED <<store, data, parts, results>>

\* s3store.PutObject of the raw mail.
PutRaw(w) ==
    /\ pc[w] = "putRaw"
    /\ raw' = [raw EXCEPT ![job[w].key] = job[w].msg]
    /\ Goto(w, "read")
    /\ UNCHANGED <<att, parsed, answered, left, job, data, parts, results>>

\* Mutant of PutRawFails: the mail is tried again, without limit.
PutRawRetried(w) ==
    /\ pc[w] = "putRaw"
    /\ left' = [left EXCEPT ![w] = @ \union {job[w]}]
    /\ Goto(w, "next")
    /\ Drop(w)
    /\ UNCHANGED <<store, results>>

\* The PUT returns an error, having taken effect or not: log and `continue`.
PutRawFails(w) ==
    /\ pc[w] = "putRaw"
    /\ raw' \in {raw, [raw EXCEPT ![job[w].key] = job[w].msg]}
    /\ Goto(w, "next")
    /\ Drop(w)
    /\ UNCHANGED <<att, parsed, answered, left, results>>

\* GetObjectBytes and ReadEnvelope: whatever is under the key by now is parsed.
ReadRaw(w) ==
    LET m == raw[job[w].key] IN
    /\ pc[w] = "read"
    /\ m \in Msgs \ Malformed
    /\ data' = [data EXCEPT ![w] = m]
    /\ parts' = [parts EXCEPT ![w] = Atts[m]]
    /\ Goto(w, "attach")
    /\ UNCHANGED <<store, left, job, results>>

\* No such key, a failed GET, or bytes enmime rejects.
ReadRawFails(w) ==
    /\ pc[w] = "read"
    /\ Goto(w, "next")
    /\ Drop(w)
    /\ UNCHANGED <<store, left, results>>

\* PutAttachmentStable: the object's key holds the hash of its content.
PutAttachment(w, p) ==
    /\ pc[w] = "attach"
    /\ p \in parts[w]
    /\ att' = att \union {<<Id(w), p>>}
    /\ parts' = [parts EXCEPT ![w] = @ \ {p}]
    /\ UNCHANGED <<raw, parsed, answered, pc, left, job, data, results>>

\* One attachment fails: the mail is given up, the objects written stay behind.
PutAttachmentFails(w, p) ==
    /\ pc[w] = "attach"
    /\ p \in parts[w]
    /\ att' \in {att, att \union {<<Id(w), p>>}}
    /\ Goto(w, "next")
    /\ Drop(w)
    /\ UNCHANGED <<raw, parsed, answered, left, results>>

DocOf(w) == [key |-> job[w].key, msg |-> data[w]]

\* Mutant of PutParsed: the document is written before its attachments.
PutParsedFirst(w) ==
    /\ pc[w] = "attach"
    /\ parsed' = [parsed EXCEPT ![Id(w)] = DocOf(w)]
    /\ results' = [results EXCEPT ![w] = @ \union {[asked |-> job[w].msg, doc |-> DocOf(w)]}]
    /\ Goto(w, "next")
    /\ Drop(w)
    /\ UNCHANGED <<raw, att, answered, left>>

\* PutParsedJSON, then the document joins the answer.
PutParsed(w) ==
    /\ pc[w] = "attach"
    /\ parts[w] = {}
    /\ parsed' = [parsed EXCEPT ![Id(w)] = DocOf(w)]
    /\ results' = [results EXCEPT ![w] = @ \union {[asked |-> job[w].msg, doc |-> DocOf(w)]}]
    /\ Goto(w, "next")
    /\ Drop(w)
    /\ UNCHANGED <<raw, att, answered, left>>

\* Mutant of PutParsedFails: the error is logged and the mail joins the answer.
PutParsedUnchecked(w) ==
    /\ pc[w] = "attach"
    /\ parts[w] = {}
    /\ results' = [results EXCEPT ![w] = @ \union {[asked |-> job[w].msg, doc |-> DocOf(w)]}]
    /\ Goto(w, "next")
    /\ Drop(w)
    /\ UNCHANGED <<store, left>>

PutParsedFails(w) ==
    /\ pc[w] = "attach"
    /\ parts[w] = {}
    /\ parsed' \in {parsed, [parsed EXCEPT ![Id(w)] = DocOf(w)]}
    /\ Goto(w, "next")
    /\ Drop(w)
    /\ UNCHANGED <<raw, att, answered, left, results>>

\* The loop is over: the answer goes out.
Reply(w) ==
    /\ pc[w] = "next"
    /\ left[w] = {}
    /\ answered' = answered \union {a.doc : a \in results[w]}
    /\ results' = [results EXCEPT ![w] = {}]
    /\ Goto(w, "idle")
    /\ UNCHANGED <<raw, att, parsed, left, job, data, parts>>

\* The process dies or the answer is lost: nothing reaches the caller.
Abort(w) ==
    /\ pc[w] # "idle"
    /\ Goto(w, "idle")
    /\ Drop(w)
    /\ left' = [left EXCEPT ![w] = {}]
    /\ results' = [results EXCEPT ![w] = {}]
    /\ UNCHANGED store

Step(w) ==
    \/ \E j \in left[w] : Take(w, j)
    \/ PutRaw(w) \/ PutRawFails(w)
    \/ ReadRaw(w) \/ ReadRawFails(w)
    \/ \E p \in parts[w] : PutAttachment(w, p) \/ PutAttachmentFails(w, p)
    \/ PutParsed(w) \/ PutParsedFails(w)
    \/ Reply(w)

Arrive(w) ==
    \/ \E S \in SUBSET Msgs : StartPoll(w, S)
    \/ \E K \in SUBSET Keys : StartParse(w, K)

Next ==
    \/ \E m \in Msgs : Upload(m)
    \/ \E w \in Workers : Arrive(w) \/ Step(w) \/ Abort(w)

Spec == Init /\ [][Next]_vars

\* A goroutine that can go on does: S3 answers every call, with data or an error.
Fairness == \A w \in Workers : WF_vars(Step(w))
FairSpec == Spec /\ Fairness
-----------------------------------------------------------------------------
HasAttachments(d) == \A p \in Atts[d.msg] : <<StorageId[d.key], p>> \in att

\* However requests interleave, fail and share storage ids, a parsed document
\* in the bucket never names an attachment object that does not exist: ParseRaw
\* writes the JSON last, and no call removes an object.
AttachmentsDurable ==
    \A i \in Ids : parsed[i] # NoDoc => HasAttachments(parsed[i])

\* No other mail has the raw key of `m`, and no other raw key its storage id.
Alone(m) ==
    /\ \A n \in Msgs : RawKey[n] = RawKey[m] => n = m
    /\ \A k \in Keys : StorageId[k] = StorageId[RawKey[m]] => k = RawKey[m]

\* An answer is worth acting on, whatever collisions there are among other mails:
\* where a mail shares its keys with no other, a request that stored it answers with
\* it and nothing else, and once it is handed over, its raw object and its document
\* are in the bucket under the keys the answer names, with every attachment.
ReportedIntact ==
    /\ \A w \in Workers : \A a \in results[w] :
          a.asked # NoMsg /\ (Alone(a.asked) \/ Alone(a.doc.msg)) => a.doc.msg = a.asked
    /\ \A d \in answered : Alone(d.msg) =>
          /\ raw[d.key] = d.msg
          /\ parsed[StorageId[d.key]] = d
          /\ HasAttachments(d)

\* What holds of an answer even when keys or storage ids collide: every object
\* it names exists, though another mail may have taken its place.
AnsweredExists ==
    \A d \in answered :
        /\ raw[d.key] # NoMsg
        /\ parsed[StorageId[d.key]] # NoDoc
        /\ HasAttachments(d)

\* A request ends, whatever fails on the way: a failure is a `continue`
\* over a finite page.
RequestEnds(w) == pc[w] # "idle" ~> pc[w] = "idle"

-----------------------------------------------------------------------------
Loners == {m \in Msgs : Alone(m)}

\* The mails whose three kinds of object are in place.
Durable ==
    {m \in Msgs :
        LET d == [key |-> RawKey[m], msg |-> m] IN
        /\ raw[d.key] = m
        /\ parsed[StorageId[d.key]] = d
        /\ HasAttachments(d)}

Store == INSTANCE MailStore WITH
    Mails <- Loners,
    durable <- Durable \cap Loners,
    reported <- {d.msg : d \in answered} \cap Loners

\* For the mails that share no key, the pipeline keeps MailStore's promise: each of
\* its steps stores at most one of them, and an answer only names those stored.
ImplementsStore == Store!Spec
==============================================================================
