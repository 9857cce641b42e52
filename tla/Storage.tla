------------------------------- MODULE Storage --------------------------------
(***************************************************************************)
(* storage.Put: one file saved to S3, a local folder, an SFTP server or a  *)
(* partner's API, whose receiving end the service plays itself in          *)
(* storageTestReceiveToFolder.  Every call to a store is a step, so puts   *)
(* interleave, and any call may fail.  S3 replaces an object at once; the  *)
(* local and SFTP writes truncate the file first and fill it afterwards,   *)
(* SFTP in packets, each through a file offset of its own.                 *)
(*                                                                         *)
(* A put is served once.  Abstracted: a file is what each of its positions *)
(* holds, the position of a put's content being that put; a location is    *)
(* the destination with the folder and the sanitized prefix as one name;   *)
(* two random names never agree.                                           *)
(***************************************************************************)
EXTENDS Naturals

CONSTANTS
    Puts,
    Size,      \* the length of a put's content
    MaxSize,
    Bases,     \* folder and sanitized prefix, where there is one
    Seconds,   \* bound: the clock's last second
    Nothing, NoLocation

ASSUME StorageAssumption ==
    /\ MaxSize \in Nat
    /\ Size \in [Puts -> 1 .. MaxSize]
    /\ Seconds \in Nat \ {0}
    /\ Nothing \notin Puts \union Bases
    /\ Puts \intersect Bases = {}

Positions == 1 .. MaxSize
Dests == {"S3", "LOCAL", "SFTP", "API"}
Locations == [dest : Dests, base : Bases \union Puts, stamp : 0 .. Seconds]
ASSUME NoLocationAssumption == NoLocation \notin Locations

Contents == [Positions -> Puts \union {Nothing}]
Empty == [i \in Positions |-> Nothing]
Whole(p) == [i \in Positions |-> IF i <= Size[p] THEN p ELSE Nothing]

VARIABLES
    now,      \* the second the clock shows
    file,     \* what each location holds; an absent file is empty
    loc,      \* where a put goes, once it has been accepted
    stage,    \* "new", "put", "open", "write", "reply" or "end"
    sent,     \* how far the put's content is written
    saved,    \* whether the partner's handler saved the file
    result,   \* "none", "ok" or "failed"; "refused" for a 400
    hung,     \* puts whose SFTP server has stopped answering
    spoiled   \* history: puts whose file another put has touched since they began on it

vars == <<now, file, loc, stage, sent, saved, result, hung, spoiled>>

TypeOK ==
    /\ now \in 1 .. Seconds
    /\ file \in [Locations -> Contents]
    /\ loc \in [Puts -> Locations \union {NoLocation}]
    /\ stage \in [Puts -> {"new", "put", "open", "write", "reply", "end"}]
    /\ sent \in [Puts -> 0 .. MaxSize]
    /\ saved \in [Puts -> BOOLEAN]
    /\ result \in [Puts -> {"none", "ok", "failed", "refused"}]
    /\ hung \in SUBSET Puts
    /\ spoiled \in SUBSET Puts
    /\ \A p \in Puts :
          /\ stage[p] \in {"put", "open", "write", "reply"} => loc[p] \in Locations
          /\ sent[p] <= Size[p]

Init ==
    /\ now = 1
    /\ file = [l \in Locations |-> Empty]
    /\ loc = [p \in Puts |-> NoLocation]
    /\ stage = [p \in Puts |-> "new"]
    /\ sent = [p \in Puts |-> 0]
    /\ saved = [p \in Puts |-> FALSE]
    /\ result = [p \in Puts |-> "none"]
    /\ hung = {}
    /\ spoiled = {}

Tick == now < Seconds /\ now' = now + 1 /\ UNCHANGED <<file, loc, stage, sent, saved, result, hung, spoiled>>

\* buildOutputFilename: a prefix that sanitizes to nothing gives a random name, and
\* append_datetime adds the second.
LocationOf(p, dest, base, stamped) ==
    [dest |-> dest, base |-> IF base = Nothing THEN p ELSE base,
     stamp |-> IF stamped THEN now ELSE 0]

\* A request that passes the checks of Put.
Accept(p, dest, base, stamped) ==
    /\ stage[p] = "new"
    /\ loc' = [loc EXCEPT ![p] = LocationOf(p, dest, base, stamped)]
    /\ stage' = [stage EXCEPT ![p] = IF dest = "S3" THEN "put" ELSE "open"]
    /\ UNCHANGED <<now, file, sent, saved, result, hung, spoiled>>

\* Bad base64, no content, an unknown destination, a missing host, user or URL.
Refuse(p) ==
    /\ stage[p] = "new"
    /\ stage' = [stage EXCEPT ![p] = "end"]
    /\ result' = [result EXCEPT ![p] = "refused"]
    /\ UNCHANGED <<now, file, loc, sent, saved, hung, spoiled>>

Begun(p) == stage[p] \in {"write", "reply", "end"}

\* The put changes what its location holds.
Hold(p, content) ==
    /\ file' = [file EXCEPT ![loc[p]] = content]
    /\ spoiled' = spoiled \union {q \in Puts \ {p} : loc[q] = loc[p] /\ Begun(q)}

\* The call is over.  A partner's handler still has to answer the put.
End(p, ok) ==
    IF loc[p].dest = "API"
    THEN /\ stage' = [stage EXCEPT ![p] = "reply"]
         /\ saved' = [saved EXCEPT ![p] = ok]
         /\ UNCHANGED result
    ELSE /\ stage' = [stage EXCEPT ![p] = "end"]
         /\ result' = [result EXCEPT ![p] = IF ok THEN "ok" ELSE "failed"]
         /\ UNCHANGED saved

\* putS3; a PUT that fails may have taken effect.
PutS3(p) ==
    /\ stage[p] = "put"
    /\ \/ Hold(p, Whole(p)) /\ End(p, TRUE)
       \/ (Hold(p, Whole(p)) \/ UNCHANGED <<file, spoiled>>) /\ End(p, FALSE)
    /\ UNCHANGED <<now, loc, sent, hung>>

\* Mutant of Open: a file that is there is not truncated.
OpenOver(p) ==
    /\ stage[p] = "open" /\ p \notin hung
    /\ Hold(p, file[loc[p]])
    /\ stage' = [stage EXCEPT ![p] = "write"]
    /\ UNCHANGED <<now, loc, sent, saved, result, hung>>

\* os.WriteFile opens with O_TRUNC, sftp's Create does, after any mkdir.
Open(p) ==
    /\ stage[p] = "open" /\ p \notin hung
    /\ Hold(p, Empty)
    /\ stage' = [stage EXCEPT ![p] = "write"]
    /\ UNCHANGED <<now, loc, sent, saved, result, hung>>

\* mkdir, dial or create fails, or the POST never reaches the partner.
OpenFails(p) ==
    /\ stage[p] = "open"
    /\ End(p, FALSE)
    /\ UNCHANGED <<now, file, loc, sent, hung, spoiled>>

\* The content up to position k is written over what the file holds by now.
Overlay(p, k) ==
    [i \in Positions |-> IF sent[p] < i /\ i <= k THEN p ELSE file[loc[p]][i]]

\* One packet of an SFTP write; a local write is a single call.
WritePacket(p, k) ==
    /\ stage[p] = "write" /\ loc[p].dest = "SFTP" /\ p \notin hung
    /\ sent[p] < k /\ k < Size[p]
    /\ Hold(p, Overlay(p, k))
    /\ sent' = [sent EXCEPT ![p] = k]
    /\ UNCHANGED <<now, loc, stage, saved, result, hung>>

\* Mutant of Write: the buffer is written, not the content in it.
WriteBuffer(p) ==
    /\ stage[p] = "write" /\ p \notin hung
    /\ Hold(p, Overlay(p, MaxSize))
    /\ sent' = [sent EXCEPT ![p] = MaxSize]
    /\ End(p, TRUE)
    /\ UNCHANGED <<now, loc, hung>>

\* The write comes to its end.
Write(p) ==
    /\ stage[p] = "write" /\ p \notin hung
    /\ Hold(p, Overlay(p, Size[p]))
    /\ sent' = [sent EXCEPT ![p] = Size[p]]
    /\ End(p, TRUE)
    /\ UNCHANGED <<now, loc, hung>>

\* A full disk, a lost connection: part of the content, or all of it, is there.
WriteFails(p) ==
    /\ stage[p] = "write"
    /\ \E k \in sent[p] .. Size[p] :
          Hold(p, Overlay(p, k)) /\ sent' = [sent EXCEPT ![p] = k]
    /\ End(p, FALSE)
    /\ UNCHANGED <<now, loc, hung>>

\* putAPI reads the partner's status, unless it has given up.
Reply(p) ==
    /\ stage[p] = "reply"
    /\ stage' = [stage EXCEPT ![p] = "end"]
    /\ result' = [result EXCEPT ![p] = IF @ # "none" THEN @
                                       ELSE IF saved[p] THEN "ok" ELSE "failed"]
    /\ UNCHANGED <<now, file, loc, sent, saved, hung, spoiled>>

\* Mutant of TimesOut: only a partner that has not begun to write is given up.
TimesOutEarly(p) ==
    /\ stage[p] = "open" /\ loc[p].dest = "API"
    /\ result[p] = "none"
    /\ result' = [result EXCEPT ![p] = "failed"]
    /\ UNCHANGED <<now, file, loc, stage, sent, saved, hung, spoiled>>

\* Two minutes without an answer, or the answer is lost: the put fails, the
\* partner's handler goes on.
TimesOut(p) ==
    /\ stage[p] \in {"open", "write", "reply"} /\ loc[p].dest = "API"
    /\ result[p] = "none"
    /\ result' = [result EXCEPT ![p] = "failed"]
    /\ UNCHANGED <<now, file, loc, stage, sent, saved, hung, spoiled>>

\* The SFTP server stops answering a session that is dialled.
Hang(p) ==
    /\ stage[p] \in {"open", "write"} /\ loc[p].dest = "SFTP"
    /\ hung' = hung \union {p}
    /\ UNCHANGED <<now, file, loc, stage, sent, saved, result, spoiled>>

Step(p) ==
    \/ PutS3(p)
    \/ Open(p) \/ OpenFails(p)
    \/ (\E k \in Positions : WritePacket(p, k)) \/ Write(p) \/ WriteFails(p)
    \/ Reply(p)

Arrive(p) ==
    \/ \E dest \in Dests, base \in Bases \union {Nothing}, stamped \in BOOLEAN :
          Accept(p, dest, base, stamped)
    \/ Refuse(p)

Next == Tick \/ \E p \in Puts : Arrive(p) \/ Step(p) \/ TimesOut(p) \/ Hang(p)

Spec == Init /\ [][Next]_vars

\* S3 calls, local writes and the calls of an SFTP server that answers return, and the
\* API client gives up after two minutes.  Nothing bounds a partner's handler.
Answered(p) == p \notin hung /\ (loc[p] # NoLocation => loc[p].dest # "API")
FairSpec ==
    /\ Spec
    /\ \A p \in Puts : WF_vars(Answered(p) /\ Step(p)) /\ WF_vars(TimesOut(p))
-------------------------------------------------------------------------------
\* A put answered with success has its whole content where the answer says, unless
\* another put has touched the same file since this one began on it: however writes
\* interleave, whatever failed puts left there, and though a partner may go on
\* writing for a put that was given up.
SavedIntact ==
    \A p \in Puts \ spoiled : result[p] = "ok" => file[loc[p]] = Whole(p)

\* Every put is answered, unless an SFTP server stops answering in the middle of it:
\* ssh.ClientConfig.Timeout ends with the dial, and the request's context is not
\* passed on, so that nothing else ends such a put.
PutEnds ==
    \A p \in Puts :
        loc[p] # NoLocation ~> (result[p] # "none" \/ p \in hung)
===============================================================================
