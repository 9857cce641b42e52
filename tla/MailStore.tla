------------------------------ MODULE MailStore ------------------------------
(***************************************************************************)
(* What the ingestion service promises the main CIMPLR API, without S3,    *)
(* requests or providers: a mail the service names in an answer has been   *)
(* stored, and a stored mail stays stored.  Ingest, ImapPoll and PagePoll  *)
(* implement it.                                                           *)
(***************************************************************************)

CONSTANT Mails

VARIABLES
    durable,   \* mails whose raw object, attachments and parsed document exist
    reported   \* mails the caller has been handed in an answer

vars == <<durable, reported>>

TypeOK == durable \in SUBSET Mails /\ reported \in SUBSET Mails

Init == durable = {} /\ reported = {}

\* The last object of one mail is written.
Store(m) == durable' = durable \union {m} /\ UNCHANGED reported

\* One answer hands any set of stored mails to the caller.
Report(S) == S \subseteq durable /\ reported' = reported \union S /\ UNCHANGED durable

Next == (\E m \in Mails : Store(m)) \/ (\E S \in SUBSET Mails : Report(S))

Spec == Init /\ [][Next]_vars

\* The promise itself: nothing is handed out that is not stored.
ReportedIsDurable == reported \subseteq durable
==============================================================================
