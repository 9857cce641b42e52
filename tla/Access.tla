-------------------------------- MODULE Access --------------------------------
(***************************************************************************)
(* How a mailbox is reached: the identity providers, the HTTP clients, the *)
(* OAuth endpoints and the IMAP sessions together.  The access token an    *)
(* exchange or a refresh brings is the one the caller sends along with its *)
(* next poll, over HTTP or IMAP.                                           *)
(***************************************************************************)
EXTENDS ImapSession

vars == <<outside, api, oauth, imap>>

TypeOK == OutsideTyped /\ ApiTyped /\ OAuthTyped /\ ImapTyped

Init == OutsideInit /\ ApiInit /\ OAuthInit /\ ImapInit

Caller ==
    \/ (\E s \in {"test", "list"} : StartApi(s)) /\ UNCHANGED <<oauth, imap>>
    \/ (Authorize \/ StartExchange \/ StartRefresh) /\ UNCHANGED imap
    \/ \E s \in Sessions : StartImap(s)

Handler ==
    \/ ApiStep /\ UNCHANGED <<oauth, imap>>
    \/ OAuthStep /\ UNCHANGED imap
    \/ ImapStep

Surroundings ==
    \/ (Tick \/ Hang \/ Leave) /\ UNCHANGED <<api, oauth, imap>>
    \/ Withdraw /\ UNCHANGED imap
    \/ Drop

Next == Caller \/ Handler \/ (\E s \in Sessions : WorkerStep(s)) \/ Surroundings

Spec == Init /\ [][Next]_vars

\* A handler and every goroutine run on, a peer that has not stopped answers, and the
\* clock reaches the deadline of a call.
Fairness ==
    /\ WF_vars(Handler)
    /\ \A s \in Sessions : WF_vars(WorkerStep(s))
    /\ WF_vars(Tick /\ UNCHANGED <<api, oauth, imap>>)

FairSpec == Spec /\ Fairness
-------------------------------------------------------------------------------
\* Calls nothing limits: those of an IMAP session as long as its connection holds, and
\* the token request of domain-wide delegation until its caller leaves.
Connected == pc # "idle" /\ session # NoSession /\ conn[session] = "open"
Untimed ==
    \/ pc = "dial" \/ Connected
    \/ mode = "dwd" /\ pc = "token" /\ ctx = "live"

\* Every request ends, and so does every goroutine, of a request that has left too, however
\* peer, caller and tokens behave, unless a peer stops answering a call that has no timeout.
EndsUnlessHung ==
    /\ []<>(pc = "idle" \/ (peer = "hung" /\ Untimed))
    /\ \A s \in Sessions : []<>(worker[s] = 0 \/ (peer = "hung" /\ Connected /\ s = session))
===============================================================================
