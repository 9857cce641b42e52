-------------------------------- MODULE MailApi --------------------------------
(***************************************************************************)
(* The HTTP clients of a mailbox: graphmail.Client (mode "app": its token  *)
(* is cached, dropped Margin before its end, and replaced once when the    *)
(* server refuses it), graphmail.DelegatedClient and gmailmail.Client (a   *)
(* token of the caller's, no retry), gmaildwd (one token per request, asked*)
(* for with http.DefaultClient, which has no timeout).                     *)
(*                                                                         *)
(* A request tests the connection, or lists a page and downloads its mails *)
(* one by one; storing and parsing them (module Ingest) is the time that   *)
(* passes before the next download.                                        *)
(***************************************************************************)
EXTENDS Identity

CONSTANTS MaxMails   \* bound: downloads of one page

ASSUME MailApiAssumption == MaxMails \in Nat

VARIABLES
    access,    \* the token the caller sends along
    token,     \* Client.token
    tokenExp,  \* Client.tokenExp
    attempt,   \* 1, or 2 after invalidateToken
    stage,     \* what the call is for: "none", "test", "profile", "list", "mime", "identity"
    left,      \* downloads left, this one included
    why        \* history: how the last call that failed did

client == <<token, tokenExp, attempt, stage, left>>
api == <<access, token, tokenExp, attempt, stage, left, why>>

ApiTyped ==
    /\ access \in Tokens /\ token \in Tokens
    /\ tokenExp \in Nat /\ attempt \in 1 .. 2 /\ left \in 0 .. MaxMails
    /\ stage \in {"none", "test", "profile", "list", "mime", "identity"}
    /\ why \in {"none", "expired", "refused", "failed", "timeout"}

ClientInit == token = NoToken /\ tokenExp = 0 /\ attempt = 1 /\ stage = "none" /\ left = 0
ApiInit == access = NoToken /\ ClientInit /\ why = "none"

\* The request is over and its client with it; an exchange answers its caller.
End ==
    /\ pc' = IF stage = "identity" THEN "answer" ELSE "idle"
    /\ ctx' = IF stage = "identity" THEN ctx ELSE "live"
    /\ token' = NoToken /\ tokenExp' = 0 /\ attempt' = 1 /\ stage' = "none" /\ left' = 0
    /\ flight' = IF stage = "identity" THEN flight ELSE NoToken

\* On to the next download, in the same client.
NextMail(n) ==
    /\ pc' = "want" /\ stage' = "mime" /\ left' = n /\ attempt' = 1 /\ flight' = NoToken
    /\ UNCHANGED <<ctx, token, tokenExp>>

\* Mutant of Proceed: the end of the page goes unnoticed.
ProceedPast == IF stage = "mime" THEN NextMail(left - 1) ELSE End

\* One mail less: the poll goes on, whether or not the download worked.
Proceed == IF stage = "mime" /\ left > 1 THEN NextMail(left - 1) ELSE End

CallFails(reason) ==
    /\ CallOver
    /\ why' = reason
    /\ Proceed
    /\ UNCHANGED <<mode, now, issued, revoked, access>>

\* A request arrives: only domain-wide delegation asks for its token outright.
StartApi(s) ==
    /\ pc = "idle" /\ now < Horizon
    /\ mode \in {"app", "dwd", "api"}
    /\ mode = "api" => access # NoToken
    /\ mode = "dwd" => issued < MaxTokens
    /\ s \in {"test", "list"}
    /\ stage' = s
    /\ token' = IF mode = "api" THEN access ELSE NoToken
    /\ why' = "none"
    /\ pc' = IF mode = "dwd" THEN "token" ELSE "want"
    /\ UNCHANGED <<mode, now, deadline, peer, ctx, issued, revoked, flight, faults,
                   access, tokenExp, attempt, left>>

\* Mutant of Fresh: the token is used up to its last instant.
FreshToTheEnd == token # NoToken /\ now < tokenExp

Fresh == token # NoToken /\ now + Margin < tokenExp

Send ==
    /\ pc = "want"
    /\ mode = "app" => Fresh
    /\ CallPeer("get")
    /\ UNCHANGED <<mode, now, peer, ctx, issued, revoked, flight, faults, api>>

AskToken ==
    /\ pc = "want" /\ mode = "app" /\ ~Fresh
    /\ CallPeer("token")
    /\ UNCHANGED <<mode, now, peer, ctx, issued, revoked, flight, faults, api>>

\* The provider grants a token; its answer takes its time.
IssueToken ==
    /\ pc = "token" /\ peer = "answers" /\ flight = NoToken
    /\ Grant("api")
    /\ UNCHANGED <<mode, now, deadline, peer, ctx, revoked, pc, faults, api>>

\* The lifetime counts from here.  TestConnection of an app-only client ends here.
TakeToken ==
    /\ pc = "token" /\ peer = "answers" /\ flight # NoToken
    /\ peer' = "answers"
    /\ IF mode = "app" /\ stage = "test"
       THEN End /\ deadline' = 0
       ELSE /\ token' = flight
            /\ tokenExp' = IF mode # "app" THEN 0
                           ELSE now + IF flight.stated = 0 THEN DefaultLife ELSE flight.stated
            /\ flight' = NoToken
            /\ CallPeer("get")
            /\ UNCHANGED <<ctx, attempt, stage, left>>
    /\ UNCHANGED <<mode, now, issued, revoked, faults, access, why>>

\* The test of the caller's token goes on to ask whose mailbox it opens; an error of that
\* call is dropped.
Tested == stage = "test" /\ mode = "api"
AskProfile == pc' = "want" /\ stage' = "profile" /\ UNCHANGED <<ctx, flight, token, tokenExp, attempt, left>>

\* 200 with a body the caller can read.
Got ==
    /\ pc = "get" /\ peer = "answers"
    /\ Accepts(token, "api")
    /\ CallOver
    /\ \/ stage = "list" /\ \E n \in 1 .. MaxMails : NextMail(n)
       \/ Tested /\ AskProfile
       \/ ~Tested /\ Proceed
    /\ UNCHANGED <<mode, now, issued, revoked, faults, access, why>>

\* Mutant of Invalidate: the refused token stays in the cache.
InvalidateNothing == UNCHANGED <<token, tokenExp>>

Invalidate == token' = NoToken /\ tokenExp' = 0

Refused ==
    /\ pc = "get" /\ peer = "answers"
    /\ ~Accepts(token, "api")
    /\ IF mode = "app" /\ attempt = 1
       THEN /\ Invalidate
            /\ CallOver
            /\ attempt' = 2 /\ pc' = "want"
            /\ UNCHANGED <<mode, now, ctx, issued, revoked, flight, access, stage, left, why>>
       ELSE CallFails(IF now >= token.exp THEN "expired" ELSE "refused")
    /\ UNCHANGED faults

\* Another status, a broken connection, a body json.Unmarshal rejects, or a provider
\* that grants no token.
PeerFails ==
    /\ pc \in {"token", "get"} /\ peer = "answers"
    /\ Fault
    /\ CallFails("failed")

TimeOut ==
    /\ pc \in {"token", "get"} /\ deadline # 0 /\ now >= deadline
    /\ CallFails("timeout")
    /\ UNCHANGED faults

\* The context is done: this call and all that would follow fail at once.
Cancel ==
    /\ pc \in {"token", "get", "want"} /\ ctx = "done"
    /\ CallOver
    /\ End
    /\ UNCHANGED <<mode, now, issued, revoked, faults, access, why>>

ApiStep ==
    \/ Send \/ AskToken \/ IssueToken \/ TakeToken \/ Got \/ Refused
    \/ PeerFails \/ TimeOut \/ Cancel
-------------------------------------------------------------------------------
\* The margin covers the time a token's answer was on its way: a request never
\* leaves with a token that is past the end its provider stated.
SentFresh ==
    (pc = "get" /\ mode = "app" /\ token.stated # 0) => deadline - Timeout < token.exp

\* Neither a token that aged on the way to the server, nor one whose provider
\* states no lifetime and means a shorter one than the client assumes, costs an
\* app-only poll a mail: the one retry always carries a token that is still good.
ExpiryHealed == mode = "app" => why # "expired"
===============================================================================
