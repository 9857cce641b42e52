------------------------------- MODULE OAuthMail -------------------------------
(***************************************************************************)
(* Package oauthmail behind its handlers: the user consents, the caller    *)
(* exchanges the code for tokens, and refreshes them.  The service keeps   *)
(* nothing; the caller stores what an answer gives it, the last refresh    *)
(* token above all.  A provider may rotate the refresh token: the old one  *)
(* dies as the new one is granted, whether or not the answer arrives.      *)
(* A refresh token is the number of the access token granted with it.      *)
(***************************************************************************)
EXTENDS MailApi

VARIABLES
    code,       \* the consent to be exchanged: what it opens, and whether offline
    refresh,    \* the caller's refresh token, 0 for none
    renewed,    \* Tokens.RefreshToken of the answer under way
    grants,     \* the refresh tokens that work
    dead        \* history: refresh tokens the user withdrew, or whose successor's answer was lost

oauth == <<code, refresh, renewed, grants, dead>>

NoCode == [opens |-> "nothing", type |-> "online"]

OAuthTyped ==
    /\ code \in {NoCode} \union [opens : {"api", "imap"}, type : {"online", "offline"}]
    /\ refresh \in 0 .. MaxTokens /\ renewed \in 0 .. MaxTokens
    /\ grants \subseteq 1 .. MaxTokens /\ dead \subseteq 1 .. MaxTokens

OAuthInit == code = NoCode /\ refresh = 0 /\ renewed = 0 /\ grants = {} /\ dead = {}

OAuthMode == mode \in {"api", "imap"}

\* offline_access for Microsoft, access_type=offline and prompt=consent for Google.
AskOffline(what) == [opens |-> what, type |-> "offline"]

\* The user follows the authorization URL and consents; the browser brings a code.
Authorize ==
    /\ pc = "idle" /\ now < Horizon /\ OAuthMode
    /\ code = NoCode
    /\ code' = AskOffline(ScopeOf(mode))
    /\ UNCHANGED <<outside, api, refresh, renewed, grants, dead>>

StartExchange ==
    /\ pc = "idle" /\ now < Horizon
    /\ code # NoCode
    /\ CallPeer("exchange")
    /\ UNCHANGED <<mode, now, peer, ctx, issued, revoked, flight, faults, api, oauth>>

\* A code works once; offline consent comes with a refresh token.
ExchangeCode ==
    /\ pc = "exchange" /\ peer = "answers" /\ flight = NoToken
    /\ code # NoCode
    /\ Grant(code.opens)
    /\ code' = NoCode
    /\ renewed' = IF code.type = "offline" THEN issued + 1 ELSE 0
    /\ grants' = IF code.type = "offline" THEN grants \union {issued + 1} ELSE grants
    /\ UNCHANGED <<mode, now, deadline, peer, ctx, revoked, pc, faults, api, refresh, dead>>

\* The tokens are here; before it answers, the handler asks whose they are.
TakeExchanged ==
    /\ pc = "exchange" /\ peer = "answers" /\ flight # NoToken
    /\ CallPeer("get")
    /\ stage' = "identity" /\ token' = flight
    /\ UNCHANGED <<mode, now, peer, ctx, issued, revoked, flight, faults,
                   access, tokenExp, attempt, left, why, oauth>>

StartRefresh ==
    /\ pc = "idle" /\ now < Horizon
    /\ refresh # 0
    /\ CallPeer("refresh")
    /\ UNCHANGED <<mode, now, peer, ctx, issued, revoked, flight, faults, api, oauth>>

\* configFor's scope, for the transport the caller names.
RefreshScope == ScopeOf(mode)

RefreshTokens ==
    /\ pc = "refresh" /\ peer = "answers" /\ flight = NoToken
    /\ refresh \in grants
    /\ Grant(RefreshScope)
    /\ \/ renewed' = 0 /\ UNCHANGED grants
       \/ renewed' = issued + 1 /\ grants' = (grants \ {refresh}) \union {issued + 1}
    /\ UNCHANGED <<mode, now, deadline, peer, ctx, revoked, pc, faults, api, code, refresh, dead>>

\* Mutant of Kept: what the provider sent is passed on as it is.
KeptAsSent == renewed

\* A provider that did not rotate sends no refresh token: the old one is good.
Kept == IF renewed = 0 THEN refresh ELSE renewed

TakeRefreshed ==
    /\ pc = "refresh" /\ peer = "answers" /\ flight # NoToken
    /\ CallOver
    /\ renewed' = Kept
    /\ pc' = "answer"
    /\ UNCHANGED <<mode, now, ctx, issued, revoked, flight, faults, api, code, refresh, grants, dead>>

\* The answer under way never reaches the caller.
Lost ==
    /\ pc' = "idle" /\ ctx' = "live" /\ flight' = NoToken /\ renewed' = 0
    /\ dead' = IF renewed \in {0, refresh} THEN dead
               ELSE dead \union ({refresh} \ (grants \union {0}))

\* Refused (a code used up, a refresh token that is dead), failed, timed out or
\* cancelled: what the provider granted meanwhile is lost.
TokensFail ==
    /\ pc \in {"exchange", "refresh"}
    /\ \/ peer = "answers" /\ flight = NoToken /\ UNCHANGED faults
       \/ peer = "answers" /\ Fault
       \/ now >= deadline /\ UNCHANGED faults
       \/ ctx = "done" /\ UNCHANGED faults
    /\ CallOver
    /\ Lost
    /\ UNCHANGED <<mode, now, issued, revoked, api, code, refresh, grants>>

\* The caller stores what it is answered.
Receive ==
    /\ pc = "answer" /\ ctx = "live"
    /\ access' = flight /\ refresh' = renewed
    /\ pc' = "idle" /\ flight' = NoToken /\ renewed' = 0
    /\ UNCHANGED <<mode, now, deadline, peer, ctx, issued, revoked, faults, client, why,
                   code, grants, dead>>

AnswerLost ==
    /\ pc = "answer"
    /\ \/ ctx = "done" /\ UNCHANGED faults
       \/ ctx = "live" /\ Fault
    /\ Lost
    /\ UNCHANGED <<mode, now, deadline, peer, issued, revoked, api, code, refresh, grants>>

\* The user, or an administrator, withdraws what was granted.
Withdraw ==
    /\ mode # "password" /\ Fault
    /\ revoked' = issued
    /\ grants' = {}
    /\ dead' = dead \union grants
    /\ UNCHANGED <<mode, now, deadline, peer, ctx, issued, flight, pc, api, code, refresh, renewed>>

OAuthStep ==
    \/ ExchangeCode \/ TakeExchanged
    \/ RefreshTokens \/ TakeRefreshed \/ TokensFail
    \/ Receive \/ AnswerLost
-------------------------------------------------------------------------------
\* Between requests the caller's refresh token works, unless the user withdrew it or
\* the answer that replaced it was lost; and the access token next to it opens what
\* the mailbox's transport needs.
RefreshKept ==
    (pc = "idle" /\ access # NoToken) =>
        /\ refresh \in grants \union dead
        /\ access.opens = ScopeOf(mode)
===============================================================================
