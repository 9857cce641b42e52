----------------------------- MODULE AccessProofs -----------------------------
(***************************************************************************)
(* Access for every lifetime, margin and bound.  Types come first, then    *)
(* what each request leaves behind: a connection, a cached token, the      *)
(* caller's refresh token.                                                 *)
(***************************************************************************)
EXTENDS Access, TLAPS

USE AccessAssumption, MailApiAssumption, SessionAssumption

LEMMA NoTokenTyped == NoToken \in Tokens
BY DEF NoToken, Tokens

\* What a provider grants is a new token, good for more than two timeouts, whose
\* stated lifetime, if any, is its real one.
LEMMA Granted ==
    ASSUME OutsideTyped, NEW what \in {"api", "imap"}, Grant(what)
    PROVE  /\ issued' = issued + 1 /\ issued' \in 0 .. MaxTokens
           /\ flight' \in Tokens /\ flight' # NoToken
           /\ flight'.n = issued + 1 /\ flight'.opens = what
           /\ flight'.exp > now + 2 * Timeout
           /\ flight'.stated # 0 => flight'.exp = now + flight'.stated
<1>1. PICK l \in Lives, s \in Lives \union {0} :
        /\ flight' = [n |-> issued + 1, exp |-> now + l, stated |-> s, opens |-> what]
        /\ s \in {0, (now + l) - now}
  BY DEF Grant, Grantable
<1>2. l \in Nat /\ l > 2 * Timeout /\ s \in {0, l}
  BY <1>1 DEF OutsideTyped
<1>3. issued \in 0 .. MaxTokens /\ issued < MaxTokens /\ issued' = issued + 1 /\ now \in Nat
  BY DEF OutsideTyped, Grant
<1>4. flight' \in Tokens
  BY <1>1, <1>2, <1>3 DEF Tokens
<1>5. flight'.n = issued + 1 /\ flight'.n # NoToken.n
  BY <1>1, <1>3 DEF NoToken
<1>. QED  BY <1>1, <1>2, <1>3, <1>4, <1>5

\* A goroutine touches nothing but its own count of round trips and its channel.
LEMMA WorkerAlone ==
    ASSUME NEW s \in Sessions, WorkerStep(s)
    PROVE  UNCHANGED <<outside, api, oauth, session, conn>>
BY DEF WorkerStep, RoundTrip, SendResult

LEMMA CallFailsTyped ==
    ASSUME OutsideTyped, ApiTyped, NEW r \in {"expired", "refused", "failed", "timeout"},
           CallFails(r), faults' \in 0 .. MaxFaults
    PROVE  OutsideTyped' /\ ApiTyped'
<1>. USE NoTokenTyped
<1>1. OutsideTyped'
  BY DEF OutsideTyped, CallFails, Proceed, NextMail, End, CallOver
<1>2. ApiTyped'
  BY DEF ApiTyped, CallFails, Proceed, NextMail, End
<1>. QED  BY <1>1, <1>2

\* Every variable keeps its type, with whatever answers, failures and withdrawals.
THEOREM TypeCorrect == Spec => []TypeOK
<1>1. Init => TypeOK
  <2>. SUFFICES ASSUME Init PROVE TypeOK
    OBVIOUS
  <2>. USE NoTokenTyped DEF Init
  <2>1. OutsideTyped  BY DEF OutsideInit, OutsideTyped, Modes
  <2>2. ApiTyped  BY DEF ApiInit, ClientInit, ApiTyped
  <2>3. OAuthTyped  BY DEF OAuthInit, OAuthTyped, NoCode
  <2>4. ImapTyped  BY DEF ImapInit, ImapTyped
  <2>. QED  BY <2>1, <2>2, <2>3, <2>4 DEF TypeOK
<1>2. TypeOK /\ [Next]_vars => TypeOK'
  <2>. SUFFICES ASSUME OutsideTyped, ApiTyped, OAuthTyped, ImapTyped, [Next]_vars PROVE TypeOK'
    BY DEF TypeOK
  <2>. USE NoTokenTyped
  <2>a. ASSUME UNCHANGED api PROVE ApiTyped'  BY <2>a DEF api, ApiTyped
  <2>b. ASSUME UNCHANGED oauth PROVE OAuthTyped'  BY <2>b DEF oauth, OAuthTyped
  <2>c. ASSUME UNCHANGED imap PROVE ImapTyped'  BY <2>c DEF imap, ImapTyped
  <2>d. ASSUME UNCHANGED outside PROVE OutsideTyped'  BY <2>d DEF outside, OutsideTyped
  <2>1. CASE Caller
    <3>1. ASSUME NEW s \in {"test", "list"}, StartApi(s), UNCHANGED <<oauth, imap>> PROVE TypeOK'
      <4>1. OutsideTyped'  BY <3>1 DEF StartApi, OutsideTyped
      <4>2. ApiTyped'  BY <3>1 DEF StartApi, ApiTyped
      <4>. QED  BY <3>1, <4>1, <4>2, <2>b, <2>c DEF TypeOK
    <3>2. CASE Authorize /\ UNCHANGED imap
      <4>1. OAuthTyped'  BY <3>2 DEF Authorize, OAuthTyped, AskOffline, ScopeOf
      <4>. QED  BY <3>2, <4>1, <2>a, <2>c, <2>d DEF TypeOK, Authorize
    <3>3. CASE (StartExchange \/ StartRefresh) /\ UNCHANGED imap
      <4>1. OutsideTyped'
        BY <3>3 DEF StartExchange, StartRefresh, CallPeer, OutsideTyped
      <4>. QED  BY <3>3, <4>1, <2>a, <2>b, <2>c DEF TypeOK, StartExchange, StartRefresh
    <3>4. ASSUME NEW s \in Sessions, StartImap(s) PROVE TypeOK'
      <4>1. OutsideTyped'  BY <3>4 DEF StartImap, OutsideTyped
      <4>2. ImapTyped'  BY <3>4 DEF StartImap, ImapTyped
      <4>. QED  BY <3>4, <4>1, <4>2, <2>a, <2>b DEF TypeOK, StartImap
    <3>. QED  BY <2>1, <3>1, <3>2, <3>3, <3>4 DEF Caller
  <2>2. CASE ApiStep /\ UNCHANGED <<oauth, imap>>
    <3>. SUFFICES OutsideTyped' /\ ApiTyped'
      BY <2>2, <2>b, <2>c DEF TypeOK
    <3>1. CASE Send \/ AskToken
      <4>1. OutsideTyped'  BY <3>1 DEF Send, AskToken, CallPeer, OutsideTyped
      <4>. QED  BY <3>1, <4>1, <2>a DEF Send, AskToken
    <3>2. CASE IssueToken
      <4>1. OutsideTyped'  BY <3>2, Granted DEF IssueToken, OutsideTyped
      <4>. QED  BY <3>2, <4>1, <2>a DEF IssueToken
    <3>3. CASE TakeToken
      <4>1. flight.stated \in Nat /\ flight \in Tokens /\ now \in Nat
        BY DEF OutsideTyped, Tokens
      <4>2. OutsideTyped'  BY <3>3, <4>1 DEF TakeToken, End, CallPeer, OutsideTyped
      <4>3. ApiTyped'  BY <3>3, <4>1 DEF TakeToken, End, ApiTyped
      <4>. QED  BY <4>2, <4>3
    <3>4. CASE Got
      <4>1. OutsideTyped'  BY <3>4 DEF Got, AskProfile, Proceed, NextMail, End, CallOver, OutsideTyped
      <4>2. ApiTyped'  BY <3>4 DEF Got, AskProfile, Proceed, NextMail, End, ApiTyped
      <4>. QED  BY <4>1, <4>2
    <3>5. CASE Refused
      <4>1. CASE mode = "app" /\ attempt = 1
        <5>1. OutsideTyped'  BY <3>5, <4>1 DEF Refused, CallOver, OutsideTyped
        <5>2. ApiTyped'  BY <3>5, <4>1 DEF Refused, Invalidate, ApiTyped
        <5>. QED  BY <5>1, <5>2
      <4>2. CASE ~(mode = "app" /\ attempt = 1)
        <5>1. CallFails("expired") \/ CallFails("refused")
          BY <3>5, <4>2 DEF Refused
        <5>2. faults' \in 0 .. MaxFaults
          BY <3>5 DEF Refused, OutsideTyped
        <5>. QED  BY <5>1, <5>2, CallFailsTyped
      <4>. QED  BY <4>1, <4>2
    <3>6. CASE PeerFails \/ TimeOut
      <4>1. CallFails("failed") \/ CallFails("timeout")
        BY <3>6 DEF PeerFails, TimeOut
      <4>2. faults' \in 0 .. MaxFaults
        BY <3>6 DEF PeerFails, TimeOut, Fault, OutsideTyped
      <4>. QED  BY <4>1, <4>2, CallFailsTyped
    <3>7. CASE Cancel
      <4>1. OutsideTyped'  BY <3>7 DEF Cancel, End, CallOver, OutsideTyped
      <4>2. ApiTyped'  BY <3>7 DEF Cancel, End, ApiTyped
      <4>. QED  BY <4>1, <4>2
    <3>. QED  BY <2>2, <3>1, <3>2, <3>3, <3>4, <3>5, <3>6, <3>7 DEF ApiStep
  <2>3. CASE OAuthStep /\ UNCHANGED imap
    <3>. SUFFICES OutsideTyped' /\ ApiTyped' /\ OAuthTyped'
      BY <2>3, <2>c DEF TypeOK
    <3>1. CASE ExchangeCode
      <4>1. code.opens \in {"api", "imap"}
        BY <3>1 DEF OAuthTyped, ExchangeCode
      <4>. QED  BY <3>1, <4>1, Granted, <2>a DEF OutsideTyped, OAuthTyped, ExchangeCode, NoCode
    <3>2. CASE TakeExchanged
      <4>1. OutsideTyped'  BY <3>2 DEF TakeExchanged, CallPeer, OutsideTyped
      <4>2. ApiTyped'  BY <3>2 DEF TakeExchanged, OutsideTyped, ApiTyped
      <4>. QED  BY <3>2, <4>1, <4>2, <2>b DEF TakeExchanged
    <3>3. CASE RefreshTokens
      <4>1. RefreshScope \in {"api", "imap"}  BY DEF RefreshScope, ScopeOf
      <4>2. OutsideTyped' /\ issued' = issued + 1 /\ issued' \in 0 .. MaxTokens
        BY <3>3, <4>1, Granted DEF OutsideTyped, RefreshTokens
      <4>3. OAuthTyped'
        <5>1. issued + 1 \in 1 .. MaxTokens
          BY <4>2 DEF OutsideTyped
        <5>2. CASE renewed' = 0 /\ UNCHANGED grants
          BY <3>3, <5>2 DEF OAuthTyped, RefreshTokens
        <5>3. CASE renewed' = issued + 1 /\ grants' = (grants \ {refresh}) \union {issued + 1}
          <6>1. grants' \subseteq 1 .. MaxTokens  BY <5>1, <5>3 DEF OAuthTyped
          <6>2. renewed' \in 0 .. MaxTokens  BY <5>1, <5>3
          <6>. QED  BY <3>3, <6>1, <6>2 DEF OAuthTyped, RefreshTokens
        <5>. QED  BY <3>3, <5>2, <5>3 DEF RefreshTokens
      <4>. QED  BY <3>3, <4>2, <4>3, <2>a DEF RefreshTokens
    <3>4. CASE TakeRefreshed
      <4>1. OutsideTyped'  BY <3>4 DEF TakeRefreshed, CallOver, OutsideTyped
      <4>2. OAuthTyped'  BY <3>4 DEF TakeRefreshed, Kept, OAuthTyped
      <4>. QED  BY <3>4, <4>1, <4>2, <2>a DEF TakeRefreshed
    <3>5. CASE TokensFail \/ AnswerLost
      <4>1. OutsideTyped'  BY <3>5 DEF TokensFail, AnswerLost, Fault, Lost, CallOver, OutsideTyped
      <4>2. Lost /\ UNCHANGED <<code, refresh, grants>>
        BY <3>5 DEF TokensFail, AnswerLost
      <4>3. dead' \subseteq 1 .. MaxTokens /\ renewed' = 0
        BY <4>2 DEF Lost, OAuthTyped
      <4>4. OAuthTyped'  BY <4>2, <4>3 DEF OAuthTyped
      <4>. QED  BY <3>5, <4>1, <4>4, <2>a DEF TokensFail, AnswerLost
    <3>6. CASE Receive
      <4>1. OutsideTyped'  BY <3>6 DEF Receive, OutsideTyped
      <4>2. ApiTyped'  BY <3>6 DEF Receive, client, OutsideTyped, ApiTyped
      <4>3. OAuthTyped'  BY <3>6 DEF Receive, OAuthTyped
      <4>. QED  BY <4>1, <4>2, <4>3
    <3>. QED  BY <2>3, <3>1, <3>2, <3>3, <3>4, <3>5, <3>6 DEF OAuthStep
  <2>4. CASE ImapStep
    <3>1. UNCHANGED <<api, oauth>>
      BY <2>4 DEF ImapStep, Dial, DialFails, Login, LoginFails, Await, Logout
    <3>2. OutsideTyped'
      BY <2>4 DEF ImapStep, Dial, DialFails, Login, LoginFails, Await, Logout, Over, Fault, OutsideTyped
    <3>3. ImapTyped'
      <4>1. CASE Login
        <5>1. PICK op \in DOMAIN Trips : worker' = [worker EXCEPT ![session] = Trips[op] + 1]
          BY <4>1 DEF Login
        <5>2. Trips[op] + 1 \in 0 .. 4  BY DEF Trips
        <5>3. worker' \in [Sessions -> 0 .. 4] /\ chan' \in [Sessions -> Sessions \union {NoSession}]
          BY <4>1, <5>1, <5>2 DEF Login, ImapTyped
        <5>. QED  BY <4>1, <5>3 DEF Login, ImapTyped
      <4>2. CASE Dial \/ DialFails \/ LoginFails \/ Await \/ Logout
        BY <4>2 DEF Dial, DialFails, LoginFails, Await, Logout, Over, imap, ImapTyped
      <4>. QED  BY <2>4, <4>1, <4>2 DEF ImapStep
    <3>. QED  BY <3>1, <3>2, <3>3, <2>a, <2>b DEF TypeOK
  <2>5. ASSUME NEW s \in Sessions, WorkerStep(s) PROVE TypeOK'
    <3>1. ImapTyped'
      <4>1. CASE RoundTrip(s)
        <5>1. worker[s] \in 0 .. 4 /\ worker[s] > 1  BY <4>1 DEF RoundTrip, ImapTyped
        <5>2. worker[s] - 1 \in 0 .. 4 /\ 1 \in 0 .. 4  BY <5>1
        <5>3. worker' \in [Sessions -> 0 .. 4]  BY <4>1, <5>2 DEF RoundTrip, ImapTyped
        <5>. QED  BY <4>1, <5>3 DEF RoundTrip, ImapTyped
      <4>2. CASE SendResult(s)
        <5>1. worker' \in [Sessions -> 0 .. 4]  BY <4>2 DEF SendResult, ImapTyped
        <5>2. chan' = chan \/ chan' = [chan EXCEPT ![Channel(s)] = s]  BY <4>2 DEF SendResult
        <5>3. chan' \in [Sessions -> Sessions \union {NoSession}]  BY <5>2 DEF ImapTyped
        <5>. QED  BY <4>2, <5>1, <5>3 DEF SendResult, ImapTyped
      <4>. QED  BY <2>5, <4>1, <4>2 DEF WorkerStep
    <3>. QED  BY <2>5, <3>1, <2>a, <2>b, <2>d, WorkerAlone DEF TypeOK
  <2>6. CASE Surroundings
    <3>1. OutsideTyped'
      BY <2>6 DEF Surroundings, Tick, Hang, Leave, Withdraw, Drop, Fault, OutsideTyped
    <3>2. OAuthTyped'
      BY <2>6 DEF Surroundings, Withdraw, Drop, oauth, OAuthTyped
    <3>3. ImapTyped'
      BY <2>6 DEF Surroundings, Withdraw, Drop, imap, ImapTyped
    <3>. QED  BY <2>6, <3>1, <3>2, <3>3, <2>a DEF TypeOK, Surroundings, Withdraw, Drop
  <2>7. CASE UNCHANGED vars
    BY <2>7, <2>a, <2>b, <2>c, <2>d DEF TypeOK, vars
  <2>. QED  BY <2>1, <2>2, <2>3, <2>4, <2>5, <2>6, <2>7 DEF Next, Handler
<1>. QED  BY <1>1, <1>2, PTL DEF Spec

-------------------------------------------------------------------------------
\* A connection is open only while its session is at work.
SessionInv == \A s \in Sessions : conn[s] = "open" => s = session /\ pc \in {"auth", "select", "logout"}

LEMMA SessionStep == TypeOK /\ SessionInv /\ [Next]_vars => SessionInv'
<1>. SUFFICES ASSUME TypeOK, SessionInv, [Next]_vars PROVE SessionInv'
  OBVIOUS
<1>. USE DEF SessionInv
<1>1. CASE Caller
  BY <1>1 DEF Caller, StartApi, Authorize, StartExchange, StartRefresh, StartImap, outside, imap
<1>2. CASE ApiStep /\ UNCHANGED <<oauth, imap>>
  <2>1. pc \in {"want", "token", "get"}
    BY <1>2 DEF ApiStep, Send, AskToken, IssueToken, TakeToken, Got, Refused, PeerFails, TimeOut, Cancel
  <2>. QED  BY <1>2, <2>1 DEF imap
<1>3. CASE OAuthStep /\ UNCHANGED imap
  <2>1. pc \in {"exchange", "refresh", "answer"}
    BY <1>3 DEF OAuthStep, ExchangeCode, TakeExchanged, RefreshTokens, TakeRefreshed, TokensFail,
       Receive, AnswerLost
  <2>. QED  BY <1>3, <2>1 DEF imap
<1>4. CASE ImapStep
  BY <1>4 DEF TypeOK, ImapTyped, ImapStep, Dial, DialFails, Login, LoginFails, Await, Logout, Over, imap
<1>5. ASSUME NEW s \in Sessions, WorkerStep(s) PROVE SessionInv'
  BY <1>5, WorkerAlone DEF outside
<1>6. CASE Surroundings
  BY <1>6 DEF TypeOK, ImapTyped, Surroundings, Tick, Hang, Leave, Withdraw, Drop, imap
<1>7. CASE UNCHANGED vars
  BY <1>7 DEF vars, outside, imap
<1>. QED  BY <1>1, <1>2, <1>3, <1>4, <1>5, <1>6, <1>7 DEF Next, Handler

\* With any number of sessions whose goroutines are still running: a request leaves no IMAP
\* connection open, however its session ends.
THEOREM SessionsClosedHolds == Spec => []SessionsClosed
<1>1. Init => SessionInv
  BY DEF Init, ImapInit, SessionInv
<1>2. TypeOK /\ SessionInv => SessionsClosed
  BY DEF TypeOK, ImapTyped, SessionInv, SessionsClosed
<1>. QED  BY <1>1, <1>2, SessionStep, TypeCorrect, PTL DEF Spec
-------------------------------------------------------------------------------
\* An app-only client: the clock stays within the call at work; a token on its way was
\* granted after the call began, so that it outlives this call and the next; the client
\* counts its stated lifetime from at most one timeout too late; a retry has no token
\* but the one it asks for.
CacheInv ==
    /\ why # "expired" /\ stage # "identity"
    /\ code = NoCode /\ refresh = 0
    /\ pc \in {"idle", "want", "token", "get"}
    /\ flight # NoToken => pc = "token"
    /\ pc \in {"token", "get"} => deadline \in now .. now + Timeout /\ deadline >= Timeout
    /\ flight # NoToken =>
          /\ flight.exp > deadline + Timeout
          /\ flight.stated # 0 => flight.exp + Timeout >= deadline + flight.stated
    /\ token.stated # 0 => tokenExp <= token.exp + Timeout
    /\ (pc = "get" /\ token.stated # 0) => deadline < token.exp + Timeout
    /\ (pc = "get" /\ attempt = 2) => deadline < token.exp
    /\ (pc = "want" /\ attempt = 2) => token = NoToken

AppInv == mode = "app" => CacheInv

LEMMA NoTokenFields == NoToken.stated = 0 /\ NoToken.exp = 0
BY DEF NoToken

LEMMA TokenFields == \A t \in Tokens : t.exp \in Nat /\ t.stated \in Nat
BY DEF Tokens

LEMMA CacheOver ==
    ASSUME TypeOK, CacheInv, CallOver, Proceed, UNCHANGED <<code, refresh>>, why' # "expired"
    PROVE  CacheInv'
<1>1. stage' # "identity" /\ pc' \in {"idle", "want"} /\ flight' = NoToken /\ attempt' = 1
  BY DEF CacheInv, Proceed, NextMail, End
<1>2. (token' = token /\ tokenExp' = tokenExp) \/ token' = NoToken
  BY DEF Proceed, NextMail, End
<1>. QED  BY <1>1, <1>2, NoTokenFields DEF CacheInv

LEMMA CacheApi ==
    ASSUME TypeOK, CacheInv, mode = "app", ApiStep, UNCHANGED oauth
    PROVE  CacheInv'
<1>. USE NoTokenFields, TokenFields DEF TypeOK, OutsideTyped, ApiTyped, oauth
<1>1. CASE Send
  BY <1>1 DEF CacheInv, Send, Fresh, CallPeer, api
<1>2. CASE AskToken
  BY <1>2 DEF CacheInv, AskToken, CallPeer, api
<1>3. CASE IssueToken
  <2>1. flight' \in Tokens /\ flight'.exp > now + 2 * Timeout
        /\ (flight'.stated # 0 => flight'.exp = now + flight'.stated)
    BY <1>3, Granted DEF IssueToken
  <2>. QED  BY <1>3, <2>1 DEF CacheInv, IssueToken, api
<1>4. CASE TakeToken
  <2>1. CASE stage = "test"
    BY <1>4, <2>1 DEF CacheInv, TakeToken, End
  <2>2. CASE stage # "test"
    <3>1. token' = flight /\ flight' = NoToken /\ pc' = "get" /\ deadline' = now + Timeout
      BY <1>4, <2>2 DEF TakeToken, CallPeer
    <3>2. flight.stated # 0 => tokenExp' = now + flight.stated
      BY <1>4, <2>2 DEF TakeToken
    <3>3. UNCHANGED <<now, stage, attempt, why>>
      BY <1>4, <2>2 DEF TakeToken
    <3>4. now <= deadline /\ flight.exp > deadline + Timeout
          /\ (flight.stated # 0 => flight.exp + Timeout >= deadline + flight.stated)
      BY <1>4 DEF CacheInv, TakeToken
    <3>. QED  BY <3>1, <3>2, <3>3, <3>4 DEF CacheInv
  <2>. QED  BY <2>1, <2>2
<1>5. CASE Got
  <2>1. CASE stage = "list" /\ \E n \in 1 .. MaxMails : NextMail(n)
    BY <1>5, <2>1 DEF CacheInv, Got, NextMail, CallOver
  <2>2. CASE Proceed
    BY <1>5, <2>2, CacheOver DEF CacheInv, Got
  <2>. QED  BY <1>5, <2>1, <2>2 DEF Got, Tested
<1>6. CASE Refused
  <2>1. CASE attempt = 1
    BY <1>6, <2>1 DEF CacheInv, Refused, Invalidate, CallOver
  <2>2. CASE attempt = 2
    <3>1. now < token.exp
      BY <1>6, <2>2 DEF CacheInv, Refused
    <3>2. CallFails("refused")
      BY <1>6, <2>2, <3>1 DEF Refused
    <3>. QED  BY <3>2, CacheOver DEF CallFails
  <2>. QED  BY <2>1, <2>2
<1>7. CASE PeerFails \/ TimeOut
  BY <1>7, CacheOver DEF PeerFails, TimeOut, CallFails
<1>8. CASE Cancel
  BY <1>8 DEF CacheInv, Cancel, End, CallOver
<1>. QED  BY <1>1, <1>2, <1>3, <1>4, <1>5, <1>6, <1>7, <1>8 DEF ApiStep

LEMMA CacheStep == TypeOK /\ AppInv /\ [Next]_vars => AppInv'
<1>. SUFFICES ASSUME TypeOK, mode = "app" => CacheInv, [Next]_vars, mode' = "app" PROVE CacheInv'
  BY DEF AppInv
<1>0. mode' = mode
  <2>1. Caller => mode' = mode
    BY DEF Caller, StartApi, Authorize, StartExchange, StartRefresh, StartImap, outside
  <2>2. ApiStep => mode' = mode
    BY DEF ApiStep, Send, AskToken, IssueToken, TakeToken, Got, Refused, PeerFails, TimeOut, Cancel,
       CallFails
  <2>3. OAuthStep => mode' = mode
    BY DEF OAuthStep, ExchangeCode, TakeExchanged, RefreshTokens, TakeRefreshed, TokensFail,
       Receive, AnswerLost
  <2>4. ImapStep => mode' = mode
    BY DEF ImapStep, Dial, DialFails, Login, LoginFails, Await, Logout, Over
  <2>5. Surroundings => mode' = mode
    BY DEF Surroundings, Tick, Hang, Leave, Withdraw, Drop
  <2>6. \A s \in Sessions : WorkerStep(s) => mode' = mode
    BY WorkerAlone DEF outside
  <2>. QED  BY <2>1, <2>2, <2>3, <2>4, <2>5, <2>6 DEF Next, Handler, vars, outside
<1>1. mode = "app" /\ CacheInv
  BY <1>0
<1>. USE <1>1
<1>2. CASE Caller
  <2>1. ASSUME NEW s \in {"test", "list"}, StartApi(s), UNCHANGED <<oauth, imap>> PROVE CacheInv'
    BY <2>1, NoTokenFields DEF CacheInv, StartApi, oauth
  <2>. QED  BY <1>2, <2>1 DEF Caller, CacheInv, Authorize, OAuthMode, StartExchange, StartRefresh,
            StartImap
<1>3. CASE ApiStep /\ UNCHANGED <<oauth, imap>>
  BY <1>3, CacheApi
<1>4. CASE OAuthStep \/ ImapStep
  BY <1>4 DEF CacheInv, OAuthStep, ExchangeCode, TakeExchanged, RefreshTokens, TakeRefreshed,
     TokensFail, Receive, AnswerLost, ImapStep, Dial, DialFails, Login, LoginFails, Await, Logout
<1>5. CASE (\E s \in Sessions : WorkerStep(s)) \/ UNCHANGED vars
  <2>1. UNCHANGED <<outside, api, oauth>>  BY <1>5, WorkerAlone DEF vars
  <2>. QED  BY <2>1 DEF CacheInv, outside, api, oauth
<1>6. CASE Surroundings
  <2>. USE DEF TypeOK, OutsideTyped
  <2>1. CASE Tick /\ UNCHANGED <<api, oauth, imap>>
    BY <2>1 DEF CacheInv, Tick, api, oauth
  <2>2. CASE (Hang \/ Leave) /\ UNCHANGED <<api, oauth, imap>>
    BY <2>2 DEF CacheInv, Hang, Leave, api, oauth
  <2>3. CASE Withdraw \/ Drop
    BY <2>3 DEF CacheInv, Withdraw, Drop, api, oauth
  <2>. QED  BY <1>6, <2>1, <2>2, <2>3 DEF Surroundings
<1>. QED  BY <1>2, <1>3, <1>4, <1>5, <1>6 DEF Next, Handler

LEMMA CacheHolds == Spec => []AppInv
<1>1. Init => AppInv
  BY NoTokenFields DEF Init, OutsideInit, ApiInit, ClientInit, OAuthInit, CacheInv, AppInv
<1>. QED  BY <1>1, CacheStep, TypeCorrect, PTL DEF Spec

\* No app-only request leaves with a token past the end its provider stated.
THEOREM SentFreshHolds == Spec => []SentFresh
<1>1. TypeOK /\ AppInv => SentFresh
  BY TokenFields DEF TypeOK, OutsideTyped, ApiTyped, AppInv, CacheInv, SentFresh
<1>. QED  BY <1>1, CacheHolds, TypeCorrect, PTL

\* No app-only call fails because its token expired.
THEOREM ExpiryHealedHolds == Spec => []ExpiryHealed
<1>1. AppInv => ExpiryHealed
  BY DEF AppInv, CacheInv, ExpiryHealed
<1>. QED  BY <1>1, CacheHolds, PTL
-------------------------------------------------------------------------------
\* The refresh token an answer brings was granted, and is not known to have died
\* otherwise; the caller's works, was withdrawn or orphaned, or is being replaced.
Known == grants \union dead

Granting == pc \in {"exchange", "refresh", "answer"} \/ stage = "identity"

RefreshInv ==
    /\ refresh <= issued /\ renewed <= issued
    /\ access # NoToken => refresh # 0 /\ access.opens = ScopeOf(mode)
    /\ code \in {NoCode, AskOffline(ScopeOf(mode))}
    /\ stage = "identity" => pc = "get" /\ flight # NoToken
    /\ flight # NoToken => pc = "token" \/ Granting
    /\ pc = "answer" => flight # NoToken
    /\ pc = "refresh" => refresh # 0
    /\ (flight # NoToken /\ Granting) => flight.opens = ScopeOf(mode)
    /\ (flight # NoToken /\ Granting) =>
          renewed \in Known \/ (pc = "refresh" /\ renewed = 0)
    /\ refresh \in Known \union {0}
       \/ (pc \in {"refresh", "answer"} /\ flight # NoToken /\ renewed \notin {0, refresh})

LEMMA RefreshCaller ==
    ASSUME TypeOK, RefreshInv, Caller
    PROVE  RefreshInv'
<1>. USE DEF RefreshInv, Known, Granting
<1>1. ASSUME NEW s \in {"test", "list"}, StartApi(s), UNCHANGED <<oauth, imap>> PROVE RefreshInv'
  BY <1>1 DEF StartApi, oauth
<1>2. CASE Authorize
  BY <1>2 DEF Authorize, outside, api
<1>3. CASE StartExchange \/ StartRefresh
  BY <1>3 DEF StartExchange, StartRefresh, CallPeer, api, oauth
<1>4. ASSUME NEW s \in Sessions, StartImap(s) PROVE RefreshInv'
  BY <1>4 DEF StartImap, api, oauth
<1>. QED  BY <1>1, <1>2, <1>3, <1>4 DEF Caller

LEMMA RefreshApiOver ==
    ASSUME TypeOK, RefreshInv, pc \in {"token", "get", "want"}, Proceed \/ End,
           UNCHANGED <<mode, issued, access, oauth>>
    PROVE  RefreshInv'
<1>1. stage' # "identity"
  BY DEF Proceed, NextMail, End
<1>2. CASE stage = "identity"
  BY <1>1, <1>2 DEF RefreshInv, Known, Granting, Proceed, End, oauth
<1>3. CASE stage # "identity"
  <2>1. pc' \in {"idle", "want"} /\ flight' = NoToken
    BY <1>3 DEF Proceed, NextMail, End
  <2>. QED  BY <1>1, <1>3, <2>1 DEF RefreshInv, Known, Granting, oauth
<1>. QED  BY <1>2, <1>3

LEMMA RefreshApi ==
    ASSUME TypeOK, AppInv, RefreshInv, ApiStep, UNCHANGED oauth
    PROVE  RefreshInv'
<1>1. CASE Send \/ AskToken
  BY <1>1 DEF RefreshInv, Known, Granting, Send, AskToken, CallPeer, api, oauth
<1>2. CASE IssueToken
  <2>1. issued' = issued + 1 /\ issued \in Nat
    BY <1>2, Granted DEF IssueToken, TypeOK, OutsideTyped
  <2>. QED  BY <1>2, <2>1 DEF RefreshInv, Known, Granting, IssueToken, api, oauth, TypeOK, OAuthTyped
<1>3. CASE TakeToken
  <2>1. stage # "identity"
    BY <1>3 DEF RefreshInv, TakeToken
  <2>. QED  BY <1>3, <2>1 DEF RefreshInv, Known, Granting, TakeToken, End, CallPeer, oauth
<1>4. CASE Got
  <2>1. CASE stage = "list" /\ \E n \in 1 .. MaxMails : NextMail(n)
    BY <1>4, <2>1 DEF RefreshInv, Known, Granting, Got, NextMail, oauth
  <2>2. CASE Tested /\ AskProfile
    BY <1>4, <2>2 DEF RefreshInv, Known, Granting, Got, Tested, AskProfile, oauth
  <2>. QED  BY <1>4, <2>1, <2>2, RefreshApiOver DEF Got
<1>5. CASE Refused
  <2>1. CASE mode = "app" /\ attempt = 1
    <3>1. stage # "identity"
      BY <2>1 DEF AppInv, CacheInv
    <3>. QED  BY <1>5, <2>1, <3>1 DEF RefreshInv, Known, Granting, Refused, oauth
  <2>2. CASE ~(mode = "app" /\ attempt = 1)
    BY <1>5, <2>2, RefreshApiOver DEF Refused, CallFails
  <2>. QED  BY <2>1, <2>2
<1>6. CASE PeerFails \/ TimeOut
  BY <1>6, RefreshApiOver DEF PeerFails, TimeOut, CallFails
<1>7. CASE Cancel
  BY <1>7, RefreshApiOver DEF Cancel
<1>. QED  BY <1>1, <1>2, <1>3, <1>4, <1>5, <1>6, <1>7 DEF ApiStep

LEMMA RefreshLost ==
    ASSUME TypeOK, RefreshInv, pc \in {"exchange", "refresh", "answer"}, Lost,
           UNCHANGED <<mode, issued, api, code, refresh, grants>>
    PROVE  RefreshInv'
<1>1. stage # "identity"
  BY DEF RefreshInv
<1>2. dead \subseteq dead' /\ renewed' = 0 /\ issued \in Nat
  BY DEF Lost, TypeOK, OutsideTyped
<1>3. refresh \in grants \union dead' \union {0}
  BY DEF RefreshInv, Known, Lost
<1>. QED  BY <1>1, <1>2, <1>3 DEF RefreshInv, Known, Granting, Lost, api

LEMMA RefreshOAuth ==
    ASSUME TypeOK, RefreshInv, OAuthStep
    PROVE  RefreshInv'
<1>. USE DEF Known, Granting
<1>0. issued \in Nat /\ refresh \in Nat /\ renewed \in Nat /\ 0 \notin grants \union dead
  BY DEF TypeOK, OutsideTyped, OAuthTyped
<1>1. CASE ExchangeCode
  <2>1. code = AskOffline(ScopeOf(mode)) /\ code.type = "offline" /\ code.opens = ScopeOf(mode)
    BY <1>1 DEF RefreshInv, ExchangeCode, AskOffline
  <2>2. issued' = issued + 1 /\ flight' # NoToken /\ flight'.opens = ScopeOf(mode)
    BY <1>1, <2>1, Granted DEF ExchangeCode, TypeOK, ScopeOf
  <2>. QED  BY <1>0, <1>1, <2>1, <2>2 DEF RefreshInv, ExchangeCode, api
<1>2. CASE TakeExchanged
  BY <1>2 DEF RefreshInv, TakeExchanged, CallPeer, oauth
<1>3. CASE RefreshTokens
  <2>1. issued' = issued + 1 /\ flight' # NoToken /\ flight'.opens = ScopeOf(mode)
    BY <1>3, Granted DEF RefreshTokens, RefreshScope, TypeOK, ScopeOf
  <2>2. stage # "identity" /\ pc' = "refresh" /\ UNCHANGED <<mode, code, refresh, dead, stage, access>>
    BY <1>3 DEF RefreshInv, RefreshTokens, api
  <2>3. CASE renewed' = 0 /\ UNCHANGED grants
    BY <1>0, <1>3, <2>1, <2>2, <2>3 DEF RefreshInv, RefreshTokens
  <2>4. CASE renewed' = issued + 1 /\ grants' = (grants \ {refresh}) \union {issued + 1}
    <3>1. renewed' \notin {0, refresh} /\ renewed' \in grants'
      BY <1>0, <2>4 DEF RefreshInv
    <3>. QED  BY <1>0, <1>3, <2>1, <2>2, <2>4, <3>1 DEF RefreshInv, RefreshTokens
  <2>. QED  BY <1>3, <2>3, <2>4 DEF RefreshTokens
<1>4. CASE TakeRefreshed
  <2>1. stage # "identity" /\ flight # NoToken /\ pc = "refresh" /\ refresh # 0
    BY <1>4 DEF RefreshInv, TakeRefreshed
  <2>2. CASE renewed = 0
    BY <1>0, <1>4, <2>1, <2>2 DEF RefreshInv, TakeRefreshed, Kept, api
  <2>3. CASE renewed # 0
    BY <1>0, <1>4, <2>1, <2>3 DEF RefreshInv, TakeRefreshed, Kept, api
  <2>. QED  BY <2>2, <2>3
<1>5. CASE TokensFail \/ AnswerLost
  BY <1>5, RefreshLost DEF TokensFail, AnswerLost
<1>6. CASE Receive
  BY <1>0, <1>6 DEF RefreshInv, Receive, client
<1>. QED  BY <1>1, <1>2, <1>3, <1>4, <1>5, <1>6 DEF OAuthStep

LEMMA RefreshStep == TypeOK /\ AppInv /\ RefreshInv /\ [Next]_vars => RefreshInv'
<1>. SUFFICES ASSUME TypeOK, AppInv, RefreshInv, [Next]_vars PROVE RefreshInv'
  OBVIOUS
<1>1. CASE Caller
  BY <1>1, RefreshCaller
<1>2. CASE ApiStep /\ UNCHANGED <<oauth, imap>>
  BY <1>2, RefreshApi
<1>3. CASE OAuthStep /\ UNCHANGED imap
  BY <1>3, RefreshOAuth
<1>. USE DEF RefreshInv, Known, Granting
<1>4. CASE ImapStep
  <2>1. stage # "identity"
    BY <1>4 DEF ImapStep, Dial, DialFails, Login, LoginFails, Await, Logout
  <2>2. pc' \in {"idle", "auth", "select", "logout"} /\ pc \in {"dial", "auth", "select", "logout"}
        /\ UNCHANGED <<mode, issued, flight, api, oauth>>
    BY <1>4 DEF ImapStep, Dial, DialFails, Login, LoginFails, Await, Logout, Over
  <2>. QED  BY <2>1, <2>2 DEF api, oauth
<1>5. CASE (\E s \in Sessions : WorkerStep(s)) \/ UNCHANGED vars
  <2>1. UNCHANGED <<outside, api, oauth>>  BY <1>5, WorkerAlone DEF vars
  <2>. QED  BY <2>1 DEF outside, api, oauth
<1>6. CASE Surroundings
  <2>1. CASE (Tick \/ Hang \/ Leave) /\ UNCHANGED <<api, oauth, imap>>
    BY <2>1 DEF Tick, Hang, Leave, api, oauth
  <2>2. CASE Withdraw
    BY <2>2 DEF Withdraw, api
  <2>3. CASE Drop
    BY <2>3 DEF Drop, api, oauth
  <2>. QED  BY <1>6, <2>1, <2>2, <2>3 DEF Surroundings
<1>. QED  BY <1>1, <1>2, <1>3, <1>4, <1>5, <1>6 DEF Next, Handler

\* Between requests the caller's refresh token works unless the user withdrew it or
\* the answer that replaced it was lost.
THEOREM RefreshKeptHolds == Spec => []RefreshKept
<1>1. Init => RefreshInv
  BY DEF Init, OutsideInit, ApiInit, ClientInit, OAuthInit, RefreshInv, Known, Granting
<1>2. RefreshInv => RefreshKept
  BY DEF RefreshInv, RefreshKept, Known
<1>. QED  BY <1>1, <1>2, RefreshStep, CacheHolds, TypeCorrect, PTL DEF Spec
-------------------------------------------------------------------------------
\* Inductive: a request in one of the four stages of a session has one, and the place it took
\* is without a goroutine until it has logged in.
Placed == pc \in {"dial", "auth", "select", "logout"} => session \in Sessions

AwaitInv == Placed /\ ResultAwaited /\ (pc \in {"dial", "auth"} => worker[session] = 0)

\* Whatever moves neither a session nor its channel, nor brings a request into a session.
LEMMA AwaitKept ==
    ASSUME AwaitInv, UNCHANGED <<session, worker, chan>>,
           pc' \in {"dial", "auth", "select"} => pc' = pc,
           pc' = "logout" => pc \in {"auth", "select", "logout"}
    PROVE  AwaitInv'
BY DEF AwaitInv, Placed, ResultAwaited, Channel

LEMMA AwaitImap ==
    ASSUME TypeOK, AwaitInv, ImapStep
    PROVE  AwaitInv'
<1>. USE DEF AwaitInv, Placed, ResultAwaited, Channel
<1>0. session \in Sessions /\ worker \in [Sessions -> 0 .. 4]
      /\ chan \in [Sessions -> Sessions \union {NoSession}] /\ NoSession \notin Sessions
  BY DEF TypeOK, ImapTyped, ImapStep, Dial, DialFails, Login, LoginFails, Await, Logout,
     Sessions, NoSession
<1>1. CASE Dial \/ LoginFails
  BY <1>1 DEF Dial, LoginFails, imap
<1>2. CASE DialFails
  BY <1>2 DEF DialFails, Over
<1>3. CASE Login
  <2>1. PICK op \in DOMAIN Trips : worker' = [worker EXCEPT ![session] = Trips[op] + 1]
    BY <1>3 DEF Login
  <2>2. Trips[op] + 1 > 0  BY DEF Trips
  <2>3. pc' = "select" /\ session' = session /\ chan' = [chan EXCEPT ![session] = NoSession]
    BY <1>3 DEF Login
  <2>. QED  BY <1>0, <2>1, <2>2, <2>3
<1>4. CASE Await
  BY <1>0, <1>4 DEF Await
<1>5. CASE Logout
  BY <1>0, <1>5 DEF Logout, Over
<1>. QED  BY <1>1, <1>2, <1>3, <1>4, <1>5 DEF ImapStep

LEMMA AwaitWorker ==
    ASSUME TypeOK, AwaitInv, NEW s \in Sessions, WorkerStep(s)
    PROVE  AwaitInv'
<1>. USE DEF AwaitInv, Placed, ResultAwaited, Channel
<1>0. worker \in [Sessions -> 0 .. 4] /\ NoSession \notin Sessions
      /\ chan \in [Sessions -> Sessions \union {NoSession}]
  BY DEF TypeOK, ImapTyped, Sessions, NoSession
<1>1. UNCHANGED <<pc, session>>
  BY WorkerAlone DEF outside
<1>2. CASE RoundTrip(s)
  <2>1. worker[s] \in Nat /\ worker[s] > 1 /\ chan' = chan
    BY <1>0, <1>2 DEF RoundTrip
  <2>2. PICK n \in {worker[s] - 1, 1} : worker' = [worker EXCEPT ![s] = n]
    BY <1>2 DEF RoundTrip
  <2>3. n > 0
    BY <2>1, <2>2
  <2>. QED  BY <1>0, <1>1, <2>1, <2>2, <2>3
<1>3. CASE SendResult(s)
  <2>1. worker[s] = 1 /\ worker' = [worker EXCEPT ![s] = 0]
        /\ chan' = IF session = s THEN [chan EXCEPT ![s] = s] ELSE chan
    BY <1>0, <1>3 DEF SendResult, Read
  <2>. QED  BY <1>0, <1>1, <2>1
<1>. QED  BY <1>2, <1>3 DEF WorkerStep

LEMMA AwaitStep == TypeOK /\ AwaitInv /\ [Next]_vars => AwaitInv'
<1>. SUFFICES ASSUME TypeOK, AwaitInv, [Next]_vars PROVE AwaitInv'
  OBVIOUS
<1>1. CASE Caller
  <2>1. ASSUME NEW s \in Sessions, StartImap(s) PROVE AwaitInv'
    BY <2>1 DEF StartImap, Free, AwaitInv, Placed, ResultAwaited, Channel
  <2>2. CASE \E s \in {"test", "list"} : StartApi(s) /\ UNCHANGED <<oauth, imap>>
    BY <2>2, AwaitKept DEF StartApi, imap
  <2>3. CASE (Authorize \/ StartExchange \/ StartRefresh) /\ UNCHANGED imap
    BY <2>3, AwaitKept DEF Authorize, StartExchange, StartRefresh, CallPeer, outside, imap
  <2>. QED  BY <1>1, <2>1, <2>2, <2>3 DEF Caller
<1>2. CASE ApiStep /\ UNCHANGED <<oauth, imap>>
  <2>1. pc' \in {"want", "token", "get", "idle", "answer"}
    BY <1>2 DEF ApiStep, Send, AskToken, IssueToken, TakeToken, Got, AskProfile, Refused, PeerFails,
       TimeOut, Cancel, CallFails, Proceed, NextMail, End, CallPeer
  <2>. QED  BY <1>2, <2>1, AwaitKept DEF imap
<1>3. CASE OAuthStep /\ UNCHANGED imap
  <2>1. pc' \in {"exchange", "refresh", "get", "answer", "idle"}
    BY <1>3 DEF OAuthStep, ExchangeCode, TakeExchanged, RefreshTokens, TakeRefreshed, TokensFail,
       Receive, AnswerLost, Lost, CallPeer
  <2>. QED  BY <1>3, <2>1, AwaitKept DEF imap
<1>4. CASE ImapStep
  BY <1>4, AwaitImap
<1>5. CASE \E s \in Sessions : WorkerStep(s)
  BY <1>5, AwaitWorker
<1>6. CASE Surroundings
  BY <1>6, AwaitKept DEF Surroundings, Tick, Hang, Leave, Withdraw, Drop, imap
<1>7. CASE UNCHANGED vars
  BY <1>7, AwaitKept DEF vars, outside, imap
<1>. QED  BY <1>1, <1>2, <1>3, <1>4, <1>5, <1>6, <1>7 DEF Next, Handler

\* With any number of goroutines left over from earlier requests: a request that waits gets its
\* own goroutine's result and no other's, and every goroutine finds room for what it sends.
THEOREM ResultAwaitedHolds == Spec => []ResultAwaited
<1>1. Init => AwaitInv
  BY DEF Init, OutsideInit, ImapInit, AwaitInv, Placed, ResultAwaited, Channel
<1>2. AwaitInv => ResultAwaited
  BY DEF AwaitInv
<1>. QED  BY <1>1, <1>2, AwaitStep, TypeCorrect, PTL DEF Spec
-------------------------------------------------------------------------------
\* Inductive: only a request of an HTTP client has a purpose, and each of them has one.
StageInv == stage # "none" <=> (pc \in {"want", "token", "get"})

LEMMA StageStep == TypeOK /\ StageInv /\ [Next]_vars => StageInv'
<1>. SUFFICES ASSUME TypeOK, StageInv, [Next]_vars PROVE StageInv'
  OBVIOUS
<1>. USE DEF StageInv
<1>1. CASE Caller
  BY <1>1 DEF Caller, StartApi, Authorize, StartExchange, StartRefresh, StartImap, CallPeer,
     outside, api
<1>2. CASE ApiStep
  BY <1>2 DEF ApiStep, Send, AskToken, IssueToken, TakeToken, Got, AskProfile, Refused, PeerFails, TimeOut,
     Cancel, CallFails, Proceed, NextMail, End, CallPeer, api
<1>3. CASE OAuthStep
  BY <1>3 DEF OAuthStep, ExchangeCode, TakeExchanged, RefreshTokens, TakeRefreshed, TokensFail,
     Receive, AnswerLost, Lost, CallPeer, api, client
<1>4. CASE ImapStep
  BY <1>4 DEF ImapStep, Dial, DialFails, Login, LoginFails, Await, Logout, Over, api
<1>5. CASE \E s \in Sessions : WorkerStep(s)
  BY <1>5, WorkerAlone DEF outside, api
<1>6. CASE Surroundings \/ UNCHANGED vars
  BY <1>6 DEF Surroundings, Tick, Hang, Leave, Withdraw, Drop,
     vars, outside, api
<1>. QED  BY <1>1, <1>2, <1>3, <1>4, <1>5, <1>6 DEF Next, Handler

\* A call that ends its attempt, or the last call of a download, is a step forward.
\* What is left of a request: its part, the downloads, the attempts, the calls of one
\* attempt, and the answer to the call.
Part ==
    IF pc \in {"idle", "answer"} THEN IF pc = "idle" THEN 0 ELSE 1
    ELSE [none |-> 4, list |-> 3, mime |-> 2, test |-> 2, profile |-> 1, identity |-> 2][stage]

Call == [idle |-> 0, answer |-> 0, logout |-> 1, select |-> 2, auth |-> 3, dial |-> 4,
         get |-> 1, token |-> 2, want |-> 3, exchange |-> 4, refresh |-> 4][pc]

Closer ==
    \/ Part' < Part
    \/ /\ Part' = Part
       /\ \/ left' < left
          \/ /\ left' = left
             /\ \/ attempt' > attempt
                \/ /\ attempt' = attempt
                   /\ \/ Call' < Call
                      \/ Call' = Call /\ flight = NoToken /\ flight' # NoToken

\* A goroutine that takes a step has less left to do.
WorkerCloser == \A s \in Sessions : WorkerStep(s) => worker'[s] < worker[s]

\* No request goes round in circles: each step of a handler or of its goroutine brings it
\* nearer its end, however many failures, refusals and lost answers it meets.
StepsRunOut == [][(Handler => Closer) /\ WorkerCloser]_vars

LEMMA ProceedIsCloser ==
    ASSUME TypeOK, StageInv, pc \in {"want", "token", "get"}, Proceed \/ End
    PROVE  Closer
<1>1. CASE End
  BY <1>1 DEF End, StageInv, Closer, Part, TypeOK, ApiTyped
<1>2. CASE stage = "mime" /\ left > 1 /\ NextMail(left - 1)
  <2>1. Part' = Part /\ left' < left
    BY <1>2 DEF NextMail, Part, TypeOK, ApiTyped
  <2>. QED  BY <2>1 DEF Closer
<1>. QED  BY <1>1, <1>2 DEF Proceed

LEMMA HandlerIsCloser ==
    ASSUME TypeOK, StageInv, Handler
    PROVE  Closer
<1>1. CASE Send \/ AskToken
  <2>1. Part' = Part /\ Call' < Call /\ UNCHANGED <<left, attempt>>
    BY <1>1 DEF Send, AskToken, CallPeer, api, StageInv, Part, Call
  <2>. QED  BY <2>1 DEF Closer
<1>2. CASE IssueToken \/ ExchangeCode \/ RefreshTokens
  <2>1. flight = NoToken /\ flight' # NoToken
    <3>1. CASE IssueToken  BY <3>1, Granted DEF IssueToken, TypeOK
    <3>2. CASE ExchangeCode
      <4>1. code.opens \in {"api", "imap"}
        BY <3>2 DEF ExchangeCode, TypeOK, OAuthTyped
      <4>. QED  BY <3>2, <4>1, Granted DEF ExchangeCode, TypeOK
    <3>3. CASE RefreshTokens
      BY <3>3, Granted DEF RefreshTokens, RefreshScope, ScopeOf, TypeOK
    <3>. QED  BY <1>2, <3>1, <3>2, <3>3
  <2>2. UNCHANGED <<pc, stage, left, attempt>>
    BY <1>2 DEF IssueToken, ExchangeCode, RefreshTokens, api
  <2>3. Part' = Part /\ Call' = Call
    BY <2>2 DEF Part, Call
  <2>. QED  BY <2>1, <2>2, <2>3 DEF Closer
<1>3. CASE TakeToken
  <2>1. CASE End
    BY <1>3, <2>1, ProceedIsCloser DEF TakeToken
  <2>2. CASE pc' = "get" /\ UNCHANGED <<attempt, stage, left>>
    <3>1. Part' = Part /\ Call' < Call
      BY <1>3, <2>2 DEF TakeToken, Part, Call
    <3>. QED  BY <2>2, <3>1 DEF Closer
  <2>. QED  BY <1>3, <2>1, <2>2 DEF TakeToken, CallPeer
<1>4. CASE Got
  <2>1. ASSUME stage = "list", NEW n \in 1 .. MaxMails, NextMail(n) PROVE Closer
    BY <1>4, <2>1 DEF Got, NextMail, Closer, Part
  <2>2. CASE Tested /\ AskProfile
    BY <1>4, <2>2 DEF Got, Tested, AskProfile, Closer, Part
  <2>. QED  BY <1>4, <2>1, <2>2, ProceedIsCloser DEF Got
<1>5. CASE Refused
  <2>1. CASE mode = "app" /\ attempt = 1
    <3>1. Part' = Part /\ attempt' > attempt /\ UNCHANGED left
      BY <1>5, <2>1 DEF Refused, Part
    <3>. QED  BY <3>1 DEF Closer
  <2>2. CASE ~(mode = "app" /\ attempt = 1)
    BY <1>5, <2>2, ProceedIsCloser DEF Refused, CallFails
  <2>. QED  BY <2>1, <2>2
<1>6. CASE PeerFails \/ TimeOut \/ Cancel
  BY <1>6, ProceedIsCloser DEF PeerFails, TimeOut, Cancel, CallFails
<1>7. CASE TakeExchanged
  <2>1. Part' < Part
    BY <1>7 DEF TakeExchanged, CallPeer, StageInv, Part
  <2>. QED  BY <2>1 DEF Closer
<1>8. CASE TakeRefreshed \/ TokensFail \/ Receive \/ AnswerLost
  <2>1. Part' < Part
    <3>1. \/ pc = "answer" /\ pc' = "idle"
          \/ pc \in {"exchange", "refresh"} /\ pc' \in {"answer", "idle"}
      BY <1>8 DEF TakeRefreshed, TokensFail, Receive, AnswerLost, Lost
    <3>. QED  BY <3>1 DEF StageInv, Part
  <2>. QED  BY <2>1 DEF Closer
<1>9. CASE ImapStep
  <2>1. pc \in {"dial", "auth", "select", "logout"} /\ UNCHANGED <<stage, left, attempt>>
    BY <1>9 DEF ImapStep, Dial, DialFails, Login, LoginFails, Await, Logout, api
  <2>2. pc' = "idle" \/ <<pc, pc'>> \in {<<"dial", "auth">>, <<"auth", "select">>,
                                        <<"auth", "logout">>, <<"select", "logout">>}
    BY <1>9 DEF ImapStep, Dial, DialFails, Login, LoginFails, Await, Logout, Over
  <2>3. CASE pc' = "idle"
    BY <2>1, <2>3 DEF StageInv, Closer, Part
  <2>4. CASE pc' # "idle"
    <3>1. Part' = Part /\ Call' < Call
      BY <2>1, <2>2, <2>4 DEF StageInv, Part, Call
    <3>. QED  BY <2>1, <3>1 DEF Closer
  <2>. QED  BY <2>3, <2>4
<1>. QED  BY <1>1, <1>2, <1>3, <1>4, <1>5, <1>6, <1>7, <1>8, <1>9 DEF Handler, ApiStep, OAuthStep

\* With any number of tokens, failures and lost answers, over any stretch of time: each step
\* of a request, or of its goroutine, leaves it fewer downloads, attempts, calls or answers.
THEOREM StepsRunOutHolds == Spec => StepsRunOut
<1>1. Init => StageInv
  BY DEF Init, OutsideInit, ApiInit, ClientInit, StageInv
<1>2. TypeOK => WorkerCloser
  BY DEF WorkerCloser, WorkerStep, RoundTrip, SendResult, TypeOK, ImapTyped
<1>3. TypeOK /\ StageInv /\ [Next]_vars => [(Handler => Closer) /\ WorkerCloser]_vars
  BY <1>2, HandlerIsCloser
<1>. QED  BY <1>1, <1>3, StageStep, TypeCorrect, PTL DEF Spec, StepsRunOut
===============================================================================
