------------------------------- MODULE Identity -------------------------------
(***************************************************************************)
(* What the access components share: the clock, the identity providers     *)
(* (Microsoft, Google), the state of the peer, and the request at work.  A *)
(* deployment is used one way, `mode`:                                     *)
(*   app       Graph with the tenant's own credentials                     *)
(*   dwd       Gmail with a service account (domain-wide delegation)       *)
(*   api       Graph or Gmail with a token the user consented to           *)
(*   imap      IMAP with such a token                                      *)
(*   password  IMAP with a password                                        *)
(* One mailbox is accessed by one request at a time; every request makes   *)
(* its own client, so requests share no client state.                      *)
(*                                                                         *)
(* An access token is a number, the instant it dies, the lifetime the      *)
(* provider stated with it (0: none) and what it opens.                    *)
(***************************************************************************)
EXTENDS Naturals, FiniteSets

CONSTANTS
    Timeout,      \* http.Client Timeout, 45 s
    Margin,       \* a cached token is dropped that long before its end, 60 s
    Lives,        \* lifetimes of access tokens
    DefaultLife,  \* assumed where the provider states none, 3600 s
    Horizon,      \* bound: nothing starts after it
    MaxTokens,    \* bound: tokens issued
    MaxFaults     \* bound: failures, hangs, withdrawals

ASSUME AccessAssumption ==
    /\ Timeout \in Nat \ {0} /\ Margin \in Nat /\ Timeout < Margin
    /\ Lives \subseteq Nat /\ \A l \in Lives : l > 2 * Timeout
    /\ DefaultLife \in Nat \ {0}
    /\ Horizon \in Nat /\ MaxTokens \in Nat /\ MaxFaults \in Nat

Modes == {"app", "dwd", "api", "imap", "password"}

VARIABLES
    mode,
    now,
    deadline,  \* when the HTTP call at work is given up, 0 where nothing limits it
    peer,      \* the peer of the call at work: it "answers", or is "hung" for good
    ctx,       \* the request's context: "live", or "done" once its caller has left
    issued,    \* number of the last token issued
    revoked,   \* access tokens up to this number are refused
    flight,    \* the provider's answer to a token request, on its way
    pc,
    faults

outside == <<mode, now, deadline, peer, ctx, issued, revoked, flight, pc, faults>>

NoToken == [n |-> 0, exp |-> 0, stated |-> 0, opens |-> "nothing"]

Tokens == [n : 0 .. MaxTokens, exp : Nat, stated : Nat, opens : {"nothing", "api", "imap"}]

\* The scopes configFor asks for, by transport.
ScopeOf(m) == IF m = "imap" THEN "imap" ELSE "api"

Accepts(t, what) == t.n > revoked /\ now < t.exp /\ t.opens = what

\* The access tokens a provider may grant now.
Grantable(what) ==
    {[n |-> issued + 1, exp |-> now + l, stated |-> s, opens |-> what] :
        l \in Lives, s \in Lives \union {0}}

Grant(what) ==
    /\ issued < MaxTokens
    /\ issued' = issued + 1
    /\ flight' \in {t \in Grantable(what) : t.stated \in {0, t.exp - now}}

OutsideTyped ==
    /\ mode \in Modes
    /\ now \in Nat /\ deadline \in Nat
    /\ peer \in {"answers", "hung"} /\ ctx \in {"live", "done"}
    /\ issued \in 0 .. MaxTokens /\ revoked \in 0 .. issued
    /\ flight \in Tokens
    /\ pc \in {"idle", "want", "token", "get", "exchange", "refresh", "answer",
               "dial", "auth", "select", "logout"}
    /\ faults \in 0 .. MaxFaults

OutsideInit ==
    /\ mode \in Modes
    /\ now = 1 /\ deadline = 0 /\ peer = "answers" /\ ctx = "live"
    /\ issued = 0 /\ revoked = 0 /\ flight = NoToken
    /\ pc = "idle" /\ faults = 0

Fault == faults < MaxFaults /\ faults' = faults + 1

\* Time passes, though no HTTP call outlives its deadline.
Tick ==
    /\ now < IF deadline = 0 THEN Horizon ELSE deadline
    /\ now' = now + 1
    /\ UNCHANGED <<mode, deadline, peer, ctx, issued, revoked, flight, pc, faults>>

\* The peer of the request at work stops answering.
Hang ==
    /\ pc # "idle" /\ peer = "answers"
    /\ Fault
    /\ peer' = "hung"
    /\ UNCHANGED <<mode, now, deadline, ctx, issued, revoked, flight, pc>>

\* The caller of the request leaves: its context is done.
Leave ==
    /\ pc # "idle" /\ ctx = "live"
    /\ ctx' = "done"
    /\ UNCHANGED <<mode, now, deadline, peer, issued, revoked, flight, pc, faults>>

\* An HTTP call begins; it and whatever surrounds it are over.
CallPeer(where) == pc' = where /\ deadline' = now + Timeout
CallOver == deadline' = 0 /\ peer' = "answers"
===============================================================================
