------------------------------ MODULE ImapSession ------------------------------
(***************************************************************************)
(* IMAP sessions: TestConnection, MaxUID and FetchSinceUID dial, log in,   *)
(* start a goroutine that talks to the server, wait for its result or for  *)
(* the request's context, and log out by a deferred call.  Nothing here    *)
(* has a timeout.  Each session has a connection and a channel of its own, *)
(* and the channel has room for one result.  So the goroutine of a request *)
(* that has left may still be running while later requests are served.     *)
(* What a session reads is module ImapPoll's.                              *)
(*                                                                         *)
(* A session is a place for a connection, a goroutine and a channel; once  *)
(* nothing is left of one, its place may be another's.                     *)
(***************************************************************************)
EXTENDS OAuthMail

CONSTANTS MaxSessions   \* bound: sessions that exist at once

ASSUME SessionAssumption == MaxSessions \in Nat

Sessions == 1 .. MaxSessions

NoSession == 0

VARIABLES
    session,   \* the session of the request at work
    conn,      \* per session: "closed" or "open"
    worker,    \* per session's goroutine: round trips left + 1, 1 when it is to send, 0 when over
    chan       \* per channel: the session whose result is in it, or NoSession

imap == <<session, conn, worker, chan>>

\* Round trips: two SELECTs; SELECT and SEARCH; SELECT, SEARCH and FETCH.
Trips == [test |-> 2, maxuid |-> 2, fetch |-> 3]

ImapTyped ==
    /\ session \in Sessions \union {NoSession}
    /\ conn \in [Sessions -> {"closed", "open"}]
    /\ worker \in [Sessions -> 0 .. 4]
    /\ chan \in [Sessions -> Sessions \union {NoSession}]

ImapInit ==
    /\ session = NoSession
    /\ conn = [s \in Sessions |-> "closed"]
    /\ worker = [s \in Sessions |-> 0]
    /\ chan = [s \in Sessions |-> NoSession]

\* Mutant of Channel: the channel is a field of the client, made anew by each request.
ChannelShared(s) == 1

\* The channel that a session's goroutine sends to and its request reads, a local variable
\* of both.
Channel(s) == s

\* A result is kept as long as a request at work may read it.
Read(c) == session # NoSession /\ Channel(session) = c

\* Places where nothing is left of a session.
Free == {s \in Sessions : worker[s] = 0 /\ conn[s] = "closed"}

\* Resolve: a password, or a token where the mailbox is set to OAuth.
\* Goroutines left over do not matter; places are alike, and the first free one is taken.
StartImap(s) ==
    /\ pc = "idle" /\ now < Horizon
    /\ mode \in {"imap", "password"}
    /\ mode = "imap" => access # NoToken
    /\ s \in Free /\ \A t \in Free : s <= t
    /\ session' = s
    /\ pc' = "dial"
    /\ UNCHANGED <<mode, now, deadline, peer, ctx, issued, revoked, flight, faults, api, oauth,
                   conn, worker, chan>>

\* The request ends; what the goroutine still sends stays unread.
Over ==
    /\ pc' = "idle" /\ ctx' = "live" /\ peer' = "answers"
    /\ session' = NoSession
    /\ UNCHANGED <<mode, now, deadline, issued, revoked, flight>>

Dial ==
    /\ pc = "dial" /\ peer = "answers"
    /\ conn' = [conn EXCEPT ![session] = "open"]
    /\ pc' = "auth"
    /\ UNCHANGED <<mode, now, deadline, peer, ctx, issued, revoked, flight, faults, api, oauth,
                   session, worker, chan>>

DialFails ==
    /\ pc = "dial" /\ peer = "answers"
    /\ Fault
    /\ Over
    /\ UNCHANGED <<api, oauth, conn, worker, chan>>

Login ==
    /\ pc = "auth" /\ peer = "answers" /\ conn[session] = "open"
    /\ mode = "imap" => Accepts(access, "imap")
    /\ \E op \in DOMAIN Trips : worker' = [worker EXCEPT ![session] = Trips[op] + 1]
    /\ chan' = [chan EXCEPT ![Channel(session)] = NoSession]
    /\ pc' = "select"
    /\ UNCHANGED <<mode, now, deadline, peer, ctx, issued, revoked, flight, faults, api, oauth,
                   session, conn>>

\* Mutant of LoginFails: the connection is left behind.
LoginFailsLeft ==
    /\ pc = "auth" /\ (peer = "answers" \/ conn[session] = "closed")
    /\ Over
    /\ UNCHANGED <<faults, api, oauth, conn, worker, chan>>

\* A wrong password, a token that is dead or opens something else, a broken connection.
LoginFails ==
    /\ pc = "auth" /\ (peer = "answers" \/ conn[session] = "closed")
    /\ pc' = "logout"
    /\ UNCHANGED <<mode, now, deadline, peer, ctx, issued, revoked, flight, faults, api, oauth, imap>>

\* The goroutine: a round trip, or an error that ends it early.
RoundTrip(s) ==
    /\ worker[s] > 1
    /\ \/ /\ peer = "answers" /\ conn[s] = "open"
          /\ \E n \in {worker[s] - 1, 1} : worker' = [worker EXCEPT ![s] = n]
       \/ conn[s] = "closed" /\ worker' = [worker EXCEPT ![s] = 1]
    /\ UNCHANGED <<outside, api, oauth, session, conn, chan>>

\* Mutant of SendResult: the channel has no room, so a reader must be waiting.
SendToReader(s) ==
    /\ worker[s] = 1 /\ session = s /\ pc = "select"
    /\ worker' = [worker EXCEPT ![s] = 0]
    /\ chan' = IF Read(Channel(s)) THEN [chan EXCEPT ![Channel(s)] = s] ELSE chan
    /\ UNCHANGED <<outside, api, oauth, session, conn>>

\* A send waits for room in the channel.
SendResult(s) ==
    /\ worker[s] = 1 /\ chan[Channel(s)] = NoSession
    /\ worker' = [worker EXCEPT ![s] = 0]
    /\ chan' = IF Read(Channel(s)) THEN [chan EXCEPT ![Channel(s)] = s] ELSE chan
    /\ UNCHANGED <<outside, api, oauth, session, conn>>

\* The select: a result, or the context is done; the deferred Logout is next.
Await ==
    /\ pc = "select"
    /\ \/ /\ chan[Channel(session)] # NoSession
          /\ chan' = [chan EXCEPT ![Channel(session)] = NoSession]
       \/ ctx = "done" /\ UNCHANGED chan
    /\ pc' = "logout"
    /\ UNCHANGED <<mode, now, deadline, peer, ctx, issued, revoked, flight, faults, api, oauth,
                   session, conn, worker>>

\* LOGOUT waits for the server's answer, or finds the connection broken.
Logout ==
    /\ pc = "logout" /\ (peer = "answers" \/ conn[session] = "closed")
    /\ conn' = [conn EXCEPT ![session] = "closed"]
    /\ chan' = [chan EXCEPT ![Channel(session)] = NoSession]
    /\ Over
    /\ UNCHANGED <<faults, api, oauth, worker>>

\* The connection breaks.
Drop ==
    /\ session # NoSession /\ conn[session] = "open"
    /\ Fault
    /\ conn' = [conn EXCEPT ![session] = "closed"]
    /\ UNCHANGED <<mode, now, deadline, peer, ctx, issued, revoked, flight, pc, api, oauth,
                   session, worker, chan>>

ImapStep == Dial \/ DialFails \/ Login \/ LoginFails \/ Await \/ Logout
WorkerStep(s) == RoundTrip(s) \/ SendResult(s)
-------------------------------------------------------------------------------
\* However a session ends -- refused login, broken folder, caller gone in the middle of
\* a fetch -- its request leaves no connection open: an open one is the session's at work.
SessionsClosed == \A s \in Sessions : conn[s] = "open" => s = session /\ pc # "idle"

\* However many goroutines of earlier requests are still running: a request that waits has its
\* own goroutine at work or that goroutine's result, never another's; and every goroutine,
\* its request waiting or gone, finds room for what it sends.
ResultAwaited ==
    /\ pc = "select" =>
          IF worker[session] > 0 THEN chan[Channel(session)] = NoSession
                                 ELSE chan[Channel(session)] = session
    /\ \A s \in Sessions : worker[s] > 0 => chan[Channel(s)] = NoSession
===============================================================================
