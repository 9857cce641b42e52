# A TLA+ model of the CIMPLR email service

The service (Go, `src/`) takes mail in for the main CIMPLR API and hands files
out for it. It polls mailboxes over IMAP, Microsoft Graph and Gmail, stores the
raw mail in S3, parses it, stores attachments and a JSON document, and answers
with what got through. It also keeps SES receipt rules in step with a list of
mailboxes, lists raw mails that SES delivered, and saves files to S3, local
folders, SFTP servers and partner APIs.

It has no database and keeps nothing between two requests, except clients that
hold no data. Cursors, watermarks and lists of known mails live with the caller
and travel with each request. What makes it hard is therefore not one state
machine but what happens between several of them: a caller's cursor and a
provider's mailbox that changes while it is read; S3 objects that several
requests write; calls that fail half-way, or succeed without saying so; tokens that die on the
way.

## 1. Inventory

| Component | State it keeps | Operations | Talks to |
|---|---|---|---|
| Ingestion pipeline: `internal/parser`, `internal/s3store`, `parse` handlers | raw, attachment and parsed objects in S3 | `PutObject`, `ParseFromS3`, `ParseRaw`, `PutAttachmentStable`, `PutParsedJSON`, `/v1/parse`, `/v1/parse/batch` | S3; called by every poll handler |
| Watermark polling: `api/poll_handlers.go` (Graph), `oauth_handlers.go`, `gmail_dwd_handlers.go`, `internal/pollcursor`, `graphmail`, `gmailmail`, `gmaildwd` | none; the caller keeps `since` and the ids it has | four poll-page handlers, `ResolveNewSince` | Graph, Gmail, the pipeline |
| IMAP polling: `imapPollFolderHandler`, `internal/imapmail` | none; the caller keeps the last UID and the keys it has | `MaxUID`, `FetchSinceUID` | an IMAP server, the pipeline |
| List-new: `s3store.ListNewRawKeys` | none; the caller keeps the last key | `/v1/list-new` | S3 |
| SES rules: `internal/ses` | rule sets in the AWS account | `SyncReceiptRules`, `DeleteReceiptRule` | SES |
| Storage: `internal/storage`, `api/storage_handlers.go` | files and objects | `Put`, test partners, `read-api-inbox` | S3, disk, SFTP, HTTP partners |
| Access over HTTP: `graphmail` clients, `gmailmail`, `gmaildwd/token.go` | one access token per request's Graph client | `accessToken`, `invalidateToken`, `doGET` with its one retry, `TestConnection` | Graph, Gmail, identity providers; used by watermark polling |
| OAuth: `oauthmail`, `oauth_handlers.go` | none; the caller keeps access and refresh token | `AuthorizeURL`, `Exchange`, `Identity`, `Refresh` | identity providers |
| IMAP sessions: `imapmail` | a connection, a goroutine and a channel per request | dial, login, `TestConnection`, the sessions of `MaxUID` and `FetchSinceUID` | an IMAP server |
| Extraction: `internal/extract`, `extractHandler` | none | `extract.Run` | S3 |
| Filter, auth, routing, logging | none | `filter.Match`, middleware | -- |

What makes each correct, and what is hard about it:

* **Pipeline.** An answered mail must be in the bucket with all its attachments
  and its document. Hard: a failed PUT may have taken effect; several requests
  may work on one key; storage ids are hashes of *lower-cased* keys.
* **Watermark polling.** No mail may be lost except where the design gives it
  up, the watermark must move, and polling must reach the end. Hard: filters
  coarser than the watermark, pages that fill up, mail that arrives during a
  poll, answers that are lost.
* **IMAP.** The same for a cursor of UIDs. Hard: `n+1:*` names the last mail
  even if it is `n`; SEARCH and FETCH see different mailboxes; cursor 0 means
  "not initialized".
* **List-new.** No gap and no repetition. Hard: the bucket grows between pages,
  at any place.
* **SES rules.** Other people's rules survive, and the answer names what did not
  work. Hard: an update is a delete and a create; requests interleave.
* **Storage.** A saved file is the file. Hard: files are truncated, then filled,
  under their final name, and names can be equal.

* **Access.** A token that dies while a page is downloaded must not cost mails,
  a refresh token must not be lost by the service, and every request must end
  and give back its connection. Hard: a token's lifetime counts from its issue,
  not its arrival; providers rotate refresh tokens or do not; some calls have no
  timeout, and the goroutine of an IMAP session outlives its request.
* **Extraction.** A table's rows and values are those of the text, under their
  own headings. Hard: headings that share a key, blocks that end at a blank line
  or at the end, lengths counted in bytes here and in runes there.

The lines at which each of these bites are the `hazards` of `PROJECT.json`.

## 2. Modules

```
MailStore            what the service promises: answered => stored, for ever
  ^ implemented by
Ingest               the pipeline, one step per S3 call      IngestProofs
PagePoll             watermark polling                       PagePollProofs
  uses PollCursor    ResolveNewSince and the filters         (proved there too)
ImapPoll             IMAP polling                            ImapPollProofs
ListNew              listing of raw keys                     ListNewProofs
SesRules             receipt rules, one step per SES call    SesRulesProofs
Storage              puts, one step per store call           StorageProofs
Identity             clock, providers, peers, tokens
  ^ extended by
MailApi              the HTTP clients and their tokens
  ^ extended by
OAuthMail            consent, exchange, refresh
  ^ extended by
ImapSession          connection, goroutine and channel
  ^ composed in
Access               the five ways to a mailbox              AccessProofs
Extract              extraction from a parsed mail           ExtractProofs
MC*                  small instances for TLC
```

Every operation of the code is an action, every call that leaves the process a
step, so that other requests can come in between. A call that fails is an
action of its own beside the one that succeeds; where the code cannot tell
whether a failed write took effect, both outcomes are in it. Definitions named
"Mutant of ..." belong to no behaviour: each is a wrong version of the
definition that follows it, which shows that a property can fail.

**Ingest.** A worker is a request in its goroutine. `Start`, `Take`, `PutRaw`,
`ReadRaw`, `PutAttachment`, `PutParsed`, `Reply` follow the loop of a poll or
batch handler; each `...Fails` is a `continue`. `raw`, `att`, `parsed` are the
three prefixes of the bucket, `answered` the documents callers have been handed. Raw
keys and storage ids are given as functions (`RawKey`, `StorageId`), so that
collisions are a matter of the instance: `Alone` holds of a mail that shares
neither with another, and `Loners` are these mails.
`Abort` covers a crash or a dropped connection at any point. A crash loses no
state but the request: there is nothing else in memory.

**PagePoll.** One mailbox, one caller, one poll at a time. `Provider` selects
Graph (`List` returns the oldest matches; a date counts before the skip) or
Gmail (no order; a date is known only after the download). Instants are ticks of
the watermark; `MS`, `SEC` and `Grain` place milliseconds, seconds and the
provider's dates on them. The steps of one mail are one action, in which it
gets through (`IngestOk`) or not (`FetchFails`, `StoreFails`); Ingest shows
what is in them. `Receive` is the caller, which takes watermark and mails over
together; `GiveUp` is an error answer, a lost answer or a crash. `failed`,
`cut`, `start` and `lost` are history: which mails of a page did not get
through, or were left out for later ones, and which of these an answered poll
then moved past.

**ImapPoll.** The same for a folder with UIDs. `Search` and `Fetch` are two
steps, with `Expunge` and `Deliver` in between; `Found` has the quirk of
`n+1:*`; `Pages` lets any `Limit` of the UIDs found come first, since IMAP gives
SEARCH answers no order.

**ListNew.** `ListPage` is one `ListObjectsV2` call with the filters, the limit
and the continuation token; `Upload` may come between any two of them. `late` is
history: mails stored where the listing had already been; with the end of the
request those above the caller's key leave it, since the next one lists them.

**SesRules.** `pc` follows `SyncReceiptRules` call by call: create the set,
activate, list, per name create / delete / recreate, clean up. `want`,
`existing` and `errors` are the function's own variables. A rule is its
recipient; the bucket and the prefix, the request's or the environment's, are
data. With `Faulty` every call may also return an error, having taken
effect or not, and the process may die.

**Storage.** A file is what each of its positions holds, so that a partial or
mixed file can be told from a whole one. `Open` truncates, `WritePacket` and
`Write` fill at their own offset, which is what `os.WriteFile` and the SFTP
client do; `PutS3` replaces at once. A put to a partner goes through the
partner's own open and write, and `TimesOut` ends the put while the partner goes
on; `hung` are the puts whose SFTP server has stopped answering. Two destinations of different kinds are taken to be different places, though
a local put could be aimed at a test partner's folder.

**Identity, MailApi, OAuthMail, ImapSession, Access.** A deployment reaches its
mailbox in one of five ways (`mode`). A token is the instant it dies, the
lifetime its provider stated, and what it opens; `issued` counts them. `Grant`
puts a provider's answer on its way (`flight`), `TakeToken`, `TakeExchanged` and
`TakeRefreshed` are its arrival, which may be later: `accessToken` counts a
token's life from there. `Send`, `Got`, `Refused`, `PeerFails`, `TimeOut` and
`Cancel` are one HTTP call; `Refused` is the 401 with its one retry, `Proceed`
the loop over the mails of a page. In OAuthMail, `code` is the consent to be
exchanged, `refresh` what the caller has stored, `grants` the refresh tokens
that work, `renewed` the one in the answer under way; `dead` is history. A
provider that rotates kills the old token as it grants the new one, whether or
not the answer arrives. `AskProfile` is the `Identity` call that follows the test
of a caller's token, as `TakeExchanged` begins the one after an exchange.
ImapSession has the request (`Dial` to `Logout`) and the goroutines
(`RoundTrip`, `SendResult`) side by side, each session with a connection, a
goroutine and a channel of its own: the request may leave at its context's end
while its goroutine still talks, and the next request starts, on the first free place,
without waiting for it. `Channel` says which channel a session uses, and `Read`
that a result lasts as long as the request that reads it. Access puts them
together: the
token an exchange or a refresh brings is what the next poll, over HTTP or IMAP,
carries.

**Extract.** A text is its lines; of a line there is what the regular expressions
and `strings.Split` make of it: cells, a key and value, an item, its length in
bytes and in runes. `Tables`, `KeyValues`, `OrderedList` and `Confidence`
accumulate in the order of the code's loops; `Validate`, `RunWhole`, `RunCut` and
`Panic` are `extractHandler`. `Kept` is a slice appended to under a condition,
`Written` a map put into, `Current` the block of rows under way: the three ways
in which the code accumulates. A conversion to runes allocates a size class
(`Rooms`) that may be more than the runes: slicing into it pads the preview with
zeros, slicing beyond it panics. `Found` (from `TableLines`, `TableEnds` and
`Ranked`) and `Givers` say by position what the loops should find.

External, modelled from how the code uses it: S3, SES, the IMAP server, the
providers' mailboxes and clocks, file systems, and the caller. The caller is
taken to store cursor and mails in one transaction, and to poll a mailbox by one
request at a time.

## 3. What is checked

| Run | Instance | Shows |
|---|---|---|
| `Ingest` | 2 requests of up to 2 mails or keys, 3 mails, of which 2 have keys with one storage id and 2 share an attachment | `TypeOK`, `AttachmentsDurable`, `ReportedIntact`, `AnsweredExists`, refinement of `MailStore`, `FirstEnds` |
| `PagePollGraph` | 3 mails, pages of 2, 1 poll given up, dates by the second | `LossExplained`, `KnownBehind`, `GraphNeverBumps`, refinement, `EventuallyQuiet` |
| `PagePollGmail` | the same with Gmail's filter, dates by the millisecond | `LossExplained`, `WatermarkAdvances`, `EventuallyQuiet` |
| `ImapPoll` | UIDs 2-5, limit 2, mail 3 may be unreadable, 1 poll given up | `TypeOK`, `NothingPassedSilently`, `CursorAdvances`, refinement, `EventuallyCaughtUp` |
| `ListNew` | 6 keys, one no mail, pages of 2, limit 3, 1 request given up | `NoGap`, `ToldOnce`, `EventuallyTold` |
| `SesRules` | 2 rule sets in any state, a managed and a foreign name, faults | `TypeOK`, `ErrorsTellAll`, `RemovedIsTold`, `ForeignRulesKept`, `SyncEnds` |
| `Access` | all five modes, 2 tokens, pages of 2 mails, 2 IMAP sessions at once, 1 fault, tokens that live for 5 ticks with calls of up to 2 | `TypeOK`, `SentFresh`, `ExpiryHealed`, `RefreshKept`, `SessionsClosed`, `ResultAwaited`, `EndsUnlessHung` |
| `Extract` | texts of up to 3 lines of 15 kinds and up to 6 of those tables are made of; HTML tables with equal, missing and colliding headings | `TablesExact`, `RecordsTrue`, `LastValueWins` |
| `Storage` | 2 puts of lengths 1 and 2, one name or random names, 2 seconds | `TypeOK`, `SavedIntact`, `PutEnds` |
| `ImapPollNewest`, `SesRulesCleanup`, `ExtractPreview` | see section 5 | disagreements between a comment and the code |

What the properties say of the design, in short:

* `ReportedIntact` is about the mails that are `Alone`: an answer about one is
  about it, and its raw object, document and attachments are its own, whatever
  collides elsewhere. It bounds the loss under colliding keys, and would not catch
  it: Graph ids are case sensitive and storage ids are not; of
  mails that collide only `AnsweredExists` is left: the objects are there, the
  document may be another mail's. `ImplementsStore` speaks of `Loners` for the
  same reason.
* `LossExplained` lists every way a mail can be lost in watermark polling: it
  failed in the page that moved the watermark; Gmail filled that page with later
  mails; it is older than the first watermark; another mail has the same
  timestamp (Graph, at a page's end) or second (Gmail, under the one-second
  jump). All of these happen in the model; nothing else does.
* `NothingPassedSilently` says the same of IMAP: failed mails, and mails that a
  server with unsorted SEARCH answers put behind newer ones. Unlike a failed
  upload, a mail without a readable body does not move the cursor; the next mail
  that gets through does.
* `GraphNeverBumps`: with dates no finer than a millisecond, the bump branches
  of `ResolveNewSince` are dead for Graph.
* `EventuallyQuiet`, `EventuallyCaughtUp`, `EventuallyTold`: a poller reaches
  the end once nothing new arrives. For IMAP this needs more room on a page than
  there are unreadable mails: with `Limit` = 1 and one unreadable mail the same
  search comes back for ever. It also needs a folder whose UIDs do not start at
  1 (section 5).
* `NoGap`: what list-new does not tell is only what was stored behind it. Since
  keys are ids, not times, that is a real loss, not a delay.
* `ErrorsTellAll` holds for one sync at a time; the service has nothing that
  keeps two apart. `RemovedIsTold` is what is left when there are more, and is
  proved for any number: the cleanup may remove a rule the caller wants, but the
  answer then names it in its errors, so that the caller can sync again.
* `SavedIntact` excuses a put whose file another put, or a partner given up,
  touched: it bounds that loss and would not catch it. Names are precise to the
  second at best, so this happens in practice.

* `SentFresh` and `ExpiryHealed` say what the margin and the one retry of the
  app-only Graph client are worth. The margin covers the time a token's answer
  was on its way, so no call leaves with a token past its stated end; the retry
  covers the token that ages on the way to the server and the provider that
  states no lifetime. Both need `Timeout < Margin` and lifetimes above two
  timeouts, which 45 s, 60 s and an hour meet. Clients with the caller's token
  have no retry: there an expired token costs the mails left on the page, which
  the watermark then passes (`PagePoll`'s `FetchFails`).
* `RefreshKept`: what the caller has stored works, unless the user withdrew it or
  the one answer that carried its successor was lost. The second is the price of
  a service that keeps nothing; no retry can win it back. It also says that the
  scope `configFor` asks for fits the transport the token is used with.
* `EndsUnlessHung`: every request ends, and so does every goroutine, however many
  requests were served since its own has left, unless a peer
  stops answering a call that has no timeout: an IMAP dial or an IMAP session as
  long as its connection holds -- even if its caller has left, since the deferred
  `Logout` waits too -- and the token request of domain-wide delegation.
* `ResultAwaited`: every IMAP session has a channel of its own with room for one
  result. So a request that waits has its own goroutine at work, or that
  goroutine's result, never a late one of an earlier session whose goroutine is
  still running; and a goroutine whose request has left finds room for what it
  sends, and can end. With one channel for the client, made anew by each request
  (`ChannelShared`), a goroutine left over answers the next request.
* `RecordsTrue`: of two columns with one key the last non-empty cell of a row
  wins, and nothing else is lost. This is about rows as the code has them: a
  delimited row has lost its empty cells before, so that a value under such a
  gap is filed under the heading to its left. HTML rows keep their empty cells,
  and the property says that no value moves there.

### Bounds

Two requests are enough for every conflict over a shared object, since a conflict
is between two. Three mails and pages of two give a full page with a mail cut
off, a page whose mails are all known, and one with a failed and a good mail. One
poll given up reaches every state that a repeated poll can meet; more repeat it.
In PagePoll, `Horizon` spans two seconds or more, so that dates fall into the
same second, into neighbouring ones, and before the first watermark. In
ImapPoll, four UIDs give a page with a mail beyond it, and an unreadable one in
the middle. In ListNew the six keys fill three pages. In Storage, contents of
length 1 and 2 distinguish a longer file overwritten by a shorter one. Two
rule sets distinguish the named from the active one. In Access, a call may take
2 ticks, the margin is 3 and a token lives for 5, so that a token can be fresh,
within its margin, dead on arrival at the server, and dead before its download;
`DefaultLife` of 12 outlives it, as an assumed hour may. Two tokens are an
exchange and a refresh, or a first token and the retry's; what more refreshes do
is left to `RefreshKeptHolds`. Two IMAP sessions are one at work and one whose
goroutine is left over; more of these is left to `ResultAwaitedHolds`. In Extract,
`Preview` of 7 lies between the bytes and the runes of two wide lines; the
rooms up to 24 are the smallest size classes of `[]rune` by shape, some ending
before the preview's limit and some behind.
`MaxFaults`, `MaxJobs`, `Horizon`, `LastUid`, `Seconds`, `MaxSize`, `MaxTokens`,
`MaxMails` and `MaxSessions` are the bounds in the guards; the theorems hold for every value
of them.

No run uses symmetry. `Storage.cfg` allows deadlock: puts are served once and
the run ends. So does `Access.cfg`: where an IMAP server has stopped answering and
the clock is at `Horizon`, the session stops for good, as it does in the code.

### Fairness

Each fair specification asks for weak fairness of the steps of a request, or of
a poll, and of nothing else. Go runs every goroutine that can run, and the
calls end: provider clients have timeouts of 45 seconds, the partner client of
two minutes, the AWS SDK its own. That S3 answers, with a success or an error, is
assumed throughout. Some calls have no timeout: those of IMAP sessions, of SFTP
after the dial, and the token request of domain-wide delegation. The polling
properties, `EventuallyCaughtUp` above all, are about where polling gets to and
assume that the mail server answers each poll. Whether it does is the question of
`Access`, which assumes nothing of the kind: a peer may hang, and only the clock
(`Tick`) brings the calls that have a deadline to their end. In `Storage` an SFTP server
may stop answering after the dial, which nothing ends (`Hang`): no fairness is
assumed of such a put, and `PutEnds` excuses it. The caller is assumed to poll
again. No fairness is assumed of arrivals, faults or expunges. A successful
outcome is never promised: failing is a way for a step to take place, and the
liveness properties hold although everything may fail.

## 4. What is proved

TLAPS checks the following for every value of the constants.

| Theorem | Argument |
|---|---|
| `IngestProofs!TypeCorrect`, `AttachmentsDurableHolds`, `AnsweredExistsHolds` | the invariant follows a request: once a mail is read back, each of its attachments is in the bucket or still in `parts`. Since objects are never removed, a document may be written when `parts` is empty |
| `ReportedIntactHolds`, `ImplementsStoreHolds` | an object under a key belongs to a mail of that key (`KeyInv`), so that of a mail that is `Alone` only its own document can take its document's place; each step makes at most one such mail durable |
| `IngestProofs!StoredForGood` | what `MailStore` promises, carried over by the refinement: answered mails are durable, and durable ones stay so |
| `PagePollProofs!ResolveAdvances` | case analysis; the lemmas before it say what rounding down to a millisecond or a second keeps |
| `KnownBehindHolds`, `WatermarkAdvancesHolds` | `maxCursor` is at least the watermark and at least the date of every mail of the page that got through; `ResolveNewSince` returns no less, and more after a page that listed anything |
| `LossExplainedHolds`, `GraphNeverBumpsHolds` (assume `WholeMilliseconds`: Graph dates its mail in whole milliseconds or coarser) | see below |
| `PagePollProofs!ImplementsStoreHolds` | what a page has collected, and what the caller has, is in S3 |
| `BehindIsStored` (the same hypothesis) | the two together, from the mailbox to the bucket: a mail behind the watermark is known and stored, or lost in a way `LossExplained` names |
| `ImapPollProofs!NothingPassedSilentlyHolds`, `CursorAdvancesHolds`, `ImplementsStoreHolds` | during a poll, every mail between the old and the new cursor is still on the page, or in `got`, `failed`, `cut` or `known` |
| `PassedIsStored` | the same end to end for IMAP, from the refinement and `NothingPassedSilently` |
| `NewestNotSkippedAboveOne` (assumes `FirstUid > 1`) | the counterpart of `ImapPollNewest`: a cursor that is set is not 0, so the folder is initialized once, with its newest mail above the cursor (`SparedInv`) |
| `ListNewProofs!ToldOnceHolds` | `after` separates the keys the caller has from those being collected |
| `ListNewProofs!NoGapHolds` | of the mails not yet told, those up to the continuation token, or up to the last key of the answer, are in `keys` or `late` (`NoGapInv`); the first objects of a page are the least ones (`LeastElement`, by well-founded induction over Nat) |
| `SesRulesProofs!ErrorsTellAllHolds` (assumes one request at a time) | a name that is neither in `left` nor in `errors` is settled: its rule is the wanted one, or unwanted and still in `existing` for the cleanup (`TellInv`) |
| `RemovedIsToldHolds` | a listed rule whose name is wanted is still in `left`, or upserted and out of `existing`, or in `errors` (`ListedInv`); other requests touch none of the three |
| `CleanupSparesDesiredAlone` (assumes one request at a time and no SES errors) | the counterpart of `SesRulesCleanup`: a rule dropped for an update is gone when it is created again, so no upsert fails (`UpsertedInv`) |
| `SesRulesProofs!ForeignRulesKeptHolds` | the only names a request touches are those it was asked for and, in the cleanup, managed ones; `cur` is a wanted name whenever it is used |
| `AccessProofs!SentFreshHolds`, `ExpiryHealedHolds` | the cached token's end is at most one timeout late (`CacheInv`); a second attempt always carries a token issued within the last two calls |
| `AccessProofs!RefreshKeptHolds` | the stored token, or its successor in the answer under way, is granted, or dead for a reason (`RefreshInv`) |
| `AccessProofs!SessionsClosedHolds` | a connection is open only between `Dial` and `Logout` of the session at work (`SessionInv`) |
| `AccessProofs!ResultAwaitedHolds` | a request in a session has a place, and no goroutine there before it has logged in; goroutines on other places send to channels of their own (`AwaitInv`) |
| `StepsRunOutHolds` in `IngestProofs`, `SesRulesProofs` and `AccessProofs` | a measure, see below |
| `ExtractProofs!TablesExactHolds`, `RecordsTrueHolds`, `LastValueWinsHolds` | what the loops accumulate is what stands at the positions, see below |
| `ExtractProofs!PanicOnlyBetweenHolds` | the counterpart of `ExtractPreview`: the room is at least the runes, so only a text that is long in bytes and short in runes can be sliced beyond it |
| `StorageProofs!SavedIntactHolds` | for a put that no other touched, the file is exactly its first `sent` positions from the truncation on |

`TypeCorrect` is proved in each module, and is the base of the rest. The
invariants named above are stronger than the properties, which are not
inductive: they speak of finished polls and puts only.

`LossExplained` speaks of stored watermarks and of mail that has arrived. Its
inductive form `LossInv` adds three things. First, the mail still to come:
every date from the provider's present on is ahead of the watermark, shared with
a mail there is, or before the first watermark (`Covers`), because the provider
dates nobody after its present. Second, the page as it was listed: some set `L`
holds the page and what it became, the latest date seen is the watermark or a
date of `L`, and a match that is neither in `L` nor cut from it is no older than
anything in `L`. Third, the answer under way keeps both promises for its own
watermark (`AnswerKeeps`). The step that matters is the end of a page (`NextKept`):
a date not before any of `L` matches the resolved watermark or shares its bucket
with a mail of `L`. There `GmailJump` is needed for the bumps, and for Graph that
there are none: a listed date in whole milliseconds lies after the watermark
itself, and not only after its cut (`GraphLater`). `WholeMilliseconds` enters
nowhere else, and holds vacuously for Gmail.

`StepsRunOut` is the part of "every request ends" that needs no fairness. Each
step of a request, an error too, and whatever other requests do in between,
brings it nearer its end in a lexicographic order: in Ingest the mails left, the
calls left for the mail in hand, its attachments left; in SesRules the phase, the
names left to upsert, the calls for the name in hand, the rules left to clean up; in
Access the part of the request, the downloads left, the attempt, the call. Nothing
is ever retried without a bound, so a request of finitely many names or mails
makes finitely many calls, and only a call that never returns can hold it. The order
is a matter of the proof, and so its definitions are in the proof modules;
`FirstEnds`, `SyncEnds` and `EndsUnlessHung` are the properties that runs check.

The code of Extract is loops that accumulate, and `Kept`, `Written` and `Current`
are recursive functions; that they are what the positions say is an induction over
a text's lines. `NatBySet` states the induction with a set in place of a predicate,
from the well-foundedness of Nat: a set of numbers that holds 0 and with every
number the next holds all. `KeptIsRanked` and `CurrentIsRanked` show that a
conditional append leaves the chosen elements by rank (`NthTaken`: appending a
later position leaves the ranks of the earlier ones), `WrittenIsLast` that a map
put into in order has each key's last value. `DelimitedByPosition`,
`HTMLByPosition` and `RecordsByPosition` say so of the tables and records, and the
three theorems follow from the one step that answers (`AnswerInv`). They need
`DocumentsAssumption`, the shape of a parsed mail; the panic needs
`RoomsAssumption`, that the allocator has room for a text that passed the length
check.

Model-checked only: liveness (it rests on fairness, and on `ENABLED`), that is
`FirstEnds`, `EventuallyQuiet`, `EventuallyCaughtUp`, `EventuallyTold`, `SyncEnds`,
`EndsUnlessHung` and `PutEnds`. Every other property of a passing run is proved.
The three claims that runs refute are proved in the cases in which they do hold.

## 5. Where the code and its comments disagree

With a run each:

1. `poll_handlers.go:84-85` says that initialization leaves the newest mail for the
   next poll. With UID 1 the cursor becomes 0, which is "not initialized"; the
   next mail then makes the poller skip the first (`ImapPollNewest`). Until
   then the folder is initialized at every poll.
2. `receipt.go:95` says that the sync removes rules *not in the desired set*. A
   desired rule whose upsert failed is removed too (`SesRulesCleanup`).
3. `structured.go:59` says that the output always includes intent and envelope
   fields. A text of more than 2000 bytes but fewer than 2000 runes, as in
   Devanagari or Chinese, makes line 81 slice past its runes: the request
   panics, or the preview is padded with zero runes (`ExtractPreview`).

Seen by reading; a run would only restate the line:

* `cursor.go:43` says the bump excludes the ids just listed from the next poll. One
  millisecond does not, under a filter by the second. The watermark moves all
  the same (`WatermarkAdvances`).
* `receipt.go:163` says that the rule is deleted from the active rule set. It is
  deleted from the named or default set.
* `client.go:156` of `imapmail` promises UIDs above `afterUID`, while `n+1:*` also
  returns the last mail. The handler's maximum and skip list make that harmless
  (`CursorAdvances`).
* A token for IMAP opens `outlook.office365.com`, not Graph: for such a Microsoft
  mailbox `Identity` (`oauth.go:206`) is always refused, and the answer to an
  exchange always has an empty address.
* `stripHTMLBasic` turns `<br>` into newlines, and `strings.Fields` undoes it: an
  HTML mail without a plain text is one line, and has at most one key-value.

## 6. Not modelled

* `filter.Match`: a predicate that no handler calls. Auth: one comparison.
  Routing, envelopes, models, logging, process start, the SFTP test server: no
  state that a property depends on. `read-api-inbox` only reads.
* IMAP presets' hosts, ports and folder names, header and address decoding, the
  intent's word lists, the regular expressions themselves: data.
* UIDVALIDITY, which the code drops (`imapmail/client.go:173`): a renumbered folder
  makes any cursor meaningless, and the code has nothing a property could rest
  on. Constant in ImapPoll.
* A MIME download cut short with status 200 (`graphmail/client.go:215`): stored and
  parsed as the whole mail; the code has nothing that could tell the two apart.
* The SES client made once with the first request's context (`receipt.go:43`).
* The mutex of the Graph token cache: each request builds its own client and uses
  it from one goroutine.

## 7. Plan

What would add most from here, in order:

1. PagePoll and Access composed: the mails a poll with the caller's token loses
   when the token dies in the middle of a page. Today PagePoll lets any download
   fail, and Access says when an expired token makes one fail.
2. Raw keys as compositions of mailbox, folder and id, to say which mails are
   `Alone`. By reading: IMAP folders of one inbox that differ in case, or in `:`
   against `_`, share keys wherever their UIDs agree, and Graph ids that differ in
   case do; nothing else that real mailboxes have collides.
3. A download step whose result may be a part of a mail.
4. `filter.Match`, once a handler calls it.
