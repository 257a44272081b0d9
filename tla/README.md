# Verification of the PDS and its event path

TLA+ specifications of the parts of this repository that carry events from a
write on a personal data server (PDS) to the application that consumes it, and
of the state a PDS keeps for an account beside its repository (sessions,
status, blobs), of Creaton's communities and of its token votes, with the TLC
configurations that check them and TLAPS proofs of all their safety properties
and refinements. Paths below are relative to `src/packages/` unless they begin
with `src/`.

## 1. The system

The repository is a fork of the AT Protocol monorepo. Its own logic, as
opposed to schemas, codecs and generated clients, is in these parts.

| part | state it keeps | operations | talks to |
|---|---|---|---|
| PDS repository writes (`pds/src/api/com/atproto/repo`, `pds/src/actor-store`) | one SQLite database per account: signed tree (`repo_root`, `repo_block`), index (`record`, `backlink`) | applyWrites, createRecord, putRecord, deleteRecord, importRepo | sequencer (inside the transaction), account manager (after it) |
| PDS sequencer and outbox (`pds/src/sequencer`, `sync/subscribeRepos.ts`) | `repo_seq` table, `lastSeen` of the poller; per connection `lastSeen`, `cutoverBuffer`, `outBuffer` | insert, purge, poll and emit; backfill, cutover, stream | every writer; websocket consumers |
| Sync client (`sync`, `ws-client`, `xrpc-server/src/stream/subscription.ts`) | cursor, consecutive list, main queue, partition queues | connect, receive, handle, save the cursor, reconnect, destroy | a subscribeRepos server; the application's handler and cursor store |
| PDS blobs (`pds/src/actor-store/blob`, `pds/src/disk-blobstore.ts`, `pds/src/background.ts`) | tables `blob` and `record_blob` of the account's database; files in temporary and permanent storage and in quarantine; a queue in memory | upload, reference, make permanent, drop and delete, take down | repository writes (inside the transaction), background queue (after it) |
| PDS accounts and sessions (`pds/src/account-manager`, `pds/src/api/com/atproto/server`) | accounts, statuses, refresh tokens, listed repository roots | create, activate, deactivate, take down, delete; log in, refresh, revoke | sequencer, actor store, PLC directory |
| Creaton communities (`pds/src/api/app/creaton`) | details, list and list-item records in the service's own repository, which the first create makes | create, join, leave, getMembership | actor store, repository writes, sequencer |
| Tap client (`tap`, `ws-client`) | the websocket; acks under way and acks waiting to be sent | receive, ack, flush on reconnection, destroy | a tap server; the application's handler |
| Token vote appview (`token-vote-appview`) and its feed generator (`dev-env/src/token-vote-feed-gen.ts`) | votes and their weights in SQLite; sums of each subject in the feed generator's memory | handle a vote, seed, push, weigh every vote daily | tap, chain, feed generator |
| Forum appview | boards, epochs, reward snapshots | index events, publish rewards, keys | tap, chain, PDS |
| bsync, Ozone | operation log; moderation events, labels, pushes | append and scan; label stream, event pusher | Postgres, PDS, appview |
| Bluesky appview, OAuth, identity, lexicons, codecs, tooling | - | - | - |

`PROJECT.json` lists all of them with the files meant, modelled or not, and
the hazards of each at the line where it bites.

What is hard about the parts that are modelled:

- *Three sources, one stream.* An outbox serves old rows from the table and
  new ones from the sequencer, which lags the table; it changes from one to
  the other while rows are written, purged and emitted.
- *Two databases, one commit.* A commit's event is inserted in the sequencer's
  database inside the transaction on the account's database. There is no
  two-phase commit; order and retries have to do.
- *Optimistic transactions.* The transaction reads a snapshot and takes the
  write lock at its first write; several may be formatted on the same root.
- *Concurrent handlers, one cursor.* The client handles events of different
  accounts concurrently and has one number to resume from.
- *A generator that works when pulled.* The tap channel reconnects only while
  its consumer waits for the next event, and its handlers wait for acks that
  are sent on reconnection.
- *Tokens that are used twice.* A refresh token stays valid for a while after
  its rotation, and reads, tidying and rotation are separate database calls,
  between which logouts, password changes, takedowns and deletion fall.
- *A database and files.* Blobs are copied inside transactions and deleted
  after them; no transaction covers both, and a copy goes on when its
  transaction has failed.
- *Look, then write.* The community handlers look for a record in one database
  call and write in another; their record keys are cut from addresses and DIDs
  and may collide, and their lookups read a limited number of records.
- *Sums that travel.* The vote appview reads the sums of a subject and sends
  them later, from two loops; the receiver keeps what comes last, in memory.
- Crashes, reconnections and shutdown between any two of these steps.

What makes each part correct: a stream without holes or disorder; an event for
every commit, chained by `since`, and no event for nothing; serializable
writes; a cursor that never steps over an unhandled event; per-account order;
acks for what was handled and only that; sessions that do not fork and revoked
tokens that stay revoked; an announced status that is the actual one; a file
for every blob the database serves and none for the others; one list for each
community, and members in it who joined and did not leave; no vote that
outlives its record, and sums that catch up with the votes; locks, requests and
shutdowns that end.

## 2. Modules

    EventStream            what subscribeRepos promises, abstractly
      ^          ^
      |          |  INSTANCE: the client runs against the promise
      |          FirehoseRunner         the client and its runner
      |          FirehoseRunner_proofs
      |  refined by
    SubscribeRepos         the sequencer, the outboxes, the handler
    SubscribeRepos_proofs
    RepoWrites             concurrent writes to one account's repository
    RepoWrites_proofs
    TapDelivery            what a tap connection promises, abstractly
      ^  refined by
    TapChannel             acks, buffer, websocket, shutdown
    TapChannel_proofs
    AccountManager         sessions and status of one account
    AccountManager_proofs
    Blobs                  blob tables, blob files, background deletion
    Blobs_proofs
    Communities            create, join, leave and getMembership
    Communities_proofs
    TokenVotes             votes, weights and the feed generator's sums
    TokenVotes_proofs
    MC<module>             instances for TLC

`EventStream` joins the two halves of the path: `SubscribeRepos` implements it
and `FirehoseRunner` composes with it (its server actions are conjunctions of
EventStream's actions), so that what is shown of the client holds against the
real server as far as the refinement reaches. It is the promise and not code,
and has no entry in the map. `TapDelivery` is the same for the tap channel.

`RepoWrites`, `AccountManager` and `Blobs` are three views of one account of a
PDS. They meet the sequencer where `SubscribeRepos` writes rows
(`SequenceEvt`, `SequenceDeletion`), and `Blobs!Write` is the part of
`RepoWrites!ApplyCommit` that concerns blobs. `Communities` is four clients of
that machinery in one process. They are not composed: each takes of the others
what it needs as a nondeterministic or an atomic step.

### SubscribeRepos

Every `await` of `sequencer.ts`, `outbox.ts` and `subscribeRepos.ts` is a
boundary between two actions. A row is its seq plus its account.

| action | code |
|---|---|
| `SequenceEvt`, `SequenceDeletion` | `sequenceEvt` by any handler; the account event of a deletion (`deleteAccount.ts` of `admin` and of `server`), of which nothing says that it is the first or the only one |
| `DeleteAllForUser` | the call after it: everything else of the account goes, the account events of other deletions too |
| `Age` | time: a row leaves the backfill window |
| `PollDb`, `Emit` | the two halves of `pollDb`: the read, then `emit` with every listener and the move of `lastSeen` |
| `OpenAt`, `OpenLive`, `OpenOutdated` | the handler's choice of `outboxCursor` |
| `BackfillRequest`, `BackfillYield`, `BackfillPageEnd` | `getBackfill` and the loop around it |
| `Register`, `CutoverRequest`, `CutoverMerge` | the listener and `cutover()` |
| `Pull`, `PullTooSlow` | the streaming loop over `AsyncBuffer.events()` |
| `Disconnect`, `Restart` | the socket closes; the process starts anew (`Sequencer.start`) |

`phase[s]` is where the handler of connection `s` stands. `pos` and `got` are
history: the row the consumer stands at and what it was sent.
`next()` and `curr()` of the handler are one atomic read: they are issued
together and better-sqlite3 is synchronous. A failed poll changes nothing but
the wait and is a stutter. `invalidated` rows do not occur: nothing in the
repository's running code sets the column. Times are taken to grow with seq.
A consumer asks for a cursor it was sent, or an older one.

Deletions of one account overlap: the administrator's handler looks at nothing,
the account's own at the account and its e-mail token long before it sequences
anything, and neither uses the token up first. Each purge spares its own account
event only (`excludingSeqs`), so two of them delete each other's. A consumer may
then never be told of the deletion, and one that was told before the second
purge is refused with FutureCursor when it comes back. `late`, in a row, is
history: it was written while a deletion of its account was between its two
calls. `HonestCursorAccepted` says that nothing else has this effect; in
particular deletions one after the other leave the last account event.

### FirehoseRunner

| action | code |
|---|---|
| `LogRow`, `Purge` | the server, through `EventStream` |
| `GetParams`, `Connect` | `getParams` reads the cursor; the connection opens there, or anywhere without one |
| `Receive` | `trackEvent`: `consecutive.push` and `addTask` |
| `Finish` | the handler returns, `item.complete()`, the cursor moves, `setCursor` is called |
| `Save`, `SaveFail` | `setCursor` answers |
| `Disconnect`, `CloseCleanly` | an abnormal close is retried, a clean one ends `start()` |
| `Stop`, `Destroy` | `firehose.destroy()`, then `runner.destroy()` |
| `Restart` | the process ends anywhere and starts from what is stored |

`items` is what the runner was given in this process. That a task runs follows
from the queues: it is started when fewer than `Concurrency` earlier tasks hold
a slot of the main queue, and runs when its partition (concurrency 1) has no
earlier unfinished task. `FirstCursor` is `startCursor` for a service that has
stored nothing: `0`, or `NoCursor` for the README's example.

### RepoWrites

One account. `head`, `tree`, `records` are the root's rev, the signed tree and
the record table; a rev stands for the commit's CID, a value for a record's,
and a value also for the subject its record links to.

| action | code |
|---|---|
| `Start` | the handler up to the transaction, one request of the four kinds |
| `Format` | the no-op checks, `getBacklinkConflicts`, `formatCommit` with its swap checks and the tree's refusals |
| `ApplyCommit` | `applyCommit`, `indexWrites`: the first write takes the lock |
| `Busy` | SQLITE_BUSY or BUSY_SNAPSHOT: `retrySqlite` runs the callback again, or gives up |
| `Refuse` | over 2MB, before the first write; a blob that cannot be verified, after |
| `Sequence`, `SequenceFail` | `sequenceCommit` in the sequencer's database |
| `Commit`, `CommitFail` | COMMIT, or the disk refuses it |
| `UpdateRepoRoot`, `UpdateRepoRootFail` | the account store's root, errors logged |
| `Crash` | the process ends; SQLite rolls back |

Rules of SQLite in WAL mode (one writer; a snapshot that is no longer the
newest cannot be written on; an uncommitted transaction vanishes with its
process) are what the code relies on and are modelled by `MayWrite`, `writer`
and `Crash`. The transaction's own writes are visible to nobody before
`Commit`, which is where the model applies them.

Requests carry swaps that were right when the client looked at the repository
(or none); by the time they run they may be stale, which is the point.

### TapChannel

| action | code |
|---|---|
| `Publish`, `Send`, `AckArrives` | the tap server, which is external: it sends the first unacknowledged event of a repository, and may send it again |
| `Connect`, `Open`, `ConnectFails`, `Refused` | `WebSocketKeepAlive`'s generator: `new WebSocket`, `onReconnect`, `isReconnectable` |
| `Lose`, `Silence`, `Heartbeat`, `CloseCleanly`, `EndStart` | closes, a peer that is gone, `ws.terminate()`, the end of the loop |
| `Deliver`, `Handle`, `HandlerFails` | the generator yields; `processWsEvent` runs the handler |
| `Sent`, `SendFails`, `Acked` | `ackEvent`: the write, or `bufferAndSendAck`; the handler's await |
| `Flush`, `FlushFails` | `flushBufferedAcks` |
| `Destroy`, `Abort` | `destroy()`, and `start()` noticing it |
| `Restart` | the process ends and makes a new channel |

`awaits` tells handlers that await their ack (as `SimpleIndexer` and
`LexIndexer` do) from those that do not. An event that cannot be parsed is a
`HandlerFails`: it is logged and not acknowledged. What the model shows of the
code besides its properties:

- An abort that arrives while there is no stream is *missed*:
  `forwardSignal` aborts the controller of the next socket before anything
  listens to it, and `start()` goes on until that connection ends by itself.
  `DestroyReturns` names this exception.
- `destroy()` before `start()` is outside the model: `start()` then throws at
  its first line, and the deferred that `destroy()` waits for is never resolved.
- A write on a lost connection has failed before the generator opens the next
  one, so no ack is written twice by `Sent` and `Flush`.

### AccountManager

| action | code |
|---|---|
| `Login`, `CreateSession` | `createSession.ts`: the checks of `login()`, then `storeRefreshToken` |
| `Refresh`, `GetRefreshToken`, `DeleteExpired`, `Rotate` | `refreshSession.ts` and the steps of `rotateRefreshToken`, the last one its transaction; `ConcurrentRefreshError` goes back to the read |
| `DeleteSession`, `UpdateAccountPassword` | one token, or all of them, revoked |
| `UpdateSubjectStatus`, `TakedownAccount`, `SetDeactivated`, `GetAccountStatus`, `SequenceAccountEvt` | `updateSubjectStatus.ts`, call by call |
| `DeactivateAccount`, `ActivateAccount` | the same steps from their own handlers |
| `DeleteAccount`, `DeleteTokens`, `DeleteActor` | `deleteAccount.ts` and `helpers/account.ts`, table by table |
| `Tick`, `Fail` | time; a call throws or the process ends |

`rows` is the table `refresh_token`; `sess` in a row names the login a token
goes back to and is history. Expected behaviour of the code that the properties
leave room for, by name:

- `closed`: logging out with the newer of two tokens leaves the older one in
  its grace period; refreshing that one stores the revoked id again and, if its
  own row is tidied in between, the chain can fork.
- `raced`: status handlers that overlap may announce the older status last,
  because reading the status and sequencing it are two steps; a handler that
  fails in between announces nothing.
- A login whose password was checked before a takedown or a change of password
  stores its session after it.
- Somebody who revokes the same token for ever, each time it was granted again,
  can keep a refresh retrying for ever.

### Blobs

| action | code |
|---|---|
| `PutTemp`, `UploadBlob` | `uploadBlob.ts`: the file, then a transaction with `trackUntetheredBlob` and, if a record waits for the blob, `verifyBlobAndMakePermanent` |
| `Write` | `processWriteBlobs` of a commit: `deleteDereferencedBlobs`, then one task per referenced blob |
| `Verify`, `StartCopy`, `EndCopy`, `CopyFails`, `Tidy` | a task: the row, `makePermanent` (is it there, read, write, remove the temporary file), the row again |
| `Import` | `importRepo.ts`: `insertBlobs`, no look at blobs |
| `Commit`, `Rollback` | the end of the transaction and its hooks |
| `Takedown`, `Quarantine`, `Unquarantine` | `updateBlobTakedownStatus` |
| `DeleteBlob`, `DeleteBlobFails` | the task in the background queue: `deleteMany` |
| `Restart` | the process ends |

`jobs` are the tasks of the open transaction, `strays` those of transactions
that have failed: `Abort` cancels what has not reached the blob store and lets
the rest go on, as `AbortController` and `PQueue` do. `tag` tells the tasks of
one transaction from those of failed ones that do the same work; at most
`MaxTxns` have tasks at once. Begin and the first write are one step, as only one
transaction has the lock.

A file in permanent storage or in quarantine is `none`, `partial` (a task is
writing it), `torn` (what a copy left when the disk was full or the process
ended) or `whole`. A task that writes has the file open and stays with it:
`at` says where that file is now, "unlinked" if it was deleted or another one was
renamed onto it. So `EndCopy` completes the file of its own task wherever a
takedown has moved it, and no other one: a torn file stays torn, and what a
rename brings back from quarantine is what was put there. Of two tasks that
write one file either may have truncated it last (`Shared`), so it is taken to
be whole when the last one is done. The
properties name their exceptions, each a behaviour of the code:

- A torn file: nothing in the code tells it from a whole one. `hasStored`
  (`disk-blobstore.ts:86`) takes it for the blob in every later upload, and it
  is served. If it was taken down, and the blob dropped and uploaded again
  (which makes a whole file) and imported, lifting the takedown renames the torn
  file onto the whole one (line 118). `BlobsKept` says that what the database
  promises is a file that is whole, or torn in this way, or still being written
  by a task that runs; that every one of them is whole is false.
- `spoilt`: a deletion that was queued in an earlier life of a blob removes the
  file after the blob was uploaded and referenced again
  (`transactor.ts:227-241` knows blobs by cid only); a takedown whose COMMIT
  fails, or is cut off by a crash, has moved the file already.
- `leaked`: deletions that were queued when the process ended, or failed, are
  not made up for; neither are files a failed commit left behind, or a stray
  wrote after the blob was dropped.
- `imported`: a reference that an import added may have no row (the blob is
  missing, and `listMissingBlobs` says so) or a temporary one (the blob was
  uploaded before the import: it is neither served nor listed as missing). This
  is the hazard at `importRepo.ts:95`; `ReferencedArePermanent` is false of such
  references, and no other property is about them.

### Communities

| action | code (`api/app/creaton/community`) |
|---|---|
| `Create`, `ActorExists`, `CreateStore`, `WriteKey`, `Migrate` | `create.ts` up to the service's repository: `exists`, then `ActorStore.create` with its own look, the key file, the database file and its tables |
| `LookBeforeCreate`, `WriteCommunity` | `listRecordsForCollection` and `prepareCreate`; the transaction with `createRepo` or `processWrites` of details and list |
| `Join`, `GetMembership`, `Look`, `Check`, `Add` | the lookup of the community, `getRecord` of the item, the transaction that adds it |
| `Leave`, `CheckOwnItem`, `DeleteOwnItem` | `leave.ts`, in the requester's repository |
| `Answer`, `Fail` | `updateRepoRoot` and the response; a call throws or the process ends |
| `WriteOwn`, `Takedown` | other handlers: a user writes such an item himself, a moderator takes a record down or restores it |

A transaction with its event is one step here (`RepoWrites` has its inside, and
what `updateRepoRoot` may do), and the signing key is left out. `Listed` is what
a lookup sees: the newest `Limit` details records (100 in the code) that are not
taken down. Every read of the actor store is an action, so any request may fall
between a look and the write that trusts it. What the properties leave room
for, each a behaviour of the code:

- With more than 100 communities, or the details record taken down, a community
  is not found: it cannot be joined, and creating it again is refused by the
  tree, because its list has the record key already.
- Two DAOs whose addresses begin alike (8 hex digits) are one list: the second
  create fails for good.
- Two users whose DIDs end alike (as `did:web` of one domain do) are one item,
  as `join.ts:49` and `getMembership.ts:51` look for its key and not for its
  subject. The second is told that he joined, and that he is a member, and no
  item names him - against `join.json:7` ("Adds the requester to the
  community's member list") and `getMembership.json:30` ("Whether the user is a
  member of this community"). `AnswersHold` and `MembershipHolds` ask for an item
  that *names* the user (`Named`) and have this as their one exception
  (`Namesake`).
- A creation that ends between the database file and its tables leaves a store
  that exists and cannot be read: every later request fails. Two overlapping
  first creations may both write the key file.

### TokenVotes

| action | code (`token-vote-appview/src`) |
|---|---|
| `Publish`, `Remove` | voters; tap delivers a voter's events in order and at least once (`TapDelivery`) |
| `Receive`, `Refuse` | `processVote` up to its first write: signature, balance; the UNIQUE constraints |
| `Insert`, `Seed`, `SeedFails` | the vote, and its first weight, which is 0 |
| `ReadSums`, `UpdateWeight`, `UpdateWeightFails` | `pushWeightsToFeedGen` and the request of `FeedGenClient`, whose errors are swallowed |
| `DeleteVote`, `HandlerFails` | `deleteVote`; a handler that throws, so that tap sends the event again |
| `RunSnapshot`, `WeighVote`, `SkipVote` | `runSnapshot`: the votes as they were read, one after the other |
| `ReadPair`, `SendPair`, `SendPairFails`, `EndSnapshot` | `pushSubjectWeights` for each affected pair |
| `Restart`, `FeedGenRestart` | either service starts anew; the feed generator's map is in memory |

A weight is what it was made from: the vote it was computed for and whether it
is a seed, a snapshot's or the claim itself; the sum of a subject is the set of
its terms. Handler and snapshot share one process and a SQLite connection and
may alternate at every await (the ethers provider batches requests, so that one
answer can resume both). The handler of identity events
(`tap-consumer.ts:45-47`) only logs and is left out, and so is the deletion of a
voter's account, of which the consumer is told nothing else. The returned
handler and its ack are one step that may lose the ack. Two bounds: one snapshot at a time, and snapshots and seeds end
before the next midnight, so that the row just written is a vote's newest.
Behaviours of the code that the properties leave room for:

- A subject whose last vote is deleted keeps its sums in the feed generator:
  `deleteVote` pushes nothing, and the snapshot names subjects by their votes.
- An updated record is refused as a duplicate; weights outlive their vote and
  count for the next one under the same key until it is seeded.
- The claim of a vote counts in full if its seed failed, if the process ended
  before it (the redelivered vote is a duplicate), or if a snapshot reads the
  sums between insertion and seed. The comment at `vote-processor.ts:231` says
  that this should not happen; `FeedCatchesUp` says that it does not last.

## 3. Properties and runs

Safety and liveness runs name their properties in their `.cfg`. Deadlock
checking is off in all of them: the counters are bounded, and a destroyed
client, an idle server and a closed connection really do stop.

| run | instance | shows |
|---|---|---|
| `SubscribeRepos` | 1 account, 1 consumer, 3 rows, pages and polls of 2, buffer 3; 285k states | `NoGap`: no surviving row is missed between the cursor and the last row sent. `HonestCursorAccepted`: FutureCursor for a cursor that was sent only if a row there or behind it was written during a deletion of its account and purged. `ImplementsEventStream`: refinement. `EveryRowArrives`: a consumer that stays is again and again at every row there is |
| `SubscribeReposCursor` | 2 rows | refutes `OnlyAfterCursor`: finding 1 |
| `FirehoseRunnerSafety` | 2 accounts, 3 rows, 2 slots, 1 fault; 453k states | `NoEventDropped` for the runner's, the stored and the requested cursor; `InOrder`; `EventuallyHandled`; `DestroyReturnsUnlessDropped`: the only thing that can hold up `destroy()` is a task it dropped |
| `FirehoseRunnerDestroy` | 1 account, 2 slots | refutes `DestroyReturns`: finding 2 |
| `RepoWrites` | 2 writers, 2 keys, 2 events, 4 revs, 1 fault; 149k states | `CommitsSequenced`, `Chained`, `NoPhantom`, `IndexMatchesTree`, `Serialized`, `EveryRequestAnswered`, `LockReleased` |
| `TapChannelSafety` | 2 repositories, 2 events, 1 frame under way, 2 faults, both kinds of handlers; 488k states | `ImplementsTapDelivery`: at least once and in order per repository, acknowledged only when handled; `EventuallyAcked`, `LooseAcksResolve`, `DestroyReturns` |
| `TapChannelAck` | 1 event, 1 fault, a handler that awaits its ack | refutes `AcksResolve`: finding 3 |
| `AccountManager` | 2 requests at once, 3 tokens, clock to 2, grace 2, life 3, four workloads; 616k states | `SessionIsChain`, `NoComeback`, `GraceNotRenewed`, `AnnouncedIsCurrent`, `EveryRequestAnswered` |
| `Blobs` | 2 uploads, tasks of 3 transactions at once, 1 queued deletion, 1 fault, three scopes; 816k states | `BlobsKept`: what the database serves has its file, whole, being written, or torn by a fault; `ReferencedArePermanent`; `OrphansQueued`: files without a row are about to be deleted |
| `Communities` | 2 requests at once, 2 DAOs, 2 users, 2 pieces of each name, lookups of 1, 1 takedown; 440k states | `CommunitiesConsistent`: one details record and one list per community, items only in lists that exist; `AnswersHold`: who was told that he joined is named by an item; `MembershipHolds`: "yes" to whom an item names, "no" to no member; both but for DIDs that end alike |
| `CommunitiesLeave` | 1 of each | refutes `LeftIsNotMember`: finding 4 |
| `TokenVotes` | 2 voters with a record each, 1 subject, 2 votes, 1 fault; 255k states | `NoVoteOutlivesItsRecord`: an indexed vote has its record or its deletion to come; `FeedCatchesUp`: the feed generator comes to have the sums of the current votes, each with a weight of its own |

Bounds. Connections do not interact, they only read the table and the
sequencer, so one consumer at a time is enough; three rows with pages and
polls of two make a full page, a partial one, a batch that overlaps a page and
one that does not, and a buffer that overflows (3 rows plus their duplicates).
One account with three rows is deleted once, with a late row or none, or twice,
one deletion after the other or both at once;
rows of several accounts are in the proofs, which give every safety property
of `SubscribeRepos` and its refinement for any number of accounts and rows, so
that only `EveryRowArrives` rests on this instance. In `FirehoseRunner` two
accounts make handlers that finish out of order. Two slots and three rows give a queue with a running, a waiting
and a finished task. Two writers are every conflict there is on one lock; two
keys let createRecord's conflicts and swaps concern another record than the
one written. The proofs of section 5 hold for every bound.

For communities, which piece of a name each DAO and user has is chosen at the
start, so both kinds of collisions and their absence are in the run; a lookup of
one record makes a second community fall out of it, two TIDs are two creations
that got to their transaction, in every order. A behaviour uses leaving or
takedowns and not both.

For token votes two records are two terms of one sum; two votes are one of each
voter, or one that is deleted and written again while a snapshot or a push that
saw the first is still under way.

For the tap channel two events are two of one repository or one of each of two,
and two faults are a loss and what can go wrong while recovering from it. Two
concurrent requests are every race of two refreshes, or of a refresh and a
revocation; three ids are a login and two rotations, or two sessions, and the
clock can pass the end of a grace period and not that of a fresh token. Each
behaviour of `AccountManager` uses one of four sets of operations, and each of
`Blobs` one of three scopes (two records that share a blob, a record with two
blobs, a record whose blob is taken down and which may be imported), so that
the state space is their sum and not their product. Two uploads are a blob that
is uploaded again in each state the first one can be in. One fault tears a file,
or fails a transaction whose tasks go on; a task that is refused fails its
transaction without one.

Each property of a passing run comes with a fault in one definition
(`EmitDroppingCutover`, `FinishUnordered`, `MayWriteStale`, ...) that breaks it.

### Fairness

- SubscribeRepos: weak fairness of `PollDb`, `Emit` (the loop reschedules
  itself in every branch) and of each connection's `Serve` (the event loop runs
  continuations, and a consumer that stays pulls). None for writers, purges,
  connects, disconnects.
- FirehoseRunner: weak fairness of `GetParams`, `Connect` and `Receive`
  (backoff and reconnection loop), of each task (handlers and `setCursor`
  return) and of `Destroy` (shutdown goes on once begun).
- RepoWrites: weak fairness of each handler's step, and strong fairness of
  `GiveUp`: a request that loses the lock again and again is answered, because
  `getWaitMsSqlite` (`pds/src/db/util.ts:65-81`) ends it after five seconds.
  Nobody is obliged to send requests.
- TapChannel: weak fairness of the generator's steps (`Connect`, `Open`,
  `Deliver`, `EndStart`, `Abort`), of the handler, of the answers of writes, of
  flushing and of the heartbeat's timer; and of the server's sending again and
  receiving acks, which is what tap promises. Faults are bounded in number, so
  a connection holds in the end; nobody is obliged to publish or to destroy.
- AccountManager: weak fairness of each request's next database call.
- TokenVotes: weak fairness of the handler's and the snapshot's next step (cron
  fires), strong fairness of a delivery to each voter's handler, of weighing a
  given vote and of sending a given subject: what is tried again every day does
  not fail every day. Voters are not obliged to anything.
- Blobs, Communities: none, their properties are safety properties.

## 4. Findings

1. *A consumer is sent rows at or before its cursor* (`SubscribeReposCursor`).
   The outbox compares with the last row it yielded, never with the cursor
   (`outbox.ts:88`), and the poller may emit old rows late. The abstract stream
   names this liberty (`EventStream!Resend`): only the first row of a
   connection may repeat, and the stream is continuous from it.
2. *`runner.destroy()` may never return* (`FirehoseRunnerDestroy`): it drops
   tasks the main queue is waiting for.
3. *An awaited ack may wait for ever* (`TapChannelAck`): it is in the buffer
   until the channel reconnects, the channel reconnects when the generator is
   pulled, and the generator is pulled when the handler has its ack. The README
   of `tap` and the comment at `channel.ts:78` promise otherwise, and both
   indexers of the package await their acks.
4. *Leaving a community removes nobody* (`CommunitiesLeave`): `join` puts the
   item into the service's repository, `leave` looks for it and deletes it in
   the requester's. `leave.json` promises the removal "from the community's
   member list".

Without a start cursor `NoEventDropped` is false: `sync/README.md:56` says that
the runner's cursor "ensures that no events are dropped", in an example without
`startCursor`, but until the first event completes there is no cursor, and a
reconnection then starts at the live end (`memory-runner.ts:24`,
`firehose/index.ts:91-99`). Setting `FirstCursor = NoCursor` in
`FirehoseRunnerSafety.cfg` shows it. The head that `listRepos` shows
(`listRepos.json:43`: "Current repo commit CID") may stay behind: account roots
are written after the transactions, in any order (`helpers/repo.ts:10-23`;
`accountHead` of `RepoWrites` against its `head`, with no request under way).
The comment "Unique rkey" at `leave.ts:22`
is not true of users whose DIDs end alike, and neither are the answers of `join`
and `getMembership` to them what `join.json:7` and `getMembership.json:30` say
(section 2, Communities; dropping `Namesake` from `AnswersHold` or
`MembershipHolds` shows it in the run `Communities`).

## 5. Proofs

All proofs are checked by TLAPS with Z3, Zenon and, for temporal steps, LS4.
They assume what the modules' named ASSUMEs say: positive page, poll, buffer
and queue sizes, bounds in Nat, and constants that stand for "none" different
from values. TLC evaluates those on every run.

**SubscribeRepos_proofs.** `TypeCorrect`, `StreamsContinue`, `NothingLost`,
`HonestCursorsAccepted`, `Refinement`.
`NoGap` is not inductive: it says nothing about rows that are in a buffer.
`StreamInv` adds, per phase, that what the connection holds *continues* its
stream (popping it never steps over a surviving row) and *reaches* as far as
the sequencer has emitted. The interesting phase is the cutover: there is a
point `b`, where the sequencer stood when the outbox began to listen, such that
the buffer continues from `b` and the table request reaches `b`; concatenated,
they continue the stream whatever their overlap. The lemmas are about
`Continues` and `Reaches` under append, tail and growth of `gone`.
`HonestCursorsAccepted` has an invariant of its own, `PurgeInv`: what an
unfinished deletion will delete behind its own account event was written while
it was under way, and a row that was not, and is gone, was never the last one,
as the account event that took it lies behind it. A cursor beyond the newest
surviving row means that the newest row of all was purged, so that one is late.
Nothing is assumed of how many deletions there are or how they overlap.
`Refinement` maps the log to itself, a connection that is served to an open one
and what the consumer was sent to the abstract position. `PosInv` ties the two
together: a served connection's consumer stands at the row after which the
outbox goes on, or has been sent nothing. Each action is then one abstract step
or a stutter. Only `BackfillYield` and `Pull` send rows: a row at or before the
cursor, which can only be the first one, is a `Resend`, and every other one is a
`Send` that passes over purged rows only, by `Continues` of `StreamInv`.

**FirehoseRunner_proofs.** `TypeCorrect`, `RunnerInvariant`, `NothingDropped`,
`AccountsInOrder`, for `FirstCursor = 0`; without that assumption the theorem is
false (see the end of section 4). `RunnerInv` says of every tracked item that whatever is
missing before it was tracked before it. A consecutive run of completed items
then leaves nothing behind, which carries the cursor over `Finish`; the
position of the stream has the same property, which carries `Receive`.

**Communities_proofs.** `TypeCorrect`, `AlwaysConsistent`, `AnswersAlwaysHold`,
`MembershipAlwaysHolds`: all safety properties of the run, for any number of
requests, communities, members and any limit of a lookup. `TypeOK` needs that a
TID in a request is in no record and in no other request (`FreshTids`). The
answers rest on `Grow`: details, lists and items are never taken away, and an
item keeps its subject. So what a request has found or written (`Promised`)
stays true while others run; an item under a user's key, in its list by
`MembersListed`, names him or one whose DID ends like his, which is what is
left of an answer when only the key was looked at; and a
community that is not found is taken down or one of more than `Limit`
(`NotFound`, a count of the records that are newer).

**TokenVotes_proofs.** `TypeCorrect`, `NoVoteOutlives`. `NoVoteOutlivesItsRecord`
is kept by `Insert` only because of what is still to be delivered: `EventsInv`
says that a vote in an inbox is of a record that exists, or that the record's
deletion comes *behind* it. Handling the first event of a voter moves every
place down by one, and the only deletion that leaves is the one just done.
That the handler has the first event in its hands is part of `TypeOK`.

**RepoWrites_proofs.** `TypeCorrect`, `EveryCommitSequenced`, `EventsChained`,
`NoPhantomEvents`, `IndexAgrees`, `CommitsSerialized`. The inductive invariant
`IInv` says that whoever has written in its transaction holds the lock and
still stands on the head (`LockInv`), so no other commit comes between; that a
transaction on the current head holds what its request asks of the current
repository (`TxnInv`); that no rev in flight equals another or one already
logged (`RevsDiffer`); and that the event of the commit about to happen is the
last one (`LastInv`).

**TapChannel_proofs.** `TypeCorrect`, `AcksAndOrders`, `Refinement`. `TapInv`
has three parts. `AcksInv`: wherever an ack may be (in the handler's hands, in a
write under way, in the buffer, at the server), its event was handled.
`OrderInv`: what is on the wire or in the handler's hands is *settled*, that is,
everything before it in its repository is acknowledged and nothing behind it was
handled; a reordering would need two events of one repository under way, and
the server sends the second one only after the first one's ack. `FlushInv`: a
flush has something to write. With it every action is a step of `TapDelivery`
or a stutter: `Handle` is the abstract delivery, `AckArrives` the abstract
acknowledgement, faults and reconnections change nothing that was promised.

**AccountManager_proofs.** `TypeCorrect`, `SessionsAreChains`,
`NoTokenComesBack`, `GraceIsNotRenewed`, `AnnouncedStatusIsCurrent`.
`SessionIsChain` says nothing of a request between its read and its transaction.
`SessInv` adds `RowsInv` (a rotated token has at most a grace period left, and a
younger successor) and `HandsInv`: what a request holds of a token is what the
table has of it, or may become. Two requests that promised the same successor
set the same end, and a token whose successor is known to a request has that
one in the table. So `Rotate` either stores the first successor or stores again
what is there; the two action properties follow from the same invariant. For
the status, `AnnounceInv` says that what a handler is about to announce is the
actual status unless `raced`.

**Blobs_proofs.** `TypeCorrect`, `ReferencesArePermanent`, `OrphansAreQueued`,
`BlobsAreKept`. That an upload's temporary file is there, a part of `TypeOK`,
already needs to know who has the key: `StepInv` says that a temporary key is of
one blob, that an upload's key is nobody else's, and that tasks work on rows
their transaction sees. `ReferencedArePermanent` is inductive once it is said of
the transaction's view, where a task may still be at work (`RefsInv`); COMMIT
waits for the tasks. Two more
invariants carry `BlobsKept`. `HalfInv`: a file that is partial, in permanent
storage or in quarantine, has a task that is writing it. It needs nothing else,
and is about every step that moves files or tasks: a rename takes the writers
with the file, and a writer that ends leaves a file that is not partial unless
another one shares it. `FilesInv`: rows of the table and of the view each have
a file (`TableFiles`, `ViewFiles`), because a rollback goes back to one and
COMMIT goes on to the other; and a task removes a temporary file only when the
permanent one is there (`TaskFiles`), also when its transaction failed long ago.

Only model-checked: the liveness properties `EveryRowArrives`,
`EventuallyHandled`, `DestroyReturnsUnlessDropped`, `EveryRequestAnswered` (of
`RepoWrites` and `AccountManager`), `LockReleased`, `EventuallyAcked`,
`LooseAcksResolve`, `DestroyReturns` and `FeedCatchesUp`. They rest on fairness,
and so on ENABLED, which the prover does not handle. Every other property of a
passing run - type invariants, safety invariants, action properties and both
refinements - is a theorem.

## 6. Not modelled

Contents of rows, records, blocks and blobs, signatures and their
verification; the database's own failures inside the outbox; the commit of
`importRepo`; app passwords and OAuth sessions; `createAccount`; the S3 blob
store; authorisation and rate limits; `Sequencer.destroy`; the firehose path
without a runner. The forum appview's reward snapshots were left out after a
look at what reaches them: its `TapConsumer` keeps a list of the collections it
indexes (`forum-appview/src/indexer/tap-consumer.ts:4-11`) which does not have the
wallet records the snapshots read, so that in this commit they find no wallets
and compute nothing. Most of the repository's lines are lexicons, generated
clients and protocol buffers, and views and indexers over Postgres: data
without control. The other parts of section 1, with reasons, are in
`PROJECT.json`.

## 7. Plan

Theorems to add:

1. `FirehoseRunner`: what `EventStream` promises of a connection, as lemmas
   about that module's actions alone, so that the client's proof cites the
   promise; and what `NoEventDropped` becomes for a client without a start
   cursor, once it has a cursor.
2. `TapChannel`, `FirehoseRunner`: the invariants behind the liveness properties
   (who is waited for by whom, with no cycle when handlers do not await acks),
   of which fairness then is the rest of the argument.

Then `LabelSequencer` / `ScanOperations` (serial ids, commit order and the
cursor of a reader, for Ozone and bsync); TIDs, tree layers and reward
allocation against reference definitions; failing requests in the outbox, and
`importRepo` in `RepoWrites`. The runs are as many as can be checked quickly
together, so a new module takes the place of two small runs of others.
