--------------------------- MODULE SubscribeRepos ---------------------------
(***************************************************************************)
(* The PDS event stream: the sequencer that polls the repo_seq table, the  *)
(* outbox every subscribeRepos connection owns, and the handler that picks *)
(* the outbox's cursor.                                                    *)
(*                                                                         *)
(* Rows are written straight to the table (sequencer.ts:164-170, also by   *)
(* other processes); the sequencer learns of them by polling, so its       *)
(* lastSeen lags the table.  An outbox serves old rows from the table and  *)
(* new ones from the sequencer's 'events', and the whole difficulty is the *)
(* moment it changes from one to the other (outbox.ts:25-33).              *)
(*                                                                         *)
(* Every await of the code is a boundary between two actions here.  A row  *)
(* is represented by its seq; what the rows carry is left out, except the  *)
(* account a row belongs to, which deleteAllForUser selects by.            *)
(***************************************************************************)
EXTENDS Integers, Sequences, SequencesExt

CONSTANTS Dids,        \* accounts hosted by the PDS
          Subs,        \* subscribeRepos consumers, one connection each at a time
          PollLimit,   \* rows per poll                 (1000 in the code)
          PageSize,    \* PAGE_SIZE of getBackfill      (500)
          MaxBuffer,   \* maxBufferSize of the outbox   (500 by default)
          MaxSeq       \* bound: rows ever written to repo_seq

ASSUME PollLimitAssumption == PollLimit \in Nat \ {0}
ASSUME PageSizeAssumption  == PageSize \in Nat \ {0}
ASSUME MaxBufferAssumption == MaxBuffer \in Nat \ {0}

VARIABLES
  log,          \* every row ever inserted; log[q] is the row with seq q
  gone,         \* seqs of rows that were deleted
  purges,       \* account events of deletions that have yet to delete the rest
  horizon,      \* first seq that is not older than the backfill window
  seqLastSeen,  \* Sequencer.lastSeen
  polled,       \* rows a poll has read and not emitted yet
  phase,        \* phase[s]: where the handler of s's connection stands
  cursor,       \* cursor[s]: backfillCursor of its outbox
  lastSeen,     \* lastSeen[s]: Outbox.lastSeen, -1 until a row is yielded
  rows,         \* rows[s]: result of its last table request not yet used
  cutoverBuffer,\* cutoverBuffer[s]
  outBuffer,    \* outBuffer[s]
  pos,          \* pos[s]: last row the consumer knows (history)
  got           \* got[s]: rows it received on this connection (history)

table == <<log, gone, purges, horizon>>
seqr  == <<seqLastSeen, polled>>
conn  == <<phase, cursor, lastSeen, rows, cutoverBuffer, outBuffer, pos, got>>
vars  == <<table, seqr, conn>>

(***************************************************************************)
(*   closed       no connection                                            *)
(*   rejected     answered FutureCursor, socket not closed yet             *)
(*   outdated     sent OutdatedCursor, looking for the start of the window *)
(*   backfill     getBackfill is about to request a page                   *)
(*   page         getBackfill is yielding a page                           *)
(*   register     about to listen to the sequencer, with a cursor          *)
(*   registerLive the same, without one                                    *)
(*   cutover      listening; cutover() has issued its request              *)
(*   merge        cutover()'s request has been answered                    *)
(*   streaming    caughtUp                                                 *)
(*   tooSlow      answered ConsumerTooSlow, socket not closed yet          *)
(***************************************************************************)
Listening == {"cutover", "merge", "streaming", "tooSlow"}
CaughtUp  == {"streaming", "tooSlow"}
Phases    == {"closed", "rejected", "outdated", "backfill", "page",
              "register", "registerLive"} \cup Listening

\* late: written while a deletion of its account was under way (history)
Row == [did : Dids, late : BOOLEAN]

Alive == (1..Len(log)) \ gone

(***************************************************************************)
(* c is Sequencer.curr() ?? 0: the newest surviving row                    *)
(***************************************************************************)
IsCurr(c) == \/ c = 0 /\ Alive = {}
             \/ c \in Alive /\ \A r \in Alive : r <= c

(***************************************************************************)
(* r answers requestSeqRange({earliestSeq: c, limit: k}): the first k      *)
(* surviving rows after c in order of seq, or all of them if there are     *)
(* fewer.  NoLimit stands for an absent limit.                             *)
(***************************************************************************)
NoLimit == -1

Answers(r, c, k) ==
  /\ r \in Seq(Alive)
  /\ \A i \in 1..Len(r) : r[i] > c
  /\ \A i, j \in 1..Len(r) : i < j => r[i] < r[j]
  /\ \A q \in Alive : \A i \in 1..Len(r) :
        c < q /\ q <= r[i] => \E j \in 1..i : r[j] = q
  /\ k # NoLimit => Len(r) <= k
  /\ k = NoLimit \/ Len(r) < k =>
        \A q \in Alive : c < q => \E j \in 1..Len(r) : r[j] = q

\* the ascending sequences of seqs: what a request can return
Results == {SetToSortSeq(S, <) : S \in SUBSET (1..MaxSeq)}

-----------------------------------------------------------------------------
Init ==
  /\ log = <<>>
  /\ gone = {}
  /\ purges = {}
  /\ horizon = 1
  /\ seqLastSeen = 0
  /\ polled = <<>>
  /\ phase = [s \in Subs |-> "closed"]
  /\ cursor = [s \in Subs |-> 0]
  /\ lastSeen = [s \in Subs |-> -1]
  /\ rows = [s \in Subs |-> <<>>]
  /\ cutoverBuffer = [s \in Subs |-> <<>>]
  /\ outBuffer = [s \in Subs |-> <<>>]
  /\ pos = [s \in Subs |-> 0]
  /\ got = [s \in Subs |-> {}]

-----------------------------------------------------------------------------
(* The table                                                               *)

\* insertInto('repo_seq')
Insert(d) ==
  /\ Len(log) < MaxSeq
  /\ log' = Append(log, [did |-> d, late |-> \E k \in purges : log[k].did = d])

(***************************************************************************)
(* sequenceEvt: one INSERT.  seq is AUTOINCREMENT, so a number is never    *)
(* used twice even if its row is deleted.  A write that was under way when *)
(* its account was deleted is sequenced all the same.                      *)
(***************************************************************************)
SequenceEvt(d) ==
  /\ Insert(d)
  /\ UNCHANGED <<gone, purges, horizon, seqr, conn>>

(***************************************************************************)
(* deleteAccount, first database call: sequenceAccountEvt(did, 'deleted'). *)
(* An administrator's call looks at nothing before, and the account's own  *)
(* long before: deletions of one account may repeat and overlap.           *)
(***************************************************************************)
SequenceDeletion(d) ==
  /\ Insert(d)
  /\ purges' = purges \cup {Len(log) + 1}
  /\ UNCHANGED <<gone, horizon, seqr, conn>>

(***************************************************************************)
(* deleteAccount, second call: deleteAllForUser(did, [accountSeq]), which  *)
(* spares the account event of this deletion and of no other.              *)
(***************************************************************************)
DeleteAllForUserIgnoringExclusion(k) ==
  /\ k \in purges
  /\ gone' = gone \cup {q \in Alive : log[q].did = log[k].did}
  /\ purges' = purges \ {k}
  /\ UNCHANGED <<log, horizon, seqr, conn>>

DeleteAllForUser(k) ==
  /\ k \in purges
  /\ gone' = gone \cup {q \in Alive : log[q].did = log[k].did /\ q # k}
  /\ purges' = purges \ {k}
  /\ UNCHANGED <<log, horizon, seqr, conn>>

(***************************************************************************)
(* Time passes and a row drops out of the backfill window.                 *)
(***************************************************************************)
Age == /\ horizon <= Len(log)
       /\ horizon' = horizon + 1
       /\ UNCHANGED <<log, gone, purges, seqr, conn>>

-----------------------------------------------------------------------------
(* The sequencer                                                           *)

(***************************************************************************)
(* pollDb: the request after lastSeen.  An empty answer changes nothing    *)
(* but the wait before the next poll, as does a request that fails.        *)
(***************************************************************************)
PollDb ==
  /\ polled = <<>>
  /\ \E r \in Results :
        /\ Answers(r, seqLastSeen, PollLimit)
        /\ r # <<>>
        /\ polled' = r
  /\ UNCHANGED <<table, seqLastSeen, conn>>

(***************************************************************************)
(* pollDb: emit('events') runs every outbox's addToBuffer, then lastSeen   *)
(* moves to the last row of the batch.                                     *)
(***************************************************************************)
EmitPastBatch ==
  /\ polled # <<>>
  /\ outBuffer' = [s \in Subs |-> IF phase[s] \in CaughtUp
                                  THEN outBuffer[s] \o polled ELSE outBuffer[s]]
  /\ cutoverBuffer' = [s \in Subs |-> IF phase[s] \in Listening \ CaughtUp
                                      THEN cutoverBuffer[s] \o polled
                                      ELSE cutoverBuffer[s]]
  /\ seqLastSeen' = Last(polled) + 1
  /\ polled' = <<>>
  /\ UNCHANGED <<table, phase, cursor, lastSeen, rows, pos, got>>

EmitDroppingCutover ==
  /\ polled # <<>>
  /\ outBuffer' = [s \in Subs |-> IF phase[s] \in CaughtUp
                                  THEN outBuffer[s] \o polled ELSE outBuffer[s]]
  /\ seqLastSeen' = Last(polled)
  /\ polled' = <<>>
  /\ UNCHANGED <<table, phase, cursor, lastSeen, rows, cutoverBuffer, pos, got>>

Emit ==
  /\ polled # <<>>
  /\ outBuffer' = [s \in Subs |-> IF phase[s] \in CaughtUp
                                  THEN outBuffer[s] \o polled ELSE outBuffer[s]]
  /\ cutoverBuffer' = [s \in Subs |-> IF phase[s] \in Listening \ CaughtUp
                                      THEN cutoverBuffer[s] \o polled
                                      ELSE cutoverBuffer[s]]
  /\ seqLastSeen' = Last(polled)
  /\ polled' = <<>>
  /\ UNCHANGED <<table, phase, cursor, lastSeen, rows, pos, got>>

-----------------------------------------------------------------------------
(* One connection                                                          *)

Goto(s, p) == phase' = [phase EXCEPT ![s] = p]

\* what every new connection starts from: a new Outbox
NewOutbox(s) ==
  /\ lastSeen' = [lastSeen EXCEPT ![s] = -1]
  /\ rows' = [rows EXCEPT ![s] = <<>>]
  /\ cutoverBuffer' = [cutoverBuffer EXCEPT ![s] = <<>>]
  /\ outBuffer' = [outBuffer EXCEPT ![s] = <<>>]
  /\ got' = [got EXCEPT ![s] = {}]

\* earliestSeq: lastSeen > -1 ? lastSeen : backfillCursor
From(s) == IF lastSeen[s] > -1 THEN lastSeen[s] ELSE cursor[s]

\* the first surviving row after c is older than the backfill window
Outdated(c) ==
  \E q \in Alive : q > c /\ q < horizon /\ \A r \in Alive : r > c => q <= r

(***************************************************************************)
(* The handler of a request with a cursor: any seq the consumer received   *)
(* (a consumer that processes concurrently resumes from an older one).     *)
(***************************************************************************)
OpenAt(s, c) ==
  /\ phase[s] = "closed"
  /\ NewOutbox(s)
  /\ cursor' = [cursor EXCEPT ![s] = c]
  /\ \E curr \in 0..Len(log) :
        /\ IsCurr(curr)
        /\ \/ /\ c > curr
              /\ Goto(s, "rejected")
              /\ UNCHANGED pos
           \/ /\ c <= curr
              /\ Outdated(c)
              /\ Goto(s, "outdated")
              /\ UNCHANGED pos
           \/ /\ c <= curr
              /\ ~Outdated(c)
              /\ Goto(s, "backfill")
              /\ pos' = [pos EXCEPT ![s] = c]
  /\ UNCHANGED <<table, seqr>>

(***************************************************************************)
(* A request without a cursor.                                             *)
(***************************************************************************)
OpenLive(s) ==
  /\ phase[s] = "closed"
  /\ NewOutbox(s)
  /\ Goto(s, "registerLive")
  /\ UNCHANGED <<table, seqr, cursor, pos>>

(***************************************************************************)
(* The cursor predates the window: start just before the earliest row      *)
(* inside it, or without a cursor if there is none.  Times are taken to    *)
(* grow with seq.                                                          *)
(***************************************************************************)
OpenOutdated(s) ==
  /\ phase[s] = "outdated"
  /\ \/ /\ \A q \in Alive : q < horizon
        /\ Goto(s, "registerLive")
        /\ UNCHANGED <<cursor, pos>>
     \/ \E q \in Alive :
           /\ q >= horizon
           /\ \A r \in Alive : r >= horizon => q <= r
           /\ Goto(s, "backfill")
           /\ cursor' = [cursor EXCEPT ![s] = q - 1]
           /\ pos' = [pos EXCEPT ![s] = q - 1]
  /\ UNCHANGED <<table, seqr, lastSeen, rows, cutoverBuffer, outBuffer, got>>

(***************************************************************************)
(* getBackfill: request a page.  On an empty one the loop ends, whichever  *)
(* of its two breaks is taken.                                             *)
(***************************************************************************)
BackfillRequest(s) ==
  /\ phase[s] = "backfill"
  /\ \E r \in Results :
        /\ Answers(r, From(s), PageSize)
        /\ rows' = [rows EXCEPT ![s] = r]
        /\ Goto(s, IF r = <<>> THEN "register" ELSE "page")
  /\ UNCHANGED <<table, seqr, cursor, lastSeen, cutoverBuffer, outBuffer, pos, got>>

\* the consumer receives row q
Receive(s, q) ==
  /\ lastSeen' = [lastSeen EXCEPT ![s] = q]
  /\ pos' = [pos EXCEPT ![s] = q]
  /\ got' = [got EXCEPT ![s] = @ \cup {q}]

BackfillYield(s) ==
  /\ phase[s] = "page"
  /\ rows[s] # <<>>
  /\ Receive(s, Head(rows[s]))
  /\ rows' = [rows EXCEPT ![s] = Tail(@)]
  /\ UNCHANGED <<table, seqr, phase, cursor, cutoverBuffer, outBuffer>>

(***************************************************************************)
(* End of a page: within half a page of the sequencer the outbox switches  *)
(* to cutover, otherwise it asks for another page.                         *)
(***************************************************************************)
BackfillPageEnd(s) ==
  /\ phase[s] = "page"
  /\ rows[s] = <<>>
  /\ Goto(s, IF 2 * (seqLastSeen - lastSeen[s]) < PageSize
             THEN "register" ELSE "backfill")
  /\ UNCHANGED <<table, seqr, cursor, lastSeen, rows, cutoverBuffer, outBuffer, pos, got>>

(***************************************************************************)
(* sequencer.on('events', addToBuffer), and cutover() is called.  Without  *)
(* a cursor the outbox is caught up at once.                               *)
(***************************************************************************)
Register(s) ==
  \/ /\ phase[s] = "register"
     /\ Goto(s, "cutover")
     /\ UNCHANGED <<table, seqr, cursor, lastSeen, rows, cutoverBuffer, outBuffer, pos, got>>
  \/ /\ phase[s] = "registerLive"
     /\ Goto(s, "streaming")
     \* history: such a consumer is owed what is emitted from now on
     /\ cursor' = [cursor EXCEPT ![s] = seqLastSeen]
     /\ pos' = [pos EXCEPT ![s] = seqLastSeen]
     /\ UNCHANGED <<table, seqr, lastSeen, rows, cutoverBuffer, outBuffer, got>>

(***************************************************************************)
(* cutover(): the request, without a limit ...                             *)
(***************************************************************************)
CutoverRequest(s) ==
  /\ phase[s] = "cutover"
  /\ \E r \in Results :
        /\ Answers(r, From(s), NoLimit)
        /\ rows' = [rows EXCEPT ![s] = r]
  /\ Goto(s, "merge")
  /\ UNCHANGED <<table, seqr, cursor, lastSeen, cutoverBuffer, outBuffer, pos, got>>

(***************************************************************************)
(* ... and its answer: the rows, then what was emitted meanwhile.          *)
(***************************************************************************)
CutoverMergeSwapped(s) ==
  /\ phase[s] = "merge"
  /\ outBuffer' = [outBuffer EXCEPT ![s] = @ \o cutoverBuffer[s] \o rows[s]]
  /\ cutoverBuffer' = [cutoverBuffer EXCEPT ![s] = <<>>]
  /\ rows' = [rows EXCEPT ![s] = <<>>]
  /\ Goto(s, "streaming")
  /\ UNCHANGED <<table, seqr, cursor, lastSeen, pos, got>>

CutoverMerge(s) ==
  /\ phase[s] = "merge"
  /\ outBuffer' = [outBuffer EXCEPT ![s] = @ \o rows[s] \o cutoverBuffer[s]]
  /\ cutoverBuffer' = [cutoverBuffer EXCEPT ![s] = <<>>]
  /\ rows' = [rows EXCEPT ![s] = <<>>]
  /\ Goto(s, "streaming")
  /\ UNCHANGED <<table, seqr, cursor, lastSeen, pos, got>>

(***************************************************************************)
(* The consumer pulls: AsyncBuffer.events() refuses an overfull buffer,    *)
(* otherwise hands out the first row, which is yielded unless the outbox   *)
(* has already yielded that far.                                           *)
(***************************************************************************)
PullWithoutDedupe(s) ==
  /\ phase[s] = "streaming"
  /\ outBuffer[s] # <<>>
  /\ Len(outBuffer[s]) <= MaxBuffer
  /\ outBuffer' = [outBuffer EXCEPT ![s] = Tail(@)]
  /\ Receive(s, Head(outBuffer[s]))
  /\ UNCHANGED <<table, seqr, phase, cursor, rows, cutoverBuffer>>

Pull(s) ==
  /\ phase[s] = "streaming"
  /\ outBuffer[s] # <<>>
  /\ Len(outBuffer[s]) <= MaxBuffer
  /\ outBuffer' = [outBuffer EXCEPT ![s] = Tail(@)]
  /\ \/ /\ Head(outBuffer[s]) > lastSeen[s]
        /\ Receive(s, Head(outBuffer[s]))
     \/ /\ Head(outBuffer[s]) <= lastSeen[s]
        /\ UNCHANGED <<lastSeen, pos, got>>
  /\ UNCHANGED <<table, seqr, phase, cursor, rows, cutoverBuffer>>

PullTooSlow(s) ==
  /\ phase[s] = "streaming"
  /\ Len(outBuffer[s]) > MaxBuffer
  /\ Goto(s, "tooSlow")
  /\ UNCHANGED <<table, seqr, cursor, lastSeen, rows, cutoverBuffer, outBuffer, pos, got>>

(***************************************************************************)
(* The socket closes: the abort signal takes the listener off and the      *)
(* outbox is garbage.                                                      *)
(***************************************************************************)
Disconnect(s) ==
  /\ phase[s] # "closed"
  /\ Goto(s, "closed")
  /\ NewOutbox(s)
  /\ UNCHANGED <<table, seqr, cursor, pos>>

(***************************************************************************)
(* The PDS process dies and starts again (Sequencer.start).  Connections   *)
(* and half-done handlers are lost; the table survives.                    *)
(***************************************************************************)
Restart ==
  /\ \E c \in 0..Len(log) : IsCurr(c) /\ seqLastSeen' = c
  /\ polled' = <<>>
  /\ purges' = {}
  /\ phase' = [s \in Subs |-> "closed"]
  /\ lastSeen' = [s \in Subs |-> -1]
  /\ rows' = [s \in Subs |-> <<>>]
  /\ cutoverBuffer' = [s \in Subs |-> <<>>]
  /\ outBuffer' = [s \in Subs |-> <<>>]
  /\ got' = [s \in Subs |-> {}]
  /\ UNCHANGED <<log, gone, horizon, cursor, pos>>

-----------------------------------------------------------------------------
Serve(s) == \/ OpenOutdated(s)
            \/ BackfillRequest(s)
            \/ BackfillYield(s)
            \/ BackfillPageEnd(s)
            \/ Register(s)
            \/ CutoverRequest(s)
            \/ CutoverMerge(s)
            \/ Pull(s)
            \/ PullTooSlow(s)

Next == \/ \E d \in Dids : SequenceEvt(d) \/ SequenceDeletion(d)
        \/ \E k \in purges : DeleteAllForUser(k)
        \/ Age
        \/ PollDb
        \/ Emit
        \/ \E s \in Subs :
              \/ \E c \in 0..pos[s] : OpenAt(s, c)
              \/ OpenLive(s)
              \/ Serve(s)
              \/ Disconnect(s)
        \/ Restart

Spec == Init /\ [][Next]_vars

(***************************************************************************)
(* The poll loop reschedules itself for ever and the event loop runs every *)
(* continuation; a consumer that stays connected keeps pulling.  Nothing   *)
(* obliges rows to be written or consumers to come, go or stay.            *)
(***************************************************************************)
Fairness == /\ WF_vars(PollDb)
            /\ WF_vars(Emit)
            /\ \A s \in Subs : WF_vars(Serve(s))

FairSpec == Spec /\ Fairness

-----------------------------------------------------------------------------
(* Properties                                                              *)

TypeOK ==
  /\ log \in Seq(Row)
  /\ gone \subseteq 1..Len(log)
  /\ purges \subseteq 1..Len(log)
  /\ horizon \in Nat \ {0}
  /\ seqLastSeen \in 0..Len(log)
  /\ polled \in Seq(1..Len(log))
  /\ phase \in [Subs -> Phases]
  /\ cursor \in [Subs -> 0..Len(log)]
  /\ lastSeen \in [Subs -> -1..Len(log)]
  /\ rows \in [Subs -> Seq(1..Len(log))]
  /\ cutoverBuffer \in [Subs -> Seq(1..Len(log))]
  /\ outBuffer \in [Subs -> Seq(1..Len(log))]
  /\ pos \in [Subs -> 0..Len(log)]
  /\ got \in [Subs -> SUBSET (1..Len(log))]

(***************************************************************************)
(* No row is lost on a connection: everything between two rows a consumer  *)
(* received, and between its cursor and the last one, was received too or  *)
(* has been deleted.  The rows come from three sources (pages, the cutover *)
(* request, two buffers), and polls, inserts and deletions fall between    *)
(* any two of those reads.                                                 *)
(***************************************************************************)
NoGapOf(s) ==
  \A q \in 1..lastSeen[s] :
     q > cursor[s] \/ (\E g \in got[s] : g < q) => q \in got[s] \cup gone

NoGap == \A s \in Subs : NoGapOf(s)

(***************************************************************************)
(* A consumer that stays connected is sent every row after its cursor: as  *)
(* rows are written up to some last one (MaxSeq), it comes to be at or     *)
(* past every row that is not deleted, unless the connection ends.         *)
(***************************************************************************)
EveryRowArrives ==
  \A s \in Subs : []<>(\/ \A q \in 1..Len(log) : pos[s] >= q \/ q \in gone
                       \/ phase[s] \in {"closed", "rejected", "tooSlow"})

(***************************************************************************)
(* A consumer that resumes from a row it was sent is told that its cursor  *)
(* is in the future only when a row there, or behind it, was written while *)
(* a deletion of its account was between its two calls, and was purged -   *)
(* be that row a late write, or the account event of another deletion.     *)
(* Deletions one after the other never do it: each leaves its own event.   *)
(***************************************************************************)
HonestCursorAccepted == \A s \in Subs : phase[s] = "rejected" =>
  \E q \in gone : q >= cursor[s] /\ log[q].late

(***************************************************************************)
(* A consumer is only sent rows after the cursor it asked for.             *)
(***************************************************************************)
OnlyAfterCursor == \A s \in Subs : \A g \in got[s] : g > cursor[s]

-----------------------------------------------------------------------------
(***************************************************************************)
(* Why NoGap holds.  Buffer b continues a stream that stands at p if       *)
(* popping it never steps over a row outside g, the deleted ones, and      *)
(* reaches n if no other row up to n is missing from it.                   *)
(***************************************************************************)
Continues(g, b, p) ==
  \A i \in 1..Len(b) : \A q \in (p + 1)..b[i] :
     q \in g \/ \E j \in 1..i : b[j] = q

Reaches(g, b, p, n) ==
  \A q \in (p + 1)..n : q \in g \/ \E j \in 1..Len(b) : b[j] = q

Above(b, p) == \A i \in 1..Len(b) : b[i] > p

Ascending(b) == \A i, j \in 1..Len(b) : i < j => b[i] < b[j]

\* where the stream of s stands: a first row at or before the cursor moves it back
Base(s) == IF lastSeen[s] > -1 THEN lastSeen[s]
           ELSE IF outBuffer[s] # <<>> /\ outBuffer[s][1] <= cursor[s]
           THEN outBuffer[s][1] - 1
           ELSE cursor[s]

PollInv == Continues(gone, polled, seqLastSeen) /\ Above(polled, seqLastSeen)

\* nothing was yielded yet
IdleInv(s) ==
  phase[s] \in {"closed", "rejected", "outdated", "registerLive"} =>
     lastSeen[s] = -1 /\ outBuffer[s] = <<>> /\ cutoverBuffer[s] = <<>>

\* nothing was buffered yet
BackfillInv(s) ==
  phase[s] \in {"backfill", "page", "register"} =>
     outBuffer[s] = <<>> /\ cutoverBuffer[s] = <<>>

PageInv(s) ==
  phase[s] \in {"page", "merge"} =>
     /\ Continues(gone, rows[s], From(s))
     /\ Above(rows[s], From(s))
     /\ Ascending(rows[s])

\* b: where the sequencer stood when the outbox began to listen
CutoverInv(s) ==
  phase[s] \in {"cutover", "merge"} =>
     /\ outBuffer[s] = <<>>
     /\ \E b \in 0..seqLastSeen :
           /\ Above(cutoverBuffer[s], b)
           /\ Continues(gone, cutoverBuffer[s], b)
           /\ Reaches(gone, cutoverBuffer[s], b, seqLastSeen)
           /\ phase[s] = "merge" => Reaches(gone, rows[s], From(s), b)

StreamingInv(s) ==
  phase[s] = "streaming" =>
     /\ Continues(gone, outBuffer[s], Base(s))
     /\ Reaches(gone, outBuffer[s], Base(s), seqLastSeen)

GotInv(s) == \A g \in got[s] : g <= lastSeen[s]

(***************************************************************************)
(* The inductive invariant: what a connection has in its hands always      *)
(* continues its stream, and reaches as far as the sequencer has emitted.  *)
(***************************************************************************)
ConnInv(s) == /\ IdleInv(s)
              /\ BackfillInv(s)
              /\ PageInv(s)
              /\ CutoverInv(s)
              /\ StreamingInv(s)
              /\ GotInv(s)

StreamInv == PollInv /\ \A s \in Subs : ConnInv(s)

-----------------------------------------------------------------------------
(* The stream implements EventStream.                                      *)

Served == {"backfill", "page", "register", "cutover", "merge", "streaming"}

Opened == [s \in Subs |-> phase[s] \in Served]

Unsent == [s \in Subs |-> phase[s] \in Served => lastSeen[s] = -1]

ES == INSTANCE EventStream WITH len <- Len(log), open <- Opened, fresh <- Unsent

(***************************************************************************)
(* Every step of the sequencer and of a connection is a step of the        *)
(* abstract stream or invisible to it: rows reach a consumer in order,     *)
(* without gaps, and repeated only as EventStream!Resend allows.           *)
(***************************************************************************)
ImplementsEventStream == ES!Spec
=============================================================================
