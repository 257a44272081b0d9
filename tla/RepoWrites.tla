----------------------------- MODULE RepoWrites -----------------------------
(***************************************************************************)
(* The PDS's write path for one account: the handlers of applyWrites,      *)
(* createRecord, putRecord and deleteRecord, each request running on its   *)
(* own connection to the account's SQLite database and writing to three    *)
(* databases that share no transaction:                                    *)
(*                                                                         *)
(*   the actor store  (repo root, MST and record table), in a transaction  *)
(*   the sequencer    (repo_seq), before that transaction commits          *)
(*   the account store (repo_root, which listRepos reads), after it        *)
(*                                                                         *)
(* A transaction begins deferred: it reads a snapshot, takes the write     *)
(* lock with its first write - if nobody holds it and nothing committed    *)
(* since the snapshot - and is otherwise BUSY and run again from the start *)
(* by retrySqlite, for five seconds.                                       *)
(*                                                                         *)
(* Commits are named by their rev, a TID, of which only the order counts.  *)
(***************************************************************************)
EXTENDS Integers, Sequences, FiniteSets

CONSTANTS Reqs,      \* the handlers that may run at the same time
          Keys,      \* record keys, collection and all
          Vals,      \* records; two equal ones link to the same subject
          None,      \* no record
          NotGiven,  \* swapCommit or swapRecord was not given
          NoOne,
          MaxLog,    \* bound: events of the account
          MaxRev,    \* bound: revs; Cardinality(Reqs) * MaxLog are never exceeded
          MaxFaults  \* bound: crashes and failures of a database

ASSUME ValuesAssumption == None \notin Vals /\ NotGiven \notin Vals \cup {None} \cup Nat
ASSUME NoOneAssumption == NoOne \notin Reqs
ASSUME BoundsAssumption == MaxLog \in Nat /\ MaxRev \in Nat /\ MaxFaults \in Nat

VARIABLES
  head,        \* actor store: repo_root.rev
  tree,        \* actor store: the MST under head
  records,     \* actor store: the record table
  writer,      \* who holds the actor store's write lock
  log,         \* sequencer: the account's rows of repo_seq
  accountHead, \* account store: repo_root.rev
  pc,          \* per request: where its handler is
  op,          \* what it was asked
  txn,         \* the commit it has formatted
  commits,     \* revs that were committed, in order (history)
  faults

actorStore == <<head, tree, records, commits>>
vars == <<actorStore, writer, log, accountHead, pc, op, txn, faults>>

Contents == [Keys -> Vals \cup {None}]
Edits    == UNION {[S -> Vals \cup {None}] : S \in SUBSET Keys}

ApplyDropping(contents, edits) ==
  [k \in {k \in Keys : k \in DOMAIN edits => edits[k] # None} |->
     IF k \in DOMAIN edits THEN edits[k] ELSE contents[k]]

Apply(contents, edits) ==
  [k \in Keys |-> IF k \in DOMAIN edits THEN edits[k] ELSE contents[k]]

-----------------------------------------------------------------------------
(* What the four handlers ask for                                          *)

(***************************************************************************)
(* "edits" is what a request sets each of its records to, None to delete   *)
(* it; "present" are the records an applyWrites updates or deletes, as     *)
(* opposed to those it creates; "unique" is createRecord's validation.     *)
(***************************************************************************)
Request == [kind : {"applyWrites", "createRecord", "putRecord", "deleteRecord"},
            edits : Edits,
            present : SUBSET Keys,
            unique : BOOLEAN,
            swapCommit : Nat \cup {NotGiven},
            swapRecord : Vals \cup {None, NotGiven}]

\* clients send swaps that were right when they looked
SwapCommits   == {NotGiven, head}
SwapRecords(k) == {NotGiven, records[k]}

ApplyWritesRequests ==
  UNION {{[kind |-> "applyWrites", edits |-> e, present |-> p, unique |-> FALSE,
           swapCommit |-> c, swapRecord |-> NotGiven] :
             p \in {p \in SUBSET DOMAIN e : \A k \in DOMAIN e : e[k] = None => k \in p},
             c \in SwapCommits} : e \in Edits}

CreateRecordRequests ==
  UNION {{[kind |-> "createRecord", edits |-> [i \in {k} |-> v], present |-> {}, unique |-> u,
           swapCommit |-> c, swapRecord |-> NotGiven] :
             v \in Vals, u \in BOOLEAN, c \in SwapCommits} : k \in Keys}

PutRecordRequests ==
  UNION {{[kind |-> "putRecord", edits |-> [i \in {k} |-> v], present |-> {}, unique |-> FALSE,
           swapCommit |-> c, swapRecord |-> s] :
             v \in Vals, c \in SwapCommits, s \in SwapRecords(k)} : k \in Keys}

DeleteRecordRequests ==
  UNION {{[kind |-> "deleteRecord", edits |-> [i \in {k} |-> None], present |-> {k},
           unique |-> FALSE, swapCommit |-> c, swapRecord |-> s] :
             c \in SwapCommits, s \in SwapRecords(k) \ {None}} : k \in Keys}

Requests == ApplyWritesRequests \cup CreateRecordRequests
              \cup PutRecordRequests \cup DeleteRecordRequests

(***************************************************************************)
(* putRecord of what is there already and deleteRecord of what is not      *)
(* there succeed without a commit, whatever the swaps say.                 *)
(***************************************************************************)
NoOp(o, contents) ==
  /\ o.kind \in {"putRecord", "deleteRecord"}
  /\ \A k \in DOMAIN o.edits : contents[k] = o.edits[k]

(***************************************************************************)
(* createRecord with validation also deletes the records that link to the  *)
(* same subject.                                                           *)
(***************************************************************************)
Conflicts(o, contents) ==
  IF o.unique THEN {k \in Keys : \E i \in DOMAIN o.edits : contents[k] = o.edits[i]} ELSE {}

EditsOf(o, contents) ==
  [k \in DOMAIN o.edits \cup Conflicts(o, contents) |->
     IF k \in DOMAIN o.edits THEN o.edits[k] ELSE None]

(***************************************************************************)
(* formatCommit refuses a commit swap or a record swap that does not match *)
(* and MST.add, update and delete refuse to add what is there and to       *)
(* change what is not.                                                     *)
(***************************************************************************)
SwapMatches(o, contents, root) ==
  /\ o.swapCommit \in {NotGiven, root}
  /\ \A k \in DOMAIN o.edits : o.swapRecord \in {NotGiven, contents[k]}

WritesMatch(o, contents) ==
  /\ o.kind = "applyWrites" =>
       \A k \in DOMAIN o.edits : (contents[k] # None) <=> (k \in o.present)
  /\ o.kind = "createRecord" =>
       \A k \in DOMAIN o.edits : contents[k] # None => k \in Conflicts(o, contents)

Accepts(o, contents, root) == SwapMatches(o, contents, root) /\ WritesMatch(o, contents)

-----------------------------------------------------------------------------
(* The handlers                                                            *)

InFlight == {"formatted", "applied", "sequenced", "committed"}

Init ==
  /\ head = 0
  /\ tree = [k \in Keys |-> None]
  /\ records = [k \in Keys |-> None]
  /\ commits = <<0>>
  /\ writer = NoOne
  /\ log = <<>>
  /\ accountHead = 0
  /\ pc = [r \in Reqs |-> "idle"]
  /\ op = [r \in Reqs |-> None]
  /\ txn = [r \in Reqs |-> None]
  /\ faults = 0

Goto(r, l) == pc' = [pc EXCEPT ![r] = l]

Answer(r) == /\ Goto(r, "idle")
             /\ op' = [op EXCEPT ![r] = None]
             /\ txn' = [txn EXCEPT ![r] = None]

RunAgain(r) == /\ Goto(r, "begin")
               /\ txn' = [txn EXCEPT ![r] = None]
               /\ UNCHANGED op

\* events there are, or may still be from what is in flight
Events == Len(log) + Cardinality({r \in Reqs : pc[r] \in {"begin", "formatted", "applied"}})

Start(r) ==
  /\ pc[r] = "idle"
  /\ Events < MaxLog
  /\ \E o \in Requests : op' = [op EXCEPT ![r] = o]
  /\ Goto(r, "begin")
  /\ UNCHANGED <<actorStore, writer, log, accountHead, txn, faults>>

(***************************************************************************)
(* TID.nextStr(prev): a TID of its own, later than the TIDs of the commits *)
(* and events there are, as long as the clock of a restarted process is    *)
(* not behind.  Commits that are formatted and not sequenced may have any  *)
(* order among them, which is more than one process does.                  *)
(***************************************************************************)
SeenRevs == {head} \cup {log[i].rev : i \in 1..Len(log)}

IsNextRev(n) ==
  /\ \A m \in SeenRevs : n > m
  /\ \A r \in Reqs : pc[r] \in InFlight => n # txn[r].rev
  \* bound: room for one rev of each request is enough
  /\ \E m \in SeenRevs : n <= m + Cardinality(Reqs)

(***************************************************************************)
(* The transaction reads its snapshot: the answer may be that there is     *)
(* nothing to do, or an error, and otherwise a commit on top of the root.  *)
(***************************************************************************)
FormatUnchecked(r) ==
  /\ pc[r] = "begin"
  /\ LET o == op[r] IN
     \/ /\ NoOp(o, tree) \/ ~WritesMatch(o, tree)
        /\ Answer(r)
     \/ /\ ~NoOp(o, tree) /\ WritesMatch(o, tree)
        /\ \E n \in 1..MaxRev :
              /\ IsNextRev(n)
              /\ txn' = [txn EXCEPT ![r] = [rev |-> n, since |-> head,
                                            edits |-> EditsOf(o, tree),
                                            tree |-> Apply(tree, EditsOf(o, tree))]]
        /\ Goto(r, "formatted")
        /\ UNCHANGED op
  /\ UNCHANGED <<actorStore, writer, log, accountHead, faults>>

Format(r) ==
  /\ pc[r] = "begin"
  /\ LET o == op[r] IN
     \/ /\ NoOp(o, tree) \/ ~Accepts(o, tree, head)
        /\ Answer(r)
     \/ /\ ~NoOp(o, tree) /\ Accepts(o, tree, head)
        /\ \E n \in 1..MaxRev :
              /\ IsNextRev(n)
              /\ txn' = [txn EXCEPT ![r] = [rev |-> n, since |-> head,
                                            edits |-> EditsOf(o, tree),
                                            tree |-> Apply(tree, EditsOf(o, tree))]]
        /\ Goto(r, "formatted")
        /\ UNCHANGED op
  /\ UNCHANGED <<actorStore, writer, log, accountHead, faults>>

(***************************************************************************)
(* applyCommit, indexWrites: the first write takes the lock, which SQLite  *)
(* grants only to a snapshot that is still the newest.                     *)
(***************************************************************************)
MayWriteStale(r) == writer = NoOne

MayWrite(r) == writer = NoOne /\ txn[r].since = head

ApplyCommit(r) ==
  /\ pc[r] = "formatted"
  /\ MayWrite(r)
  /\ writer' = r
  /\ Goto(r, "applied")
  /\ UNCHANGED <<actorStore, log, accountHead, op, txn, faults>>

BusyRetrying(r) ==
  /\ pc[r] = "formatted"
  /\ ~MayWrite(r)
  /\ RunAgain(r)
  /\ UNCHANGED <<actorStore, writer, log, accountHead, faults>>

Busy(r) ==
  /\ pc[r] = "formatted"
  /\ ~MayWrite(r)
  /\ \/ RunAgain(r)   \* retrySqlite
     \/ Answer(r)     \* the five seconds are over
  /\ UNCHANGED <<actorStore, writer, log, accountHead, faults>>

(***************************************************************************)
(* A commit of more than 2MB is refused before it is applied, one with a   *)
(* blob that cannot be made permanent after.                               *)
(***************************************************************************)
Refuse(r) ==
  /\ \/ pc[r] = "formatted" /\ UNCHANGED writer
     \/ pc[r] = "applied" /\ writer' = NoOne
  /\ Answer(r)
  /\ UNCHANGED <<actorStore, log, accountHead, faults>>

(***************************************************************************)
(* sequenceCommit, in the sequencer's database.                            *)
(***************************************************************************)
SequenceSwallowed(r) ==
  /\ pc[r] = "applied"
  /\ \/ log' = Append(log, [rev |-> txn[r].rev, since |-> txn[r].since, edits |-> txn[r].edits])
     \/ UNCHANGED log
  /\ Goto(r, "sequenced")
  /\ UNCHANGED <<actorStore, writer, accountHead, op, txn, faults>>

Sequence(r) ==
  /\ pc[r] = "applied"
  /\ log' = Append(log, [rev |-> txn[r].rev, since |-> txn[r].since, edits |-> txn[r].edits])
  /\ Goto(r, "sequenced")
  /\ UNCHANGED <<actorStore, writer, accountHead, op, txn, faults>>

(***************************************************************************)
(* The transaction rolls back: its error is the client's answer, or BUSY   *)
(* (the sequencer's, when its own retries are used up) and it runs again.  *)
(***************************************************************************)
RollbackHolding(r) ==
  /\ UNCHANGED <<writer, actorStore, log, accountHead>>
  /\ RunAgain(r) \/ Answer(r)

Rollback(r) ==
  /\ writer' = NoOne
  /\ UNCHANGED <<actorStore, log, accountHead>>
  /\ RunAgain(r) \/ Answer(r)

SequenceFail(r) ==
  /\ pc[r] = "applied"
  /\ faults < MaxFaults
  /\ faults' = faults + 1
  /\ Rollback(r)

(***************************************************************************)
(* COMMIT of the actor store's transaction ...                             *)
(***************************************************************************)
CommitOrRetry(r) ==
  /\ pc[r] = "sequenced"
  /\ writer' = NoOne
  /\ \/ /\ RunAgain(r)
        /\ UNCHANGED actorStore
     \/ /\ head' = txn[r].rev
        /\ tree' = txn[r].tree
        /\ records' = Apply(records, txn[r].edits)
        /\ commits' = Append(commits, txn[r].rev)
        /\ Goto(r, "committed")
        /\ UNCHANGED <<op, txn>>
  /\ UNCHANGED <<log, accountHead, faults>>

Commit(r) ==
  /\ pc[r] = "sequenced"
  /\ head' = txn[r].rev
  /\ tree' = txn[r].tree
  /\ records' = Apply(records, txn[r].edits)
  /\ commits' = Append(commits, txn[r].rev)
  /\ writer' = NoOne
  /\ Goto(r, "committed")
  /\ UNCHANGED <<log, accountHead, op, txn, faults>>

(***************************************************************************)
(* ... which the disk may refuse: the event stays.                         *)
(***************************************************************************)
CommitFail(r) ==
  /\ pc[r] = "sequenced"
  /\ faults < MaxFaults
  /\ faults' = faults + 1
  /\ writer' = NoOne
  /\ Answer(r)
  /\ UNCHANGED <<actorStore, log, accountHead>>

(***************************************************************************)
(* accountManager.updateRepoRoot, whose errors are logged.                 *)
(***************************************************************************)
UpdateRepoRoot(r) ==
  /\ pc[r] = "committed"
  /\ accountHead' = txn[r].rev
  /\ Answer(r)
  /\ UNCHANGED <<actorStore, writer, log, faults>>

UpdateRepoRootFail(r) ==
  /\ pc[r] = "committed"
  /\ faults < MaxFaults
  /\ faults' = faults + 1
  /\ Answer(r)
  /\ UNCHANGED <<actorStore, writer, log, accountHead>>

(***************************************************************************)
(* The process ends and another one starts: SQLite rolls back what was     *)
(* not committed.                                                          *)
(***************************************************************************)
Crash ==
  /\ \E r \in Reqs : pc[r] # "idle"
  /\ faults < MaxFaults
  /\ faults' = faults + 1
  /\ writer' = NoOne
  /\ pc' = [r \in Reqs |-> "idle"]
  /\ op' = [r \in Reqs |-> None]
  /\ txn' = [r \in Reqs |-> None]
  /\ UNCHANGED <<actorStore, log, accountHead>>

Step(r) == \/ Format(r)
           \/ ApplyCommit(r)
           \/ Busy(r)
           \/ Refuse(r)
           \/ Sequence(r)
           \/ SequenceFail(r)
           \/ Commit(r)
           \/ CommitFail(r)
           \/ UpdateRepoRoot(r)
           \/ UpdateRepoRootFail(r)

Next == Crash \/ \E r \in Reqs : Start(r) \/ Step(r)

Spec == Init /\ [][Next]_vars

(***************************************************************************)
(* A handler that has begun goes on to its end, and does not retry for     *)
(* ever: getWaitMsSqlite ends it after five seconds of waiting.  Nothing   *)
(* obliges a client to send a request, or to stop sending them.            *)
(***************************************************************************)
GiveUp(r) == Busy(r) /\ Answer(r)

FairSpec == Spec /\ \A r \in Reqs : WF_vars(Step(r)) /\ SF_vars(GiveUp(r))

-----------------------------------------------------------------------------
(* Properties                                                              *)

Transaction == [rev : Nat, since : Nat, edits : Edits, tree : Contents]
Event       == [rev : Nat, since : Nat, edits : Edits]

TypeOK ==
  /\ head \in Nat /\ accountHead \in Nat
  /\ tree \in Contents /\ records \in Contents
  /\ writer \in Reqs \cup {NoOne}
  /\ log \in Seq(Event)
  /\ commits \in Seq(Nat)
  /\ pc \in [Reqs -> {"idle", "begin"} \cup InFlight]
  /\ op \in [Reqs -> Request \cup {None}]
  /\ txn \in [Reqs -> Transaction \cup {None}]
  /\ faults \in 0..MaxFaults

Committed(n) == \E i \in 1..Len(commits) : commits[i] = n

(***************************************************************************)
(* The event of every commit is in the sequencer, once, and the events are *)
(* in the order of the commits, whatever crashes and fails in between:     *)
(* a commit that consumers never hear of would leave them behind for good. *)
(***************************************************************************)
CommitsSequenced ==
  /\ \A i \in 2..Len(commits) : \E j \in 1..Len(log) : log[j].rev = commits[i]
  /\ \A j \in 1..Len(log) : \A i \in 1..(j - 1) :
        Committed(log[i].rev) /\ Committed(log[j].rev) => log[i].rev < log[j].rev

(***************************************************************************)
(* Each event's "since" is the commit that really was the root under it,   *)
(* the last committed one of the events before: a consumer that checks     *)
(* since against what it has notices each event that was never committed,  *)
(* and no event ever builds on one.                                        *)
(***************************************************************************)
Chained ==
  \A j \in 1..Len(log) :
     /\ Committed(log[j].since)
     /\ \A i \in 1..(j - 1) : Committed(log[i].rev) => log[i].rev <= log[j].since

(***************************************************************************)
(* Without a fault, an event is of a commit, or about to be: no retry of a *)
(* transaction sequences its commit twice.                                 *)
(***************************************************************************)
NoPhantom ==
  faults = 0 =>
    \A j \in 1..Len(log) :
       \/ Committed(log[j].rev)
       \/ \E r \in Reqs : pc[r] = "sequenced" /\ txn[r].rev = log[j].rev

(***************************************************************************)
(* The record table, which reads are served from and which is changed row  *)
(* by row, says what the signed tree says.                                 *)
(***************************************************************************)
IndexMatchesTree == records = tree

(***************************************************************************)
(* A commit takes effect as if its request had run alone on the repository *)
(* it commits to: its swaps match the commit and the record it replaces,   *)
(* its creates create, its conflicts are all deleted, and nothing another  *)
(* request wrote is lost.                                                  *)
(***************************************************************************)
Alone(r) == /\ Accepts(op[r], tree, head)
            /\ tree' = Apply(tree, EditsOf(op[r], tree))

Serialized ==
  [][head' # head => \E r \in Reqs : pc[r] = "sequenced" /\ Alone(r)]_vars

(***************************************************************************)
(* Every request is answered, however many others keep taking the lock and *)
(* whatever fails.                                                         *)
(***************************************************************************)
EveryRequestAnswered == \A r \in Reqs : pc[r] # "idle" ~> pc[r] = "idle"

(***************************************************************************)
(* The account does not stay locked: no request that is refused, fails or  *)
(* is killed between its first write and its commit keeps the lock.        *)
(***************************************************************************)
LockReleased == writer # NoOne ~> writer = NoOne
=============================================================================
