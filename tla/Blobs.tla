-------------------------------- MODULE Blobs --------------------------------
(***************************************************************************)
(* The blobs of one account of a PDS: the tables blob and record_blob of   *)
(* its SQLite database, and the files of its blob store (DiskBlobStore).   *)
(*                                                                         *)
(* An upload goes to temporary storage; the transaction that writes a      *)
(* record copies the blobs it refers to into permanent storage, all of     *)
(* them at once; blobs that no record refers to any more are deleted by a  *)
(* background queue after the commit.  Nothing ties the files to the       *)
(* database: a transaction that fails leaves its copies running, a process *)
(* that ends loses the queue, a deletion may run when the blob is back.    *)
(*                                                                         *)
(* A transaction is taken to begin at its first write: only one has the    *)
(* lock, and one that read an older state is retried (see RepoWrites).     *)
(***************************************************************************)
EXTENDS Integers, FiniteSets

CONSTANTS Cids, Records,
          None,      \* the record of an upload's job, and no blob
          Scopes,    \* bound: the cids, records and operations of a behaviour
          MaxKeys,   \* bound: uploads
          MaxPending,\* bound: queued deletions of one blob
          MaxTxns,   \* bound: transactions whose tasks run at once
          MaxFaults  \* bound: failures and restarts

ASSUME BoundsAssumption == {MaxKeys, MaxPending, MaxTxns, MaxFaults} \subseteq Nat
ASSUME NoneAssumption == None \notin Records \cup Cids
ASSUME ScopesAssumption ==
  Scopes \subseteq [cids : SUBSET Cids, records : SUBSET Records,
                   ops : SUBSET {"importRepo", "takedown"}]

VARIABLES
  blob,        \* the table blob: cid -> [tempKey, down]
  record,      \* the records there are
  recordBlob,  \* the table record_blob: <<record, cid>>
  txn,         \* the transaction that holds the lock
  jobs,        \* its tasks: associateBlob and verifyBlobAndMakePermanent
  strays,      \* tasks of transactions that have failed
  keys,        \* temporary keys given out: 1..keys
  temp,        \* files in temporary storage
  stored,      \* files in permanent storage: none, partial (being written), torn
  quarantine,  \* (what an interrupted copy left) or whole; those taken down
  uploads,     \* uploads that are in temporary storage only
  pending,     \* deletions in the background queue
  imported,    \* rows of record_blob that an import added (history)
  spoilt,      \* blobs whose file met one of the hazards below (history)
  leaked,      \* files whose deletion was lost (history)
  scope,       \* one of Scopes
  faults

tables == <<blob, record, recordBlob, imported>>
work == <<txn, jobs, strays>>
files == <<temp, stored, quarantine>>
requests == <<keys, uploads>>
history == <<scope, spoilt, leaked>>
vars == <<tables, work, files, requests, pending, history, faults>>

NoKey == 0   \* tempKey of a permanent blob: null

NoTxn == [at |-> "none"]

Fault == faults < MaxFaults /\ faults' = faults + 1

Init ==
  /\ blob = <<>> /\ record = {} /\ recordBlob = {} /\ imported = {}
  /\ txn = NoTxn /\ jobs = {} /\ strays = {}
  /\ keys = 0 /\ uploads = {}
  /\ temp = {}
  /\ stored = [c \in Cids |-> "none"] /\ quarantine = [c \in Cids |-> "none"]
  /\ pending = [c \in Cids |-> 0]
  /\ scope \in Scopes
  /\ spoilt = {} /\ leaked = {}
  /\ faults = 0

With(table, c, row) == [d \in DOMAIN table \cup {c} |-> IF d = c THEN row ELSE table[d]]

Only(table, cs) == [d \in DOMAIN table \cap cs |-> table[d]]

\* what the clause takedownRef is null, or is not null, finds
Usable(table, c) == c \in DOMAIN table /\ ~table[c].down
TakenDown(table, c) == c \in DOMAIN table /\ table[c].down

\* blobs with a permanent file and without a row
Orphans == {c \in Cids : stored[c] # "none"} \ DOMAIN blob

-----------------------------------------------------------------------------
(* Transactions                                                            *)

Unlocked == txn.at = "none"

View(table, recs, refs, imps) ==
  [blob |-> table, record |-> recs, refs |-> refs, imported |-> imps]

\* the tables, but for that of blobs
Seeing(table) == View(table, record, recordBlob, imported)

\* what the transaction sees, and nobody else before it commits
Begin(step, view, drop, about) ==
  txn' = [at |-> step, view |-> view, drop |-> drop, about |-> about]

(***************************************************************************)
(* The tasks of a transaction.  tag tells them from those of failed ones.  *)
(* One that writes a file stays with it when the file is renamed: at is    *)
(* then where the file is, or "unlinked" if it has no name any more.       *)
(***************************************************************************)
Tasks(pairs, tag) ==
  {[tag |-> tag, rec |-> p[1], cid |-> p[2], key |-> NoKey, at |-> "verify"] : p \in pairs}

Writing == {"stored", "quarantine", "unlinked"}

Tags == {j.tag : j \in strays}

\* jobs are the tasks of a transaction that begins: the least tag is theirs
Launch(pairs) == \E tag \in 1..MaxTxns : /\ tag \notin Tags /\ 1..(tag - 1) \subseteq Tags
                                         /\ jobs' = Tasks(pairs, tag)

\* uploadBlobAndGetMetadata: putTemp
PutTemp(c) == /\ keys < MaxKeys
              /\ keys' = keys + 1
              /\ temp' = temp \cup {keys'}
              /\ uploads' = uploads \cup {[key |-> keys', cid |-> c]}
              /\ UNCHANGED <<tables, work, stored, quarantine, pending, history, faults>>

\* the upsert of trackUntetheredBlob: a permanent blob stays as it is
Tracked(u) == LET c == u.cid IN
  IF c \in DOMAIN blob /\ blob[c].tempKey = NoKey THEN blob
  ELSE With(blob, c, [tempKey |-> u.key, down |-> FALSE])

(***************************************************************************)
(* The transaction of uploadBlob, which an import may have made wait for   *)
(* this blob.  A blob that is taken down is refused.                       *)
(***************************************************************************)
UploadBlob(u) ==
  /\ Unlocked /\ u \in uploads
  /\ uploads' = uploads \ {u}
  /\ \/ TakenDown(blob, u.cid) /\ UNCHANGED <<txn, jobs>>
     \/ /\ ~TakenDown(blob, u.cid)
        /\ Begin("blobs", Seeing(Tracked(u)), {}, None)
        /\ Launch({None} \X ({p[2] : p \in recordBlob} \cap {u.cid}))
  /\ UNCHANGED <<tables, strays, files, keys, pending, history, faults>>

\* a commit that drops some blobs
WriteDropping(new, gone, drop) ==
  LET removed == {p \in recordBlob : p[1] \in DOMAIN new \cap record}
      fresh == {p \in (DOMAIN new) \X Cids : p[2] \in new[p[1]]}
  IN /\ Unlocked /\ \A c \in drop : pending[c] < MaxPending
     /\ Begin("blobs", View(Only(blob, Cids \ drop), (record \cup DOMAIN new) \ gone,
                            (recordBlob \ removed) \cup fresh, imported \ removed), drop, None)
     /\ Launch(fresh)
     /\ UNCHANGED <<tables, strays, files, requests, pending, history, faults>>

\* the blobs of records that are updated or deleted, and of those that stay
Dereferenced(new) == {p[2] : p \in {q \in recordBlob : q[1] \in DOMAIN new \cap record}}

Duplicates(new) == {p[2] : p \in {q \in recordBlob : q[1] \notin DOMAIN new \cap record}}

NewBlobs(new) == UNION {new[r] : r \in DOMAIN new}

WriteForgetful(new, gone) ==
  WriteDropping(new, gone, Dereferenced(new) \ NewBlobs(new))

(***************************************************************************)
(* processWriteBlobs of a commit that deletes the records of gone, and     *)
(* creates or updates the others of DOMAIN new.  deleteDereferencedBlobs   *)
(* comes first; it does not look at what a created record may have had.    *)
(***************************************************************************)
Write(new, gone) ==
  WriteDropping(new, gone, Dereferenced(new) \ (Duplicates(new) \cup NewBlobs(new)))

\* importRepo adds rows to record_blob, removes none and looks at no blob
Import(r, cs) ==
  /\ "importRepo" \in scope.ops /\ Unlocked
  /\ \/ /\ record' = record \cup {r}
        /\ recordBlob' = recordBlob \cup ({r} \X cs)
        /\ imported' = imported \cup (({r} \X cs) \ recordBlob)
     \/ /\ record' = record \ {r}
        /\ UNCHANGED <<recordBlob, imported>>
  /\ UNCHANGED <<blob, work, files, requests, pending, history, faults>>

AbortCancelling(failed) == txn' = NoTxn /\ jobs' = {} /\ UNCHANGED strays

(***************************************************************************)
(* A task failed, or the callback throws, and the database rolls back.     *)
(* Tasks that are in the blob store go on; those that are not there yet    *)
(* are cancelled.                                                          *)
(***************************************************************************)
Abort(failed) == /\ txn' = NoTxn
                 /\ jobs' = {}
                 /\ strays' = strays \cup {j \in jobs \ failed : j.at # "verify"}

CommitUnhooked ==
  /\ ~Unlocked /\ txn.at \in {"blobs", "commit"} /\ jobs = {}
  /\ blob' = txn.view.blob /\ record' = txn.view.record
  /\ recordBlob' = txn.view.refs /\ imported' = txn.view.imported
  /\ txn' = NoTxn
  /\ UNCHANGED <<jobs, strays, files, requests, pending, history, faults>>

\* COMMIT, then the hooks: the files of dropped blobs are queued for deletion
Commit ==
  /\ ~Unlocked /\ txn.at \in {"blobs", "commit"} /\ jobs = {}
  /\ blob' = txn.view.blob /\ record' = txn.view.record
  /\ recordBlob' = txn.view.refs /\ imported' = txn.view.imported
  /\ pending' = [c \in Cids |-> IF c \in txn.drop THEN pending[c] + 1 ELSE pending[c]]
  /\ txn' = NoTxn
  /\ UNCHANGED <<jobs, strays, files, requests, history, faults>>

\* the commit cannot be sequenced, or COMMIT fails
Rollback ==
  /\ ~Unlocked /\ txn.at \in {"blobs", "commit"} /\ jobs = {} /\ Fault
  /\ Abort({})
  /\ spoilt' = spoilt \cup ({txn.about} \cap Cids)
  /\ leaked' = leaked \cup Orphans
  /\ UNCHANGED <<tables, files, requests, pending, scope>>

-----------------------------------------------------------------------------
(* Into permanent storage                                                  *)

Active == jobs \cup strays

Moves(j, next) ==
  \/ j \in jobs /\ jobs' = (jobs \ {j}) \cup {next} /\ UNCHANGED strays
  \/ j \in strays /\ strays' = (strays \ {j}) \cup {next} /\ UNCHANGED jobs

\* makePermanent rejects: for a stray nobody listens any more
Rejects(j) ==
  \/ j \in jobs /\ Abort({j})
  \/ j \in strays /\ strays' = strays \ {j} /\ UNCHANGED <<txn, jobs>>

\* it asks first whether the file is there already
MakePermanent(j, key) ==
  [j EXCEPT !.key = key, !.at = IF stored[j.cid] = "none" THEN "copy" ELSE "tidy"]

VerifyUnkeyed(j) == LET c == j.cid IN
  /\ j \in jobs /\ j.at = "verify"
  /\ \/ ~Usable(txn.view.blob, c) /\ Abort({j})
     \/ /\ Usable(txn.view.blob, c)
        /\ jobs' = (jobs \ {j}) \cup {MakePermanent(j, txn.view.blob[c].tempKey)}
        /\ UNCHANGED <<txn, strays>>
  /\ UNCHANGED <<tables, files, requests, pending, history, faults>>

(***************************************************************************)
(* The row of the blob is looked up.  A permanent one is all right, one    *)
(* that is not goes to makePermanent.                                      *)
(***************************************************************************)
Verify(j) == LET c == j.cid IN
  /\ j \in jobs /\ j.at = "verify"
  /\ \/ ~Usable(txn.view.blob, c) /\ Abort({j})
     \/ /\ Usable(txn.view.blob, c)
        /\ txn.view.blob[c].tempKey = NoKey
        /\ jobs' = jobs \ {j}
        /\ UNCHANGED <<txn, strays>>
     \/ /\ Usable(txn.view.blob, c)
        /\ txn.view.blob[c].tempKey # NoKey
        /\ jobs' = (jobs \ {j}) \cup {MakePermanent(j, txn.view.blob[c].tempKey)}
        /\ UNCHANGED <<txn, strays>>
  /\ UNCHANGED <<tables, files, requests, pending, history, faults>>

\* blobs with a row, for everyone or for the transaction only
Known == DOMAIN blob \cup (IF Unlocked THEN {} ELSE DOMAIN txn.view.blob)

(***************************************************************************)
(* readFile, and writeFile truncates.  What a stray writes for a blob that *)
(* was dropped meanwhile, nobody will delete.                              *)
(***************************************************************************)
StartCopy(j) ==
  /\ j \in Active /\ j.at = "copy"
  /\ \/ /\ j.key \in temp
        /\ Moves(j, [j EXCEPT !.at = "stored"])
        /\ stored' = [stored EXCEPT ![j.cid] = "partial"]
        /\ leaked' = leaked \cup ({j.cid} \ Known)
        /\ UNCHANGED txn
     \/ /\ j.key \notin temp
        /\ Rejects(j)
        /\ UNCHANGED <<stored, leaked>>
  /\ UNCHANGED <<tables, temp, quarantine, requests, pending, scope, spoilt, faults>>

FileOf(j) == CASE j.at = "stored" -> stored[j.cid]
               [] j.at = "quarantine" -> quarantine[j.cid]
               [] OTHER -> "none"

\* Another task writes the same file: either may have truncated it last
Shared(j) == \E i \in Active \ {j} : i.cid = j.cid /\ i.at = j.at

(***************************************************************************)
(* A task is done with the file that it writes, and with no other one.     *)
(***************************************************************************)
FileBecomes(j, state) ==
  \/ /\ j.at = "stored" /\ stored[j.cid] = "partial"
     /\ stored' = [stored EXCEPT ![j.cid] = state]
     /\ UNCHANGED quarantine
  \/ /\ j.at = "quarantine" /\ quarantine[j.cid] = "partial"
     /\ quarantine' = [quarantine EXCEPT ![j.cid] = state]
     /\ UNCHANGED stored
  \/ /\ FileOf(j) # "partial" \/ Shared(j)
     /\ UNCHANGED <<stored, quarantine>>

EndCopy(j) ==
  /\ j \in Active /\ j.at \in Writing
  /\ Moves(j, [j EXCEPT !.at = "tidy"])
  /\ FileBecomes(j, "whole")
  /\ spoilt' = {c \in spoilt : stored'[c] = stored[c]}
  /\ UNCHANGED <<tables, txn, temp, requests, pending, scope, leaked, faults>>

\* the disk is full: the file stays as far as it got
CopyFails(j) ==
  /\ j \in Active /\ j.at \in Writing /\ Fault
  /\ Rejects(j)
  /\ FileBecomes(j, "torn")
  /\ leaked' = leaked \cup Orphans
  /\ UNCHANGED <<tables, temp, requests, pending, scope, spoilt>>

\* the update of verifyBlobAndMakePermanent
Permanent(table, key) ==
  [c \in DOMAIN table |-> IF table[c].tempKey = key
                         THEN [tempKey |-> NoKey, down |-> table[c].down] ELSE table[c]]

\* the temporary file is removed and the row updated, in the transaction
Tidy(j) ==
  /\ j \in Active /\ j.at = "tidy"
  /\ temp' = temp \ {j.key}
  /\ \/ /\ j \in jobs /\ jobs' = jobs \ {j}
        /\ Begin(txn.at, View(Permanent(txn.view.blob, j.key), txn.view.record, txn.view.refs,
                              txn.view.imported), txn.drop, txn.about)
        /\ UNCHANGED strays
     \/ /\ j \in strays /\ strays' = strays \ {j}
        /\ UNCHANGED <<txn, jobs>>
  /\ UNCHANGED <<tables, stored, quarantine, requests, pending, history, faults>>

-----------------------------------------------------------------------------
(* Takedowns                                                               *)

Marked(c, applied) ==
  [d \in DOMAIN blob |-> IF d = c THEN [tempKey |-> blob[d].tempKey, down |-> applied]
                        ELSE blob[d]]

\* updateBlobTakedownStatus: the row, if there is one, and then the file
Takedown(c, applied) ==
  /\ "takedown" \in scope.ops /\ Unlocked
  /\ Begin(IF applied THEN "quarantine" ELSE "unquarantine",
           Seeing(Marked(c, applied)), {}, c)
  /\ jobs' = {}
  /\ UNCHANGED <<tables, strays, files, requests, pending, history, faults>>

Moved == Begin("commit", txn.view, txn.drop, txn.about)

\* The file of c moves, and those who write it with it
Moving(c, where) ==
  LET Relocated(js) == {[j EXCEPT !.at = IF j.cid = c /\ @ \in DOMAIN where
                                         THEN where[@] ELSE @] : j \in js}
  IN  jobs' = Relocated(jobs) /\ strays' = Relocated(strays)

\* a rename, onto what there is; a file that is not there is no error
Quarantine == LET c == txn.about IN
  /\ ~Unlocked /\ txn.at = "quarantine"
  /\ \/ stored[c] = "none" /\ UNCHANGED <<stored, quarantine, jobs, strays>>
     \/ /\ stored[c] # "none"
        /\ Moving(c, [stored |-> "quarantine", quarantine |-> "unlinked"])
        /\ quarantine' = [quarantine EXCEPT ![c] = stored[c]]
        /\ stored' = [stored EXCEPT ![c] = "none"]
  /\ Moved
  /\ UNCHANGED <<tables, temp, requests, pending, history, faults>>

\* of a blob that was deleted meanwhile, nobody will delete the file again
Unquarantine == LET c == txn.about IN
  /\ ~Unlocked /\ txn.at = "unquarantine"
  /\ \/ quarantine[c] = "none" /\ UNCHANGED <<stored, quarantine, jobs, strays, leaked>>
     \/ /\ quarantine[c] # "none"
        /\ Moving(c, [quarantine |-> "stored", stored |-> "unlinked"])
        /\ stored' = [stored EXCEPT ![c] = quarantine[c]]
        /\ quarantine' = [quarantine EXCEPT ![c] = "none"]
        /\ leaked' = IF c \in DOMAIN blob THEN leaked ELSE leaked \cup {c}
  /\ Moved
  /\ UNCHANGED <<tables, temp, requests, pending, scope, spoilt, faults>>

-----------------------------------------------------------------------------
(* The background queue, and restarts                                      *)

\* deleteMany: it knows the blob by its cid, and not that it may be back
DeleteBlob(c) ==
  /\ pending[c] > 0
  /\ pending' = [pending EXCEPT ![c] = @ - 1]
  /\ stored' = [stored EXCEPT ![c] = "none"]
  /\ Moving(c, [stored |-> "unlinked"])
  /\ spoilt' = spoilt \cup ({c} \cap Known)
  /\ UNCHANGED <<tables, txn, temp, quarantine, requests, scope, leaked, faults>>

\* the error is logged
DeleteBlobFails(c) ==
  /\ pending[c] > 0 /\ Fault
  /\ pending' = [pending EXCEPT ![c] = @ - 1]
  /\ leaked' = leaked \cup {c}
  /\ UNCHANGED <<tables, work, files, requests, scope, spoilt>>

Interrupted(dir) == [c \in Cids |-> IF dir[c] = "partial" THEN "torn" ELSE dir[c]]

(***************************************************************************)
(* The process ends at any moment, the queue and the copies with it.       *)
(***************************************************************************)
Restart ==
  /\ Fault
  /\ txn' = NoTxn /\ jobs' = {} /\ strays' = {}
  /\ uploads' = {}
  /\ pending' = [c \in Cids |-> 0]
  /\ stored' = Interrupted(stored) /\ quarantine' = Interrupted(quarantine)
  /\ spoilt' = spoilt \cup {c \in Cids : ~Unlocked /\ txn.at = "commit" /\ txn.about = c}
  /\ leaked' = leaked \cup Orphans
  /\ UNCHANGED <<tables, temp, keys, scope>>

-----------------------------------------------------------------------------
Next == \/ \E c \in scope.cids : \/ PutTemp(c)
                                 \/ \E applied \in BOOLEAN : Takedown(c, applied)
                                 \/ DeleteBlob(c) \/ DeleteBlobFails(c)
        \/ \E u \in uploads : UploadBlob(u)
        \/ \E rs \in SUBSET scope.records \ {{}} :
              \E new \in [rs -> SUBSET scope.cids] :
                 \E gone \in SUBSET {r \in rs \cap record : new[r] = {}} : Write(new, gone)
        \/ \E r \in scope.records, cs \in SUBSET scope.cids : Import(r, cs)
        \/ \E j \in Active : \/ Verify(j) \/ StartCopy(j) \/ EndCopy(j)
                             \/ CopyFails(j) \/ Tidy(j)
        \/ Quarantine \/ Unquarantine
        \/ Commit \/ Rollback
        \/ Restart

Spec == Init /\ [][Next]_vars

-----------------------------------------------------------------------------
(* Properties                                                              *)

Row == [tempKey : 0..keys, down : BOOLEAN]

Pairs == Records \X Cids

IsTable(t) == DOMAIN t \subseteq Cids /\ \A c \in DOMAIN t : t[c] \in Row

FileStates == {"none", "partial", "torn", "whole"}

Jobs(records) ==
  [tag : 1..MaxTxns, rec : records, cid : Cids, key : {NoKey}, at : {"verify"}]
  \cup [tag : 1..MaxTxns, rec : records, cid : Cids, key : 1..keys,
        at : {"copy", "tidy"} \cup Writing]

TypeOK ==
  /\ IsTable(blob) /\ record \subseteq Records
  /\ imported \subseteq recordBlob /\ recordBlob \subseteq Pairs
  /\ ~Unlocked => /\ IsTable(txn.view.blob) /\ txn.view.record \subseteq Records
                  /\ txn.view.imported \subseteq txn.view.refs
                  /\ txn.view.refs \subseteq Pairs
                  /\ txn.at \in {"blobs", "quarantine", "unquarantine", "commit"}
                  /\ txn.drop \subseteq Cids /\ txn.about \in Cids \cup {None}
  /\ jobs \subseteq Jobs(Records \cup {None}) /\ (jobs # {} => ~Unlocked)
  /\ strays \subseteq Jobs(Records \cup {None})
  /\ keys \in 0..MaxKeys /\ temp \subseteq 1..keys
  /\ uploads \subseteq [key : temp, cid : Cids]
  /\ stored \in [Cids -> FileStates] /\ quarantine \in [Cids -> FileStates]
  /\ pending \in [Cids -> 0..MaxPending]
  /\ spoilt \subseteq Cids /\ leaked \subseteq Cids
  /\ scope \in Scopes /\ faults \in 0..MaxFaults

(***************************************************************************)
(* What the database says of a blob, the blob store has: a temporary one   *)
(* in temporary storage, or already further; a permanent one that is not   *)
(* taken down in permanent storage, where it is served from; one that is   *)
(* taken down at least somewhere.  However commits fail, tasks of failed   *)
(* commits go on, blobs are uploaded twice, dropped and taken down -       *)
(* unless a deletion that was queued in an earlier life of the blob came   *)
(* late, or a takedown failed between its file and its row (spoilt).       *)
(*                                                                         *)
(* The file is whole, or a task is still writing it, or it is torn: what a *)
(* copy left when the disk was full or the process ended.  Nothing in the  *)
(* code tells a torn file from a whole one.  It is served, no upload       *)
(* replaces it (disk-blobstore.ts:86), and one in quarantine replaces a    *)
(* whole one when the takedown is lifted (disk-blobstore.ts:118).          *)
(***************************************************************************)
WrittenAt(place, c) == \E j \in Active : j.cid = c /\ j.at = place

Present(dir, place, c) == \/ dir[c] \in {"whole", "torn"}
                          \/ dir[c] = "partial" /\ WrittenAt(place, c)

InStore(c) == Present(stored, "stored", c)

Somewhere(c) == InStore(c) \/ Present(quarantine, "quarantine", c)

TakingDown(c) == ~Unlocked /\ txn.about = c

Kept(c) ==
  /\ blob[c].tempKey # NoKey => blob[c].tempKey \in temp \/ Somewhere(c)
  /\ blob[c].tempKey = NoKey => Somewhere(c)
  /\ blob[c].tempKey = NoKey /\ ~blob[c].down => InStore(c) \/ TakingDown(c)

BlobsKept == \A c \in DOMAIN blob \ spoilt : Kept(c)

(***************************************************************************)
(* "After being referenced, the file is moved to permanent storage": the   *)
(* blobs of a record that was written here have rows, which are permanent  *)
(* - those of imported records need not have either.  Deleting a record    *)
(* takes no blob from another, in the same commit or in an earlier one.    *)
(***************************************************************************)
ReferencedArePermanent == \A p \in recordBlob \ imported :
  p[2] \in DOMAIN blob /\ blob[p[2]].tempKey = NoKey

(***************************************************************************)
(* "Deletes blob when record is deleted": a permanent file without a row   *)
(* is queued for deletion, or the upload that needs it is under way, or    *)
(* the process that knew of it ended or failed (leaked).                   *)
(***************************************************************************)
OrphansQueued == \A c \in Orphans \ leaked : pending[c] > 0 \/ c \in Known
=============================================================================
