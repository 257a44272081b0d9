---------------------------- MODULE Blobs_proofs ----------------------------
(***************************************************************************)
(* Proofs about Blobs: types, that the blob store has what the tables say, *)
(* that referenced blobs are permanent and that files without a row are    *)
(* queued for deletion.                                                    *)
(***************************************************************************)
EXTENDS Blobs, TLAPS

-----------------------------------------------------------------------------
(* The invariant                                                           *)

AnyRecord == Records \cup {None}

IsView(v) == /\ IsTable(v.blob) /\ v.record \subseteq Records
             /\ v.imported \subseteq v.refs /\ v.refs \subseteq Pairs

TablesTyped == /\ IsTable(blob) /\ record \subseteq Records
               /\ imported \subseteq recordBlob /\ recordBlob \subseteq Pairs

TxnTyped == ~Unlocked => /\ IsView(txn.view)
                         /\ txn.at \in {"blobs", "quarantine", "unquarantine", "commit"}
                         /\ txn.drop \subseteq Cids /\ txn.about \in Cids \cup {None}
                         /\ txn.at # "blobs" => txn.about \in Cids

\* Only a transaction that writes records, or an upload's, has tasks
LockTyped == jobs # {} => txn.at = "blobs"

TasksTyped == jobs \subseteq Jobs(AnyRecord) /\ strays \subseteq Jobs(AnyRecord)

StoredTyped == stored \in [Cids -> FileStates] /\ quarantine \in [Cids -> FileStates]

UploadsTyped == /\ keys \in 0..MaxKeys /\ temp \subseteq 1..keys
                /\ uploads \subseteq [key : 1..keys, cid : Cids]

\* there is room in the queue for what the transaction drops
PendingTyped == /\ pending \in [Cids -> 0..MaxPending]
                /\ ~Unlocked => \A c \in txn.drop : pending[c] < MaxPending

RestTyped == /\ spoilt \subseteq Cids /\ leaked \subseteq Cids
             /\ scope \in Scopes /\ faults \in 0..MaxFaults

(***************************************************************************)
(* TypeOK, but that the temporary file of an upload is there, for which    *)
(* one must know who has its key.                                          *)
(***************************************************************************)
Types == /\ TablesTyped /\ TxnTyped /\ LockTyped /\ TasksTyped /\ StoredTyped
         /\ UploadsTyped /\ PendingTyped /\ RestTyped

\* Row c has this key, in the table or in the transaction's view of it
Keyed(c, k) == \/ c \in DOMAIN blob /\ blob[c].tempKey = k
               \/ ~Unlocked /\ c \in DOMAIN txn.view.blob /\ txn.view.blob[c].tempKey = k

\* A temporary key is of one blob ...
Owns(c, k) == \/ Keyed(c, k)
              \/ \E j \in Active : j.cid = c /\ j.key = k
              \/ \E u \in uploads : u.cid = c /\ u.key = k

OwnerInv == \A k \in 1..keys : \A c, d \in Cids : Owns(c, k) /\ Owns(d, k) => c = d

\* ... and that of an upload of nobody else, so that its file is there
UploadsInv == \A u \in uploads :
  /\ u.key \in temp
  /\ \A c \in Cids : ~Keyed(c, u.key)
  /\ \A j \in Active : j.key # u.key
  /\ \A v \in uploads : v.key = u.key => v = u

\* The tasks of the transaction work on rows that it sees
JobsInv == \A j \in jobs : j.at # "verify" =>
  j.cid \in DOMAIN txn.view.blob /\ txn.view.blob[j.cid].tempKey \in {j.key, NoKey}

(***************************************************************************)
(* A transaction that adds a row for a blob is an upload's.  Its one task  *)
(* finds the row and the temporary file: it fails for a full disk only.    *)
(***************************************************************************)
UploadInv == ~Unlocked /\ ~(DOMAIN txn.view.blob \subseteq DOMAIN blob) =>
  /\ \A i, j \in jobs : i = j
  /\ \A j \in jobs : /\ Usable(txn.view.blob, j.cid)
                     /\ txn.view.blob[j.cid].tempKey \in temp
                     /\ \A s \in strays : s.key # txn.view.blob[j.cid].tempKey

\* Rows leave the table when they are dropped, and are taken down when it says so
ViewInv == ~Unlocked =>
  /\ DOMAIN blob \ txn.drop \subseteq DOMAIN txn.view.blob
  /\ txn.at = "quarantine" => \A c \in DOMAIN txn.view.blob \cap {txn.about} : txn.view.blob[c].down

StepInv == OwnerInv /\ UploadsInv /\ JobsInv /\ UploadInv /\ ViewInv

(***************************************************************************)
(* The blobs a transaction refers to are permanent, or a task is at it.    *)
(***************************************************************************)
ViewPermanent == ~Unlocked => \A p \in txn.view.refs \ txn.view.imported :
  \/ p[2] \in DOMAIN txn.view.blob /\ txn.view.blob[p[2]].tempKey = NoKey
  \/ \E j \in jobs : j.cid = p[2]

RefsInv == ReferencedArePermanent /\ ViewPermanent

\* A file that is partial, a task is writing, in its place
HalfInv == \A c \in Cids : /\ stored[c] = "partial" => WrittenAt("stored", c)
                           /\ quarantine[c] = "partial" => WrittenAt("quarantine", c)

OnDisk(c) == stored[c] # "none" \/ quarantine[c] # "none"

\* The row of a table has a file
Has(table, c) == c \in DOMAIN table =>
  OnDisk(c) \/ (table[c].tempKey # NoKey /\ table[c].tempKey \in temp)

\* blobs that are served according to a table
Served(table, c) == c \in DOMAIN table /\ table[c].tempKey = NoKey /\ ~table[c].down

(***************************************************************************)
(* The files of the rows in the table, and of those in the view.  The file *)
(* of a blob that is served is in its place, but for a takedown between    *)
(* its file and COMMIT, or its reversal before the file is back.           *)
(***************************************************************************)
TableFiles == \A c \in Cids \ spoilt :
  /\ Has(blob, c)
  /\ Served(blob, c) => stored[c] # "none" \/ (txn.at = "commit" /\ txn.about = c)

ViewFiles == ~Unlocked => \A c \in Cids \ spoilt :
  /\ Has(txn.view.blob, c)
  /\ Served(txn.view.blob, c) =>
        stored[c] # "none" \/ (txn.at = "unquarantine" /\ txn.about = c)

\* A task that has begun to write the permanent file, or found it
Late(j) == j.at \in {"tidy"} \cup Writing

\* Before a task removes the temporary file of a row, the permanent one is there
TaskFiles ==
  /\ \A j \in Active : Late(j) /\ j.cid \notin spoilt /\ Keyed(j.cid, j.key) => OnDisk(j.cid)
  /\ \A j \in jobs : Late(j) /\ j.cid \notin spoilt => stored[j.cid] # "none"

FilesInv == TableFiles /\ ViewFiles /\ TaskFiles

-----------------------------------------------------------------------------
(* Types                                                                   *)

LEMMA Bounds ==
  /\ MaxKeys \in Nat /\ MaxPending \in Nat /\ MaxTxns \in Nat /\ MaxFaults \in Nat
  /\ None \notin Records /\ None \notin Cids
  /\ \A s \in Scopes : s.cids \subseteq Cids /\ s.records \subseteq Records
BY BoundsAssumption, NoneAssumption, ScopesAssumption

LEMMA SameKeys ==
  ASSUME UNCHANGED keys
  PROVE  /\ Row' = Row /\ Jobs(AnyRecord)' = Jobs(AnyRecord)
         /\ \A t : IsTable(t) => IsTable(t)'
         /\ \A v : IsView(v) => IsView(v)'
<1>1. Row' = Row /\ Jobs(AnyRecord)' = Jobs(AnyRecord)
  BY DEF Row, Jobs
<1>2. \A t : IsTable(t) => IsTable(t)'
  BY <1>1 DEF IsTable
<1>3. QED
  BY <1>1, <1>2 DEF IsView

LEMMA MoreKeys ==
  ASSUME keys \in Nat, keys' = keys + 1
  PROVE  /\ Row \subseteq Row' /\ Jobs(AnyRecord) \subseteq Jobs(AnyRecord)'
         /\ \A t : IsTable(t) => IsTable(t)'
         /\ \A v : IsView(v) => IsView(v)'
<1>1. Row \subseteq Row' /\ Jobs(AnyRecord) \subseteq Jobs(AnyRecord)'
  BY DEF Row, Jobs
<1>2. \A t : IsTable(t) => IsTable(t)'
  BY <1>1 DEF IsTable
<1>3. QED
  BY <1>1, <1>2 DEF IsView

\* The parts of the state that a step leaves alone keep their types
LEMMA PartsKept ==
  ASSUME Types, UNCHANGED keys
  PROVE  /\ UNCHANGED tables => TablesTyped'
         /\ UNCHANGED txn => TxnTyped'
         /\ jobs' = {} \/ txn'.at = "blobs" \/ UNCHANGED <<txn, jobs>> => LockTyped'
         /\ UNCHANGED <<jobs, strays>> => TasksTyped'
         /\ UNCHANGED <<stored, quarantine>> => StoredTyped'
         /\ UNCHANGED <<temp, uploads>> => UploadsTyped'
         /\ UNCHANGED <<history, faults>> => RestTyped'
         /\ UNCHANGED pending =>
               (txn' = txn \/ Unlocked' \/ txn'.drop = {} \/ (~Unlocked /\ txn'.drop = txn.drop)
                => PendingTyped')
<1>1. UNCHANGED tables => TablesTyped'
  BY SameKeys DEF Types, TablesTyped, tables
<1>2. UNCHANGED txn => TxnTyped'
  BY SameKeys DEF Types, TxnTyped, Unlocked
<1>3. UNCHANGED <<jobs, strays>> => TasksTyped'
  BY SameKeys DEF Types, TasksTyped
<1>4. UNCHANGED <<stored, quarantine>> => StoredTyped'
  BY DEF Types, StoredTyped
<1>5. UNCHANGED <<temp, uploads>> => UploadsTyped'
  BY DEF Types, UploadsTyped
<1>6. UNCHANGED <<history, faults>> => RestTyped'
  BY DEF Types, RestTyped, history
<1>7. ASSUME UNCHANGED pending,
             txn' = txn \/ Unlocked' \/ txn'.drop = {} \/ (~Unlocked /\ txn'.drop = txn.drop)
      PROVE  PendingTyped'
  BY <1>7 DEF Types, PendingTyped, Unlocked
<1>8. jobs' = {} \/ txn'.at = "blobs" \/ UNCHANGED <<txn, jobs>> => LockTyped'
  BY DEF Types, LockTyped
<1>9. QED
  BY <1>1, <1>2, <1>3, <1>4, <1>5, <1>6, <1>7, <1>8

LEMMA TaskShape ==
  ASSUME NEW j \in Jobs(AnyRecord)
  PROVE  /\ j.cid \in Cids /\ j.rec \in AnyRecord
         /\ \/ j.at = "verify" /\ j.key = NoKey
            \/ j.at \in {"copy", "tidy"} \cup Writing /\ j.key \in 1..keys
BY DEF Jobs

\* What a task becomes
LEMMA NextTask ==
  ASSUME NEW j \in Jobs(AnyRecord), NEW at \in {"copy", "tidy"} \cup Writing
  PROVE  /\ j.at # "verify" => [j EXCEPT !.at = at] \in Jobs(AnyRecord)
         /\ [j EXCEPT !.at = at].cid = j.cid /\ [j EXCEPT !.at = at].key = j.key
         /\ [j EXCEPT !.at = at].at = at
BY DEF Jobs

\* The tasks of a transaction that begins
LEMMA NewTasks ==
  ASSUME NEW pairs, \A p \in pairs : p[1] \in AnyRecord /\ p[2] \in Cids, Launch(pairs)
  PROVE  /\ jobs' \subseteq Jobs(AnyRecord)
         /\ \A j \in jobs' : /\ j.at = "verify" /\ j.key = NoKey
                             /\ \E p \in pairs : j.cid = p[2]
         /\ \A p \in pairs : \E j \in jobs' : j.cid = p[2]
         /\ (\A p, q \in pairs : p = q) => \A i, j \in jobs' : i = j
<1>1. PICK tag \in 1..MaxTxns : jobs' = Tasks(pairs, tag)
  BY DEF Launch
<1> DEFINE task(p) == [tag |-> tag, rec |-> p[1], cid |-> p[2], key |-> NoKey, at |-> "verify"]
<1>2. jobs' = {task(p) : p \in pairs}
  BY <1>1 DEF Tasks
<1>3. \A p \in pairs : /\ task(p) \in Jobs(AnyRecord) /\ task(p).cid = p[2]
                       /\ task(p).key = NoKey /\ task(p).at = "verify"
  BY DEF Jobs
<1> HIDE DEF task
<1>4. QED
  BY <1>2, <1>3

\* Tasks of a file that is renamed, and what they become
Goes(j, c, where) == IF j.cid = c /\ j.at \in DOMAIN where THEN where[j.at] ELSE j.at

SameTask(i, j) == i.cid = j.cid /\ i.key = j.key /\ (i.at = j.at \/ {i.at, j.at} \subseteq Writing)

LEMMA MovingEffect ==
  ASSUME Types, UNCHANGED keys, NEW c, NEW where, DOMAIN where \subseteq Writing,
         \A place \in DOMAIN where : where[place] \in Writing, Moving(c, where)
  PROVE  /\ TasksTyped'
         /\ \A i \in jobs' : \E j \in jobs : SameTask(i, j)
         /\ \A i \in strays' : \E j \in strays : SameTask(i, j)
         /\ \A j \in jobs : \E i \in jobs' : i.cid = j.cid
         /\ \A j \in Active : \E i \in Active' : i.cid = j.cid /\ i.at = Goes(j, c, where)
         /\ (\A i, j \in jobs : i = j) => \A i, j \in jobs' : i = j
         /\ jobs = {} => jobs' = {}
<1> DEFINE becomes(j) == [j EXCEPT !.at = Goes(j, c, where)]
<1>1. jobs' = {becomes(j) : j \in jobs} /\ strays' = {becomes(j) : j \in strays}
  BY DEF Moving, Goes
<1>2. jobs \subseteq Jobs(AnyRecord) /\ strays \subseteq Jobs(AnyRecord)
  BY DEF Types, TasksTyped
<1>3. ASSUME NEW j \in Jobs(AnyRecord)
      PROVE  /\ becomes(j) \in Jobs(AnyRecord) /\ SameTask(becomes(j), j)
             /\ becomes(j).cid = j.cid /\ becomes(j).at = Goes(j, c, where)
  <2>1. CASE Goes(j, c, where) = j.at
    <3>1. becomes(j) = j
      BY <2>1 DEF Jobs
    <3>2. QED
      BY <2>1, <3>1 DEF SameTask
  <2>2. CASE j.at \in Writing /\ Goes(j, c, where) \in Writing
    <3>1. j.at # "verify"
      BY <2>2 DEF Writing
    <3>2. QED
      BY <2>2, <3>1, NextTask DEF SameTask
  <2>3. QED
    BY <2>1, <2>2 DEF Goes
<1> HIDE DEF becomes
<1>4. TasksTyped'
  BY <1>1, <1>2, <1>3, SameKeys DEF TasksTyped
<1>5. QED
  BY <1>1, <1>2, <1>3, <1>4 DEF Active

LEMMA MadePermanent ==
  ASSUME NEW j \in Jobs(AnyRecord), NEW k \in 1..keys
  PROVE  /\ MakePermanent(j, k) \in Jobs(AnyRecord)
         /\ MakePermanent(j, k).cid = j.cid /\ MakePermanent(j, k).key = k
         /\ MakePermanent(j, k).at \in {"copy", "tidy"}
         /\ MakePermanent(j, k).at = "tidy" => stored[j.cid] # "none"
BY DEF Jobs, MakePermanent

\* What the steps of tasks do to the sets of tasks
LEMMA MovesEffect ==
  ASSUME Types, NEW j \in Active, NEW next \in Jobs(AnyRecord), Moves(j, next), UNCHANGED keys
  PROVE  /\ TasksTyped'
         /\ \A i \in jobs' : i \in jobs \/ (i = next /\ j \in jobs)
         /\ \A i \in strays' : i \in strays \/ (i = next /\ j \in strays)
         /\ next \in Active'
         /\ \A i \in Active \ {j} : i \in Active'
BY SameKeys DEF Types, TasksTyped, Moves, Active

LEMMA AbortEffect ==
  ASSUME Types, NEW failed, Abort(failed), UNCHANGED keys
  PROVE  /\ txn' = NoTxn /\ jobs' = {} /\ Unlocked' /\ TxnTyped' /\ LockTyped' /\ TasksTyped'
         /\ \A i \in strays' : i \in Active
         /\ \A i \in Active \ failed : i.at # "verify" => i \in Active'
BY SameKeys DEF Types, TxnTyped, LockTyped, TasksTyped, Abort, NoTxn, Unlocked, Active

LEMMA RejectsEffect ==
  ASSUME Types, NEW j \in Active, Rejects(j), UNCHANGED keys
  PROVE  /\ TxnTyped' /\ LockTyped' /\ TasksTyped'
         /\ \/ j \in jobs /\ txn' = NoTxn /\ jobs' = {} /\ Unlocked'
            \/ UNCHANGED <<txn, jobs>> /\ strays' = strays \ {j}
         /\ \A i \in Active' : i \in Active
         /\ \A i \in Active \ {j} : i.at # "verify" => i \in Active'
<1>1. CASE j \in jobs /\ Abort({j})
  BY <1>1, AbortEffect DEF Active
<1>2. CASE UNCHANGED <<txn, jobs>> /\ strays' = strays \ {j}
  <2>1. TxnTyped' /\ LockTyped'
    BY <1>2, PartsKept
  <2>2. TasksTyped'
    BY <1>2, SameKeys DEF Types, TasksTyped
  <2>3. QED
    BY <1>2, <2>1, <2>2 DEF Active
<1>3. QED
  BY <1>1, <1>2 DEF Rejects

LEMMA BeginTyped ==
  ASSUME NEW step \in {"blobs", "quarantine", "unquarantine", "commit"}, NEW view, IsView(view),
         NEW drop \in SUBSET Cids, NEW about \in Cids \cup {None}, step # "blobs" => about \in Cids,
         Begin(step, view, drop, about), UNCHANGED keys
  PROVE  TxnTyped' /\ ~Unlocked' /\ txn'.drop = drop /\ txn'.at = step
<1>1. /\ txn'.at = step /\ txn'.view = view /\ txn'.drop = drop /\ txn'.about = about
  BY DEF Begin
<1>2. IsView(view)'
  BY SameKeys
<1>3. QED
  BY <1>1, <1>2, SameKeys DEF TxnTyped, Unlocked, IsView, IsTable

\* One way or another, files come and go
LEMMA FilesTyped ==
  ASSUME StoredTyped
  PROVE  /\ \A c \in Cids : \A f \in FileStates : [stored EXCEPT ![c] = f] \in [Cids -> FileStates]
         /\ \A c \in Cids : \A f \in FileStates : [quarantine EXCEPT ![c] = f] \in [Cids -> FileStates]
         /\ \A c \in Cids : stored[c] \in FileStates /\ quarantine[c] \in FileStates
         /\ Interrupted(stored) \in [Cids -> FileStates]
         /\ Interrupted(quarantine) \in [Cids -> FileStates]
         /\ {"none", "partial", "torn", "whole"} \subseteq FileStates
BY DEF StoredTyped, FileStates, Interrupted

\* A task is done with its file: only that changes, and who writes it no more is j
LEMMA FileEnds ==
  ASSUME StoredTyped, NEW j \in Active, j.cid \in Cids, NEW state \in {"torn", "whole"},
         FileBecomes(j, state)
  PROVE  /\ StoredTyped'
         /\ \A c \in Cids : \/ stored'[c] = stored[c]
                            \/ stored[c] = "partial" /\ stored'[c] = state
         /\ \A c \in Cids : \/ quarantine'[c] = quarantine[c]
                            \/ quarantine[c] = "partial" /\ quarantine'[c] = state
         /\ j.at = "stored" /\ stored'[j.cid] = "partial" =>
               \E i \in Active \ {j} : i.cid = j.cid /\ i.at = "stored"
         /\ j.at = "quarantine" /\ quarantine'[j.cid] = "partial" =>
               \E i \in Active \ {j} : i.cid = j.cid /\ i.at = "quarantine"
<1>1. state \in FileStates /\ state # "partial" /\ stored \in [Cids -> FileStates]
      /\ quarantine \in [Cids -> FileStates]
  BY DEF StoredTyped, FileStates
<1>2. CASE /\ stored[j.cid] = "partial" /\ stored' = [stored EXCEPT ![j.cid] = state]
           /\ UNCHANGED quarantine /\ j.at = "stored"
  <2>1. stored' \in [Cids -> FileStates]
    BY <1>1, <1>2, FilesTyped
  <2>2. stored'[j.cid] = state /\ \A c \in Cids : c # j.cid => stored'[c] = stored[c]
    BY <1>1, <1>2
  <2>3. QED
    BY <1>1, <1>2, <2>1, <2>2 DEF StoredTyped
<1>3. CASE /\ quarantine[j.cid] = "partial" /\ quarantine' = [quarantine EXCEPT ![j.cid] = state]
           /\ UNCHANGED stored /\ j.at = "quarantine"
  <2>1. quarantine' \in [Cids -> FileStates]
    BY <1>1, <1>3, FilesTyped
  <2>2. quarantine'[j.cid] = state /\ \A c \in Cids : c # j.cid => quarantine'[c] = quarantine[c]
    BY <1>1, <1>3
  <2>3. QED
    BY <1>1, <1>3, <2>1, <2>2 DEF StoredTyped
<1>4. CASE (FileOf(j) # "partial" \/ Shared(j)) /\ UNCHANGED <<stored, quarantine>>
  <2>1. \/ Shared(j)
        \/ j.at = "stored" => stored[j.cid] # "partial"
    BY <1>4 DEF FileOf
  <2>2. \/ Shared(j)
        \/ j.at = "quarantine" => quarantine[j.cid] # "partial"
    BY <1>4 DEF FileOf
  <2>3. QED
    BY <1>1, <1>4, <2>1, <2>2 DEF StoredTyped, Shared
<1>5. QED
  BY <1>2, <1>3, <1>4 DEF FileBecomes

LEMMA FilesStay ==
  ASSUME Types, NEW j \in Active, EndCopy(j) \/ CopyFails(j)
  PROVE  \A c \in Cids : /\ stored'[c] # "none" <=> stored[c] # "none"
                         /\ quarantine'[c] # "none" <=> quarantine[c] # "none"
<1>1. StoredTyped /\ j.cid \in Cids
  BY TaskShape DEF Types, TasksTyped, Active
<1>2. ASSUME NEW state \in {"torn", "whole"}, FileBecomes(j, state)
      PROVE  \A c \in Cids : /\ stored'[c] # "none" <=> stored[c] # "none"
                             /\ quarantine'[c] # "none" <=> quarantine[c] # "none"
  <2>1. \A c \in Cids : \/ stored'[c] = stored[c]
                        \/ stored[c] = "partial" /\ stored'[c] = state
    BY <1>1, <1>2, FileEnds
  <2>2. \A c \in Cids : \/ quarantine'[c] = quarantine[c]
                        \/ quarantine[c] = "partial" /\ quarantine'[c] = state
    BY <1>1, <1>2, FileEnds
  <2>3. QED
    BY <2>1, <2>2
<1>3. QED
  BY <1>2 DEF EndCopy, CopyFails

LEMMA PutTempTyped ==
  ASSUME Types, NEW c \in Cids, PutTemp(c)
  PROVE  Types'
<1>1. keys \in Nat /\ keys' = keys + 1 /\ keys < MaxKeys
  BY Bounds DEF Types, UploadsTyped, PutTemp
<1>2. UNCHANGED <<blob, record, recordBlob, imported, txn, jobs, strays, stored, quarantine,
                  pending, scope, spoilt, leaked, faults>>
  BY DEF PutTemp, tables, work, history
<1>3. TablesTyped' /\ TxnTyped' /\ LockTyped' /\ TasksTyped'
  <2>1. TablesTyped' /\ TasksTyped'
    BY <1>1, <1>2, MoreKeys DEF Types, TablesTyped, TasksTyped
  <2>2. TxnTyped'
    BY <1>1, <1>2, MoreKeys DEF Types, TxnTyped, Unlocked
  <2>3. LockTyped'
    BY <1>2 DEF Types, LockTyped
  <2>4. QED
    BY <2>1, <2>2, <2>3
<1>4. UploadsTyped'
  <2>1. temp' = temp \cup {keys + 1} /\ uploads' = uploads \cup {[key |-> keys + 1, cid |-> c]}
    BY <1>1 DEF PutTemp
  <2>2. temp' \subseteq 1..(keys + 1) /\ keys + 1 \in 0..MaxKeys
    <3>1. temp \subseteq 1..keys
      BY DEF Types, UploadsTyped
    <3>2. 1..keys \subseteq 1..(keys + 1) /\ keys + 1 \in 1..(keys + 1)
      BY <1>1
    <3>3. keys + 1 \in 0..MaxKeys
      BY <1>1, Bounds
    <3>4. QED
      BY <2>1, <3>1, <3>2, <3>3, Zenon
  <2>3. uploads' \subseteq [key : 1..(keys + 1), cid : Cids]
    BY <1>1, <2>1 DEF Types, UploadsTyped
  <2>4. QED
    BY <1>1, <2>2, <2>3 DEF UploadsTyped
<1>5. StoredTyped' /\ PendingTyped' /\ RestTyped'
  BY <1>2 DEF Types, StoredTyped, PendingTyped, RestTyped, Unlocked
<1>6. QED
  BY <1>3, <1>4, <1>5 DEF Types

LEMMA TrackedTyped ==
  ASSUME Types, NEW u \in uploads
  PROVE  /\ IsTable(Tracked(u)) /\ u.key \in 1..keys /\ u.cid \in Cids
         /\ DOMAIN Tracked(u) = DOMAIN blob \cup {u.cid}
         /\ \A c \in DOMAIN blob \ {u.cid} : Tracked(u)[c] = blob[c]
         /\ \/ Tracked(u)[u.cid] = [tempKey |-> u.key, down |-> FALSE]
            \/ u.cid \in DOMAIN blob /\ Tracked(u) = blob /\ blob[u.cid].tempKey = NoKey
         /\ u.cid \in DOMAIN blob /\ blob[u.cid].tempKey = NoKey => Tracked(u) = blob
<1>1. u.key \in 1..keys /\ u.cid \in Cids /\ keys \in Nat
  BY Bounds DEF Types, UploadsTyped
<1>2. [tempKey |-> u.key, down |-> FALSE] \in Row
  BY <1>1 DEF Row
<1>3. IsTable(blob)
  BY DEF Types, TablesTyped
<1>4. QED
  BY <1>1, <1>2, <1>3 DEF IsTable, Tracked, With

\* The task of an upload's transaction, if a record waits for the blob
UploadsTask(u) == {None} \X ({p[2] : p \in recordBlob} \cap {u.cid})

LEMMA UploadTyped ==
  ASSUME Types, NEW u \in uploads, UploadBlob(u)
  PROVE  Types'
<1>1. UNCHANGED <<tables, keys, strays, stored, quarantine, temp, pending, history, faults>>
  BY DEF UploadBlob, requests, files
<1>2. TxnTyped' /\ LockTyped' /\ (txn' = txn \/ txn'.drop = {})
  <2>1. CASE Begin("blobs", Seeing(Tracked(u)), {}, None)
    <3>1. IsView(Seeing(Tracked(u)))
      BY TrackedTyped DEF IsView, Seeing, View, Types, TablesTyped
    <3>2. QED
      BY <1>1, <2>1, <3>1, BeginTyped, PartsKept
  <2>2. CASE UNCHANGED <<txn, jobs>>
    BY <1>1, <2>2, PartsKept
  <2>3. QED
    BY <2>1, <2>2 DEF UploadBlob
<1>3. TasksTyped'
  <2>1. \A p \in UploadsTask(u) : p[1] \in AnyRecord /\ p[2] \in Cids
    BY TrackedTyped DEF UploadsTask, AnyRecord
  <2>2. jobs' \subseteq Jobs(AnyRecord) /\ strays' = strays
    BY <1>1, <2>1, NewTasks DEF UploadBlob, UploadsTask, Types, TasksTyped
  <2>3. QED
    BY <1>1, <2>2, SameKeys DEF TasksTyped, Types
<1>4. UploadsTyped'
  BY <1>1 DEF UploadBlob, Types, UploadsTyped
<1>5. QED
  BY <1>1, <1>2, <1>3, <1>4, PartsKept DEF Types

\* What a transaction that writes records sees
Removed(new) == {p \in recordBlob : p[1] \in DOMAIN new \cap record}

Fresh(new) == {p \in (DOMAIN new) \X Cids : p[2] \in new[p[1]]}

Dropped(new) == Dereferenced(new) \ (Duplicates(new) \cup NewBlobs(new))

WriteView(new, gone) == View(Only(blob, Cids \ Dropped(new)), (record \cup DOMAIN new) \ gone,
                             (recordBlob \ Removed(new)) \cup Fresh(new), imported \ Removed(new))

LEMMA WriteEffect ==
  ASSUME NEW new, NEW gone, Write(new, gone)
  PROVE  /\ Unlocked /\ \A c \in Dropped(new) : pending[c] < MaxPending
         /\ Begin("blobs", WriteView(new, gone), Dropped(new), None)
         /\ Launch(Fresh(new))
         /\ UNCHANGED <<tables, strays, files, requests, pending, history, faults>>
BY DEF Write, WriteDropping, Removed, Fresh, Dropped, WriteView

LEMMA OnlyTyped ==
  ASSUME NEW t, IsTable(t), NEW cs
  PROVE  IsTable(Only(t, cs)) /\ DOMAIN Only(t, cs) = DOMAIN t \cap cs
         /\ \A c \in DOMAIN t \cap cs : Only(t, cs)[c] = t[c]
BY DEF IsTable, Only

LEMMA WriteTyped ==
  ASSUME Types, NEW new, NEW gone, DOMAIN new \subseteq Records, Write(new, gone)
  PROVE  Types'
<1>1. UNCHANGED <<tables, keys, uploads, strays, stored, quarantine, temp, pending, history, faults>>
  BY WriteEffect DEF requests, files
<1>2. Fresh(new) \subseteq Pairs /\ \A p \in Fresh(new) : p[1] \in Records /\ p[2] \in Cids
  BY DEF Fresh, Pairs
<1>3. Dropped(new) \subseteq Cids
  <2>1. \A p \in recordBlob : p[2] \in Cids
    BY DEF Types, TablesTyped, Pairs
  <2>2. QED
    BY <2>1 DEF Dropped, Dereferenced
<1>4. IsView(WriteView(new, gone))
  BY <1>2, OnlyTyped DEF Types, TablesTyped, IsView, WriteView, View
<1>5. TxnTyped' /\ LockTyped' /\ PendingTyped'
  <2>1. TxnTyped' /\ txn'.drop = Dropped(new) /\ txn'.at = "blobs"
    BY <1>1, <1>3, <1>4, WriteEffect, BeginTyped
  <2>2. QED
    BY <1>1, <2>1, WriteEffect, PartsKept DEF Types, PendingTyped
<1>6. TasksTyped'
  <2>1. \A p \in Fresh(new) : p[1] \in AnyRecord /\ p[2] \in Cids
    BY <1>2 DEF AnyRecord
  <2>2. jobs' \subseteq Jobs(AnyRecord) /\ strays' = strays
    BY <1>1, <2>1, WriteEffect, NewTasks
  <2>3. QED
    BY <1>1, <2>2, SameKeys DEF TasksTyped, Types
<1>7. QED
  BY <1>1, <1>5, <1>6, PartsKept DEF Types

LEMMA ImportTyped ==
  ASSUME Types, NEW r \in Records, NEW cs \in SUBSET Cids, Import(r, cs)
  PROVE  Types'
<1>1. UNCHANGED <<blob, txn, jobs, strays, stored, quarantine, temp, keys, uploads, pending,
                  history, faults>>
  BY DEF Import, work, files, requests
<1>2. record' \subseteq Records /\ imported' \subseteq recordBlob' /\ recordBlob' \subseteq Pairs
  BY DEF Import, Types, TablesTyped, Pairs
<1>3. TablesTyped'
  BY <1>1, <1>2, SameKeys DEF Types, TablesTyped
<1>4. QED
  BY <1>1, <1>3, PartsKept DEF Types

LEMMA CommitTyped ==
  ASSUME Types, Commit
  PROVE  Types'
<1>1. UNCHANGED <<jobs, strays, stored, quarantine, temp, keys, uploads, history, faults>>
  BY DEF Commit, files, requests
<1>2. TablesTyped'
  BY <1>1, SameKeys DEF Commit, Types, TxnTyped, TablesTyped, IsView
<1>3. TxnTyped' /\ Unlocked'
  BY DEF Commit, TxnTyped, Unlocked, NoTxn
<1>4. PendingTyped'
  BY <1>3, Bounds DEF Commit, Types, PendingTyped
<1>5. jobs' = {}
  BY <1>1 DEF Commit
<1>6. QED
  BY <1>1, <1>5, <1>2, <1>3, <1>4, PartsKept DEF Types

LEMMA FaultTyped ==
  ASSUME Types, Fault
  PROVE  faults' \in 0..MaxFaults
BY Bounds DEF Types, RestTyped, Fault

LEMMA RollbackTyped ==
  ASSUME Types, Rollback
  PROVE  Types'
<1>1. /\ UNCHANGED <<tables, stored, quarantine, temp, keys, uploads, pending, scope>>
      /\ Fault /\ Abort({})
  BY DEF Rollback, files, requests
<1>2. RestTyped'
  <2>1. spoilt' \subseteq Cids /\ leaked' \subseteq Cids
    BY DEF Rollback, Types, RestTyped, Orphans
  <2>2. QED
    BY <1>1, <2>1, FaultTyped DEF Types, RestTyped
<1>3. QED
  BY <1>1, <1>2, AbortEffect, PartsKept DEF Types

LEMMA VerifyEffect ==
  ASSUME Types, NEW j \in Active, Verify(j)
  PROVE  /\ j \in jobs /\ j.at = "verify" /\ j \in Jobs(AnyRecord)
         /\ UNCHANGED <<tables, files, requests, pending, history, faults>>
         /\ \/ ~Usable(txn.view.blob, j.cid) /\ Abort({j})
            \/ /\ Usable(txn.view.blob, j.cid) /\ txn.view.blob[j.cid].tempKey = NoKey
               /\ jobs' = jobs \ {j} /\ UNCHANGED <<txn, strays>>
            \/ \E next \in Jobs(AnyRecord) :
                 /\ Usable(txn.view.blob, j.cid) /\ txn.view.blob[j.cid].tempKey = next.key
                 /\ jobs' = (jobs \ {j}) \cup {next} /\ UNCHANGED <<txn, strays>>
                 /\ next.cid = j.cid /\ next.key \in 1..keys /\ next.at \in {"copy", "tidy"}
                 /\ next.at = "tidy" => stored[j.cid] # "none"
<1>1. j \in jobs /\ j.at = "verify" /\ j \in Jobs(AnyRecord)
  BY DEF Verify, Types, TasksTyped
<1>2. ASSUME Usable(txn.view.blob, j.cid), txn.view.blob[j.cid].tempKey # NoKey, ~Unlocked
      PROVE  txn.view.blob[j.cid].tempKey \in 1..keys
  BY <1>2, Bounds DEF Types, TxnTyped, IsView, IsTable, Row, Usable, UploadsTyped, NoKey
<1>3. CASE ~Unlocked
  BY <1>1, <1>2, <1>3, MadePermanent DEF Verify
<1>4. QED
  BY <1>1, <1>3 DEF Types, LockTyped, Unlocked

LEMMA VerifyTyped ==
  ASSUME Types, NEW j \in Active, Verify(j)
  PROVE  Types'
<1>1. UNCHANGED <<tables, stored, quarantine, temp, keys, uploads, pending, history, faults>>
  BY VerifyEffect DEF files, requests
<1>2. TxnTyped' /\ LockTyped' /\ TasksTyped' /\ (txn' = txn \/ Unlocked')
  <2>1. CASE Abort({j})
    BY <1>1, <2>1, AbortEffect
  <2>2. CASE jobs' = jobs \ {j} /\ UNCHANGED <<txn, strays>>
    BY <1>1, <2>2, PartsKept, SameKeys DEF Types, LockTyped, TasksTyped
  <2>3. ASSUME NEW next \in Jobs(AnyRecord), j \in jobs,
               jobs' = (jobs \ {j}) \cup {next} /\ UNCHANGED <<txn, strays>>
        PROVE  TxnTyped' /\ LockTyped' /\ TasksTyped'
    BY <1>1, <2>3, PartsKept, SameKeys DEF Types, LockTyped, TasksTyped
  <2>4. QED
    BY <2>1, <2>2, <2>3, VerifyEffect
<1>3. QED
  BY <1>1, <1>2, PartsKept DEF Types

LEMMA MovesTyped ==
  ASSUME Types, NEW j \in Active, NEW next \in Jobs(AnyRecord), Moves(j, next), UNCHANGED <<txn, keys>>
  PROVE  LockTyped' /\ TasksTyped'
BY MovesEffect DEF Types, LockTyped

LEMMA ActiveTyped ==
  ASSUME Types, NEW j \in Active
  PROVE  j \in Jobs(AnyRecord) /\ j.cid \in Cids
BY TaskShape DEF Types, TasksTyped, Active

LEMMA StartCopyEffect ==
  ASSUME Types, NEW j \in Active, StartCopy(j)
  PROVE  /\ j.at = "copy" /\ j \in Jobs(AnyRecord) /\ j.cid \in Cids
         /\ UNCHANGED <<tables, temp, quarantine, requests, pending, scope, spoilt, faults>>
         /\ \/ /\ j.key \in temp /\ UNCHANGED txn
               /\ \E next \in Jobs(AnyRecord) :
                    /\ Moves(j, next)
                    /\ next.cid = j.cid /\ next.key = j.key /\ next.at = "stored"
               /\ stored' = [stored EXCEPT ![j.cid] = "partial"]
               /\ leaked' = leaked \cup ({j.cid} \ Known)
            \/ j.key \notin temp /\ Rejects(j) /\ UNCHANGED <<stored, leaked>>
<1>1. j \in Jobs(AnyRecord) /\ j.cid \in Cids /\ j.at = "copy"
  BY ActiveTyped DEF StartCopy
<1>2. QED
  BY <1>1, NextTask DEF StartCopy, Writing

LEMMA StartCopyTyped ==
  ASSUME Types, NEW j \in Active, StartCopy(j)
  PROVE  Types'
<1>1. UNCHANGED <<tables, temp, quarantine, keys, uploads, pending, scope, spoilt, faults>>
  BY StartCopyEffect DEF requests
<1>2. TxnTyped' /\ LockTyped' /\ TasksTyped' /\ (txn' = txn \/ Unlocked')
  <2>1. CASE Rejects(j)
    BY <1>1, <2>1, RejectsEffect
  <2>2. ASSUME NEW next \in Jobs(AnyRecord), Moves(j, next), UNCHANGED txn
        PROVE  TxnTyped' /\ LockTyped' /\ TasksTyped'
    BY <1>1, <2>2, MovesTyped, PartsKept
  <2>3. QED
    BY <2>1, <2>2, StartCopyEffect
<1>3. StoredTyped'
  BY <1>1, StartCopyEffect, FilesTyped DEF Types, StoredTyped
<1>4. RestTyped'
  BY <1>1, StartCopyEffect DEF Types, RestTyped
<1>5. QED
  BY <1>1, <1>2, <1>3, <1>4, PartsKept DEF Types

LEMMA EndCopyEffect ==
  ASSUME Types, NEW j \in Active, EndCopy(j)
  PROVE  /\ j.at \in Writing /\ j \in Jobs(AnyRecord) /\ j.cid \in Cids
         /\ UNCHANGED <<tables, txn, temp, requests, pending, scope, leaked, faults>>
         /\ \E next \in Jobs(AnyRecord) :
               /\ Moves(j, next)
               /\ next.cid = j.cid /\ next.key = j.key /\ next.at = "tidy"
         /\ FileBecomes(j, "whole") /\ StoredTyped'
         /\ spoilt' \subseteq spoilt
         /\ \A c \in spoilt \ spoilt' : stored'[c] # stored[c]
<1>1. j \in Jobs(AnyRecord) /\ j.cid \in Cids /\ j.at \in Writing
  BY ActiveTyped DEF EndCopy
<1>2. j.at # "verify"
  BY <1>1 DEF Writing
<1>3. StoredTyped'
  BY <1>1, FileEnds DEF EndCopy, Types
<1>4. QED
  BY <1>1, <1>2, <1>3, NextTask DEF EndCopy

LEMMA EndCopyTyped ==
  ASSUME Types, NEW j \in Active, EndCopy(j)
  PROVE  Types'
<1>1. UNCHANGED <<tables, txn, temp, keys, uploads, pending, scope, leaked, faults>>
  BY EndCopyEffect DEF requests
<1>2. LockTyped' /\ TasksTyped'
  BY <1>1, EndCopyEffect, MovesTyped
<1>3. StoredTyped'
  BY EndCopyEffect
<1>4. RestTyped'
  BY <1>1, EndCopyEffect DEF Types, RestTyped
<1>5. QED
  BY <1>1, <1>2, <1>3, <1>4, PartsKept DEF Types

LEMMA CopyFailsTyped ==
  ASSUME Types, NEW j \in Active, CopyFails(j)
  PROVE  Types'
<1>1. /\ UNCHANGED <<tables, temp, keys, uploads, pending, scope>>
      /\ Rejects(j) /\ Fault /\ j.cid \in Cids /\ StoredTyped'
  BY ActiveTyped, FileEnds DEF CopyFails, requests, Types
<1>2. TxnTyped' /\ LockTyped' /\ TasksTyped' /\ (txn' = txn \/ Unlocked')
  BY <1>1, RejectsEffect
<1>3. RestTyped'
  <2>1. spoilt' \subseteq Cids /\ leaked' \subseteq Cids
    BY <1>1 DEF CopyFails, Types, RestTyped, Orphans
  <2>2. QED
    BY <1>1, <2>1, FaultTyped DEF Types, RestTyped
<1>4. QED
  BY <1>1, <1>2, <1>3, PartsKept DEF Types

LEMMA PermanentTyped ==
  ASSUME keys \in Nat, NEW t, IsTable(t), NEW k
  PROVE  /\ IsTable(Permanent(t, k)) /\ DOMAIN Permanent(t, k) = DOMAIN t
         /\ \A c \in DOMAIN t :
              /\ Permanent(t, k)[c].down = t[c].down
              /\ t[c].tempKey = k => Permanent(t, k)[c].tempKey = NoKey
              /\ t[c].tempKey # k => Permanent(t, k)[c] = t[c]
BY DEF IsTable, Permanent, Row, NoKey

\* The view after a task has made its blob permanent
TidiedView(j) == View(Permanent(txn.view.blob, j.key), txn.view.record, txn.view.refs,
                      txn.view.imported)

LEMMA TidyEffect ==
  ASSUME Types, NEW j \in Active, Tidy(j)
  PROVE  /\ j.at = "tidy" /\ j \in Jobs(AnyRecord) /\ j.cid \in Cids /\ j.key \in 1..keys
         /\ temp' = temp \ {j.key}
         /\ UNCHANGED <<tables, stored, quarantine, requests, pending, history, faults>>
         /\ \/ /\ j \in jobs /\ jobs' = jobs \ {j} /\ UNCHANGED strays
               /\ Begin(txn.at, TidiedView(j), txn.drop, txn.about) /\ ~Unlocked /\ txn.at = "blobs"
            \/ /\ j \in strays /\ strays' = strays \ {j}
               /\ UNCHANGED <<txn, jobs>>
<1>1. j \in Jobs(AnyRecord) /\ j.cid \in Cids /\ j.at = "tidy" /\ j.key \in 1..keys
  BY ActiveTyped, TaskShape DEF Tidy
<1>2. j \in jobs => txn.at = "blobs" /\ ~Unlocked
  BY DEF Types, LockTyped, Unlocked
<1>3. QED
  BY <1>1, <1>2 DEF Tidy, TidiedView

LEMMA TidyTyped ==
  ASSUME Types, NEW j \in Active, Tidy(j)
  PROVE  Types'
<1>1. UNCHANGED <<tables, stored, quarantine, keys, uploads, pending, history, faults>>
  BY TidyEffect DEF requests
<1>2. TxnTyped' /\ LockTyped' /\ (txn' = txn \/ (~Unlocked /\ txn'.drop = txn.drop))
  <2>1. CASE Begin(txn.at, TidiedView(j), txn.drop, txn.about) /\ ~Unlocked /\ txn.at = "blobs"
    <3>1. IsView(TidiedView(j))
      <4>1. keys \in Nat /\ IsView(txn.view)
        BY <2>1, Bounds DEF Types, TxnTyped, UploadsTyped
      <4>2. QED
        BY <4>1, PermanentTyped DEF IsView, TidiedView, View
    <3>2. txn.drop \in SUBSET Cids /\ txn.about \in Cids \cup {None}
      BY <2>1 DEF Types, TxnTyped
    <3>3. QED
      BY <1>1, <2>1, <3>1, <3>2, BeginTyped, PartsKept
  <2>2. CASE UNCHANGED <<txn, jobs>>
    BY <1>1, <2>2, PartsKept
  <2>3. QED
    BY <2>1, <2>2, TidyEffect
<1>3. TasksTyped'
  BY <1>1, TidyEffect, SameKeys DEF Types, TasksTyped
<1>4. UploadsTyped'
  BY <1>1, TidyEffect DEF Types, UploadsTyped
<1>5. QED
  BY <1>1, <1>2, <1>3, <1>4, PartsKept DEF Types

LEMMA MarkedTyped ==
  ASSUME IsTable(blob), NEW c, NEW applied \in BOOLEAN
  PROVE  /\ IsTable(Marked(c, applied)) /\ DOMAIN Marked(c, applied) = DOMAIN blob
         /\ \A d \in DOMAIN blob : /\ Marked(c, applied)[d].tempKey = blob[d].tempKey
                                   /\ d # c => Marked(c, applied)[d] = blob[d]
                                   /\ d = c => Marked(c, applied)[d].down = applied
BY DEF IsTable, Marked, Row

LEMMA TakedownTyped ==
  ASSUME Types, NEW c \in Cids, NEW applied \in BOOLEAN, Takedown(c, applied)
  PROVE  Types'
<1>1. UNCHANGED <<tables, strays, stored, quarantine, temp, keys, uploads, pending, history, faults>>
  BY DEF Takedown, files, requests
<1>2. IsView(Seeing(Marked(c, applied)))
  BY MarkedTyped DEF IsView, Seeing, View, Types, TablesTyped
<1>3. Begin(IF applied THEN "quarantine" ELSE "unquarantine", Seeing(Marked(c, applied)), {}, c)
  BY DEF Takedown
<1>4. TxnTyped' /\ txn'.drop = {} /\ jobs' = {}
  BY <1>1, <1>2, <1>3, BeginTyped DEF Takedown
<1>5. TasksTyped'
  BY <1>1, <1>4, SameKeys DEF Types, TasksTyped
<1>6. QED
  BY <1>1, <1>4, <1>5, PartsKept DEF Types

LEMMA MoveEffect ==
  ASSUME Types, Quarantine \/ Unquarantine
  PROVE  /\ ~Unlocked /\ txn.about \in Cids /\ jobs = {}
         /\ UNCHANGED <<tables, jobs, temp, requests, pending, scope, spoilt, faults>>
         /\ Begin("commit", txn.view, txn.drop, txn.about)
         /\ TxnTyped' /\ ~Unlocked' /\ TasksTyped'
         /\ \A i \in strays' : \E j \in strays : SameTask(i, j)
<1>1. ~Unlocked /\ txn.about \in Cids /\ jobs = {}
  BY DEF Quarantine, Unquarantine, Types, TxnTyped, LockTyped
<1>2. /\ UNCHANGED <<tables, temp, requests, pending, scope, spoilt, faults>>
      /\ Begin("commit", txn.view, txn.drop, txn.about)
  BY DEF Quarantine, Unquarantine, Moved, history
<1>3. TxnTyped' /\ ~Unlocked'
  BY <1>1, <1>2, BeginTyped DEF Types, TxnTyped, requests
<1>4. UNCHANGED keys
  BY <1>2 DEF requests
<1>5. \/ UNCHANGED <<jobs, strays>>
      \/ Moving(txn.about, [stored |-> "quarantine", quarantine |-> "unlinked"])
      \/ Moving(txn.about, [quarantine |-> "stored", stored |-> "unlinked"])
  BY DEF Quarantine, Unquarantine
<1>6. UNCHANGED jobs /\ TasksTyped' /\ \A i \in strays' : \E j \in strays : SameTask(i, j)
  <2>1. CASE UNCHANGED <<jobs, strays>>
    BY <1>4, <2>1, PartsKept DEF SameTask
  <2>2. ASSUME NEW where, DOMAIN where = {"stored", "quarantine"},
               \A place \in DOMAIN where : where[place] \in Writing, Moving(txn.about, where)
        PROVE  UNCHANGED jobs /\ TasksTyped' /\ \A i \in strays' : \E j \in strays : SameTask(i, j)
    <3>1. DOMAIN where \subseteq Writing
      BY <2>2 DEF Writing
    <3>2. QED
      BY <1>1, <1>4, <2>2, <3>1, MovingEffect
  <2>3. QED
    BY <1>5, <2>1, <2>2 DEF Writing
<1>7. QED
  BY <1>1, <1>2, <1>3, <1>6

LEMMA MoveTyped ==
  ASSUME Types, Quarantine \/ Unquarantine
  PROVE  Types'
<1>1. /\ UNCHANGED <<tables, temp, keys, uploads, pending, scope, spoilt, faults>> /\ TasksTyped'
      /\ TxnTyped' /\ txn'.drop = txn.drop /\ ~Unlocked /\ jobs' = {} /\ txn.about \in Cids
  BY MoveEffect DEF requests, Begin
<1>2. StoredTyped'
  <2>1. StoredTyped /\ stored[txn.about] \in FileStates /\ quarantine[txn.about] \in FileStates
    BY <1>1, FilesTyped DEF Types
  <2>2. CASE Quarantine
    BY <1>1, <2>1, <2>2, FilesTyped DEF Quarantine, StoredTyped
  <2>3. CASE Unquarantine
    <3>1. UNCHANGED <<stored, quarantine>>
             \/ /\ stored' = [stored EXCEPT ![txn.about] = quarantine[txn.about]]
                /\ quarantine' = [quarantine EXCEPT ![txn.about] = "none"]
      BY <2>3 DEF Unquarantine
    <3>2. [stored EXCEPT ![txn.about] = quarantine[txn.about]] \in [Cids -> FileStates]
      BY <1>1, <2>1, FilesTyped
    <3>3. [quarantine EXCEPT ![txn.about] = "none"] \in [Cids -> FileStates]
      BY <1>1, <2>1, FilesTyped
    <3>4. QED
      BY <2>1, <3>1, <3>2, <3>3 DEF StoredTyped
  <2>4. QED
    BY <2>2, <2>3
<1>3. RestTyped'
  BY <1>1 DEF Quarantine, Unquarantine, Types, RestTyped, history
<1>4. QED
  BY <1>1, <1>2, <1>3, PartsKept DEF Types

LEMMA DeleteEffect ==
  ASSUME Types, NEW c \in Cids, DeleteBlob(c)
  PROVE  /\ UNCHANGED <<tables, txn, temp, quarantine, requests, scope, leaked, faults>>
         /\ TasksTyped'
         /\ \A i \in jobs' : \E j \in jobs : SameTask(i, j)
         /\ \A i \in strays' : \E j \in strays : SameTask(i, j)
         /\ \A j \in jobs : \E i \in jobs' : i.cid = j.cid
         /\ \A j \in Active : \E i \in Active' :
               i.cid = j.cid /\ i.at = IF j.cid = c /\ j.at = "stored" THEN "unlinked" ELSE j.at
         /\ (\A i, j \in jobs : i = j) => \A i, j \in jobs' : i = j
         /\ jobs = {} => jobs' = {}
<1> DEFINE where == [stored |-> "unlinked"]
<1>1. /\ UNCHANGED <<tables, txn, temp, quarantine, requests, scope, leaked, faults>>
      /\ Moving(c, where) /\ UNCHANGED keys
  BY DEF DeleteBlob, requests
<1>2. DOMAIN where = {"stored"} /\ where["stored"] = "unlinked"
  OBVIOUS
<1> HIDE DEF where
<1>3. DOMAIN where \subseteq Writing /\ \A place \in DOMAIN where : where[place] \in Writing
  BY <1>2 DEF Writing
<1>4. \A j : Goes(j, c, where) = IF j.cid = c /\ j.at = "stored" THEN "unlinked" ELSE j.at
  BY <1>2 DEF Goes
<1>5. QED
  BY <1>1, <1>3, <1>4, MovingEffect

LEMMA DeletionTyped ==
  ASSUME Types, NEW c \in Cids, DeleteBlob(c) \/ DeleteBlobFails(c)
  PROVE  Types'
<1>1. /\ UNCHANGED <<tables, txn, temp, quarantine, keys, uploads, scope>>
      /\ pending[c] > 0 /\ pending' = [pending EXCEPT ![c] = @ - 1]
  BY DEF DeleteBlob, DeleteBlobFails, work, files, requests
<1>2. StoredTyped'
  BY <1>1, FilesTyped DEF DeleteBlob, DeleteBlobFails, Types, StoredTyped, files
<1>3. PendingTyped'
  BY <1>1, Bounds DEF Types, PendingTyped, Unlocked
<1>4. RestTyped' /\ TasksTyped' /\ LockTyped'
  <2>1. CASE DeleteBlob(c)
    BY <1>1, <2>1, DeleteEffect DEF DeleteBlob, Types, RestTyped, LockTyped
  <2>2. CASE DeleteBlobFails(c)
    BY <1>1, <2>2, FaultTyped, PartsKept DEF DeleteBlobFails, Types, RestTyped, work
  <2>3. QED
    BY <2>1, <2>2
<1>5. QED
  BY <1>1, <1>2, <1>3, <1>4, PartsKept DEF Types

LEMMA RestartTyped ==
  ASSUME Types, Restart
  PROVE  Types'
<1>1. UNCHANGED <<tables, temp, keys, scope>> /\ Fault
  BY DEF Restart
<1>2. txn' = NoTxn /\ jobs' = {} /\ strays' = {} /\ uploads' = {} /\ pending' = [c \in Cids |-> 0]
  BY DEF Restart
<1>3. TxnTyped' /\ TasksTyped' /\ UploadsTyped' /\ PendingTyped' /\ Unlocked'
  BY <1>1, <1>2, Bounds DEF TxnTyped, TasksTyped, Types, UploadsTyped, PendingTyped, Unlocked, NoTxn
<1>4. RestTyped'
  <2>1. spoilt' \subseteq Cids /\ leaked' \subseteq Cids
    BY DEF Restart, Types, RestTyped, Orphans
  <2>2. QED
    BY <1>1, <2>1, FaultTyped DEF Types, RestTyped
<1>5. StoredTyped'
  BY FilesTyped DEF Restart, Types, StoredTyped
<1>6. QED
  BY <1>1, <1>2, <1>3, <1>4, <1>5, PartsKept DEF Types

LEMMA StutterTyped ==
  ASSUME Types, UNCHANGED vars
  PROVE  Types'
BY PartsKept DEF Types, vars, work, files, requests

LEMMA TypesInit == Init => Types
<1> SUFFICES ASSUME Init PROVE Types
  OBVIOUS
<1>1. DOMAIN blob = {} /\ txn.at = "none" /\ keys \in 0..MaxKeys
  BY Bounds DEF Init, NoTxn
<1>2. IsTable(blob)
  BY <1>1 DEF IsTable
<1>3. TablesTyped /\ TxnTyped /\ LockTyped /\ TasksTyped
  BY <1>1, <1>2 DEF Init, TablesTyped, TxnTyped, LockTyped, TasksTyped, Unlocked
<1>4. StoredTyped /\ UploadsTyped /\ RestTyped
  BY <1>1, Bounds DEF Init, StoredTyped, UploadsTyped, RestTyped, FileStates
<1>5. PendingTyped
  BY <1>1, Bounds DEF Init, PendingTyped, Unlocked
<1>6. QED
  BY <1>3, <1>4, <1>5 DEF Types

LEMMA Scoped ==
  ASSUME Types
  PROVE  scope.cids \subseteq Cids /\ scope.records \subseteq Records
BY Bounds DEF Types, RestTyped

\* The steps of Next, with parameters of the right types
LEMMA Steps ==
  ASSUME Types, [Next]_vars
  PROVE  \/ \E c \in Cids : PutTemp(c) \/ DeleteBlob(c) \/ DeleteBlobFails(c)
         \/ \E c \in Cids, applied \in BOOLEAN : Takedown(c, applied)
         \/ \E u \in uploads : UploadBlob(u)
         \/ \E new, gone : DOMAIN new \subseteq Records /\ Write(new, gone)
         \/ \E r \in Records, cs \in SUBSET Cids : Import(r, cs)
         \/ \E j \in Active : Verify(j) \/ StartCopy(j) \/ EndCopy(j) \/ CopyFails(j) \/ Tidy(j)
         \/ Quarantine \/ Unquarantine
         \/ Commit \/ Rollback \/ Restart
         \/ UNCHANGED vars
<1>1. ASSUME NEW rs \in SUBSET scope.records \ {{}}, NEW new \in [rs -> SUBSET scope.cids],
             NEW gone \in SUBSET {r \in rs \cap record : new[r] = {}}, Write(new, gone)
      PROVE  \E n, g : DOMAIN n \subseteq Records /\ Write(n, g)
  BY <1>1, Scoped
<1>2. QED
  BY <1>1, Scoped DEF Next

LEMMA TypesStep == Types /\ [Next]_vars => Types'
<1> SUFFICES ASSUME Types, [Next]_vars PROVE Types'
  OBVIOUS
<1>1. QED
  BY Steps, PutTempTyped, DeletionTyped, TakedownTyped, UploadTyped, WriteTyped, ImportTyped,
     VerifyTyped, StartCopyTyped, EndCopyTyped, CopyFailsTyped, TidyTyped, MoveTyped,
     CommitTyped, RollbackTyped, RestartTyped, StutterTyped

-----------------------------------------------------------------------------
(* Keys, tasks and transactions                                            *)

LEMMA KeysKept ==
  ASSUME Types, OwnerInv, UploadsInv, UNCHANGED keys, uploads' \subseteq uploads,
         \A c \in Cids : \A k \in 1..keys : Keyed(c, k)' => Keyed(c, k),
         \A i \in Active' : \/ i.key \notin 1..keys
                            \/ \E j \in Active : j.cid = i.cid /\ j.key = i.key
                            \/ Keyed(i.cid, i.key),
         \A u \in uploads' : u.key \in temp'
  PROVE  OwnerInv' /\ UploadsInv'
<1>1. \A c \in Cids : \A k \in 1..keys : Owns(c, k)' => Owns(c, k)
  BY DEF Owns
<1>2. OwnerInv'
  BY <1>1 DEF OwnerInv
<1>3. \A u \in uploads : u.key \in 1..keys /\ u.cid \in Cids
  BY DEF Types, UploadsTyped
<1>4. UploadsInv'
  <2> SUFFICES ASSUME NEW u \in uploads'
               PROVE  /\ u.key \in temp'
                      /\ \A c \in Cids : ~Keyed(c, u.key)'
                      /\ \A j \in Active' : j.key # u.key
                      /\ \A v \in uploads' : v.key = u.key => v = u
    BY DEF UploadsInv
  <2>1. u \in uploads /\ u.key \in 1..keys /\ \A c \in Cids : ~Keyed(c, u.key)
    BY <1>3 DEF UploadsInv
  <2>2. \A j \in Active' : j.key # u.key
    <3> SUFFICES ASSUME NEW j \in Active', j.key = u.key PROVE FALSE
      OBVIOUS
    <3>1. ~Keyed(j.cid, u.key)
      BY <2>1 DEF Keyed, Types, TablesTyped, TxnTyped, IsView, IsTable
    <3>2. \A i \in Active : i.key # u.key
      BY <2>1 DEF UploadsInv
    <3>3. QED
      BY <2>1, <3>1, <3>2
  <2>3. QED
    BY <2>1, <2>2 DEF UploadsInv
<1>5. QED
  BY <1>2, <1>4

\* Steps that touch neither keys nor tasks nor the transaction
LEMMA QuietKept ==
  ASSUME StepInv, UNCHANGED <<blob, txn, jobs, strays, keys, temp, uploads>>
  PROVE  StepInv'
<1>1. \A c, k : (Keyed(c, k)' <=> Keyed(c, k)) /\ (Owns(c, k)' <=> Owns(c, k))
  BY DEF Keyed, Owns, Active, Unlocked
<1>2. OwnerInv' /\ UploadsInv'
  BY <1>1 DEF StepInv, OwnerInv, UploadsInv, Active
<1>3. JobsInv' /\ UploadInv' /\ ViewInv'
  BY DEF StepInv, JobsInv, UploadInv, ViewInv, Unlocked
<1>4. QED
  BY <1>2, <1>3 DEF StepInv

\* The transaction ends, with what it did or without, and leaves tasks behind
LEMMA EndKept ==
  ASSUME Types, StepInv, Unlocked', UNCHANGED <<keys, temp>>, uploads' \subseteq uploads,
         blob' = blob \/ (~Unlocked /\ blob' = txn.view.blob),
         jobs' = {}, \A i \in strays' : i \in Active
  PROVE  StepInv'
<1>1. \A c \in Cids : \A k \in 1..keys : Keyed(c, k)' => Keyed(c, k)
  BY DEF Keyed
<1>2. \A i \in Active' : i \in Active
  BY DEF Active
<1>3. OwnerInv' /\ UploadsInv'
  BY <1>1, <1>2, KeysKept DEF StepInv, UploadsInv
<1>4. JobsInv' /\ UploadInv' /\ ViewInv'
  BY DEF JobsInv, UploadInv, ViewInv
<1>5. QED
  BY <1>3, <1>4 DEF StepInv

LEMMA LockedJobs ==
  ASSUME Types, NEW j \in jobs
  PROVE  ~Unlocked /\ j \in Active /\ j \in Jobs(AnyRecord) /\ j.cid \in Cids
BY ActiveTyped DEF Types, LockTyped, Unlocked, Active

\* A task of the transaction goes on, with a row that it sees
LEMMA JobKept ==
  ASSUME Types, StepInv, UNCHANGED <<blob, txn, strays, keys, temp, uploads>>,
         NEW j \in jobs, NEW next, jobs' = (jobs \ {j}) \cup {next}, next.cid = j.cid,
         next.key \in 1..keys,
         j.cid \in DOMAIN txn.view.blob, txn.view.blob[j.cid].tempKey \in {next.key, NoKey},
         next.key = j.key \/ txn.view.blob[j.cid].tempKey = next.key
  PROVE  StepInv'
<1>1. \A c, k : Keyed(c, k)' <=> Keyed(c, k)
  BY DEF Keyed, Unlocked
<1>2. next.key = j.key \/ Keyed(next.cid, next.key)
  BY LockedJobs DEF Keyed
<1>3. \A i \in Active' : i = next \/ i \in Active
  BY DEF Active
<1>4. OwnerInv' /\ UploadsInv'
  <2>1. j \in Active
    BY DEF Active
  <2>2. QED
    BY <1>1, <1>2, <1>3, <2>1, KeysKept DEF StepInv, UploadsInv
<1>5. JobsInv'
  BY DEF StepInv, JobsInv
<1>6. UploadInv'
  BY DEF StepInv, UploadInv, Unlocked
<1>7. ViewInv'
  BY DEF StepInv, ViewInv, Unlocked
<1>8. QED
  BY <1>4, <1>5, <1>6, <1>7 DEF StepInv

\* A task of the transaction is done
LEMMA JobDoneKept ==
  ASSUME Types, StepInv, UNCHANGED <<blob, txn, strays, keys, temp, uploads>>,
         jobs' \subseteq jobs
  PROVE  StepInv'
<1>1. \A c, k : Keyed(c, k)' <=> Keyed(c, k)
  BY DEF Keyed, Unlocked
<1>2. \A i \in Active' : i \in Active
  BY DEF Active
<1>3. OwnerInv' /\ UploadsInv'
  BY <1>1, <1>2, KeysKept DEF StepInv, UploadsInv
<1>4. JobsInv' /\ ViewInv'
  BY DEF StepInv, JobsInv, ViewInv, Unlocked
<1>5. UploadInv'
  BY DEF StepInv, UploadInv, Unlocked
<1>6. QED
  BY <1>3, <1>4, <1>5 DEF StepInv

\* A task of a transaction that has failed goes on, or ends
LEMMA StrayKept ==
  ASSUME Types, StepInv, UNCHANGED <<blob, txn, jobs, keys, uploads>>,
         NEW j \in strays, temp' = temp \/ temp' = temp \ {j.key},
         \A i \in strays' : i \in strays \/ (i.cid = j.cid /\ i.key = j.key)
  PROVE  StepInv'
<1>1. \A c, k : Keyed(c, k)' <=> Keyed(c, k)
  BY DEF Keyed, Unlocked
<1>2. j \in Active
  BY DEF Active
<1>3. \A i \in Active' : i \in Active \/ (i.cid = j.cid /\ i.key = j.key)
  BY DEF Active
<1>4. \A u \in uploads' : u.key \in temp'
  BY <1>2 DEF StepInv, UploadsInv
<1>5. OwnerInv' /\ UploadsInv'
  BY <1>1, <1>2, <1>3, <1>4, KeysKept DEF StepInv
<1>6. JobsInv' /\ ViewInv'
  BY DEF StepInv, JobsInv, ViewInv, Unlocked
<1>7. UploadInv'
  BY DEF StepInv, UploadInv, Unlocked
<1>8. QED
  BY <1>5, <1>6, <1>7 DEF StepInv

\* The end of a task: its row is permanent, its temporary file is nobody else's
LEMMA JobTidyKept ==
  ASSUME Types, Types', StepInv, NEW j \in jobs, Tidy(j), jobs' = jobs \ {j}, UNCHANGED strays,
         Begin(txn.at, TidiedView(j), txn.drop, txn.about)
  PROVE  StepInv'
<1> DEFINE t == txn.view.blob
<1>1. /\ j \in Active /\ ~Unlocked /\ j.key \in 1..keys /\ j.cid \in Cids /\ j.at = "tidy"
      /\ temp' = temp \ {j.key} /\ UNCHANGED <<blob, keys, uploads>> /\ IsTable(t) /\ keys \in Nat
  BY LockedJobs, TidyEffect, Bounds DEF tables, requests, Types, TxnTyped, IsView, UploadsTyped
<1>2. /\ txn'.view.blob = Permanent(t, j.key) /\ txn'.at = txn.at /\ txn'.drop = txn.drop
      /\ txn'.about = txn.about /\ ~Unlocked' /\ txn.at = "blobs"
  BY <1>1 DEF Begin, TidiedView, View, Unlocked, Types, LockTyped
<1>3. /\ DOMAIN txn'.view.blob = DOMAIN t
      /\ \A c \in DOMAIN t : /\ txn'.view.blob[c].down = t[c].down
                             /\ txn'.view.blob[c].tempKey \in {t[c].tempKey, NoKey}
                             /\ t[c].tempKey # j.key => txn'.view.blob[c] = t[c]
  BY <1>1, <1>2, PermanentTyped
<1>4. \A c \in Cids : \A k \in 1..keys : Keyed(c, k)' => Keyed(c, k)
  BY <1>1, <1>3 DEF Keyed, NoKey
<1>5. \A i \in Active' : i \in Active
  BY DEF Active
<1>6. \A u \in uploads' : u.key \in temp'
  BY <1>1 DEF StepInv, UploadsInv
<1>7. OwnerInv' /\ UploadsInv'
  BY <1>1, <1>4, <1>5, <1>6, KeysKept DEF StepInv
<1>8. JobsInv'
  BY <1>3 DEF StepInv, JobsInv
<1>9. UploadInv'
  <2>1. ~(DOMAIN t \subseteq DOMAIN blob) => jobs' = {}
    BY <1>1 DEF StepInv, UploadInv
  <2>2. QED
    BY <1>1, <1>3, <2>1 DEF UploadInv
<1>10. ViewInv'
  BY <1>1, <1>2, <1>3 DEF StepInv, ViewInv
<1>11. QED
  BY <1>7, <1>8, <1>9, <1>10 DEF StepInv

LEMMA KeyedTyped ==
  ASSUME Types, NEW c \in Cids, NEW k, Keyed(c, k)
  PROVE  k \in 0..keys
<1>1. \A t : IsTable(t) => \A d \in DOMAIN t : t[d].tempKey \in 0..keys
  BY DEF IsTable, Row
<1>2. IsTable(blob) /\ (~Unlocked => IsTable(txn.view.blob))
  BY DEF Types, TablesTyped, TxnTyped, IsView
<1>3. QED
  BY <1>1, <1>2 DEF Keyed

LEMMA PutTempKept ==
  ASSUME Types, StepInv, NEW c \in Cids, PutTemp(c)
  PROVE  StepInv'
<1> DEFINE n == keys + 1
           v == [key |-> n, cid |-> c]
<1>1. /\ keys \in Nat /\ keys' = n /\ temp' = temp \cup {n} /\ uploads' = uploads \cup {v}
      /\ UNCHANGED <<blob, txn, jobs, strays>>
  BY Bounds DEF PutTemp, Types, UploadsTyped, tables, work
<1>2. \A d, k : Keyed(d, k)' <=> Keyed(d, k)
  BY <1>1 DEF Keyed, Unlocked
<1>3. \A d \in Cids : ~Keyed(d, n)
  <2> SUFFICES ASSUME NEW d \in Cids, Keyed(d, n) PROVE FALSE
    OBVIOUS
  <2>1. n \in 0..keys
    BY KeyedTyped
  <2>2. QED
    BY <1>1, <2>1
<1>4. \A j \in Active : j.key # n
  <2> SUFFICES ASSUME NEW j \in Active PROVE j.key # n
    OBVIOUS
  <2>1. j.key = 0 \/ j.key \in 1..keys
    BY ActiveTyped, TaskShape DEF NoKey
  <2>2. QED
    BY <1>1, <2>1
<1>5. \A u \in uploads : u.key # n
  BY <1>1 DEF Types, UploadsTyped
<1>6. Active' = Active
  BY <1>1 DEF Active
<1>7. OwnerInv'
  <2>1. \A d \in Cids : \A k : Owns(d, k)' => Owns(d, k) \/ (d = c /\ k = n)
    BY <1>1, <1>2, <1>6 DEF Owns
  <2>2. \A d \in Cids : ~Owns(d, n)
    BY <1>3, <1>4, <1>5 DEF Owns
  <2>3. \A k \in 1..n : k = n \/ k \in 1..keys
    BY <1>1
  <2>4. QED
    BY <1>1, <2>1, <2>2, <2>3 DEF StepInv, OwnerInv
<1>8. UploadsInv'
  BY <1>1, <1>2, <1>3, <1>4, <1>5, <1>6 DEF StepInv, UploadsInv
<1>9. JobsInv' /\ ViewInv'
  BY <1>1 DEF StepInv, JobsInv, ViewInv, Unlocked
<1>10. UploadInv'
  BY <1>1 DEF StepInv, UploadInv, Unlocked
<1>11. QED
  BY <1>7, <1>8, <1>9, <1>10 DEF StepInv

LEMMA UploadKept ==
  ASSUME Types, StepInv, NEW u \in uploads, UploadBlob(u)
  PROVE  StepInv'
<1> DEFINE c == u.cid
           t == Tracked(u)
<1>1. UNCHANGED <<blob, strays, keys, temp>> /\ uploads' = uploads \ {u} /\ Unlocked
  BY DEF UploadBlob, tables, files
<1>2. /\ u.key \in 1..keys /\ c \in Cids /\ u.key \in temp /\ keys \in Nat
      /\ \A v \in uploads : v.key = u.key => v = u
  BY Bounds, TrackedTyped DEF StepInv, UploadsInv, Types, UploadsTyped
<1>3. jobs = {}
  BY <1>1 DEF Types, LockTyped, Unlocked
<1>4. CASE UNCHANGED <<txn, jobs>>
  <2>1. \A d, k : Keyed(d, k)' <=> Keyed(d, k)
    BY <1>1, <1>4 DEF Keyed, Unlocked
  <2>2. OwnerInv' /\ UploadsInv'
    BY <1>1, <1>4, <2>1, KeysKept DEF StepInv, UploadsInv, Active
  <2>3. JobsInv' /\ UploadInv' /\ ViewInv'
    BY <1>1, <1>4 DEF StepInv, JobsInv, UploadInv, ViewInv, Unlocked
  <2>4. QED
    BY <2>2, <2>3 DEF StepInv
<1>5. CASE /\ ~TakenDown(blob, c) /\ Begin("blobs", Seeing(t), {}, None)
           /\ Launch(UploadsTask(u))
  <2>1. /\ txn'.at = "blobs" /\ txn'.view.blob = t /\ txn'.drop = {} /\ ~Unlocked'
    BY <1>5 DEF Begin, Seeing, View, Unlocked
  <2>2. \A j \in jobs' : j.cid = c /\ j.key = NoKey /\ j.at = "verify"
    BY <1>2, <1>5, NewTasks DEF UploadsTask, AnyRecord
  <2>3. \A i, j \in jobs' : i = j
    <3>1. \A p, q \in UploadsTask(u) : p = q
      BY DEF UploadsTask
    <3>2. \A p \in UploadsTask(u) : p[1] \in AnyRecord /\ p[2] \in Cids
      BY <1>2 DEF UploadsTask, AnyRecord
    <3>3. QED
      BY <1>5, <3>1, <3>2, NewTasks
  <2>4. \A d \in Cids : \A k \in 1..keys : Keyed(d, k)' => Keyed(d, k) \/ (d = c /\ k = u.key)
    <3>1. \A d \in DOMAIN t : \A k \in 1..keys :
             t[d].tempKey = k => (d \in DOMAIN blob /\ blob[d].tempKey = k) \/ (d = c /\ k = u.key)
      <4>1. CASE t[c] = [tempKey |-> u.key, down |-> FALSE]
        <5>1. \A d \in DOMAIN t : d = c \/ (d \in DOMAIN blob /\ t[d] = blob[d])
          BY TrackedTyped
        <5>2. t[c].tempKey = u.key
          BY <4>1
        <5> HIDE DEF t
        <5>3. QED
          BY <5>1, <5>2
      <4>2. CASE t = blob
        BY <4>2
      <4>3. QED
        BY <4>1, <4>2, TrackedTyped
    <3>2. QED
      BY <1>1, <2>1, <3>1 DEF Keyed
  <2>5. \A i \in Active' : i \in Active \/ i.key \notin 1..keys
    BY <1>1, <2>2 DEF Active, NoKey
  <2>6. \A d \in Cids : \A k \in 1..keys : Owns(d, k)' => Owns(d, k)
    BY <1>1, <2>4, <2>5 DEF Owns
  <2>7. OwnerInv'
    BY <1>1, <2>6 DEF StepInv, OwnerInv
  <2>8. UploadsInv'
    <3> SUFFICES ASSUME NEW v \in uploads'
                 PROVE  /\ v.key \in temp'
                        /\ \A d \in Cids : ~Keyed(d, v.key)'
                        /\ \A j \in Active' : j.key # v.key
                        /\ \A w \in uploads' : w.key = v.key => w = v
      BY DEF UploadsInv
    <3>1. v \in uploads /\ v.key # u.key /\ v.key \in 1..keys
      BY <1>1, <1>2 DEF Types, UploadsTyped
    <3>2. QED
      BY <1>1, <2>4, <2>5, <3>1 DEF StepInv, UploadsInv
  <2>9. JobsInv'
    BY <2>2 DEF JobsInv
  <2>10. ViewInv'
    BY <1>1, <2>1, TrackedTyped DEF ViewInv
  <2>11. UploadInv'
    <3> SUFFICES ASSUME ~(DOMAIN t \subseteq DOMAIN blob)
                 PROVE  /\ \A i, j \in jobs' : i = j
                        /\ \A j \in jobs' : /\ Usable(t, j.cid)
                                            /\ t[j.cid].tempKey \in temp
                                            /\ \A s \in strays : s.key # t[j.cid].tempKey
      BY <1>1, <2>1 DEF UploadInv
    <3>1. c \notin DOMAIN blob /\ c \in DOMAIN t /\ t[c] = [tempKey |-> u.key, down |-> FALSE]
      BY TrackedTyped
    <3>2. \A s \in strays : s.key # u.key
      BY DEF StepInv, UploadsInv, Active
    <3>3. QED
      BY <1>2, <2>2, <2>3, <3>1, <3>2 DEF Usable
  <2>12. QED
    BY <2>7, <2>8, <2>9, <2>10, <2>11 DEF StepInv
<1>6. QED
  BY <1>4, <1>5 DEF UploadBlob, UploadsTask

\* A transaction begins in which no row is new and no key either
LEMMA BeginKept ==
  ASSUME Types, StepInv, Unlocked, ~Unlocked', UNCHANGED <<blob, strays, keys, temp, uploads>>,
         DOMAIN txn'.view.blob = DOMAIN blob \ txn'.drop,
         \A c \in DOMAIN txn'.view.blob : txn'.view.blob[c].tempKey = blob[c].tempKey,
         \A j \in jobs' : j.at = "verify" /\ j.key = NoKey,
         txn'.at = "quarantine" =>
           \A c \in DOMAIN txn'.view.blob \cap {txn'.about} : txn'.view.blob[c].down
  PROVE  StepInv'
<1>1. \A c \in Cids : \A k \in 1..keys : Keyed(c, k)' => Keyed(c, k)
  BY DEF Keyed
<1>2. \A i \in Active' : i \in Active \/ i.key \notin 1..keys
  BY DEF Active, NoKey
<1>3. OwnerInv' /\ UploadsInv'
  BY <1>1, <1>2, KeysKept DEF StepInv, UploadsInv
<1>4. JobsInv' /\ ViewInv' /\ UploadInv'
  BY DEF JobsInv, ViewInv, UploadInv
<1>5. QED
  BY <1>3, <1>4 DEF StepInv

LEMMA WriteKept ==
  ASSUME Types, StepInv, NEW new, NEW gone, DOMAIN new \subseteq Records, Write(new, gone)
  PROVE  StepInv'
<1>1. /\ Unlocked /\ UNCHANGED <<blob, strays, keys, temp, uploads>>
      /\ Begin("blobs", WriteView(new, gone), Dropped(new), None) /\ Launch(Fresh(new))
      /\ \A p \in Fresh(new) : p[1] \in AnyRecord /\ p[2] \in Cids
  BY WriteEffect DEF tables, files, requests, Fresh, AnyRecord
<1>2. /\ txn'.at = "blobs" /\ txn'.view.blob = Only(blob, Cids \ Dropped(new))
      /\ txn'.drop = Dropped(new) /\ ~Unlocked'
  BY <1>1 DEF Begin, WriteView, View, Unlocked
<1>3. \A j \in jobs' : j.at = "verify" /\ j.key = NoKey
  BY <1>1, NewTasks
<1>4. DOMAIN blob \subseteq Cids /\ IsTable(blob)
  BY DEF Types, TablesTyped, IsTable
<1>5. /\ DOMAIN txn'.view.blob = DOMAIN blob \ txn'.drop
      /\ \A c \in DOMAIN txn'.view.blob : txn'.view.blob[c].tempKey = blob[c].tempKey
  <2> DEFINE cs == Cids \ Dropped(new)
  <2>1. DOMAIN Only(blob, cs) = DOMAIN blob \cap cs /\ \A c \in DOMAIN blob \cap cs : Only(blob, cs)[c] = blob[c]
    BY <1>4, OnlyTyped
  <2>2. QED
    BY <1>2, <1>4, <2>1
<1>6. QED
  BY <1>1, <1>2, <1>3, <1>5, BeginKept

LEMMA TakedownKept ==
  ASSUME Types, StepInv, NEW c \in Cids, NEW applied \in BOOLEAN, Takedown(c, applied)
  PROVE  StepInv'
<1>1. /\ Unlocked /\ UNCHANGED <<blob, strays, keys, temp, uploads>> /\ jobs' = {}
      /\ Begin(IF applied THEN "quarantine" ELSE "unquarantine", Seeing(Marked(c, applied)), {}, c)
  BY DEF Takedown, tables, files, requests
<1>2. /\ txn'.view.blob = Marked(c, applied) /\ txn'.drop = {} /\ txn'.about = c /\ ~Unlocked'
      /\ txn'.at = "quarantine" => applied = TRUE
  BY <1>1 DEF Begin, Seeing, View, Unlocked
<1>3. IsTable(blob)
  BY DEF Types, TablesTyped
<1>4. QED
  BY <1>1, <1>2, <1>3, MarkedTyped, BeginKept

LEMMA MoveKept ==
  ASSUME Types, StepInv, Quarantine \/ Unquarantine
  PROVE  StepInv'
<1>1. /\ ~Unlocked /\ jobs = {} /\ jobs' = {} /\ UNCHANGED <<blob, keys, temp, uploads>>
      /\ txn'.view = txn.view /\ txn'.drop = txn.drop /\ txn'.at = "commit" /\ ~Unlocked'
      /\ \A i \in strays' : \E j \in strays : SameTask(i, j)
  BY MoveEffect DEF tables, requests, Begin
<1>2. \A c, k : Keyed(c, k)' <=> Keyed(c, k)
  BY <1>1 DEF Keyed
<1>3. \A i \in Active' : \E j \in Active : j.cid = i.cid /\ j.key = i.key
  BY <1>1 DEF Active, SameTask
<1>4. OwnerInv' /\ UploadsInv'
  BY <1>1, <1>2, <1>3, KeysKept DEF StepInv, UploadsInv
<1>5. JobsInv' /\ ViewInv' /\ UploadInv'
  BY <1>1 DEF StepInv, JobsInv, ViewInv, UploadInv
<1>6. QED
  BY <1>4, <1>5 DEF StepInv

\* The tasks that write a file do not mind that it is deleted
LEMMA DeleteKept ==
  ASSUME Types, StepInv, NEW c \in Cids, DeleteBlob(c)
  PROVE  StepInv'
<1>1. /\ UNCHANGED <<blob, txn, temp, keys, uploads>>
      /\ \A i \in jobs' : \E j \in jobs : SameTask(i, j)
      /\ \A i \in strays' : \E j \in strays : SameTask(i, j)
      /\ (\A i, j \in jobs : i = j) => \A i, j \in jobs' : i = j
  BY DeleteEffect DEF tables, requests
<1>2. \A d, k : Keyed(d, k)' <=> Keyed(d, k)
  BY <1>1 DEF Keyed, Unlocked
<1>3. \A i \in Active' : \E j \in Active : j.cid = i.cid /\ j.key = i.key
  BY <1>1 DEF Active, SameTask
<1>4. OwnerInv' /\ UploadsInv'
  BY <1>1, <1>2, <1>3, KeysKept DEF StepInv, UploadsInv
<1>5. JobsInv' /\ ViewInv'
  BY <1>1 DEF StepInv, JobsInv, ViewInv, SameTask, Writing, Unlocked
<1>6. UploadInv'
  BY <1>1 DEF StepInv, UploadInv, SameTask, Unlocked
<1>7. QED
  BY <1>4, <1>5, <1>6 DEF StepInv

LEMMA VerifyKept ==
  ASSUME Types, StepInv, NEW j \in Active, Verify(j)
  PROVE  StepInv'
<1>1. UNCHANGED <<blob, keys, temp, uploads>> /\ j \in jobs /\ j.cid \in Cids
  BY VerifyEffect, LockedJobs DEF tables, files, requests
<1>2. CASE Abort({j})
  BY <1>1, <1>2, AbortEffect, EndKept
<1>3. CASE jobs' = jobs \ {j} /\ UNCHANGED <<txn, strays>>
  BY <1>1, <1>3, JobDoneKept
<1>4. ASSUME NEW next \in Jobs(AnyRecord),
             Usable(txn.view.blob, j.cid), txn.view.blob[j.cid].tempKey = next.key,
             jobs' = (jobs \ {j}) \cup {next}, UNCHANGED <<txn, strays>>,
             next.cid = j.cid, next.key \in 1..keys
      PROVE  StepInv'
  BY <1>1, <1>4, JobKept DEF Usable
<1>5. QED
  BY <1>2, <1>3, <1>4, VerifyEffect

\* A task beyond its first step goes on
LEMMA GoOnKept ==
  ASSUME Types, StepInv, NEW j \in Active, j.at # "verify", NEW next, Moves(j, next),
         next.cid = j.cid, next.key = j.key, UNCHANGED <<blob, txn, keys, temp, uploads>>
  PROVE  StepInv'
<1>1. j.key \in 1..keys
  BY ActiveTyped, TaskShape
<1>2. CASE j \in jobs /\ jobs' = (jobs \ {j}) \cup {next} /\ UNCHANGED strays
  <2>1. j.cid \in DOMAIN txn.view.blob /\ txn.view.blob[j.cid].tempKey \in {next.key, NoKey}
    BY <1>2 DEF StepInv, JobsInv
  <2>2. QED
    BY <1>1, <1>2, <2>1, JobKept
<1>3. CASE j \in strays /\ strays' = (strays \ {j}) \cup {next} /\ UNCHANGED jobs
  BY <1>3, StrayKept
<1>4. QED
  BY <1>2, <1>3 DEF Moves

LEMMA RejectsKept ==
  ASSUME Types, StepInv, NEW j \in Active, Rejects(j), UNCHANGED <<blob, keys, temp, uploads>>
  PROVE  StepInv'
<1>1. CASE Abort({j})
  BY <1>1, AbortEffect, EndKept
<1>2. CASE j \in strays /\ strays' = strays \ {j} /\ UNCHANGED <<txn, jobs>>
  BY <1>2, StrayKept
<1>3. QED
  BY <1>1, <1>2 DEF Rejects

LEMMA StartCopyKept ==
  ASSUME Types, StepInv, NEW j \in Active, StartCopy(j)
  PROVE  StepInv'
<1>1. UNCHANGED <<blob, keys, temp, uploads>> /\ j.at # "verify"
  BY StartCopyEffect DEF tables, requests
<1>2. CASE Rejects(j)
  BY <1>1, <1>2, RejectsKept
<1>3. ASSUME NEW next \in Jobs(AnyRecord), Moves(j, next), UNCHANGED txn,
             next.cid = j.cid, next.key = j.key
      PROVE  StepInv'
  BY <1>1, <1>3, GoOnKept
<1>4. QED
  BY <1>2, <1>3, StartCopyEffect

LEMMA EndCopyKept ==
  ASSUME Types, StepInv, NEW j \in Active, EndCopy(j)
  PROVE  StepInv'
<1>1. UNCHANGED <<blob, txn, keys, temp, uploads>> /\ j.at # "verify"
  BY EndCopyEffect DEF tables, requests, Writing
<1>2. QED
  BY <1>1, EndCopyEffect, GoOnKept

LEMMA TidyKept ==
  ASSUME Types, Types', StepInv, NEW j \in Active, Tidy(j)
  PROVE  StepInv'
<1>1. /\ temp' = temp \ {j.key} /\ UNCHANGED <<blob, keys, uploads>>
      /\ \/ /\ j \in jobs /\ jobs' = jobs \ {j} /\ UNCHANGED strays
            /\ Begin(txn.at, TidiedView(j), txn.drop, txn.about)
         \/ j \in strays /\ strays' = strays \ {j} /\ UNCHANGED <<txn, jobs>>
  BY TidyEffect DEF tables, requests
<1>2. QED
  BY <1>1, JobTidyKept, StrayKept

LEMMA StepInit == Init => StepInv
BY DEF Init, StepInv, OwnerInv, UploadsInv, JobsInv, UploadInv, ViewInv, Owns, Keyed, Active,
       Unlocked, NoTxn

LEMMA StepStep == Types /\ Types' /\ StepInv /\ [Next]_vars => StepInv'
<1> SUFFICES ASSUME Types, Types', StepInv, [Next]_vars PROVE StepInv'
  OBVIOUS
<1>1. ASSUME NEW c \in Cids, DeleteBlobFails(c) PROVE StepInv'
  BY <1>1, QuietKept DEF DeleteBlobFails, tables, work, files, requests
<1>2. ASSUME NEW r \in Records, NEW cs \in SUBSET Cids, Import(r, cs) PROVE StepInv'
  BY <1>2, QuietKept DEF Import, work, files, requests
<1>3. ASSUME NEW j \in Active, CopyFails(j) PROVE StepInv'
  BY <1>3, RejectsKept DEF CopyFails, tables, files, requests
<1>4. CASE Commit
  <2>1. /\ ~Unlocked /\ blob' = txn.view.blob /\ jobs' = {} /\ strays' = strays /\ txn' = NoTxn
        /\ UNCHANGED <<keys, temp, uploads>>
    BY <1>4 DEF Commit, files, requests
  <2>2. QED
    BY <2>1, EndKept DEF Unlocked, NoTxn, Active
<1>5. CASE Rollback
  <2>1. Abort({}) /\ UNCHANGED <<blob, keys, temp, uploads>>
    BY <1>5 DEF Rollback, tables, files, requests
  <2>2. QED
    BY <2>1, AbortEffect, EndKept
<1>6. CASE Restart
  <2>1. /\ txn' = NoTxn /\ jobs' = {} /\ strays' = {} /\ uploads' = {}
        /\ UNCHANGED <<blob, keys, temp>>
    BY <1>6 DEF Restart, tables, files
  <2>2. QED
    BY <2>1, EndKept DEF Unlocked, NoTxn
<1>7. CASE UNCHANGED vars
  BY <1>7, QuietKept DEF vars, tables, work, files, requests
<1>8. QED
  BY Steps, <1>1, <1>2, <1>3, <1>4, <1>5, <1>6, <1>7, PutTempKept, TakedownKept, UploadKept,
     WriteKept, VerifyKept, StartCopyKept, EndCopyKept, TidyKept, MoveKept, DeleteKept

(***************************************************************************)
(* Every variable keeps its type, and the temporary file of an upload that *)
(* has no row yet is there, for any number of blobs, records, uploads,     *)
(* failures and restarts.                                                  *)
(***************************************************************************)
THEOREM TypeCorrect == Spec => []TypeOK
<1>1. Types /\ StepInv => TypeOK
  <2> SUFFICES ASSUME Types, StepInv PROVE TypeOK
    OBVIOUS
  <2>1. uploads \subseteq [key : temp, cid : Cids]
    BY DEF Types, UploadsTyped, StepInv, UploadsInv
  <2>2. jobs # {} => ~Unlocked
    BY DEF Types, LockTyped, Unlocked
  <2>3. QED
    BY <2>1, <2>2 DEF TypeOK, Types, TablesTyped, TxnTyped, IsView, TasksTyped, AnyRecord,
       StoredTyped, UploadsTyped, PendingTyped, RestTyped
<1>2. QED
  BY <1>1, TypesInit, TypesStep, StepInit, StepStep, PTL DEF Spec

-----------------------------------------------------------------------------
(* References                                                              *)

\* Steps that leave the tables alone and keep the transaction's tasks at work, or end it
LEMMA RefsQuiet ==
  ASSUME RefsInv, UNCHANGED tables,
         Unlocked' \/ (UNCHANGED txn /\ \A j \in jobs : \E i \in jobs' : i.cid = j.cid)
  PROVE  RefsInv'
<1>1. ReferencedArePermanent'
  BY DEF RefsInv, ReferencedArePermanent, tables
<1>2. ViewPermanent'
  <2>1. CASE Unlocked'
    BY <2>1 DEF ViewPermanent
  <2>2. CASE UNCHANGED txn /\ \A j \in jobs : \E i \in jobs' : i.cid = j.cid
    BY <2>2 DEF RefsInv, ViewPermanent, Unlocked
  <2>3. QED
    BY <2>1, <2>2
<1>3. QED
  BY <1>1, <1>2 DEF RefsInv

LEMMA RefsMoves ==
  ASSUME Types, RefsInv, UNCHANGED <<tables, txn>>, NEW j \in Active, NEW next, Moves(j, next),
         next.cid = j.cid
  PROVE  RefsInv'
<1>1. \A i \in jobs : \E k \in jobs' : k.cid = i.cid
  BY DEF Moves
<1>2. QED
  BY <1>1, RefsQuiet

LEMMA RefsRejects ==
  ASSUME Types, RefsInv, UNCHANGED <<tables, keys>>, NEW j \in Active, Rejects(j)
  PROVE  RefsInv'
BY RejectsEffect, RefsQuiet

\* A transaction begins with what the table refers to and no other tasks
LEMMA RefsBegin ==
  ASSUME RefsInv, UNCHANGED tables,
         \A p \in txn'.view.refs \ txn'.view.imported :
           \/ p[2] \in DOMAIN txn'.view.blob /\ txn'.view.blob[p[2]].tempKey = NoKey
           \/ \E j \in jobs' : j.cid = p[2]
  PROVE  RefsInv'
BY DEF RefsInv, ReferencedArePermanent, ViewPermanent, tables

LEMMA RefsUpload ==
  ASSUME Types, RefsInv, NEW u \in uploads, UploadBlob(u)
  PROVE  RefsInv'
<1>1. UNCHANGED tables /\ Unlocked
  BY DEF UploadBlob
<1>2. CASE UNCHANGED <<txn, jobs>>
  BY <1>1, <1>2, RefsQuiet DEF Unlocked
<1>3. CASE Begin("blobs", Seeing(Tracked(u)), {}, None)
  <2>1. /\ txn'.view.blob = Tracked(u) /\ txn'.view.refs = recordBlob
        /\ txn'.view.imported = imported
    BY <1>3 DEF Begin, Seeing, View
  <2>2. ASSUME NEW p \in recordBlob \ imported
        PROVE  p[2] \in DOMAIN Tracked(u) /\ Tracked(u)[p[2]].tempKey = NoKey
    <3>1. p[2] \in DOMAIN blob /\ blob[p[2]].tempKey = NoKey
      BY DEF RefsInv, ReferencedArePermanent
    <3>2. CASE p[2] = u.cid
      BY <3>1, <3>2, TrackedTyped
    <3>3. CASE p[2] # u.cid
      BY <3>1, <3>3, TrackedTyped
    <3>4. QED
      BY <3>2, <3>3
  <2>3. QED
    BY <1>1, <2>1, <2>2, RefsBegin
<1>4. QED
  BY <1>2, <1>3 DEF UploadBlob

(***************************************************************************)
(* A write drops no blob of a record that stays, and has a task for each   *)
(* blob of a record that it writes.                                        *)
(***************************************************************************)
LEMMA RefsWrite ==
  ASSUME Types, RefsInv, NEW new, NEW gone, DOMAIN new \subseteq Records, Write(new, gone)
  PROVE  RefsInv'
<1>1. /\ UNCHANGED tables
      /\ Begin("blobs", WriteView(new, gone), Dropped(new), None) /\ Launch(Fresh(new))
      /\ \A p \in Fresh(new) : p[1] \in AnyRecord /\ p[2] \in Cids
  BY WriteEffect DEF Fresh, AnyRecord
<1>2. /\ txn'.view.blob = Only(blob, Cids \ Dropped(new))
      /\ txn'.view.refs = (recordBlob \ Removed(new)) \cup Fresh(new)
      /\ txn'.view.imported = imported \ Removed(new)
  BY <1>1 DEF Begin, WriteView, View
<1>3. ASSUME NEW p \in Fresh(new) PROVE \E j \in jobs' : j.cid = p[2]
  BY <1>1, NewTasks
<1>4. ASSUME NEW p \in recordBlob \ Removed(new), p \notin imported
      PROVE  p[2] \in DOMAIN Only(blob, Cids \ Dropped(new))
             /\ Only(blob, Cids \ Dropped(new))[p[2]].tempKey = NoKey
  <2> DEFINE c == p[2]
             cs == Cids \ Dropped(new)
  <2>1. c \in DOMAIN blob /\ blob[c].tempKey = NoKey
    BY <1>4 DEF RefsInv, ReferencedArePermanent
  <2>2. c \in Duplicates(new)
    BY DEF Removed, Duplicates
  <2>3. IsTable(blob) /\ c \in cs
    BY <2>1, <2>2 DEF Types, TablesTyped, IsTable, Dropped
  <2>4. DOMAIN Only(blob, cs) = DOMAIN blob \cap cs /\ \A d \in DOMAIN blob \cap cs : Only(blob, cs)[d] = blob[d]
    BY <2>3, OnlyTyped
  <2>5. QED
    BY <2>1, <2>3, <2>4
<1>5. QED
  BY <1>1, <1>2, <1>3, <1>4, RefsBegin

LEMMA RefsTakedown ==
  ASSUME Types, RefsInv, NEW c \in Cids, NEW applied \in BOOLEAN, Takedown(c, applied)
  PROVE  RefsInv'
<1>1. UNCHANGED tables
  BY DEF Takedown
<1>2. /\ txn'.view.blob = Marked(c, applied) /\ txn'.view.refs = recordBlob
      /\ txn'.view.imported = imported
  BY DEF Takedown, Begin, Seeing, View
<1>3. IsTable(blob)
  BY DEF Types, TablesTyped
<1>4. QED
  BY <1>1, <1>2, <1>3, MarkedTyped, RefsBegin DEF RefsInv, ReferencedArePermanent

LEMMA RefsImport ==
  ASSUME RefsInv, NEW r, NEW cs, Import(r, cs)
  PROVE  RefsInv'
BY DEF Import, RefsInv, ReferencedArePermanent, ViewPermanent, Unlocked, work

LEMMA RefsCommit ==
  ASSUME RefsInv, Commit
  PROVE  RefsInv'
BY DEF Commit, RefsInv, ReferencedArePermanent, ViewPermanent, Unlocked, NoTxn

LEMMA RefsMove ==
  ASSUME Types, RefsInv, Quarantine \/ Unquarantine
  PROVE  RefsInv'
BY MoveEffect DEF Begin, RefsInv, ReferencedArePermanent, ViewPermanent, tables

LEMMA RefsVerify ==
  ASSUME Types, RefsInv, NEW j \in Active, Verify(j)
  PROVE  RefsInv'
<1>1. UNCHANGED tables /\ j \in jobs /\ UNCHANGED keys
  BY VerifyEffect DEF requests
<1>2. CASE Abort({j})
  BY <1>1, <1>2, AbortEffect, RefsQuiet
<1>3. CASE /\ Usable(txn.view.blob, j.cid) /\ txn.view.blob[j.cid].tempKey = NoKey
           /\ jobs' = jobs \ {j} /\ UNCHANGED <<txn, strays>>
  <2>1. ViewPermanent'
    BY <1>3 DEF RefsInv, ViewPermanent, Unlocked, Usable
  <2>2. QED
    BY <1>1, <2>1 DEF RefsInv, ReferencedArePermanent, tables
<1>4. ASSUME NEW next \in Jobs(AnyRecord), jobs' = (jobs \ {j}) \cup {next}, UNCHANGED <<txn, strays>>,
             next.cid = j.cid
      PROVE  RefsInv'
  <2>1. Moves(j, next)
    BY <1>1, <1>4 DEF Moves
  <2>2. QED
    BY <1>1, <1>4, <2>1, RefsMoves
<1>5. QED
  BY <1>2, <1>3, <1>4, VerifyEffect

LEMMA RefsTidy ==
  ASSUME Types, StepInv, RefsInv, NEW j \in Active, Tidy(j)
  PROVE  RefsInv'
<1>1. UNCHANGED tables /\ j.at = "tidy"
  BY TidyEffect
<1>2. CASE UNCHANGED <<txn, jobs>>
  BY <1>1, <1>2, RefsQuiet
<1>3. CASE /\ j \in jobs /\ jobs' = jobs \ {j} /\ ~Unlocked
           /\ Begin(txn.at, TidiedView(j), txn.drop, txn.about)
  <2> DEFINE t == txn.view.blob
  <2>1. /\ txn'.view.blob = Permanent(t, j.key) /\ txn'.view.refs = txn.view.refs
        /\ txn'.view.imported = txn.view.imported
    BY <1>3 DEF Begin, TidiedView, View
  <2>2. IsTable(t) /\ keys \in Nat
    BY <1>3, Bounds DEF Types, TxnTyped, IsView, UploadsTyped
  <2>3. /\ DOMAIN txn'.view.blob = DOMAIN t
        /\ \A c \in DOMAIN t : /\ t[c].tempKey = j.key => txn'.view.blob[c].tempKey = NoKey
                               /\ t[c].tempKey # j.key => txn'.view.blob[c] = t[c]
    BY <2>1, <2>2, PermanentTyped
  <2>4. j.cid \in DOMAIN t /\ t[j.cid].tempKey \in {j.key, NoKey}
    BY <1>1, <1>3 DEF StepInv, JobsInv
  <2>5. \A p \in txn'.view.refs \ txn'.view.imported :
           \/ p[2] \in DOMAIN txn'.view.blob /\ txn'.view.blob[p[2]].tempKey = NoKey
           \/ \E i \in jobs' : i.cid = p[2]
    <3> SUFFICES ASSUME NEW p \in txn.view.refs \ txn.view.imported
                 PROVE  \/ p[2] \in DOMAIN txn'.view.blob /\ txn'.view.blob[p[2]].tempKey = NoKey
                        \/ \E i \in jobs' : i.cid = p[2]
      BY <2>1
    <3>1. CASE p[2] \in DOMAIN t /\ t[p[2]].tempKey = NoKey
      BY <2>3, <3>1
    <3>2. CASE p[2] = j.cid
      BY <2>3, <2>4, <3>2
    <3>3. CASE p[2] # j.cid /\ \E i \in jobs : i.cid = p[2]
      BY <1>3, <3>3
    <3>4. QED
      BY <1>3, <3>1, <3>2, <3>3 DEF RefsInv, ViewPermanent
  <2>6. QED
    BY <1>1, <2>5, RefsBegin
<1>4. QED
  BY <1>2, <1>3, TidyEffect

LEMMA RefsInit == Init => RefsInv
BY DEF Init, RefsInv, ReferencedArePermanent, ViewPermanent, Unlocked, NoTxn

LEMMA RefsStep == Types /\ StepInv /\ RefsInv /\ [Next]_vars => RefsInv'
<1> SUFFICES ASSUME Types, StepInv, RefsInv, [Next]_vars PROVE RefsInv'
  OBVIOUS
<1>1. ASSUME NEW c \in Cids, PutTemp(c) \/ DeleteBlob(c) \/ DeleteBlobFails(c) PROVE RefsInv'
  BY <1>1, DeleteEffect, RefsQuiet DEF PutTemp, DeleteBlobFails, work
<1>2. ASSUME NEW j \in Active, StartCopy(j) PROVE RefsInv'
  BY <1>2, StartCopyEffect, RefsRejects, RefsMoves DEF requests
<1>3. ASSUME NEW j \in Active, EndCopy(j) PROVE RefsInv'
  BY <1>3, EndCopyEffect, RefsMoves
<1>4. ASSUME NEW j \in Active, CopyFails(j) PROVE RefsInv'
  BY <1>4, RefsRejects DEF CopyFails, requests
<1>5. CASE Rollback
  BY <1>5, AbortEffect, RefsQuiet DEF Rollback, requests
<1>6. CASE Restart
  BY <1>6, RefsQuiet DEF Restart, Unlocked, NoTxn
<1>7. CASE UNCHANGED vars
  BY <1>7, RefsQuiet DEF vars, work
<1>8. QED
  BY Steps, <1>1, <1>2, <1>3, <1>4, <1>5, <1>6, <1>7, RefsTakedown, RefsUpload, RefsWrite,
     RefsImport, RefsVerify, RefsTidy, RefsMove, RefsCommit

(***************************************************************************)
(* The blobs of a record written here have permanent rows: however writes, *)
(* uploads, imports and failures interleave, no commit drops a blob that   *)
(* another record refers to, or commits before the tasks are done.         *)
(***************************************************************************)
THEOREM ReferencesArePermanent == Spec => []ReferencedArePermanent
<1>1. RefsInv => ReferencedArePermanent
  BY DEF RefsInv
<1>2. QED
  BY <1>1, TypesInit, TypesStep, StepInit, StepStep, RefsInit, RefsStep, PTL DEF Spec

-----------------------------------------------------------------------------
(* Files without a row                                                     *)

LEMMA OrphansKept ==
  ASSUME OrphansQueued, Orphans' \subseteq Orphans \cup leaked' \cup Known', leaked \subseteq leaked',
         \A c \in Orphans \cap Known : c \in Known' \/ c \in leaked',
         \A c \in Orphans' : pending[c] > 0 => pending'[c] > 0 \/ c \in leaked'
  PROVE  OrphansQueued'
BY DEF OrphansQueued

\* Steps that leave files where they are and queues as they are
LEMMA OrphansQuiet ==
  ASSUME OrphansQueued, UNCHANGED <<blob, pending>>, leaked \subseteq leaked',
         \A c \in Cids : stored'[c] # "none" => stored[c] # "none" \/ c \in leaked' \/ c \in Known',
         Known \subseteq Known'
  PROVE  OrphansQueued'
<1>1. Orphans' \subseteq Orphans \cup leaked' \cup Known'
  BY DEF Orphans
<1>2. QED
  BY <1>1, OrphansKept

\* A failure that the process reports, or dies of
LEMMA OrphansLeaked ==
  ASSUME UNCHANGED blob, leaked' = leaked \cup Orphans,
         \A c \in Cids : stored'[c] # "none" => stored[c] # "none"
  PROVE  OrphansQueued'
BY DEF OrphansQueued, Orphans

\* The transaction is aborted, but is not the one of an upload that adds the blob
LEMMA OrphansAborted ==
  ASSUME OrphansQueued, Unlocked', UNCHANGED <<blob, stored, leaked, pending>>,
         ~Unlocked => DOMAIN txn.view.blob \subseteq DOMAIN blob
  PROVE  OrphansQueued'
<1>1. Orphans' = Orphans
  BY DEF Orphans
<1>2. Known \subseteq DOMAIN blob
  BY DEF Known
<1>3. QED
  BY <1>1, <1>2, OrphansKept DEF Known, Orphans

LEMMA KnownSame ==
  /\ UNCHANGED <<blob, txn>> => Known' = Known
  /\ Unlocked /\ UNCHANGED blob => Known \subseteq Known'
BY DEF Known, Unlocked

LEMMA OrphansVerify ==
  ASSUME Types, StepInv, OrphansQueued, NEW j \in Active, Verify(j)
  PROVE  OrphansQueued'
<1>1. UNCHANGED <<blob, keys, stored, leaked, pending>> /\ j \in jobs
  BY VerifyEffect DEF tables, files, requests, history
<1>2. CASE Abort({j}) /\ ~Usable(txn.view.blob, j.cid)
  <2>1. Unlocked'
    BY <1>1, <1>2, AbortEffect
  <2>2. ~Unlocked => DOMAIN txn.view.blob \subseteq DOMAIN blob
    BY <1>1, <1>2 DEF StepInv, UploadInv
  <2>3. QED
    BY <1>1, <2>1, <2>2, OrphansAborted
<1>3. CASE UNCHANGED txn
  BY <1>1, <1>3, KnownSame, OrphansQuiet
<1>4. QED
  BY <1>2, <1>3, VerifyEffect

LEMMA OrphansStartCopy ==
  ASSUME Types, StepInv, OrphansQueued, NEW j \in Active, StartCopy(j)
  PROVE  OrphansQueued'
<1>1. UNCHANGED <<blob, keys, pending>> /\ j.at = "copy" /\ j.cid \in Cids
  BY StartCopyEffect DEF tables, requests
<1>2. CASE /\ UNCHANGED txn /\ stored' = [stored EXCEPT ![j.cid] = "partial"]
           /\ leaked' = leaked \cup ({j.cid} \ Known)
  <2>1. stored \in [Cids -> FileStates]
    BY DEF Types, StoredTyped
  <2>2. Known' = Known
    BY <1>1, <1>2, KnownSame
  <2>3. \A c \in Cids : stored'[c] # "none" => stored[c] # "none" \/ c \in leaked' \/ c \in Known'
    BY <1>2, <2>1, <2>2
  <2>4. QED
    BY <1>1, <1>2, <2>2, <2>3, OrphansQuiet
<1>3. CASE j.key \notin temp /\ Rejects(j) /\ UNCHANGED <<stored, leaked>>
  <2>1. CASE j \in jobs /\ Unlocked'
    <3>1. ~Unlocked => DOMAIN txn.view.blob \subseteq DOMAIN blob
      <4>1. NoKey \notin temp
        BY Bounds DEF Types, UploadsTyped, NoKey
      <4>2. txn.view.blob[j.cid].tempKey \in {j.key, NoKey}
        BY <1>1, <2>1 DEF StepInv, JobsInv
      <4>3. QED
        BY <1>3, <2>1, <4>1, <4>2 DEF StepInv, UploadInv
    <3>2. QED
      BY <1>1, <1>3, <2>1, <3>1, OrphansAborted
  <2>2. CASE UNCHANGED txn
    BY <1>1, <1>3, <2>2, KnownSame, OrphansQuiet
  <2>3. QED
    BY <1>1, <1>3, <2>1, <2>2, RejectsEffect
<1>4. QED
  BY <1>2, <1>3, StartCopyEffect

LEMMA OrphansEndCopy ==
  ASSUME Types, OrphansQueued, NEW j \in Active, EndCopy(j)
  PROVE  OrphansQueued'
<1>1. UNCHANGED <<blob, txn, pending, leaked>>
  BY EndCopyEffect DEF tables
<1>2. \A c \in Cids : stored'[c] # "none" => stored[c] # "none"
  BY FilesStay
<1>3. QED
  BY <1>1, <1>2, KnownSame, OrphansQuiet

LEMMA OrphansTidy ==
  ASSUME Types, OrphansQueued, NEW j \in Active, Tidy(j)
  PROVE  OrphansQueued'
<1>1. UNCHANGED <<blob, stored, pending, leaked>>
  BY TidyEffect DEF tables, history
<1>2. Known \subseteq Known'
  <2>1. CASE UNCHANGED txn
    BY <1>1, <2>1, KnownSame
  <2>2. CASE ~Unlocked /\ Begin(txn.at, TidiedView(j), txn.drop, txn.about)
    <3>1. txn'.at = txn.at /\ DOMAIN txn'.view.blob = DOMAIN txn.view.blob
      BY <2>2 DEF Begin, TidiedView, View, Permanent
    <3>2. QED
      BY <1>1, <3>1 DEF Known, Unlocked
  <2>3. QED
    BY <2>1, <2>2, TidyEffect
<1>3. QED
  BY <1>1, <1>2, OrphansQuiet

\* COMMIT: what was dropped is queued
LEMMA OrphansCommit ==
  ASSUME Types, StepInv, OrphansQueued, Commit
  PROVE  OrphansQueued'
<1>1. /\ ~Unlocked /\ blob' = txn.view.blob /\ UNCHANGED <<stored, leaked>>
      /\ pending' = [c \in Cids |-> IF c \in txn.drop THEN pending[c] + 1 ELSE pending[c]]
  BY DEF Commit, files, history
<1>2. \A c \in Cids : pending[c] \in Nat
  BY Bounds DEF Types, PendingTyped
<1>3. DOMAIN blob \ txn.drop \subseteq DOMAIN blob'
  BY <1>1 DEF StepInv, ViewInv
<1>4. ASSUME NEW c \in Orphans' \ leaked PROVE pending'[c] > 0
  <2>1. c \in Cids /\ stored[c] # "none" /\ c \notin DOMAIN txn.view.blob
    BY <1>1 DEF Orphans
  <2>2. CASE c \in txn.drop
    BY <1>1, <1>2, <2>1, <2>2
  <2>3. CASE c \notin txn.drop
    <3>1. c \notin DOMAIN blob
      BY <1>1, <1>3, <2>1, <2>3
    <3>2. c \notin Known /\ c \in Orphans
      BY <2>1, <3>1 DEF Known, Orphans
    <3>3. pending[c] > 0
      BY <3>2 DEF OrphansQueued
    <3>4. QED
      BY <1>1, <2>1, <2>3, <3>3
  <2>4. QED
    BY <2>2, <2>3
<1>5. QED
  BY <1>1, <1>4 DEF OrphansQueued

LEMMA OrphansMove ==
  ASSUME Types, OrphansQueued, Quarantine \/ Unquarantine
  PROVE  OrphansQueued'
<1>1. /\ UNCHANGED <<blob, pending>> /\ txn.about \in Cids /\ ~Unlocked /\ ~Unlocked'
      /\ txn'.view = txn.view
  BY MoveEffect DEF tables, Begin
<1>2. Known' = Known
  BY <1>1 DEF Known
<1>3. stored \in [Cids -> FileStates]
  BY DEF Types, StoredTyped
<1>4. CASE Quarantine
  <2>1. /\ leaked' = leaked
        /\ stored' = stored \/ stored' = [stored EXCEPT ![txn.about] = "none"]
    BY <1>4 DEF Quarantine, history
  <2>2. QED
    BY <1>1, <1>2, <1>3, <2>1, OrphansQuiet
<1>5. CASE Unquarantine
  <2>1. \/ UNCHANGED <<stored, leaked>>
        \/ /\ stored' = [stored EXCEPT ![txn.about] = quarantine[txn.about]]
           /\ leaked' = IF txn.about \in DOMAIN blob THEN leaked ELSE leaked \cup {txn.about}
    BY <1>5 DEF Unquarantine
  <2>2. leaked \subseteq leaked'
    BY <2>1
  <2>3. \A c \in Cids : stored'[c] # "none" => stored[c] # "none" \/ c \in leaked' \/ c \in Known'
    BY <1>1, <1>3, <2>1 DEF Known
  <2>4. QED
    BY <1>1, <1>2, <2>2, <2>3, OrphansQuiet
<1>6. QED
  BY <1>4, <1>5

LEMMA OrphansDelete ==
  ASSUME Types, OrphansQueued, NEW d \in Cids, DeleteBlob(d) \/ DeleteBlobFails(d)
  PROVE  OrphansQueued'
<1>1. UNCHANGED <<blob, txn>> /\ pending' = [pending EXCEPT ![d] = @ - 1]
  BY DEF DeleteBlob, DeleteBlobFails, tables, work
<1>2. Known' = Known
  BY <1>1, KnownSame
<1>3. \A c \in Cids \ {d} : pending'[c] = pending[c]
  BY <1>1 DEF Types, PendingTyped
<1>4. CASE DeleteBlob(d)
  <2>1. leaked' = leaked /\ stored' = [stored EXCEPT ![d] = "none"]
    BY <1>4 DEF DeleteBlob
  <2>2. Orphans' \subseteq Orphans \ {d}
    BY <1>1, <2>1 DEF Types, StoredTyped, Orphans
  <2>3. \A c \in Orphans' : c \in Cids \ {d}
    BY <2>2 DEF Orphans
  <2>4. QED
    BY <1>2, <1>3, <2>1, <2>2, <2>3, OrphansKept
<1>5. CASE DeleteBlobFails(d)
  <2>1. leaked' = leaked \cup {d} /\ stored' = stored
    BY <1>5 DEF DeleteBlobFails, files
  <2>2. Orphans' = Orphans
    BY <1>1, <2>1 DEF Orphans
  <2>3. QED
    BY <1>2, <1>3, <2>1, <2>2, OrphansKept DEF Orphans
<1>6. QED
  BY <1>4, <1>5

LEMMA OrphansInit == Init => OrphansQueued
BY DEF Init, OrphansQueued, Orphans

LEMMA OrphansStep == Types /\ StepInv /\ OrphansQueued /\ [Next]_vars => OrphansQueued'
<1> SUFFICES ASSUME Types, StepInv, OrphansQueued, [Next]_vars PROVE OrphansQueued'
  OBVIOUS
<1>1. ASSUME NEW c \in Cids, PutTemp(c) PROVE OrphansQueued'
  BY <1>1, KnownSame, OrphansQuiet DEF PutTemp, tables, work, history
<1>2. ASSUME NEW r \in Records, NEW cs \in SUBSET Cids, Import(r, cs) PROVE OrphansQueued'
  BY <1>2, KnownSame, OrphansQuiet DEF Import, work, files, history
<1>3. ASSUME NEW u \in uploads, UploadBlob(u) PROVE OrphansQueued'
  BY <1>3, KnownSame, OrphansQuiet DEF UploadBlob, tables, files, history
<1>4. ASSUME NEW new, NEW gone, Write(new, gone) PROVE OrphansQueued'
  BY <1>4, WriteEffect, KnownSame, OrphansQuiet DEF tables, files, history
<1>5. ASSUME NEW c \in Cids, NEW applied \in BOOLEAN, Takedown(c, applied) PROVE OrphansQueued'
  BY <1>5, KnownSame, OrphansQuiet DEF Takedown, tables, files, history
<1>6. ASSUME NEW j \in Active, CopyFails(j) PROVE OrphansQueued'
  <2>1. \A c \in Cids : stored'[c] # "none" => stored[c] # "none"
    BY <1>6, FilesStay
  <2>2. QED
    BY <1>6, <2>1, OrphansLeaked DEF CopyFails, tables
<1>7. CASE Rollback
  BY <1>7, OrphansLeaked DEF Rollback, tables, files
<1>8. CASE Restart
  BY <1>8, OrphansLeaked DEF Restart, tables, Interrupted
<1>9. CASE UNCHANGED vars
  BY <1>9, KnownSame, OrphansQuiet DEF vars, tables, work, files, history
<1>10. QED
  BY Steps, <1>1, <1>2, <1>3, <1>4, <1>5, <1>6, <1>7, <1>8, <1>9, OrphansVerify,
     OrphansStartCopy, OrphansEndCopy, OrphansTidy, OrphansCommit, OrphansMove, OrphansDelete

(***************************************************************************)
(* A permanent file without a row is queued for deletion or about to get   *)
(* one, or the process that knew of it has failed: a commit that fails     *)
(* leaves no file behind that nobody knows of, unless it was leaked.       *)
(***************************************************************************)
THEOREM OrphansAreQueued == Spec => []OrphansQueued
BY TypesInit, TypesStep, StepInit, StepStep, OrphansInit, OrphansStep, PTL DEF Spec

-----------------------------------------------------------------------------
(* Files that are being written                                            *)

\* Steps that leave the files alone, and those who write them
LEMMA HalfTasks ==
  ASSUME HalfInv, UNCHANGED <<stored, quarantine>>,
         \A j \in Active : j.at \in Writing => \E i \in Active' : i.cid = j.cid /\ i.at = j.at
  PROVE  HalfInv'
BY DEF HalfInv, WrittenAt, Writing

LEMMA HalfRejects ==
  ASSUME Types, HalfInv, UNCHANGED <<stored, quarantine, keys>>, NEW j \in Active, Rejects(j),
         j.at \notin Writing
  PROVE  HalfInv'
<1>1. \A i \in Active \ {j} : i.at # "verify" => i \in Active'
  BY RejectsEffect
<1>2. QED
  BY <1>1, HalfTasks DEF Writing

LEMMA HalfVerify ==
  ASSUME Types, HalfInv, NEW j \in Active, Verify(j)
  PROVE  HalfInv'
<1>1. UNCHANGED <<stored, quarantine, keys>> /\ j \in jobs /\ j.at = "verify"
  BY VerifyEffect DEF files, requests
<1>2. \A i \in Active : i.at \in Writing => i \in Active'
  <2>1. CASE Abort({j})
    BY <1>1, <2>1, AbortEffect DEF Writing
  <2>2. CASE jobs' = jobs \ {j} /\ UNCHANGED strays
    BY <1>1, <2>2 DEF Active, Writing
  <2>3. ASSUME NEW next, jobs' = (jobs \ {j}) \cup {next}, UNCHANGED strays
        PROVE  \A i \in Active : i.at \in Writing => i \in Active'
    BY <1>1, <2>3 DEF Active, Writing
  <2>4. QED
    BY <2>1, <2>2, <2>3, VerifyEffect
<1>3. QED
  BY <1>1, <1>2, HalfTasks

LEMMA HalfStartCopy ==
  ASSUME Types, HalfInv, NEW j \in Active, StartCopy(j)
  PROVE  HalfInv'
<1>1. UNCHANGED <<quarantine, keys>> /\ j.at = "copy" /\ j.cid \in Cids /\ j.at \notin Writing
  BY StartCopyEffect DEF requests, Writing
<1>2. CASE Rejects(j) /\ UNCHANGED stored
  BY <1>1, <1>2, HalfRejects
<1>3. ASSUME NEW next \in Jobs(AnyRecord), Moves(j, next), next.cid = j.cid, next.at = "stored",
             stored' = [stored EXCEPT ![j.cid] = "partial"]
      PROVE  HalfInv'
  <2>1. next \in Active' /\ \A i \in Active \ {j} : i \in Active'
    BY <1>1, <1>3, MovesEffect
  <2>2. WrittenAt("stored", j.cid)'
    BY <1>3, <2>1 DEF WrittenAt
  <2>3. \A c \in Cids : /\ WrittenAt("stored", c) => WrittenAt("stored", c)'
                        /\ WrittenAt("quarantine", c) => WrittenAt("quarantine", c)'
    BY <1>1, <2>1 DEF WrittenAt, Writing
  <2>4. \A c \in Cids : c # j.cid => stored'[c] = stored[c]
    BY <1>3 DEF Types, StoredTyped
  <2>5. QED
    BY <1>1, <2>2, <2>3, <2>4 DEF HalfInv
<1>4. QED
  BY <1>2, <1>3, StartCopyEffect

\* The others who write a file go on
LEMMA HalfEnds ==
  ASSUME Types, HalfInv, NEW j \in Active, EndCopy(j) \/ CopyFails(j)
  PROVE  HalfInv'
<1>1. j.cid \in Cids /\ StoredTyped
  BY ActiveTyped DEF Types
<1>2. \A i \in Active \ {j} : i.at # "verify" => i \in Active'
  <2>1. CASE EndCopy(j)
    <3>1. UNCHANGED keys /\ \E next \in Jobs(AnyRecord) : Moves(j, next)
      BY <2>1, EndCopyEffect DEF requests
    <3>2. QED
      BY <3>1, MovesEffect
  <2>2. CASE CopyFails(j)
    BY <2>2, RejectsEffect DEF CopyFails, requests
  <2>3. QED
    BY <2>1, <2>2
<1>3. ASSUME NEW state \in {"torn", "whole"}, FileBecomes(j, state), NEW c \in Cids
      PROVE  /\ stored'[c] = "partial" => WrittenAt("stored", c)'
             /\ quarantine'[c] = "partial" => WrittenAt("quarantine", c)'
  <2>1. /\ stored'[c] = "partial" => stored[c] = "partial"
        /\ quarantine'[c] = "partial" => quarantine[c] = "partial"
    BY <1>1, <1>3, FileEnds
  <2>2. ASSUME stored'[c] = "partial"
        PROVE  \E i \in Active \ {j} : i.cid = c /\ i.at = "stored"
    <3>1. CASE j.cid = c /\ j.at = "stored"
      BY <1>1, <1>3, <2>2, <3>1, FileEnds
    <3>2. CASE ~(j.cid = c /\ j.at = "stored")
      BY <2>1, <2>2, <3>2 DEF HalfInv, WrittenAt
    <3>3. QED
      BY <3>1, <3>2
  <2>3. ASSUME quarantine'[c] = "partial"
        PROVE  \E i \in Active \ {j} : i.cid = c /\ i.at = "quarantine"
    <3>1. CASE j.cid = c /\ j.at = "quarantine"
      BY <1>1, <1>3, <2>3, <3>1, FileEnds
    <3>2. CASE ~(j.cid = c /\ j.at = "quarantine")
      BY <2>1, <2>3, <3>2 DEF HalfInv, WrittenAt
    <3>3. QED
      BY <3>1, <3>2
  <2>4. QED
    BY <1>2, <2>2, <2>3 DEF WrittenAt
<1>4. QED
  BY <1>3 DEF EndCopy, CopyFails, HalfInv

LEMMA HalfTidy ==
  ASSUME Types, HalfInv, NEW j \in Active, Tidy(j)
  PROVE  HalfInv'
<1>1. UNCHANGED <<stored, quarantine>> /\ j.at = "tidy"
  BY TidyEffect
<1>2. \A i \in Active : i.at \in Writing => i \in Active'
  BY <1>1, TidyEffect DEF Active, Writing
<1>3. QED
  BY <1>1, <1>2, HalfTasks

\* Those who write a file that is renamed go with it
LEMMA HalfMove ==
  ASSUME Types, HalfInv, Quarantine \/ Unquarantine
  PROVE  HalfInv'
<1>0. PICK c \in Cids : c = txn.about
  BY MoveEffect
<1>1. UNCHANGED keys /\ stored \in [Cids -> FileStates]
      /\ quarantine \in [Cids -> FileStates]
  BY MoveEffect DEF requests, Types, StoredTyped
<1>2. CASE UNCHANGED <<stored, quarantine, jobs, strays>>
  BY <1>2, HalfTasks DEF Active
<1>3. CASE /\ Moving(c, [stored |-> "quarantine", quarantine |-> "unlinked"])
           /\ quarantine' = [quarantine EXCEPT ![c] = stored[c]]
           /\ stored' = [stored EXCEPT ![c] = "none"]
  <2> DEFINE where == [stored |-> "quarantine", quarantine |-> "unlinked"]
  <2>1. /\ DOMAIN where = {"stored", "quarantine"}
        /\ where["stored"] = "quarantine" /\ where["quarantine"] = "unlinked"
    OBVIOUS
  <2>2. Moving(c, where)
    BY <1>3
  <2> HIDE DEF where
  <2>3. DOMAIN where \subseteq Writing /\ \A place \in DOMAIN where : where[place] \in Writing
    BY <2>1 DEF Writing
  <2>4. \A j \in Active : \E i \in Active' : i.cid = j.cid /\ i.at = Goes(j, c, where)
    BY <1>1, <2>2, <2>3, MovingEffect
  <2>5. WrittenAt("stored", c) => WrittenAt("quarantine", c)'
    BY <2>1, <2>4 DEF WrittenAt, Goes
  <2>6. \A d \in Cids : d # c => /\ WrittenAt("stored", d) => WrittenAt("stored", d)'
                                 /\ WrittenAt("quarantine", d) => WrittenAt("quarantine", d)'
    BY <2>4 DEF WrittenAt, Goes
  <2>7. /\ stored'[c] = "none" /\ quarantine'[c] = stored[c]
        /\ \A d \in Cids : d # c => stored'[d] = stored[d] /\ quarantine'[d] = quarantine[d]
    BY <1>1, <1>3
  <2>8. QED
    BY <2>5, <2>6, <2>7 DEF HalfInv
<1>4. CASE /\ Moving(c, [quarantine |-> "stored", stored |-> "unlinked"])
           /\ stored' = [stored EXCEPT ![c] = quarantine[c]]
           /\ quarantine' = [quarantine EXCEPT ![c] = "none"]
  <2> DEFINE where == [quarantine |-> "stored", stored |-> "unlinked"]
  <2>1. /\ DOMAIN where = {"stored", "quarantine"}
        /\ where["quarantine"] = "stored" /\ where["stored"] = "unlinked"
    OBVIOUS
  <2>2. Moving(c, where)
    BY <1>4
  <2> HIDE DEF where
  <2>3. DOMAIN where \subseteq Writing /\ \A place \in DOMAIN where : where[place] \in Writing
    BY <2>1 DEF Writing
  <2>4. \A j \in Active : \E i \in Active' : i.cid = j.cid /\ i.at = Goes(j, c, where)
    BY <1>1, <2>2, <2>3, MovingEffect
  <2>5. WrittenAt("quarantine", c) => WrittenAt("stored", c)'
    BY <2>1, <2>4 DEF WrittenAt, Goes
  <2>6. \A d \in Cids : d # c => /\ WrittenAt("stored", d) => WrittenAt("stored", d)'
                                 /\ WrittenAt("quarantine", d) => WrittenAt("quarantine", d)'
    BY <2>4 DEF WrittenAt, Goes
  <2>7. /\ quarantine'[c] = "none" /\ stored'[c] = quarantine[c]
        /\ \A d \in Cids : d # c => stored'[d] = stored[d] /\ quarantine'[d] = quarantine[d]
    BY <1>1, <1>4
  <2>8. QED
    BY <2>5, <2>6, <2>7 DEF HalfInv
<1>5. QED
  BY <1>0, <1>2, <1>3, <1>4 DEF Quarantine, Unquarantine

LEMMA HalfDelete ==
  ASSUME Types, HalfInv, NEW c \in Cids, DeleteBlob(c)
  PROVE  HalfInv'
<1>1. /\ UNCHANGED quarantine /\ stored'[c] = "none"
      /\ \A d \in Cids : d # c => stored'[d] = stored[d]
  BY DEF DeleteBlob, Types, StoredTyped
<1>2. \A j \in Active : \E i \in Active' :
         i.cid = j.cid /\ i.at = IF j.cid = c /\ j.at = "stored" THEN "unlinked" ELSE j.at
  BY DeleteEffect
<1>3. \A d \in Cids : /\ d # c /\ WrittenAt("stored", d) => WrittenAt("stored", d)'
                      /\ WrittenAt("quarantine", d) => WrittenAt("quarantine", d)'
  BY <1>2 DEF WrittenAt
<1>4. QED
  BY <1>1, <1>3 DEF HalfInv

LEMMA HalfInit == Init => HalfInv
BY DEF Init, HalfInv

LEMMA HalfStep == Types /\ HalfInv /\ [Next]_vars => HalfInv'
<1> SUFFICES ASSUME Types, HalfInv, [Next]_vars PROVE HalfInv'
  OBVIOUS
<1>1. ASSUME UNCHANGED <<stored, quarantine, strays>>, jobs = {} \/ UNCHANGED jobs PROVE HalfInv'
  BY <1>1, HalfTasks DEF Active
<1>2. Unlocked => jobs = {}
  BY DEF Types, LockTyped, Unlocked
<1>3. ASSUME NEW c \in Cids, PutTemp(c) \/ DeleteBlobFails(c) PROVE HalfInv'
  BY <1>1, <1>3 DEF PutTemp, DeleteBlobFails, work, files
<1>4. ASSUME NEW c \in Cids, NEW applied \in BOOLEAN, Takedown(c, applied) PROVE HalfInv'
  BY <1>1, <1>2, <1>4 DEF Takedown, files
<1>5. ASSUME NEW u \in uploads, UploadBlob(u) PROVE HalfInv'
  BY <1>1, <1>2, <1>5 DEF UploadBlob, files
<1>6. ASSUME NEW new, NEW gone, Write(new, gone) PROVE HalfInv'
  BY <1>1, <1>2, <1>6, WriteEffect DEF files
<1>7. ASSUME NEW r \in Records, NEW cs \in SUBSET Cids, Import(r, cs) PROVE HalfInv'
  BY <1>1, <1>7 DEF Import, work, files
<1>8. CASE Commit
  BY <1>1, <1>8 DEF Commit, files
<1>9. CASE Rollback
  BY <1>1, <1>9 DEF Rollback, Abort, files
<1>10. CASE Restart
  BY <1>10 DEF Restart, Interrupted, HalfInv
<1>11. CASE UNCHANGED vars
  BY <1>1, <1>11 DEF vars, work, files
<1>12. QED
  BY Steps, <1>3, <1>4, <1>5, <1>6, <1>7, <1>8, <1>9, <1>10, <1>11, HalfVerify, HalfStartCopy,
     HalfEnds, HalfTidy, HalfMove, HalfDelete

-----------------------------------------------------------------------------
(* Files of rows                                                           *)

LEMMA StoredIn ==
  ASSUME Types
  PROVE  /\ stored \in [Cids -> FileStates] /\ quarantine \in [Cids -> FileStates]
         /\ temp \subseteq 1..keys /\ keys \in Nat /\ NoKey \notin temp
BY Bounds DEF Types, StoredTyped, UploadsTyped, NoKey

(***************************************************************************)
(* The files stay, if somewhere else, and the transaction goes on or is    *)
(* given up.  A blob that is spoilt no more has a permanent file.          *)
(***************************************************************************)
FilesStand == \A c \in Cids \ spoilt' : /\ c \notin spoilt \/ stored'[c] # "none"
                                        /\ stored[c] # "none" => stored'[c] # "none"
                                        /\ OnDisk(c) => OnDisk(c)'

LEMMA PlacesKept ==
  ASSUME TableFiles, ViewFiles, UNCHANGED blob, temp \subseteq temp', FilesStand,
         \/ UNCHANGED txn
         \/ txn'.at = "none" /\ (txn.at = "commit" => txn.about \in spoilt')
  PROVE  TableFiles' /\ ViewFiles'
<1>1. \A c \in Cids \ spoilt' : c \in spoilt => OnDisk(c)'
  BY DEF FilesStand, OnDisk
<1>2. TableFiles'
  BY <1>1 DEF TableFiles, Has, Served, FilesStand
<1>3. ViewFiles'
  <2>1. CASE UNCHANGED txn
    BY <1>1, <2>1 DEF ViewFiles, Has, Served, Unlocked, FilesStand
  <2>2. CASE txn'.at = "none"
    BY <2>2 DEF ViewFiles, Unlocked
  <2>3. QED
    BY <2>1, <2>2
<1>4. QED
  BY <1>2, <1>3

\* Late tasks are those there were, or new ones whose file is there
LEMMA TasksKept ==
  ASSUME Types, TaskFiles, FilesStand,
         \A c \in Cids : \A k \in 1..keys : Keyed(c, k)' => Keyed(c, k),
         \A i \in Active' : Late(i) =>
            \/ \E j \in Active : Late(j) /\ j.cid = i.cid /\ j.key = i.key
            \/ stored'[i.cid] # "none",
         \A i \in jobs' : Late(i) => \/ \E j \in jobs : Late(j) /\ j.cid = i.cid
                                     \/ stored'[i.cid] # "none"
  PROVE  TaskFiles'
<1>1. ASSUME NEW i \in Active', Late(i), i.cid \notin spoilt', Keyed(i.cid, i.key)'
      PROVE  OnDisk(i.cid)'
  <2>1. CASE stored'[i.cid] # "none"
    BY <2>1 DEF OnDisk
  <2>2. ASSUME NEW j \in Active, Late(j), j.cid = i.cid, j.key = i.key
        PROVE  OnDisk(i.cid)'
    <3>1. i.cid \in Cids /\ i.key \in 1..keys
      BY <2>2, ActiveTyped, TaskShape DEF Late, Writing
    <3>2. Keyed(j.cid, j.key)
      BY <1>1, <2>2, <3>1
    <3>3. i.cid \notin spoilt => OnDisk(i.cid)
      BY <2>2, <3>2 DEF TaskFiles
    <3>4. QED
      BY <1>1, <2>1, <3>1, <3>3 DEF FilesStand
  <2>3. QED
    BY <1>1, <2>1, <2>2
<1>2. ASSUME NEW i \in jobs', Late(i), i.cid \notin spoilt'
      PROVE  stored'[i.cid] # "none"
  <2>1. ASSUME NEW j \in jobs, Late(j), j.cid = i.cid
        PROVE  stored'[i.cid] # "none"
    <3>1. i.cid \in Cids
      BY <2>1, LockedJobs
    <3>2. i.cid \notin spoilt => stored[i.cid] # "none"
      BY <2>1 DEF TaskFiles
    <3>3. QED
      BY <1>2, <3>1, <3>2 DEF FilesStand
  <2>2. QED
    BY <1>2, <2>1
<1>3. QED
  BY <1>1, <1>2 DEF TaskFiles

\* Steps that take no permanent file away, and bring no task that is late
LEMMA FilesQuiet ==
  ASSUME Types, FilesInv, UNCHANGED blob, FilesStand, temp \subseteq temp',
         \/ UNCHANGED txn
         \/ txn'.at = "none" /\ (txn.at = "commit" => txn.about \in spoilt'),
         \A j \in Active' : Late(j) => j \in Active,
         \A j \in jobs' : Late(j) => j \in jobs
  PROVE  FilesInv'
<1>1. TableFiles' /\ ViewFiles'
  BY PlacesKept DEF FilesInv
<1>2. \A c \in Cids : \A k \in 1..keys : Keyed(c, k)' => Keyed(c, k)
  BY DEF Keyed, Unlocked
<1>3. TaskFiles'
  BY <1>2, TasksKept DEF FilesInv
<1>4. QED
  BY <1>1, <1>3 DEF FilesInv

LEMMA SameFiles ==
  ASSUME UNCHANGED <<stored, quarantine>>, spoilt \subseteq spoilt'
  PROVE  FilesStand
BY DEF FilesStand, OnDisk

LEMMA FilesVerify ==
  ASSUME Types, FilesInv, NEW j \in Active, Verify(j)
  PROVE  FilesInv'
<1>1. /\ UNCHANGED <<blob, temp, keys>> /\ FilesStand
      /\ j \in jobs /\ j.at = "verify" /\ txn.at = "blobs"
  BY VerifyEffect, SameFiles DEF tables, files, history, requests, Types, LockTyped
<1>2. CASE Abort({j})
  <2>1. txn'.at = "none"
    BY <1>1, <1>2, AbortEffect DEF NoTxn
  <2>2. (\A i \in Active' : i \in Active) /\ jobs' = {}
    BY <1>1, <1>2, AbortEffect DEF Active
  <2>3. QED
    BY <1>1, <2>1, <2>2, FilesQuiet
<1>3. CASE jobs' = jobs \ {j} /\ UNCHANGED <<txn, strays>>
  <2>1. \A i \in Active' : i \in Active
    BY <1>1, <1>3 DEF Active
  <2>2. QED
    BY <1>1, <1>3, <2>1, FilesQuiet
<1>4. ASSUME NEW next \in Jobs(AnyRecord), jobs' = (jobs \ {j}) \cup {next}, UNCHANGED <<txn, strays>>,
             next.cid = j.cid, next.at \in {"copy", "tidy"}, next.at = "tidy" => stored[j.cid] # "none"
      PROVE  FilesInv'
  <2>1. TableFiles' /\ ViewFiles'
    BY <1>1, <1>4, PlacesKept DEF FilesInv
  <2>2. \A i \in Active' : i = next \/ i \in Active
    BY <1>4 DEF Active
  <2>3. Late(next) => stored'[next.cid] # "none"
    BY <1>4, VerifyEffect DEF Late, Writing, files
  <2>4. \A c \in Cids : \A k \in 1..keys : Keyed(c, k)' => Keyed(c, k)
    BY <1>1, <1>4 DEF Keyed, Unlocked
  <2>5. TaskFiles'
    BY <1>1, <1>4, <2>2, <2>3, <2>4, TasksKept DEF FilesInv
  <2>6. QED
    BY <2>1, <2>5 DEF FilesInv
<1>5. QED
  BY <1>2, <1>3, <1>4, VerifyEffect

\* A task is rejected
LEMMA FilesRejects ==
  ASSUME Types, FilesInv, NEW j \in Active, Rejects(j), UNCHANGED <<blob, temp, keys>>, FilesStand
  PROVE  FilesInv'
<1>1. \A i \in Active' : i \in Active
  BY RejectsEffect
<1>2. CASE j \in jobs /\ txn' = NoTxn /\ jobs' = {}
  <2>1. txn'.at = "none" /\ txn.at = "blobs"
    BY <1>2 DEF NoTxn, Types, LockTyped
  <2>2. QED
    BY <1>1, <1>2, <2>1, FilesQuiet
<1>3. CASE UNCHANGED <<txn, jobs>>
  BY <1>1, <1>3, FilesQuiet
<1>4. QED
  BY <1>2, <1>3, RejectsEffect

LEMMA FilesStartCopy ==
  ASSUME Types, FilesInv, NEW j \in Active, StartCopy(j)
  PROVE  FilesInv'
<1>1. /\ UNCHANGED <<blob, quarantine, spoilt, temp, keys>>
      /\ j.at = "copy" /\ j.cid \in Cids
  BY StartCopyEffect DEF tables, requests
<1>2. CASE Rejects(j) /\ UNCHANGED stored
  BY <1>1, <1>2, SameFiles, FilesRejects
<1>3. ASSUME UNCHANGED txn, NEW next \in Jobs(AnyRecord), Moves(j, next), next.cid = j.cid,
             stored' = [stored EXCEPT ![j.cid] = "partial"]
      PROVE  FilesInv'
  <2>1. /\ \A c \in Cids : c # j.cid => stored'[c] = stored[c]
        /\ stored'[j.cid] = "partial"
    BY <1>1, <1>3, StoredIn
  <2>2. /\ \A i \in jobs' : i \in jobs \/ i = next
        /\ \A i \in Active' : i \in Active \/ i = next
    BY <1>1, <1>3, MovesEffect DEF Active
  <2>3. FilesStand
    BY <1>1, <2>1 DEF FilesStand, OnDisk
  <2>4. TableFiles' /\ ViewFiles'
    BY <1>1, <1>3, <2>3, PlacesKept DEF FilesInv
  <2>5. \A c \in Cids : \A k \in 1..keys : Keyed(c, k)' => Keyed(c, k)
    BY <1>1, <1>3 DEF Keyed, Unlocked
  <2>6. TaskFiles'
    BY <1>3, <2>1, <2>2, <2>3, <2>5, TasksKept DEF FilesInv
  <2>7. QED
    BY <2>4, <2>6 DEF FilesInv
<1>4. QED
  BY <1>2, <1>3, StartCopyEffect

LEMMA FilesEndCopy ==
  ASSUME Types, FilesInv, NEW j \in Active, EndCopy(j)
  PROVE  FilesInv'
<1>1. UNCHANGED <<blob, txn, temp, keys>> /\ j.at \in Writing /\ j.cid \in Cids
  BY EndCopyEffect DEF tables, requests
<1>2. PICK next \in Jobs(AnyRecord) : Moves(j, next) /\ next.cid = j.cid /\ next.key = j.key
  BY EndCopyEffect
<1>3. /\ \A i \in jobs' : i \in jobs \/ (i = next /\ j \in jobs)
      /\ \A i \in Active' : i \in Active \/ i = next
  BY <1>1, <1>2, MovesEffect DEF Active
<1>4. FilesStand
  <2>1. \A c \in Cids : /\ stored'[c] # "none" <=> stored[c] # "none"
                        /\ quarantine'[c] # "none" <=> quarantine[c] # "none"
    BY FilesStay
  <2>2. \A c \in Cids : c \in spoilt \ spoilt' => stored'[c] # "none"
    <3>1. FileBecomes(j, "whole") /\ StoredTyped
      BY EndCopyEffect DEF Types
    <3>2. \A c \in Cids : stored'[c] = stored[c] \/ stored'[c] = "whole"
      BY <1>1, <3>1, FileEnds
    <3>3. QED
      BY <3>2, EndCopyEffect
  <2>3. QED
    BY <2>1, <2>2 DEF FilesStand, OnDisk
<1>5. TableFiles' /\ ViewFiles'
  BY <1>1, <1>4, PlacesKept DEF FilesInv
<1>6. \A c \in Cids : \A k \in 1..keys : Keyed(c, k)' => Keyed(c, k)
  BY <1>1 DEF Keyed, Unlocked
<1>7. TaskFiles'
  <2>1. Late(j)
    BY <1>1 DEF Late
  <2>2. QED
    BY <1>2, <1>3, <1>4, <1>6, <2>1, TasksKept DEF FilesInv
<1>8. QED
  BY <1>5, <1>7 DEF FilesInv

LEMMA FilesCopyFails ==
  ASSUME Types, FilesInv, NEW j \in Active, CopyFails(j)
  PROVE  FilesInv'
<1>1. /\ UNCHANGED <<blob, temp, keys, spoilt>> /\ Rejects(j)
  BY DEF CopyFails, tables, requests
<1>2. FilesStand
  BY <1>1, FilesStay DEF FilesStand, OnDisk
<1>3. QED
  BY <1>1, <1>2, FilesRejects

\* The transaction that has the lock only now
LEMMA FilesBegin ==
  ASSUME Types, FilesInv, Unlocked, UNCHANGED <<blob, strays, stored, quarantine, temp, spoilt, keys>>,
         \A j \in jobs' : j.at = "verify",
         \A c \in DOMAIN txn'.view.blob :
            LET row == txn'.view.blob[c] IN
            \/ /\ c \in DOMAIN blob /\ row.tempKey = blob[c].tempKey
               /\ row.down = blob[c].down \/ row.down \/ (txn'.at = "unquarantine" /\ txn'.about = c)
            \/ /\ row.tempKey \in temp
               /\ \A s \in strays : s.key # row.tempKey
  PROVE  FilesInv'
<1>1. \A c : OnDisk(c)' <=> OnDisk(c)
  BY DEF OnDisk
<1>2. TableFiles'
  BY <1>1 DEF FilesInv, TableFiles, Has, Served, Unlocked
<1>3. ViewFiles'
  <2> SUFFICES ASSUME NEW c \in Cids \ spoilt, c \in DOMAIN txn'.view.blob
               PROVE  /\ Has(txn.view.blob, c)'
                      /\ Served(txn.view.blob, c)' =>
                            stored[c] # "none" \/ (txn'.at = "unquarantine" /\ txn'.about = c)
    BY DEF ViewFiles, Has, Served
  <2> DEFINE row == txn'.view.blob[c]
  <2>1. Has(blob, c) /\ (Served(blob, c) => stored[c] # "none")
    BY DEF FilesInv, TableFiles, Unlocked
  <2>2. CASE /\ c \in DOMAIN blob /\ row.tempKey = blob[c].tempKey
             /\ row.down = blob[c].down \/ row.down \/ (txn'.at = "unquarantine" /\ txn'.about = c)
    BY <1>1, <2>1, <2>2 DEF Has, Served
  <2>3. CASE row.tempKey \in temp
    BY <2>3, StoredIn DEF Has, Served
  <2>4. QED
    BY <2>2, <2>3
<1>4. TaskFiles'
  <2>1. ASSUME NEW j \in Active', Late(j), j.cid \notin spoilt', Keyed(j.cid, j.key)'
        PROVE  OnDisk(j.cid)'
    <3>1. j \in strays /\ j \in Active
      BY <2>1 DEF Active, Late, Writing
    <3>2. Keyed(j.cid, j.key)
      BY <2>1, <3>1 DEF Keyed
    <3>3. QED
      BY <1>1, <2>1, <3>1, <3>2 DEF FilesInv, TaskFiles
  <2>2. QED
    BY <2>1 DEF TaskFiles, Late, Writing
<1>5. QED
  BY <1>2, <1>3, <1>4 DEF FilesInv

LEMMA FilesUpload ==
  ASSUME Types, StepInv, FilesInv, NEW u \in uploads, UploadBlob(u)
  PROVE  FilesInv'
<1>1. UNCHANGED <<blob, strays, stored, quarantine, temp, spoilt, keys>> /\ Unlocked
  BY DEF UploadBlob, tables, files, history
<1>2. CASE UNCHANGED <<txn, jobs>>
  <2>1. Active' = Active
    BY <1>1, <1>2 DEF Active
  <2>2. QED
    BY <1>1, <1>2, <2>1, SameFiles, FilesQuiet
<1>3. CASE Begin("blobs", Seeing(Tracked(u)), {}, None) /\ Launch(UploadsTask(u))
  <2>1. txn'.view.blob = Tracked(u)
    BY <1>3 DEF Begin, Seeing, View
  <2>2. \A j \in jobs' : j.at = "verify"
    <3>1. \A p \in UploadsTask(u) : p[1] \in AnyRecord /\ p[2] \in Cids
      BY TrackedTyped DEF UploadsTask, AnyRecord
    <3>2. QED
      BY <1>3, <3>1, NewTasks
  <2>3. u.key \in temp /\ \A s \in strays : s.key # u.key
    BY DEF StepInv, UploadsInv, Active
  <2>4. /\ DOMAIN Tracked(u) = DOMAIN blob \cup {u.cid}
        /\ \A c \in DOMAIN blob \ {u.cid} : Tracked(u)[c] = blob[c]
        /\ \/ Tracked(u)[u.cid] = [tempKey |-> u.key, down |-> FALSE]
           \/ u.cid \in DOMAIN blob /\ Tracked(u) = blob
    BY TrackedTyped
  <2>5. QED
    BY <1>1, <2>1, <2>2, <2>3, <2>4, FilesBegin
<1>4. QED
  BY <1>2, <1>3 DEF UploadBlob, UploadsTask

LEMMA FilesWrite ==
  ASSUME Types, FilesInv, NEW new, NEW gone, DOMAIN new \subseteq Records, Write(new, gone)
  PROVE  FilesInv'
<1> DEFINE cs == Cids \ Dropped(new)
<1>1. /\ UNCHANGED <<blob, strays, stored, quarantine, temp, spoilt, keys>> /\ Unlocked
      /\ txn'.view.blob = Only(blob, cs)
  <2>1. /\ UNCHANGED <<tables, strays, files, requests, history>> /\ Unlocked
        /\ Begin("blobs", WriteView(new, gone), Dropped(new), None)
    BY WriteEffect
  <2>2. QED
    BY <2>1 DEF tables, files, history, requests, Begin, WriteView, View
<1>2. \A j \in jobs' : j.at = "verify"
  <2>1. \A p \in Fresh(new) : p[1] \in AnyRecord /\ p[2] \in Cids
    BY DEF Fresh, AnyRecord
  <2>2. QED
    BY <2>1, WriteEffect, NewTasks
<1>3. IsTable(blob)
  BY DEF Types, TablesTyped
<1>4. DOMAIN Only(blob, cs) = DOMAIN blob \cap cs /\ \A c \in DOMAIN blob \cap cs : Only(blob, cs)[c] = blob[c]
  BY <1>3, OnlyTyped
<1>5. QED
  BY <1>1, <1>2, <1>4, FilesBegin

LEMMA FilesTakedown ==
  ASSUME Types, FilesInv, NEW c \in Cids, NEW applied \in BOOLEAN, Takedown(c, applied)
  PROVE  FilesInv'
<1>1. /\ UNCHANGED <<blob, strays, stored, quarantine, temp, spoilt, keys>> /\ Unlocked /\ jobs' = {}
      /\ txn'.view.blob = Marked(c, applied) /\ txn'.about = c
      /\ txn'.at = IF applied THEN "quarantine" ELSE "unquarantine"
  BY DEF Takedown, tables, files, history, requests, Begin, Seeing, View
<1>2. IsTable(blob)
  BY DEF Types, TablesTyped
<1>3. QED
  BY <1>1, <1>2, MarkedTyped, FilesBegin

LEMMA FilesTidy ==
  ASSUME Types, StepInv, FilesInv, NEW j \in Active, Tidy(j)
  PROVE  FilesInv'
<1> DEFINE c == j.cid
           k == j.key
<1>1. /\ UNCHANGED <<blob, stored, quarantine, spoilt, keys>> /\ temp' = temp \ {k}
      /\ j.at = "tidy" /\ c \in Cids /\ k \in 1..keys
  BY TidyEffect DEF tables, history, requests
<1>2. \A d : OnDisk(d)' <=> OnDisk(d)
  BY <1>1 DEF OnDisk
\* the rows with its key have their file already
<1>3. \A d \in Cids : Keyed(d, k) => d = c
  <2>1. Owns(c, k) /\ \A d \in Cids : Keyed(d, k) => Owns(d, k)
    BY DEF Owns
  <2>2. QED
    BY <1>1, <2>1 DEF StepInv, OwnerInv
<1>4. \A d \in Cids \ spoilt : Keyed(d, k) => OnDisk(d)
  <2>1. Late(j)
    BY <1>1 DEF Late
  <2>2. QED
    BY <1>1, <1>3, <2>1 DEF FilesInv, TaskFiles
<1>5. TableFiles'
  <2>1. \A d \in DOMAIN blob : blob[d].tempKey = k => Keyed(d, k)
    BY DEF Keyed
  <2>2. \A d \in Cids \ spoilt : Has(blob, d)'
    BY <1>1, <1>2, <1>4, <2>1 DEF FilesInv, TableFiles, Has
  <2>3. txn'.at = txn.at /\ txn'.about = txn.about
    BY TidyEffect DEF Begin
  <2>4. QED
    BY <1>1, <2>2, <2>3 DEF FilesInv, TableFiles, Served
<1>6. \A i \in Active' : i \in Active
  BY TidyEffect DEF Active
<1>7. ViewFiles' /\ \A d \in Cids : \A l \in 1..keys : Keyed(d, l)' => Keyed(d, l)
  <2>1. CASE UNCHANGED <<txn, jobs>>
    <3>1. \A d, l : Keyed(d, l)' <=> Keyed(d, l)
      BY <1>1, <2>1 DEF Keyed, Unlocked
    <3>2. ~Unlocked => \A d \in DOMAIN txn.view.blob : txn.view.blob[d].tempKey = k => Keyed(d, k)
      BY DEF Keyed
    <3>3. ~Unlocked => \A d \in Cids \ spoilt : Has(txn.view.blob, d)'
      BY <1>1, <1>2, <1>4, <2>1, <3>2 DEF FilesInv, ViewFiles, Has
    <3>4. ViewFiles'
      BY <1>1, <2>1, <3>3 DEF FilesInv, ViewFiles, Served, Unlocked
    <3>5. QED
      BY <3>1, <3>4
  <2>2. CASE j \in jobs /\ ~Unlocked /\ Begin(txn.at, TidiedView(j), txn.drop, txn.about)
    <3> DEFINE t == txn.view.blob
               n == txn'.view.blob
    <3>1. n = Permanent(t, k) /\ txn'.at = txn.at /\ txn'.about = txn.about /\ ~Unlocked'
      BY <2>2 DEF Begin, TidiedView, View, Unlocked
    <3>2. IsTable(t) /\ keys \in Nat
      BY <2>2, Bounds DEF Types, TxnTyped, IsView, UploadsTyped
    <3>3. /\ DOMAIN n = DOMAIN t
          /\ \A d \in DOMAIN t : /\ n[d].down = t[d].down
                                 /\ t[d].tempKey = k => n[d].tempKey = NoKey
                                 /\ t[d].tempKey # k => n[d] = t[d]
      BY <3>1, <3>2, PermanentTyped
    <3>4. c \notin spoilt => stored[c] # "none"
      BY <1>1, <2>2 DEF FilesInv, TaskFiles, Late
    <3>5. ASSUME NEW d \in Cids \ spoilt, d \in DOMAIN t
          PROVE  /\ OnDisk(d) \/ (n[d].tempKey # NoKey /\ n[d].tempKey \in temp')
                 /\ n[d].tempKey = NoKey /\ ~n[d].down =>
                       stored[d] # "none" \/ (txn.at = "unquarantine" /\ txn.about = d)
      <4>1. CASE t[d].tempKey = k
        <5>1. d = c
          BY <1>3, <2>2, <3>5, <4>1 DEF Keyed
        <5>2. QED
          BY <3>4, <3>5, <5>1 DEF OnDisk
      <4>2. CASE t[d].tempKey # k
        <5>1. /\ OnDisk(d) \/ (t[d].tempKey # NoKey /\ t[d].tempKey \in temp)
              /\ t[d].tempKey = NoKey /\ ~t[d].down =>
                    stored[d] # "none" \/ (txn.at = "unquarantine" /\ txn.about = d)
          BY <2>2, <3>5 DEF FilesInv, ViewFiles, Has, Served
        <5>2. QED
          BY <1>1, <3>3, <3>5, <4>2, <5>1
      <4>3. QED
        BY <4>1, <4>2
    <3>6. ViewFiles'
      BY <1>1, <1>2, <3>1, <3>3, <3>5 DEF ViewFiles, Has, Served
    <3>7. \A d \in Cids : \A l \in 1..keys : Keyed(d, l)' => Keyed(d, l)
      BY <1>1, <2>2, <3>3 DEF Keyed, NoKey
    <3>8. QED
      BY <3>6, <3>7
  <2>3. QED
    BY <2>1, <2>2, TidyEffect
<1>8. TaskFiles'
  <2>1. (\A i \in jobs' : i \in jobs) /\ FilesStand
    BY <1>1, TidyEffect, SameFiles
  <2>2. QED
    BY <1>6, <1>7, <2>1, TasksKept DEF FilesInv
<1>9. QED
  BY <1>5, <1>7, <1>8 DEF FilesInv

LEMMA FilesMove ==
  ASSUME Types, StepInv, FilesInv, Quarantine \/ Unquarantine
  PROVE  FilesInv'
<1> DEFINE c == txn.about
<1>1. /\ ~Unlocked /\ c \in Cids /\ jobs = {} /\ UNCHANGED <<blob, jobs, temp, spoilt, keys>>
      /\ txn'.view = txn.view /\ txn'.about = c /\ txn'.at = "commit" /\ ~Unlocked'
  BY MoveEffect DEF tables, requests, Begin
<1>2. \A d \in Cids : d # c => stored'[d] = stored[d] /\ quarantine'[d] = quarantine[d]
  BY <1>1, StoredIn DEF Quarantine, Unquarantine
<1>3. \/ UNCHANGED <<stored, quarantine>>
      \/ stored'[c] = "none" /\ quarantine'[c] = stored[c]
      \/ stored'[c] = quarantine[c] /\ quarantine'[c] = "none"
  BY <1>1, StoredIn DEF Quarantine, Unquarantine
<1>4. \A d \in Cids : OnDisk(d) => OnDisk(d)'
  <2>1. CASE Quarantine
    BY <1>1, <1>2, <2>1, StoredIn DEF Quarantine, OnDisk
  <2>2. CASE Unquarantine
    BY <1>1, <1>2, <2>2, StoredIn DEF Unquarantine, OnDisk
  <2>3. QED
    BY <2>1, <2>2
<1>5. \A d, l : Keyed(d, l)' <=> Keyed(d, l)
  BY <1>1 DEF Keyed
<1>6. \A i \in Active' : \E j \in Active : SameTask(i, j)
  BY <1>1, MoveEffect DEF Active
<1>7. TableFiles'
  <2>1. txn.at # "commit"
    BY DEF Quarantine, Unquarantine
  <2>2. QED
    BY <1>1, <1>2, <1>4, <2>1 DEF FilesInv, TableFiles, Has, Served
<1>8. ViewFiles'
  <2> DEFINE t == txn.view.blob
  <2>1. \A d \in Cids \ spoilt : Has(txn.view.blob, d)'
    BY <1>1, <1>4 DEF FilesInv, ViewFiles, Has
  <2>2. ASSUME NEW d \in Cids \ spoilt, Served(t, d), d # c PROVE stored'[d] # "none"
    BY <1>1, <1>2, <2>2 DEF FilesInv, ViewFiles
  <2>3. ASSUME Served(t, c), c \notin spoilt PROVE stored'[c] # "none"
    <3>1. CASE Quarantine
      BY <1>1, <2>3, <3>1 DEF Quarantine, StepInv, ViewInv, Served
    <3>2. CASE Unquarantine
      <4>1. OnDisk(c)
        BY <1>1, <2>3 DEF FilesInv, ViewFiles, Has, Served
      <4>2. QED
        BY <1>1, <3>2, <4>1, StoredIn DEF Unquarantine, OnDisk
    <3>3. QED
      BY <3>1, <3>2
  <2>4. QED
    BY <1>1, <2>1, <2>2, <2>3 DEF ViewFiles, Served
<1>9. TaskFiles'
  <2> SUFFICES ASSUME NEW i \in Active', Late(i), i.cid \notin spoilt, Keyed(i.cid, i.key)'
               PROVE  OnDisk(i.cid)'
    BY <1>1 DEF TaskFiles
  <2>1. PICK j \in Active : SameTask(i, j)
    BY <1>6
  <2>2. Late(j) /\ j.cid = i.cid /\ j.key = i.key /\ j.cid \in Cids
    BY <2>1, ActiveTyped DEF SameTask, Late
  <2>3. QED
    BY <1>4, <1>5, <2>2 DEF FilesInv, TaskFiles
<1>10. QED
  BY <1>7, <1>8, <1>9 DEF FilesInv

\* COMMIT: the view, whose files there are, becomes the table
LEMMA FilesCommit ==
  ASSUME Types, FilesInv, Commit
  PROVE  FilesInv'
<1>1. /\ ~Unlocked /\ txn.at \in {"blobs", "commit"} /\ jobs = {} /\ Unlocked'
      /\ UNCHANGED <<jobs, strays, stored, quarantine, temp, spoilt, keys>>
      /\ blob' = txn.view.blob
  BY DEF Commit, files, requests, history, Unlocked, NoTxn
<1>2. \A d : OnDisk(d)' <=> OnDisk(d)
  BY <1>1 DEF OnDisk
<1>3. Active' = Active
  BY <1>1 DEF Active
<1>4. TableFiles'
  BY <1>1, <1>2 DEF FilesInv, TableFiles, ViewFiles, Has, Served
<1>5. ViewFiles'
  BY <1>1 DEF ViewFiles
<1>6. \A d, l : Keyed(d, l)' => Keyed(d, l)
  BY <1>1 DEF Keyed
<1>7. TaskFiles'
  BY <1>1, <1>2, <1>3, <1>6 DEF FilesInv, TaskFiles
<1>8. QED
  BY <1>4, <1>5, <1>7 DEF FilesInv

\* A deletion that comes late: what has a row is spoilt
LEMMA FilesDelete ==
  ASSUME Types, StepInv, FilesInv, NEW d \in Cids, DeleteBlob(d)
  PROVE  FilesInv'
<1>1. /\ UNCHANGED <<blob, txn, temp, quarantine, keys>>
      /\ stored' = [stored EXCEPT ![d] = "none"] /\ spoilt' = spoilt \cup ({d} \cap Known)
  BY DEF DeleteBlob, tables, requests
<1>2. stored'[d] = "none" /\ \A c \in Cids : c # d => stored'[c] = stored[c]
  BY <1>1, StoredIn
<1>3. \A c \in Cids \ spoilt' : c \notin spoilt /\ (c # d \/ c \notin Known)
  BY <1>1
<1>4. \A c \in Cids : c # d => (OnDisk(c)' <=> OnDisk(c))
  BY <1>1, <1>2 DEF OnDisk
<1>5. /\ \A i \in Active' : \E j \in Active : SameTask(i, j)
      /\ \A i \in jobs' : \E j \in jobs : SameTask(i, j)
  BY DeleteEffect DEF Active
<1>6. \A i, j : SameTask(i, j) => /\ Late(i) <=> Late(j)
                                  /\ i.cid = j.cid /\ i.key = j.key
  BY DEF SameTask, Late
<1>7. TableFiles'
  BY <1>1, <1>2, <1>3, <1>4 DEF FilesInv, TableFiles, Has, Served, Known
<1>8. ViewFiles'
  BY <1>1, <1>2, <1>3, <1>4 DEF FilesInv, ViewFiles, Has, Served, Known, Unlocked
<1>9. TaskFiles'
  <2>1. ASSUME NEW j \in Active, Late(j), j.cid \notin spoilt', Keyed(j.cid, j.key)
        PROVE  OnDisk(j.cid)'
    <3>1. j.cid \in Cids /\ j.cid \in Known
      BY <2>1, ActiveTyped DEF Keyed, Known
    <3>2. QED
      BY <1>3, <1>4, <2>1, <3>1 DEF FilesInv, TaskFiles
  <2>2. ASSUME NEW j \in jobs, Late(j), j.cid \notin spoilt'
        PROVE  stored'[j.cid] # "none"
    <3>1. j.cid \in Cids /\ j.cid \in Known
      BY <2>2, LockedJobs DEF Late, Writing, StepInv, JobsInv, Known
    <3>2. QED
      BY <1>2, <1>3, <2>2, <3>1 DEF FilesInv, TaskFiles
  <2>3. \A c, k : Keyed(c, k)' <=> Keyed(c, k)
    BY <1>1 DEF Keyed, Unlocked
  <2>4. QED
    BY <1>5, <1>6, <2>1, <2>2, <2>3 DEF TaskFiles
<1>10. QED
  BY <1>7, <1>8, <1>9 DEF FilesInv

\* The process ends: only a takedown between its file and its row is spoilt
LEMMA FilesRestart ==
  ASSUME Types, FilesInv, Restart
  PROVE  FilesInv'
<1>1. /\ UNCHANGED <<blob, temp, keys>>
      /\ txn' = NoTxn /\ jobs' = {} /\ strays' = {} /\ Unlocked' /\ txn'.at = "none"
      /\ txn.at = "commit" /\ txn.about \in Cids => txn.about \in spoilt'
      /\ FilesStand
  BY DEF Restart, tables, Unlocked, NoTxn, Interrupted, FilesStand, OnDisk
<1>2. txn.at = "commit" => txn.about \in Cids
  BY DEF Types, TxnTyped, Unlocked
<1>3. TableFiles' /\ ViewFiles'
  BY <1>1, <1>2, PlacesKept DEF FilesInv
<1>4. TaskFiles'
  BY <1>1 DEF TaskFiles, Active
<1>5. QED
  BY <1>3, <1>4 DEF FilesInv

LEMMA FilesRollback ==
  ASSUME Types, FilesInv, Rollback
  PROVE  FilesInv'
<1>1. /\ UNCHANGED <<blob, stored, quarantine, temp, keys>> /\ Abort({}) /\ jobs = {}
      /\ spoilt' = spoilt \cup ({txn.about} \cap Cids)
  BY DEF Rollback, tables, files, requests
<1>2. txn'.at = "none" /\ jobs' = {} /\ strays' = strays
  BY <1>1 DEF Abort, NoTxn
<1>3. txn.at = "commit" => txn.about \in spoilt'
  BY <1>1 DEF Types, TxnTyped, Unlocked
<1>4. Active' = Active
  BY <1>1, <1>2 DEF Active
<1>5. QED
  BY <1>1, <1>2, <1>3, <1>4, SameFiles, FilesQuiet

LEMMA FilesInit == Init => FilesInv
BY DEF Init, FilesInv, TableFiles, ViewFiles, TaskFiles, Has, Served, Active, Unlocked,
       NoTxn

LEMMA FilesStep == Types /\ StepInv /\ FilesInv /\ [Next]_vars => FilesInv'
<1> SUFFICES ASSUME Types, StepInv, FilesInv, [Next]_vars PROVE FilesInv'
  OBVIOUS
<1>1. ASSUME NEW c \in Cids, PutTemp(c) \/ DeleteBlobFails(c) PROVE FilesInv'
  BY <1>1, SameFiles, FilesQuiet DEF PutTemp, DeleteBlobFails, tables, work, files, history, Active
<1>2. ASSUME NEW r \in Records, NEW cs \in SUBSET Cids, Import(r, cs) PROVE FilesInv'
  BY <1>2, SameFiles, FilesQuiet DEF Import, work, files, history, Active
<1>3. CASE UNCHANGED vars
  BY <1>3, SameFiles, FilesQuiet DEF vars, tables, work, files, history, Active
<1>4. QED
  BY Steps, <1>1, <1>2, <1>3, FilesCopyFails, FilesTakedown, FilesUpload, FilesWrite, FilesVerify,
     FilesStartCopy, FilesEndCopy, FilesTidy, FilesMove, FilesCommit, FilesDelete, FilesRollback,
     FilesRestart

(***************************************************************************)
(* What the database says of a blob, the blob store has, but for blobs     *)
(* that a late deletion or a takedown that failed half way has spoilt: a   *)
(* file that is whole, or torn by a copy that was interrupted, or being    *)
(* written by a task that still runs.                                      *)
(***************************************************************************)
THEOREM BlobsAreKept == Spec => []BlobsKept
<1>1. Types /\ HalfInv /\ FilesInv => BlobsKept
  <2> SUFFICES ASSUME Types, HalfInv, FilesInv, NEW c \in DOMAIN blob \ spoilt PROVE Kept(c)
    BY DEF BlobsKept
  <2>1. c \in Cids \ spoilt
    BY DEF Types, TablesTyped, IsTable
  <2>2. /\ stored[c] # "none" => InStore(c)
        /\ quarantine[c] # "none" => Somewhere(c)
    BY <2>1, StoredIn DEF HalfInv, InStore, Somewhere, Present, FileStates
  <2>3. Has(blob, c) /\ (Served(blob, c) => stored[c] # "none" \/ (txn.at = "commit" /\ txn.about = c))
    BY <2>1 DEF FilesInv, TableFiles
  <2>4. QED
    BY <2>2, <2>3 DEF Has, Served, OnDisk, Kept, Somewhere, TakingDown, Unlocked
<1>2. QED
  BY <1>1, TypesInit, TypesStep, StepInit, StepStep, HalfInit, HalfStep, FilesInit, FilesStep,
     PTL DEF Spec
=============================================================================
