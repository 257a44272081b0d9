-------------------------- MODULE RepoWrites_proofs --------------------------
(***************************************************************************)
(* Proofs about RepoWrites, for any number of concurrent requests, any     *)
(* keys and records and any bounds.                                        *)
(***************************************************************************)
EXTENDS RepoWrites, SequenceTheorems, TLAPS

-----------------------------------------------------------------------------
(* Type correctness                                                        *)

(***************************************************************************)
(* A request that is being served is a request, and its commit a commit.   *)
(***************************************************************************)
ServedInv ==
  \A r \in Reqs : /\ pc[r] # "idle" => op[r] \in Request
                  /\ pc[r] \in InFlight => txn[r] \in Transaction

LEMMA EditsAreFunctions ==
  ASSUME NEW S \in SUBSET Keys, NEW f \in [S -> Vals \cup {None}]
  PROVE  f \in Edits
BY DEF Edits

LEMMA EditsDomain ==
  ASSUME NEW e \in Edits
  PROVE  /\ DOMAIN e \in SUBSET Keys
         /\ e \in [DOMAIN e -> Vals \cup {None}]
BY DEF Edits

LEMMA ApplyTyped ==
  ASSUME NEW contents \in Contents, NEW e \in Edits
  PROVE  Apply(contents, e) \in Contents
<1>1. DOMAIN e \in SUBSET Keys /\ e \in [DOMAIN e -> Vals \cup {None}]
  BY EditsDomain
<1>2. QED
  BY <1>1 DEF Apply, Contents

LEMMA EditsOfTyped ==
  ASSUME NEW o \in Request, NEW contents \in Contents
  PROVE  EditsOf(o, contents) \in Edits
<1> DEFINE S == DOMAIN o.edits \cup Conflicts(o, contents)
<1>1. o.edits \in Edits
  BY DEF Request
<1>2. DOMAIN o.edits \in SUBSET Keys /\ o.edits \in [DOMAIN o.edits -> Vals \cup {None}]
  BY <1>1, EditsDomain
<1>3. S \in SUBSET Keys
  BY <1>2 DEF Conflicts
<1>4. EditsOf(o, contents) \in [S -> Vals \cup {None}]
  BY <1>2 DEF EditsOf
<1> HIDE DEF S
<1>5. QED
  BY <1>3, <1>4, EditsAreFunctions

LEMMA RequestsTyped ==
  ASSUME TypeOK, NEW o \in Requests
  PROVE  o \in Request
<1>1. head \in Nat /\ records \in Contents
  BY DEF TypeOK
<1>2. \A k \in Keys, v \in Vals \cup {None} : [i \in {k} |-> v] \in Edits
  <2> SUFFICES ASSUME NEW k \in Keys, NEW v \in Vals \cup {None}
               PROVE  [i \in {k} |-> v] \in Edits
    OBVIOUS
  <2>1. {k} \in SUBSET Keys /\ [i \in {k} |-> v] \in [{k} -> Vals \cup {None}]
    OBVIOUS
  <2>2. QED
    BY <2>1, EditsAreFunctions
<1>3. CASE o \in ApplyWritesRequests
  <2>1. PICK e \in Edits : \E p \in SUBSET DOMAIN e, c \in SwapCommits :
           o = [kind |-> "applyWrites", edits |-> e, present |-> p, unique |-> FALSE,
                swapCommit |-> c, swapRecord |-> NotGiven]
    BY <1>3 DEF ApplyWritesRequests
  <2>2. DOMAIN e \in SUBSET Keys
    BY EditsDomain
  <2>3. QED
    BY <1>1, <2>1, <2>2 DEF Request, SwapCommits
<1>4. CASE o \in CreateRecordRequests
  <2>1. PICK k \in Keys : \E v \in Vals, u \in BOOLEAN, c \in SwapCommits :
           o = [kind |-> "createRecord", edits |-> [i \in {k} |-> v], present |-> {},
                unique |-> u, swapCommit |-> c, swapRecord |-> NotGiven]
    BY <1>4 DEF CreateRecordRequests
  <2>2. PICK v \in Vals, u \in BOOLEAN, c \in SwapCommits :
           o = [kind |-> "createRecord", edits |-> [i \in {k} |-> v], present |-> {},
                unique |-> u, swapCommit |-> c, swapRecord |-> NotGiven]
    BY <2>1
  <2>3. [i \in {k} |-> v] \in Edits
    BY <1>2
  <2>4. QED
    BY <1>1, <2>2, <2>3 DEF Request, SwapCommits
<1>5. CASE o \in PutRecordRequests
  <2>1. PICK k \in Keys : \E v \in Vals, c \in SwapCommits, s \in SwapRecords(k) :
           o = [kind |-> "putRecord", edits |-> [i \in {k} |-> v], present |-> {},
                unique |-> FALSE, swapCommit |-> c, swapRecord |-> s]
    BY <1>5 DEF PutRecordRequests
  <2>2. PICK v \in Vals, c \in SwapCommits, s \in SwapRecords(k) :
           o = [kind |-> "putRecord", edits |-> [i \in {k} |-> v], present |-> {},
                unique |-> FALSE, swapCommit |-> c, swapRecord |-> s]
    BY <2>1
  <2>3. [i \in {k} |-> v] \in Edits
    BY <1>2
  <2>4. s \in Vals \cup {None, NotGiven}
    BY <1>1 DEF SwapRecords, Contents
  <2>5. QED
    BY <1>1, <2>2, <2>3, <2>4 DEF Request, SwapCommits
<1>6. CASE o \in DeleteRecordRequests
  <2>1. PICK k \in Keys : \E c \in SwapCommits, s \in SwapRecords(k) :
           o = [kind |-> "deleteRecord", edits |-> [i \in {k} |-> None], present |-> {k},
                unique |-> FALSE, swapCommit |-> c, swapRecord |-> s]
    BY <1>6 DEF DeleteRecordRequests
  <2>2. PICK c \in SwapCommits, s \in SwapRecords(k) :
           o = [kind |-> "deleteRecord", edits |-> [i \in {k} |-> None], present |-> {k},
                unique |-> FALSE, swapCommit |-> c, swapRecord |-> s]
    BY <2>1
  <2>3. [i \in {k} |-> None] \in Edits
    BY <1>2
  <2>4. s \in Vals \cup {None, NotGiven}
    BY <1>1 DEF SwapRecords, Contents
  <2>5. QED
    BY <1>1, <2>2, <2>3, <2>4 DEF Request, SwapCommits
<1>7. QED
  BY <1>3, <1>4, <1>5, <1>6 DEF Requests

LEMMA TypedInit == Init => TypeOK /\ ServedInv
BY BoundsAssumption DEF Init, TypeOK, ServedInv, Contents, InFlight

(***************************************************************************)
(* What every step of a request leaves typed: its place, and the others.   *)
(***************************************************************************)
LEMMA ServedStep ==
  ASSUME TypeOK, ServedInv, NEW r \in Reqs,
         NEW l \in {"idle", "begin"} \cup InFlight,
         NEW o \in Request \cup {None}, NEW t \in Transaction \cup {None},
         pc' = [pc EXCEPT ![r] = l],
         op' = [op EXCEPT ![r] = o],
         txn' = [txn EXCEPT ![r] = t],
         l # "idle" => o \in Request,
         l \in InFlight => t \in Transaction
  PROVE  /\ ServedInv'
         /\ pc' \in [Reqs -> {"idle", "begin"} \cup InFlight]
         /\ op' \in [Reqs -> Request \cup {None}]
         /\ txn' \in [Reqs -> Transaction \cup {None}]
<1>1. /\ pc \in [Reqs -> {"idle", "begin"} \cup InFlight]
      /\ op \in [Reqs -> Request \cup {None}]
      /\ txn \in [Reqs -> Transaction \cup {None}]
  BY DEF TypeOK
<1>2. /\ pc' \in [Reqs -> {"idle", "begin"} \cup InFlight]
      /\ op' \in [Reqs -> Request \cup {None}]
      /\ txn' \in [Reqs -> Transaction \cup {None}]
  BY <1>1
<1>3. ASSUME NEW q \in Reqs
      PROVE  /\ pc'[q] # "idle" => op'[q] \in Request
             /\ pc'[q] \in InFlight => txn'[q] \in Transaction
  <2>1. CASE q = r
    BY <1>1, <2>1
  <2>2. CASE q # r
    BY <1>1, <2>2 DEF ServedInv
  <2>3. QED
    BY <2>1, <2>2
<1>4. QED
  BY <1>2, <1>3 DEF ServedInv

LEMMA AnswerTypes ==
  ASSUME TypeOK, ServedInv, NEW r \in Reqs, pc[r] # "idle", Answer(r) \/ RunAgain(r)
  PROVE  /\ ServedInv'
         /\ pc' \in [Reqs -> {"idle", "begin"} \cup InFlight]
         /\ op' \in [Reqs -> Request \cup {None}]
         /\ txn' \in [Reqs -> Transaction \cup {None}]
<1>1. CASE Answer(r)
  <2>1. /\ pc' = [pc EXCEPT ![r] = "idle"]
        /\ op' = [op EXCEPT ![r] = None]
        /\ txn' = [txn EXCEPT ![r] = None]
        /\ "idle" \notin InFlight
    BY <1>1 DEF Answer, Goto, InFlight
  <2>2. QED
    BY <2>1, ServedStep
<1>2. CASE RunAgain(r)
  <2>1. op[r] \in Request
    BY DEF ServedInv
  <2>2. /\ pc' = [pc EXCEPT ![r] = "begin"]
        /\ op' = [op EXCEPT ![r] = op[r]]
        /\ txn' = [txn EXCEPT ![r] = None]
        /\ "begin" \notin InFlight
    BY <1>2 DEF RunAgain, Goto, TypeOK, InFlight
  <2>3. QED
    BY <2>1, <2>2, ServedStep
<1>3. QED
  BY <1>1, <1>2

(***************************************************************************)
(* Types survive every step.                                               *)
(***************************************************************************)
Typed == TypeOK /\ ServedInv

LEMMA StartTypes ==
  ASSUME Typed, NEW r \in Reqs, Start(r)
  PROVE  Typed'
<1>1. PICK o \in Requests : op' = [op EXCEPT ![r] = o]
  BY DEF Start
<1>2. o \in Request
  BY <1>1, RequestsTyped DEF Typed
<1>3. /\ pc' = [pc EXCEPT ![r] = "begin"]
      /\ txn' = [txn EXCEPT ![r] = txn[r]]
      /\ txn[r] \in Transaction \cup {None}
      /\ "begin" \notin InFlight
  BY DEF Start, Goto, Typed, TypeOK, InFlight
<1>4. TypeOK /\ ServedInv
  BY DEF Typed
<1>5. /\ ServedInv'
      /\ pc' \in [Reqs -> {"idle", "begin"} \cup InFlight]
      /\ op' \in [Reqs -> Request \cup {None}]
      /\ txn' \in [Reqs -> Transaction \cup {None}]
  BY <1>1, <1>2, <1>3, <1>4, ServedStep
<1>6. UNCHANGED <<actorStore, writer, log, accountHead, faults>>
  BY DEF Start
<1>7. QED
  BY <1>4, <1>5, <1>6 DEF Typed, TypeOK, actorStore

LEMMA FormatTypes ==
  ASSUME Typed, NEW r \in Reqs, Format(r)
  PROVE  Typed'
<1>1. TypeOK /\ ServedInv /\ pc[r] = "begin"
  BY DEF Typed, Format
<1>2. UNCHANGED <<actorStore, writer, log, accountHead, faults>>
  BY DEF Format
<1>3. CASE Answer(r)
  BY <1>1, <1>2, <1>3, AnswerTypes DEF Typed, TypeOK, actorStore
<1>4. CASE ~Answer(r)
  <2>1. PICK n \in 1..MaxRev :
           txn' = [txn EXCEPT ![r] = [rev |-> n, since |-> head,
                                      edits |-> EditsOf(op[r], tree),
                                      tree |-> Apply(tree, EditsOf(op[r], tree))]]
    BY <1>4 DEF Format
  <2> DEFINE t == [rev |-> n, since |-> head, edits |-> EditsOf(op[r], tree),
                   tree |-> Apply(tree, EditsOf(op[r], tree))]
  <2>2. op[r] \in Request /\ tree \in Contents /\ head \in Nat
    BY <1>1 DEF TypeOK, ServedInv
  <2>3. EditsOf(op[r], tree) \in Edits
    BY <2>2, EditsOfTyped
  <2>4. Apply(tree, EditsOf(op[r], tree)) \in Contents
    BY <2>2, <2>3, ApplyTyped
  <2>5. n \in Nat
    BY BoundsAssumption
  <2>6. t \in Transaction
    BY <2>2, <2>3, <2>4, <2>5 DEF Transaction
  <2>7. txn' = [txn EXCEPT ![r] = t]
    BY <2>1
  <2> HIDE DEF t
  <2>8. /\ pc' = [pc EXCEPT ![r] = "formatted"]
        /\ op' = [op EXCEPT ![r] = op[r]]
        /\ "formatted" \in InFlight
    BY <1>1, <1>4 DEF Format, Goto, TypeOK, InFlight
  <2>9. /\ ServedInv'
        /\ pc' \in [Reqs -> {"idle", "begin"} \cup InFlight]
        /\ op' \in [Reqs -> Request \cup {None}]
        /\ txn' \in [Reqs -> Transaction \cup {None}]
    BY <1>1, <2>2, <2>6, <2>7, <2>8, ServedStep
  <2>10. QED
    BY <1>1, <1>2, <2>9 DEF Typed, TypeOK, actorStore
<1>5. QED
  BY <1>3, <1>4

(***************************************************************************)
(* A request moves on with the same commit.                                *)
(***************************************************************************)
LEMMA MoveTypes ==
  ASSUME Typed, NEW r \in Reqs, NEW l \in InFlight, pc[r] \in InFlight,
         Goto(r, l), UNCHANGED <<op, txn>>
  PROVE  /\ ServedInv'
         /\ pc' \in [Reqs -> {"idle", "begin"} \cup InFlight]
         /\ op' \in [Reqs -> Request \cup {None}]
         /\ txn' \in [Reqs -> Transaction \cup {None}]
<1>1. TypeOK /\ ServedInv
  BY DEF Typed
<1>2. op[r] \in Request /\ txn[r] \in Transaction
  BY <1>1 DEF ServedInv, InFlight
<1>3. /\ pc' = [pc EXCEPT ![r] = l]
      /\ op' = [op EXCEPT ![r] = op[r]]
      /\ txn' = [txn EXCEPT ![r] = txn[r]]
  BY <1>1 DEF Goto, TypeOK
<1>4. /\ l \in {"idle", "begin"} \cup InFlight
      /\ op[r] \in Request \cup {None}
      /\ txn[r] \in Transaction \cup {None}
      /\ l # "idle" => op[r] \in Request
      /\ l \in InFlight => txn[r] \in Transaction
  BY <1>2
<1>5. QED
  BY <1>1, <1>3, <1>4, ServedStep, Zenon

LEMMA ActorTypes ==
  ASSUME Typed, NEW r \in Reqs,
         ApplyCommit(r) \/ Busy(r) \/ Refuse(r) \/ Sequence(r) \/ SequenceFail(r)
  PROVE  Typed'
<1>1. TypeOK /\ ServedInv
  BY DEF Typed
<1>2. CASE ApplyCommit(r)
  <2>1. /\ ServedInv'
        /\ pc' \in [Reqs -> {"idle", "begin"} \cup InFlight]
        /\ op' \in [Reqs -> Request \cup {None}]
        /\ txn' \in [Reqs -> Transaction \cup {None}]
    <3>1. pc[r] \in InFlight /\ "applied" \in InFlight
      BY <1>2 DEF ApplyCommit, InFlight
    <3>2. Goto(r, "applied") /\ UNCHANGED <<op, txn>>
      BY <1>2 DEF ApplyCommit
    <3>3. QED
      BY <3>1, <3>2, MoveTypes
  <2>2. UNCHANGED <<actorStore, log, accountHead, faults>> /\ writer' = r
    BY <1>2 DEF ApplyCommit
  <2>3. QED
    BY <1>1, <2>1, <2>2 DEF Typed, TypeOK, actorStore
<1>3. CASE Busy(r)
  <2>1. UNCHANGED <<actorStore, writer, log, accountHead, faults>>
    BY <1>3 DEF Busy
  <2>2. pc[r] # "idle" /\ (Answer(r) \/ RunAgain(r))
    BY <1>3 DEF Busy
  <2>3. QED
    BY <1>1, <2>1, <2>2, AnswerTypes DEF Typed, TypeOK, actorStore
<1>4. CASE Sequence(r)
  <2>1. /\ ServedInv'
        /\ pc' \in [Reqs -> {"idle", "begin"} \cup InFlight]
        /\ op' \in [Reqs -> Request \cup {None}]
        /\ txn' \in [Reqs -> Transaction \cup {None}]
    <3>1. pc[r] \in InFlight /\ "sequenced" \in InFlight
      BY <1>4 DEF Sequence, InFlight
    <3>2. Goto(r, "sequenced") /\ UNCHANGED <<op, txn>>
      BY <1>4 DEF Sequence
    <3>3. QED
      BY <3>1, <3>2, MoveTypes
  <2>2. UNCHANGED <<actorStore, writer, accountHead, faults>>
    BY <1>4 DEF Sequence
  <2>3. log' \in Seq(Event)
    <3>1. txn[r] \in Transaction
      BY <1>1, <1>4 DEF Sequence, ServedInv, InFlight
    <3>2. [rev |-> txn[r].rev, since |-> txn[r].since, edits |-> txn[r].edits] \in Event
      BY <3>1 DEF Transaction, Event
    <3>3. QED
      BY <1>1, <1>4, <3>2, AppendProperties DEF Sequence, TypeOK
  <2>4. QED
    BY <1>1, <2>1, <2>2, <2>3 DEF Typed, TypeOK, actorStore
<1>5. CASE SequenceFail(r)
  <2>1. UNCHANGED <<actorStore, log, accountHead>> /\ writer' = NoOne
    BY <1>5 DEF SequenceFail, Rollback
  <2>2. pc[r] # "idle" /\ (Answer(r) \/ RunAgain(r))
    BY <1>5 DEF SequenceFail, Rollback
  <2>3. faults' \in 0..MaxFaults
    BY <1>1, <1>5, BoundsAssumption DEF SequenceFail, TypeOK
  <2>4. QED
    BY <1>1, <2>1, <2>2, <2>3, AnswerTypes DEF Typed, TypeOK, actorStore
<1>6. CASE Refuse(r)
  <2>1. UNCHANGED <<actorStore, log, accountHead, faults>> /\ writer' \in Reqs \cup {NoOne}
    BY <1>1, <1>6 DEF Refuse, TypeOK
  <2>2. pc[r] # "idle" /\ Answer(r)
    BY <1>6 DEF Refuse
  <2>3. QED
    BY <1>1, <2>1, <2>2, AnswerTypes DEF Typed, TypeOK, actorStore
<1>7. QED
  BY <1>2, <1>3, <1>4, <1>5, <1>6

LEMMA CommitTypes ==
  ASSUME Typed, NEW r \in Reqs,
         Commit(r) \/ CommitFail(r) \/ UpdateRepoRoot(r) \/ UpdateRepoRootFail(r)
  PROVE  Typed'
<1>1. TypeOK /\ ServedInv
  BY DEF Typed
<1>2. pc[r] \in {"sequenced", "committed"}
  BY DEF Commit, CommitFail, UpdateRepoRoot, UpdateRepoRootFail
<1>3. txn[r] \in Transaction
  BY <1>1, <1>2 DEF ServedInv, InFlight
<1>4. txn[r].rev \in Nat /\ txn[r].edits \in Edits /\ txn[r].tree \in Contents
  BY <1>3 DEF Transaction
<1>5. CASE Commit(r)
  <2>1. /\ ServedInv'
        /\ pc' \in [Reqs -> {"idle", "begin"} \cup InFlight]
        /\ op' \in [Reqs -> Request \cup {None}]
        /\ txn' \in [Reqs -> Transaction \cup {None}]
    <3>1. pc[r] \in InFlight /\ "committed" \in InFlight
      BY <1>2 DEF InFlight
    <3>2. Goto(r, "committed") /\ UNCHANGED <<op, txn>>
      BY <1>5 DEF Commit
    <3>3. QED
      BY <3>1, <3>2, MoveTypes
  <2>2. UNCHANGED <<log, accountHead, faults>> /\ writer' = NoOne
    BY <1>5 DEF Commit
  <2>3. head' \in Nat /\ tree' \in Contents /\ commits' \in Seq(Nat)
    BY <1>1, <1>4, <1>5, AppendProperties DEF Commit, TypeOK
  <2>4. records' \in Contents
    <3>1. records \in Contents
      BY <1>1 DEF TypeOK
    <3>2. QED
      BY <1>4, <1>5, <3>1, ApplyTyped DEF Commit
  <2>5. QED
    BY <1>1, <2>1, <2>2, <2>3, <2>4 DEF Typed, TypeOK
<1>6. CASE CommitFail(r) \/ UpdateRepoRoot(r) \/ UpdateRepoRootFail(r)
  <2>1. UNCHANGED <<actorStore, log>> /\ Answer(r)
    BY <1>6 DEF CommitFail, UpdateRepoRoot, UpdateRepoRootFail
  <2>2. writer' \in Reqs \cup {NoOne} /\ accountHead' \in Nat
    BY <1>1, <1>4, <1>6 DEF CommitFail, UpdateRepoRoot, UpdateRepoRootFail, TypeOK
  <2>3. faults' \in 0..MaxFaults
    BY <1>1, <1>6, BoundsAssumption DEF CommitFail, UpdateRepoRoot, UpdateRepoRootFail, TypeOK
  <2>4. pc[r] # "idle"
    BY <1>2
  <2>5. QED
    BY <1>1, <2>1, <2>2, <2>3, <2>4, AnswerTypes DEF Typed, TypeOK, actorStore
<1>7. QED
  BY <1>5, <1>6

LEMMA CrashTypes ==
  ASSUME Typed, Crash
  PROVE  Typed'
<1>1. UNCHANGED <<actorStore, log, accountHead>> /\ writer' = NoOne
  BY DEF Crash
<1>2. /\ pc' = [r \in Reqs |-> "idle"]
      /\ op' = [r \in Reqs |-> None]
      /\ txn' = [r \in Reqs |-> None]
  BY DEF Crash
<1>3. ServedInv'
  BY <1>2 DEF ServedInv, InFlight
<1>4. faults' \in 0..MaxFaults
  BY BoundsAssumption DEF Crash, Typed, TypeOK
<1>5. QED
  BY <1>1, <1>2, <1>3, <1>4 DEF Typed, TypeOK, actorStore

LEMMA TypedStep == Typed /\ [Next]_vars => Typed'
<1> SUFFICES ASSUME Typed, [Next]_vars
             PROVE  Typed'
  OBVIOUS
<1>1. CASE UNCHANGED vars
  BY <1>1 DEF vars, actorStore, Typed, TypeOK, ServedInv
<1>2. CASE Next
  BY <1>2, StartTypes, FormatTypes, ActorTypes, CommitTypes, CrashTypes DEF Next, Step
<1>3. QED
  BY <1>1, <1>2

(***************************************************************************)
(* Every state of the write path has its type.                             *)
(***************************************************************************)
THEOREM TypeCorrect == Spec => []TypeOK
<1>1. Init => Typed
  BY TypedInit DEF Typed
<1>2. Typed => TypeOK
  BY DEF Typed
<1>3. QED
  BY <1>1, <1>2, TypedStep, PTL DEF Spec

-----------------------------------------------------------------------------
(* Commits and events                                                      *)

Pending(r) == pc[r] \in {"formatted", "applied", "sequenced"}

(***************************************************************************)
(* What was formatted on top of the current root is what the request asks  *)
(* of the current repository.                                              *)
(***************************************************************************)
Fits(r) == /\ Accepts(op[r], tree, head)
           /\ txn[r].edits = EditsOf(op[r], tree)
           /\ txn[r].tree = Apply(tree, txn[r].edits)

TxnInv == \A r \in Reqs : Pending(r) =>
            /\ txn[r].since <= head /\ txn[r].since < txn[r].rev
            /\ Committed(txn[r].since)
            /\ txn[r].since = head => Fits(r)

(***************************************************************************)
(* Whoever has written in its transaction holds the lock, and so the root  *)
(* is still the one it started from.                                       *)
(***************************************************************************)
LockInv == \A r \in Reqs : pc[r] \in {"applied", "sequenced"} =>
             writer = r /\ txn[r].since = head

RevsDiffer ==
  /\ \A r \in Reqs : pc[r] \in {"formatted", "applied"} =>
        \A j \in 1..Len(log) : log[j].rev # txn[r].rev
  /\ \A r, q \in Reqs : r # q /\ Pending(r) /\ Pending(q) => txn[r].rev # txn[q].rev
  /\ \A j \in 1..Len(log) : \A i \in 1..(j - 1) : log[i].rev # log[j].rev

(***************************************************************************)
(* The event of a commit that is about to happen is the last one.          *)
(***************************************************************************)
LastInv == \A r \in Reqs : pc[r] = "sequenced" =>
             /\ Len(log) > 0
             /\ log[Len(log)].rev = txn[r].rev

HeadInv == /\ Committed(head)
           /\ \A i \in 1..Len(commits) : commits[i] <= head

(***************************************************************************)
(* The inductive invariant.                                                *)
(***************************************************************************)
IInv == /\ Typed
        /\ TxnInv
        /\ LockInv
        /\ RevsDiffer
        /\ LastInv
        /\ HeadInv
        /\ CommitsSequenced
        /\ Chained
        /\ NoPhantom
        /\ IndexMatchesTree

LEMMA IInvInit == Init => IInv
<1> SUFFICES ASSUME Init
             PROVE  IInv
  OBVIOUS
<1>1. Typed
  BY TypedInit DEF Typed
<1>2. Len(log) = 0 /\ Len(commits) = 1 /\ commits[1] = 0 /\ head = 0
  BY DEF Init
<1>3. \A r \in Reqs : pc[r] = "idle"
  BY DEF Init
<1>4. TxnInv /\ LockInv /\ LastInv
  BY <1>3 DEF TxnInv, LockInv, LastInv, Pending
<1>5. RevsDiffer
  BY <1>2, <1>3 DEF RevsDiffer, Pending
<1>6. HeadInv /\ CommitsSequenced /\ Chained /\ NoPhantom
  BY <1>2 DEF HeadInv, CommitsSequenced, Chained, NoPhantom, Committed
<1>7. IndexMatchesTree
  BY DEF Init, IndexMatchesTree
<1>8. QED
  BY <1>1, <1>4, <1>5, <1>6, <1>7 DEF IInv

LEMMA Revs ==
  ASSUME Typed
  PROVE  /\ head \in Nat /\ Len(log) \in Nat /\ Len(commits) \in Nat
         /\ \A j \in 1..Len(log) : log[j].rev \in Nat /\ log[j].since \in Nat
         /\ \A i \in 1..Len(commits) : commits[i] \in Nat
         /\ \A r \in Reqs : pc[r] \in InFlight =>
               /\ txn[r] \in Transaction
               /\ txn[r].rev \in Nat /\ txn[r].since \in Nat
<1>1. \A j \in 1..Len(log) : log[j] \in Event
  BY ElementOfSeq DEF Typed, TypeOK
<1>2. \A i \in 1..Len(commits) : commits[i] \in Nat
  BY ElementOfSeq DEF Typed, TypeOK
<1>3. \A r \in Reqs : pc[r] \in InFlight => txn[r] \in Transaction
  BY DEF Typed, ServedInv
<1>4. head \in Nat /\ Len(log) \in Nat /\ Len(commits) \in Nat
  BY LenProperties DEF Typed, TypeOK
<1>5. QED
  BY <1>1, <1>2, <1>3, <1>4 DEF Event, Transaction

(***************************************************************************)
(* Steps that change neither the repository nor the events, and make no    *)
(* new commit: every pending request was pending with the same commit.     *)
(***************************************************************************)
LEMMA QuietStep ==
  ASSUME IInv, Typed', UNCHANGED <<actorStore, log>>, LockInv',
         \A q \in Reqs : Pending(q)' =>
            /\ Pending(q) /\ txn'[q] = txn[q] /\ op'[q] = op[q]
            /\ pc'[q] = pc[q] \/ (pc[q] = "formatted" /\ pc'[q] = "applied"),
         faults' = 0 =>
            /\ faults = 0
            /\ \A q \in Reqs : pc[q] = "sequenced" => pc'[q] = "sequenced" /\ txn'[q] = txn[q]
  PROVE  IInv'
<1>1. UNCHANGED <<head, tree, records, commits, log>>
  BY DEF actorStore
<1>2. TxnInv'
  BY <1>1 DEF IInv, TxnInv, Pending, Fits, Committed
<1>3. RevsDiffer'
  <2>1. ASSUME NEW r \in Reqs, pc'[r] \in {"formatted", "applied"}
        PROVE  \A j \in 1..Len(log') : log'[j].rev # txn'[r].rev
    <3>1. pc[r] \in {"formatted", "applied"} /\ txn'[r] = txn[r]
      BY <2>1 DEF Pending
    <3>2. QED
      BY <1>1, <3>1 DEF IInv, RevsDiffer
  <2>2. ASSUME NEW r \in Reqs, NEW q \in Reqs, r # q, Pending(r)', Pending(q)'
        PROVE  txn'[r].rev # txn'[q].rev
    BY <2>2 DEF IInv, RevsDiffer
  <2>3. QED
    BY <1>1, <2>1, <2>2 DEF IInv, RevsDiffer
<1>4. LastInv'
  BY <1>1 DEF IInv, LastInv, Pending
<1>5. HeadInv' /\ CommitsSequenced' /\ Chained' /\ IndexMatchesTree'
  BY <1>1 DEF IInv, HeadInv, CommitsSequenced, Chained, IndexMatchesTree, Committed
<1>6. NoPhantom'
  BY <1>1 DEF IInv, NoPhantom, Committed
<1>7. QED
  BY <1>2, <1>3, <1>4, <1>5, <1>6 DEF IInv

LEMMA QuietSteps ==
  ASSUME IInv, Typed',
         \/ Crash
         \/ \E r \in Reqs : \/ Start(r) \/ ApplyCommit(r) \/ Busy(r) \/ Refuse(r) \/ SequenceFail(r)
                            \/ CommitFail(r) \/ UpdateRepoRoot(r) \/ UpdateRepoRootFail(r)
                            \/ Format(r) /\ Answer(r)
  PROVE  IInv'
<1>1. /\ pc \in [Reqs -> {"idle", "begin"} \cup InFlight]
      /\ op \in [Reqs -> Request \cup {None}]
      /\ txn \in [Reqs -> Transaction \cup {None}]
      /\ faults \in Nat
  BY BoundsAssumption DEF IInv, Typed, TypeOK
<1>2. CASE Crash
  <2>1. /\ UNCHANGED <<actorStore, log>>
        /\ \A q \in Reqs : pc'[q] = "idle"
        /\ faults' # 0
    BY <1>1, <1>2 DEF Crash
  <2>2. LockInv'
    BY <2>1 DEF LockInv
  <2>3. \A q \in Reqs : ~Pending(q)'
    BY <2>1 DEF Pending
  <2>4. QED
    BY <2>1, <2>2, <2>3, QuietStep
<1>3. ASSUME NEW r \in Reqs,
             \/ Start(r) \/ ApplyCommit(r) \/ Busy(r) \/ Refuse(r) \/ SequenceFail(r)
             \/ CommitFail(r) \/ UpdateRepoRoot(r) \/ UpdateRepoRootFail(r)
             \/ Format(r) /\ Answer(r)
      PROVE  IInv'
  <2>1. UNCHANGED <<actorStore, log>>
    BY <1>3 DEF Start, ApplyCommit, Busy, Refuse, SequenceFail, Rollback, CommitFail, UpdateRepoRoot,
                UpdateRepoRootFail, Format, actorStore
  <2>2. \A q \in Reqs : q # r => pc'[q] = pc[q] /\ op'[q] = op[q] /\ txn'[q] = txn[q]
    BY <1>1, <1>3 DEF Start, ApplyCommit, Busy, Refuse, SequenceFail, Rollback, CommitFail,
       UpdateRepoRoot, UpdateRepoRootFail, Format, Answer, RunAgain, Goto
  <2>3. \/ pc'[r] \in {"idle", "begin"}
        \/ /\ pc[r] = "formatted" /\ pc'[r] = "applied" /\ txn'[r] = txn[r] /\ op'[r] = op[r]
           /\ MayWrite(r) /\ writer' = r
    BY <1>1, <1>3 DEF Start, ApplyCommit, Busy, Refuse, SequenceFail, Rollback, CommitFail,
       UpdateRepoRoot, UpdateRepoRootFail, Format, Answer, RunAgain, Goto
  <2>4. \/ writer' = writer
        \/ writer = NoOne /\ writer' = r /\ pc'[r] = "applied"
        \/ writer = r
    BY <1>1, <1>3 DEF IInv, LockInv, Start, ApplyCommit, MayWrite, Busy, Refuse, SequenceFail, Rollback,
       CommitFail, UpdateRepoRoot, UpdateRepoRootFail, Format, Answer, Goto
  <2>5. faults' = 0 => faults = 0 /\ pc[r] # "sequenced"
    BY <1>1, <1>3 DEF Start, ApplyCommit, Busy, Refuse, SequenceFail, Rollback, CommitFail,
       UpdateRepoRoot, UpdateRepoRootFail, Format
  <2>6. LockInv'
    <3> SUFFICES ASSUME NEW q \in Reqs, pc'[q] \in {"applied", "sequenced"}
                 PROVE  writer' = q /\ txn'[q].since = head'
      BY DEF LockInv
    <3>1. CASE q = r
      BY <2>1, <2>3, <3>1 DEF MayWrite, actorStore
    <3>2. CASE q # r
      <4>1. writer = q /\ txn[q].since = head
        BY <2>2, <3>2 DEF IInv, LockInv
      <4>2. QED
        BY <2>1, <2>2, <2>4, <3>2, <4>1, NoOneAssumption DEF actorStore
    <3>3. QED
      BY <3>1, <3>2
  <2>7. \A q \in Reqs : Pending(q)' =>
           /\ Pending(q) /\ txn'[q] = txn[q] /\ op'[q] = op[q]
           /\ pc'[q] = pc[q] \/ (pc[q] = "formatted" /\ pc'[q] = "applied")
    BY <2>2, <2>3 DEF Pending
  <2>8. faults' = 0 =>
           /\ faults = 0
           /\ \A q \in Reqs : pc[q] = "sequenced" => pc'[q] = "sequenced" /\ txn'[q] = txn[q]
    BY <2>2, <2>5
  <2>9. QED
    BY <2>1, <2>6, <2>7, <2>8, QuietStep
<1>4. QED
  BY <1>2, <1>3

(***************************************************************************)
(* A new commit is formatted, on top of the current root.                  *)
(***************************************************************************)
LEMMA FormatStep ==
  ASSUME IInv, Typed', NEW r \in Reqs, Format(r), ~Answer(r)
  PROVE  IInv'
<1>1. /\ pc \in [Reqs -> {"idle", "begin"} \cup InFlight]
      /\ txn \in [Reqs -> Transaction \cup {None}]
      /\ pc[r] = "begin"
  BY DEF IInv, Typed, TypeOK, Format
<1>2. PICK n \in 1..MaxRev :
        /\ IsNextRev(n)
        /\ txn' = [txn EXCEPT ![r] = [rev |-> n, since |-> head,
                                      edits |-> EditsOf(op[r], tree),
                                      tree |-> Apply(tree, EditsOf(op[r], tree))]]
  BY DEF Format
<1>3. /\ UNCHANGED <<head, tree, records, commits, writer, log, op, faults>>
      /\ Accepts(op[r], tree, head)
      /\ pc' = [pc EXCEPT ![r] = "formatted"]
  BY DEF Format, actorStore, Goto
<1>4. /\ pc'[r] = "formatted"
      /\ txn'[r].rev = n /\ txn'[r].since = head
      /\ txn'[r].edits = EditsOf(op[r], tree)
      /\ txn'[r].tree = Apply(tree, EditsOf(op[r], tree))
      /\ \A q \in Reqs : q # r => pc'[q] = pc[q] /\ txn'[q] = txn[q]
  BY <1>1, <1>2, <1>3
<1>5. /\ n \in Nat /\ n > head
      /\ \A i \in 1..Len(log) : n > log[i].rev
      /\ \A q \in Reqs : Pending(q) => n # txn[q].rev
  BY <1>2, BoundsAssumption DEF IsNextRev, SeenRevs, Pending, InFlight
<1>6. /\ head \in Nat /\ Len(log) \in Nat
      /\ \A j \in 1..Len(log) : log[j].rev \in Nat
      /\ \A q \in Reqs : Pending(q) => txn[q].rev \in Nat
  BY Revs DEF IInv, Pending, InFlight
<1>7. TxnInv'
  <2> SUFFICES ASSUME NEW q \in Reqs, Pending(q)'
               PROVE  /\ txn'[q].since <= head' /\ txn'[q].since < txn'[q].rev
                      /\ Committed(txn[q].since)'
                      /\ txn'[q].since = head' => Fits(q)'
    BY DEF TxnInv
  <2>0. commits' = commits
    BY <1>3
  <2>1. CASE q = r
    <3>1. Committed(head)
      BY DEF IInv, HeadInv
    <3>2. Fits(r)'
      BY <1>3, <1>4 DEF Fits
    <3>3. Committed(txn[q].since)'
      BY <1>4, <2>0, <2>1, <3>1 DEF Committed
    <3>4. QED
      BY <1>3, <1>4, <1>5, <1>6, <2>1, <3>2, <3>3
  <2>2. CASE q # r
    <3>1. Pending(q) /\ txn'[q] = txn[q] /\ op'[q] = op[q]
      BY <1>3, <1>4, <2>2 DEF Pending
    <3>2. QED
      BY <1>3, <2>0, <3>1 DEF IInv, TxnInv, Committed, Fits
  <2>3. QED
    BY <2>1, <2>2
<1>8. LockInv'
  BY <1>3, <1>4 DEF IInv, LockInv
<1>9. RevsDiffer'
  <2>1. ASSUME NEW q \in Reqs, pc'[q] \in {"formatted", "applied"}
        PROVE  \A j \in 1..Len(log') : log'[j].rev # txn'[q].rev
    BY <1>3, <1>4, <1>5, <1>6, <2>1 DEF IInv, RevsDiffer
  <2>2. ASSUME NEW p \in Reqs, NEW q \in Reqs, p # q, Pending(p)', Pending(q)'
        PROVE  txn'[p].rev # txn'[q].rev
    <3>1. CASE p # r /\ q # r
      BY <1>4, <2>2, <3>1 DEF IInv, RevsDiffer, Pending
    <3>2. CASE p = r
      BY <1>4, <1>5, <1>6, <2>2, <3>2 DEF Pending
    <3>3. CASE q = r
      BY <1>4, <1>5, <1>6, <2>2, <3>3 DEF Pending
    <3>4. QED
      BY <3>1, <3>2, <3>3
  <2>3. QED
    BY <1>3, <2>1, <2>2 DEF IInv, RevsDiffer
<1>10. LastInv'
  BY <1>3, <1>4 DEF IInv, LastInv
<1>11. HeadInv' /\ CommitsSequenced' /\ Chained' /\ IndexMatchesTree'
  BY <1>3 DEF IInv, HeadInv, CommitsSequenced, Chained, IndexMatchesTree, Committed
<1>12. NoPhantom'
  <2> SUFFICES ASSUME faults = 0, NEW j \in 1..Len(log)
               PROVE  \/ Committed(log[j].rev)
                      \/ \E q \in Reqs : pc'[q] = "sequenced" /\ txn'[q].rev = log[j].rev
    BY <1>3 DEF NoPhantom, Committed
  <2>1. ASSUME NEW q \in Reqs, pc[q] = "sequenced"
        PROVE  pc'[q] = "sequenced" /\ txn'[q] = txn[q]
    BY <1>1, <1>4, <2>1
  <2>2. QED
    BY <2>1 DEF IInv, NoPhantom
<1>13. QED
  BY <1>7, <1>8, <1>9, <1>10, <1>11, <1>12 DEF IInv

(***************************************************************************)
(* The event of a commit is sequenced, while its request holds the lock.   *)
(***************************************************************************)
LEMMA SequenceStep ==
  ASSUME IInv, Typed', NEW r \in Reqs, Sequence(r)
  PROVE  IInv'
<1>1. /\ pc \in [Reqs -> {"idle", "begin"} \cup InFlight]
      /\ log \in Seq(Event)
      /\ pc[r] = "applied"
  BY DEF IInv, Typed, TypeOK, Sequence
<1>2. /\ head \in Nat /\ Len(log) \in Nat /\ Len(commits) \in Nat
      /\ \A j \in 1..Len(log) : log[j].rev \in Nat /\ log[j].since \in Nat
      /\ \A i \in 1..Len(commits) : commits[i] \in Nat
      /\ \A q \in Reqs : pc[q] \in InFlight => txn[q].rev \in Nat /\ txn[q].since \in Nat
      /\ txn[r] \in Transaction
  BY <1>1, Revs DEF IInv, InFlight
<1>3. /\ UNCHANGED <<head, tree, records, commits, writer, op, txn, faults>>
      /\ pc'[r] = "sequenced"
      /\ \A q \in Reqs : q # r => pc'[q] = pc[q]
  BY <1>1 DEF Sequence, actorStore, Goto
<1> DEFINE e == [rev |-> txn[r].rev, since |-> txn[r].since, edits |-> txn[r].edits]
           m == Len(log) + 1
<1>4. /\ Len(log') = m
      /\ \A j \in 1..Len(log) : log'[j] = log[j]
      /\ log'[m].rev = txn[r].rev /\ log'[m].since = txn[r].since
  <2>1. e \in Event /\ log' = Append(log, e)
    BY <1>2 DEF Sequence, Event, Transaction
  <2>2. e.rev = txn[r].rev /\ e.since = txn[r].since
    OBVIOUS
  <2> HIDE DEF e
  <2>3. QED
    BY <1>1, <1>2, <2>1, <2>2, AppendProperties
<1>5. /\ txn[r].since = head /\ head < txn[r].rev /\ writer = r
      /\ Committed(head)
      /\ \A n \in Nat : Committed(n) => n <= head
  <2>1. txn[r].since = head /\ txn[r].since < txn[r].rev /\ writer = r
    BY <1>1 DEF IInv, TxnInv, LockInv, Pending
  <2>2. QED
    BY <1>2, <2>1 DEF IInv, HeadInv, Committed
<1>6. \A n : Committed(n)' <=> Committed(n)
  BY <1>3 DEF Committed
<1>7. ~Committed(txn[r].rev)
  BY <1>1, <1>2, <1>5 DEF InFlight
<1> HIDE DEF m
<1>8. m \in Nat /\ 1..Len(log') = 1..Len(log) \cup {m} /\ m = Len(log) + 1
  BY <1>2, <1>4 DEF m
<1>9. TxnInv'
  BY <1>3, <1>1, <1>6 DEF IInv, TxnInv, Pending, Fits
<1>10. LockInv'
  BY <1>3, <1>5 DEF IInv, LockInv
<1>11. RevsDiffer'
  <2>1. \A j \in 1..Len(log) : log[j].rev # txn[r].rev
    BY <1>1 DEF IInv, RevsDiffer
  <2>2. ASSUME NEW q \in Reqs, pc'[q] \in {"formatted", "applied"}, NEW j \in 1..Len(log')
        PROVE  log'[j].rev # txn'[q].rev
    <3>1. q # r /\ pc[q] \in {"formatted", "applied"}
      BY <1>3, <2>2
    <3>2. CASE j \in 1..Len(log)
      BY <1>3, <1>4, <3>1, <3>2 DEF IInv, RevsDiffer
    <3>3. CASE j = m
      BY <1>1, <1>3, <1>4, <3>1, <3>3 DEF IInv, RevsDiffer, Pending
    <3>4. QED
      BY <1>8, <3>2, <3>3
  <2>3. ASSUME NEW p \in Reqs, NEW q \in Reqs, p # q, Pending(p)', Pending(q)'
        PROVE  txn'[p].rev # txn'[q].rev
    BY <1>1, <1>3, <2>3 DEF IInv, RevsDiffer, Pending
  <2>4. ASSUME NEW j \in 1..Len(log'), NEW i \in 1..(j - 1)
        PROVE  log'[i].rev # log'[j].rev
    <3>1. i \in 1..Len(log)
      BY <1>2, <1>8
    <3>2. CASE j \in 1..Len(log)
      BY <1>4, <3>1, <3>2 DEF IInv, RevsDiffer
    <3>3. CASE j = m
      BY <1>4, <2>1, <3>1, <3>3
    <3>4. QED
      BY <1>8, <3>2, <3>3
  <2>5. QED
    BY <2>2, <2>3, <2>4 DEF RevsDiffer
<1>12. LastInv'
  <2> SUFFICES ASSUME NEW q \in Reqs, pc'[q] = "sequenced"
               PROVE  Len(log') > 0 /\ log'[Len(log')].rev = txn'[q].rev
    BY DEF LastInv
  <2>1. q = r
    <3>1. q # r => pc[q] = "sequenced" /\ writer = q
      BY <1>3 DEF IInv, LockInv
    <3>2. QED
      BY <1>5, <3>1
  <2>2. QED
    BY <1>2, <1>3, <1>4, <1>8, <2>1
<1>13. HeadInv' /\ IndexMatchesTree'
  BY <1>3, <1>6 DEF IInv, HeadInv, IndexMatchesTree
<1>14. CommitsSequenced'
  <2>1. \A i \in 2..Len(commits) : \E j \in 1..Len(log') : log'[j].rev = commits[i]
    BY <1>4, <1>8 DEF IInv, CommitsSequenced
  <2>2. ASSUME NEW j \in 1..Len(log'), NEW i \in 1..(j - 1),
               Committed(log'[i].rev), Committed(log'[j].rev)
        PROVE  log'[i].rev < log'[j].rev
    <3>1. j # m
      BY <1>4, <1>7, <2>2
    <3>2. j \in 1..Len(log) /\ i \in 1..Len(log)
      BY <1>2, <1>8, <3>1
    <3>3. QED
      BY <1>4, <2>2, <3>2 DEF IInv, CommitsSequenced
  <2>3. QED
    BY <1>3, <1>6, <2>1, <2>2 DEF CommitsSequenced
<1>15. Chained'
  <2> SUFFICES ASSUME NEW j \in 1..Len(log')
               PROVE  /\ Committed(log'[j].since)
                      /\ \A i \in 1..(j - 1) : Committed(log'[i].rev) => log'[i].rev <= log'[j].since
    BY <1>6 DEF Chained
  <2>1. CASE j \in 1..Len(log)
    <3>1. \A i \in 1..(j - 1) : log'[i] = log[i]
      BY <1>2, <1>4, <2>1
    <3>2. QED
      BY <1>4, <2>1, <3>1 DEF IInv, Chained
  <2>2. CASE j = m
    <3>1. \A i \in 1..(j - 1) : i \in 1..Len(log) /\ log'[i] = log[i]
      BY <1>2, <1>4, <1>8, <2>2
    <3>2. QED
      BY <1>2, <1>4, <1>5, <2>2, <3>1
  <2>3. QED
    BY <1>8, <2>1, <2>2
<1>16. NoPhantom'
  <2> SUFFICES ASSUME faults = 0, NEW j \in 1..Len(log')
               PROVE  \/ Committed(log'[j].rev)
                      \/ \E q \in Reqs : pc'[q] = "sequenced" /\ txn[q].rev = log'[j].rev
    BY <1>3, <1>6 DEF NoPhantom
  <2>1. CASE j \in 1..Len(log)
    <3>1. \/ Committed(log[j].rev)
          \/ \E q \in Reqs : pc[q] = "sequenced" /\ txn[q].rev = log[j].rev
      BY <2>1 DEF IInv, NoPhantom
    <3>2. QED
      BY <1>1, <1>3, <1>4, <2>1, <3>1
  <2>2. CASE j = m
    BY <1>3, <1>4, <2>2
  <2>3. QED
    BY <1>8, <2>1, <2>2
<1>17. QED
  BY <1>9, <1>10, <1>11, <1>12, <1>13, <1>14, <1>15, <1>16 DEF IInv

(***************************************************************************)
(* The transaction of r commits: its event is the last one, every other    *)
(* pending commit is on top of an older root, and the record table follows *)
(* the tree.                                                               *)
(***************************************************************************)
LEMMA CommitStep ==
  ASSUME IInv, Typed', NEW r \in Reqs, Commit(r)
  PROVE  IInv'
<1>1. /\ pc \in [Reqs -> {"idle", "begin"} \cup InFlight]
      /\ commits \in Seq(Nat)
      /\ pc[r] = "sequenced"
  BY DEF IInv, Typed, TypeOK, Commit
<1>2. /\ head \in Nat /\ Len(log) \in Nat /\ Len(commits) \in Nat
      /\ \A j \in 1..Len(log) : log[j].rev \in Nat /\ log[j].since \in Nat
      /\ \A i \in 1..Len(commits) : commits[i] \in Nat
      /\ \A q \in Reqs : pc[q] \in InFlight => txn[q].rev \in Nat /\ txn[q].since \in Nat
  BY Revs DEF IInv
<1>3. /\ UNCHANGED <<log, op, txn, faults>>
      /\ head' = txn[r].rev /\ tree' = txn[r].tree
      /\ records' = Apply(records, txn[r].edits)
      /\ commits' = Append(commits, txn[r].rev)
      /\ writer' = NoOne
      /\ pc'[r] = "committed"
      /\ \A q \in Reqs : q # r => pc'[q] = pc[q]
  BY <1>1 DEF Commit, Goto
<1> DEFINE v == txn[r].rev
           m == Len(commits) + 1
<1>4. v \in Nat
  BY <1>1, <1>2 DEF InFlight
<1>5. /\ txn[r].since = head /\ head < v /\ writer = r
      /\ Fits(r)
      /\ Len(log) > 0 /\ log[Len(log)].rev = v
  BY <1>1 DEF IInv, TxnInv, LockInv, LastInv, Pending
<1> HIDE DEF v, m
<1>6. /\ Len(commits') = m /\ m \in Nat
      /\ \A i \in 1..Len(commits) : commits'[i] = commits[i]
      /\ commits'[m] = v
      /\ 1..Len(commits') = 1..Len(commits) \cup {m}
  <2>1. commits' = Append(commits, v) /\ v \in Nat
    BY <1>3, <1>4 DEF v
  <2>2. QED
    BY <1>1, <1>2, <2>1, AppendProperties DEF m
<1>7. \A n : (\E i \in 1..Len(commits') : commits'[i] = n) <=> (Committed(n) \/ n = v)
  BY <1>6 DEF Committed
<1>8. \A n : Committed(n)' <=> Committed(n) \/ n = v
  BY <1>7 DEF Committed
<1>9. \A n \in Nat : Committed(n) => n <= head
  BY <1>2 DEF IInv, HeadInv, Committed
<1>10. \A q \in Reqs : Pending(q)' => q # r /\ pc[q] = "formatted" /\ pc'[q] = "formatted"
  <2> SUFFICES ASSUME NEW q \in Reqs, Pending(q)'
               PROVE  q # r /\ pc[q] = "formatted" /\ pc'[q] = "formatted"
    OBVIOUS
  <2>1. q # r
    BY <1>3 DEF Pending
  <2>2. pc'[q] = pc[q] /\ pc[q] \in {"formatted", "applied", "sequenced"}
    BY <1>3, <2>1 DEF Pending
  <2>3. pc[q] \in {"applied", "sequenced"} => writer = q
    BY DEF IInv, LockInv
  <2>4. QED
    BY <1>5, <2>1, <2>2, <2>3
<1>11. TxnInv'
  <2> SUFFICES ASSUME NEW q \in Reqs, Pending(q)'
               PROVE  /\ txn'[q].since <= head' /\ txn'[q].since < txn'[q].rev
                      /\ Committed(txn[q].since)'
                      /\ txn'[q].since = head' => Fits(q)'
    BY DEF TxnInv
  <2>1. Pending(q) /\ txn[q].since \in Nat /\ txn'[q] = txn[q]
    BY <1>2, <1>3, <1>10 DEF Pending, InFlight
  <2>2. txn[q].since <= head /\ txn[q].since < txn[q].rev /\ Committed(txn[q].since)
    BY <2>1 DEF IInv, TxnInv
  <2>3. head' = v
    BY <1>3 DEF v
  <2>4. Committed(txn[q].since)'
    BY <1>3, <1>7, <2>2 DEF Committed
  <2>5. txn[q].since < head'
    BY <1>2, <1>4, <1>5, <2>1, <2>2, <2>3
  <2>6. QED
    BY <1>4, <2>1, <2>2, <2>3, <2>4, <2>5
<1>12. LockInv'
  <2>1. \A q \in Reqs : pc'[q] \notin {"applied", "sequenced"}
    BY <1>10 DEF Pending
  <2>2. QED
    BY <2>1 DEF LockInv
<1>13. RevsDiffer'
  <2>1. ASSUME NEW q \in Reqs, pc'[q] \in {"formatted", "applied"}
        PROVE  \A j \in 1..Len(log') : log'[j].rev # txn'[q].rev
    <3>1. pc[q] = "formatted"
      BY <1>10, <2>1 DEF Pending
    <3>2. QED
      BY <1>3, <3>1 DEF IInv, RevsDiffer
  <2>2. ASSUME NEW p \in Reqs, NEW q \in Reqs, p # q, Pending(p)', Pending(q)'
        PROVE  txn'[p].rev # txn'[q].rev
    <3>1. Pending(p) /\ Pending(q)
      BY <1>10, <2>2 DEF Pending
    <3>2. QED
      BY <1>3, <2>2, <3>1 DEF IInv, RevsDiffer
  <2>3. QED
    BY <1>3, <2>1, <2>2 DEF IInv, RevsDiffer
<1>14. LastInv'
  <2>1. \A q \in Reqs : pc'[q] # "sequenced"
    BY <1>10 DEF Pending
  <2>2. QED
    BY <2>1 DEF LastInv
<1>15. HeadInv'
  <2>1. head' = v
    BY <1>3 DEF v
  <2>2. \E i \in 1..Len(commits') : commits'[i] = head'
    BY <1>6, <2>1
  <2>3. \A i \in 1..Len(commits') : commits'[i] <= head'
    <3>1. \A i \in 1..Len(commits) : commits[i] <= head
      BY DEF IInv, HeadInv
    <3>2. ASSUME NEW i \in 1..Len(commits')
          PROVE  commits'[i] <= v
      <4>1. CASE i \in 1..Len(commits)
        <5>1. commits'[i] = commits[i] /\ commits[i] \in Nat /\ commits[i] <= head
          BY <1>2, <1>6, <3>1, <4>1
        <5>2. QED
          BY <1>2, <1>4, <1>5, <5>1 DEF v
      <4>2. CASE i = m
        BY <1>4, <1>6, <4>2
      <4>3. QED
        BY <1>6, <4>1, <4>2
    <3>3. QED
      BY <2>1, <3>2
  <2>4. QED
    BY <2>2, <2>3 DEF HeadInv, Committed
<1>16. CommitsSequenced'
  <2>1. \A i \in 2..Len(commits') : \E j \in 1..Len(log') : log'[j].rev = commits'[i]
    <3> SUFFICES ASSUME NEW i \in 2..Len(commits')
                 PROVE  \E j \in 1..Len(log) : log[j].rev = commits'[i]
      BY <1>3
    <3>1. CASE i = m
      BY <1>2, <1>5, <1>6, <3>1
    <3>2. CASE i # m
      <4>1. i \in 2..Len(commits) /\ commits'[i] = commits[i]
        BY <1>2, <1>6, <3>2 DEF m
      <4>2. QED
        BY <4>1 DEF IInv, CommitsSequenced
    <3>3. QED
      BY <3>1, <3>2
  <2>2. ASSUME NEW j \in 1..Len(log), NEW i \in 1..(j - 1),
               Committed(log[i].rev) \/ log[i].rev = v,
               Committed(log[j].rev) \/ log[j].rev = v
        PROVE  log[i].rev < log[j].rev
    <3>1. i \in 1..Len(log) /\ i # Len(log) /\ log[i].rev \in Nat /\ log[j].rev \in Nat
      BY <1>2
    <3>2. \A k \in 1..Len(log) : log[k].rev = v => k = Len(log)
      BY <1>2, <1>5 DEF IInv, RevsDiffer
    <3>3. Committed(log[i].rev)
      BY <2>2, <3>1, <3>2
    <3>4. CASE Committed(log[j].rev)
      BY <3>3, <3>4 DEF IInv, CommitsSequenced
    <3>5. CASE log[j].rev = v
      BY <1>2, <1>4, <1>5, <1>9, <3>1, <3>3, <3>5
    <3>6. QED
      BY <2>2, <3>4, <3>5
  <2>3. QED
    BY <1>3, <1>8, <2>1, <2>2 DEF CommitsSequenced
<1>17. Chained'
  <2> SUFFICES ASSUME NEW j \in 1..Len(log)
               PROVE  /\ Committed(log[j].since) \/ log[j].since = v
                      /\ \A i \in 1..(j - 1) :
                            Committed(log[i].rev) \/ log[i].rev = v => log[i].rev <= log[j].since
    BY <1>3, <1>8 DEF Chained
  <2>1. ASSUME NEW i \in 1..(j - 1)
        PROVE  i \in 1..Len(log) /\ log[i].rev # v
    BY <1>2, <1>5 DEF IInv, RevsDiffer
  <2>2. QED
    BY <2>1 DEF IInv, Chained
<1>18. NoPhantom'
  <2> SUFFICES ASSUME faults = 0, NEW j \in 1..Len(log)
               PROVE  Committed(log[j].rev) \/ log[j].rev = v
    BY <1>3, <1>8 DEF NoPhantom
  <2>1. ASSUME NEW q \in Reqs, pc[q] = "sequenced"
        PROVE  q = r
    BY <1>5, <2>1 DEF IInv, LockInv
  <2>2. QED
    BY <2>1 DEF IInv, NoPhantom, v
<1>19. IndexMatchesTree'
  BY <1>3, <1>5 DEF IInv, IndexMatchesTree, Fits
<1>20. QED
  BY <1>11, <1>12, <1>13, <1>14, <1>15, <1>16, <1>17, <1>18, <1>19 DEF IInv

LEMMA IInvStep == IInv /\ [Next]_vars => IInv'
<1> SUFFICES ASSUME IInv, [Next]_vars
             PROVE  IInv'
  OBVIOUS
<1>1. Typed'
  BY TypedStep DEF IInv
<1>2. CASE UNCHANGED vars
  <2>1. UNCHANGED <<head, tree, records, commits, writer, log, pc, op, txn, faults>>
    BY <1>2 DEF vars, actorStore
  <2>2. TxnInv'
    BY <2>1 DEF IInv, TxnInv, Pending, Fits, Committed
  <2>3. LockInv' /\ RevsDiffer' /\ LastInv'
    BY <2>1 DEF IInv, LockInv, RevsDiffer, LastInv, Pending
  <2>4. HeadInv' /\ CommitsSequenced' /\ Chained'
    BY <2>1 DEF IInv, HeadInv, CommitsSequenced, Chained, Committed
  <2>5. NoPhantom' /\ IndexMatchesTree'
    BY <2>1 DEF IInv, NoPhantom, IndexMatchesTree, Committed
  <2>6. QED
    BY <1>1, <2>2, <2>3, <2>4, <2>5 DEF IInv
<1>3. CASE Crash
  BY <1>1, <1>3, QuietSteps
<1>4. ASSUME NEW r \in Reqs, Start(r) \/ Step(r)
      PROVE  IInv'
  <2>1. CASE Format(r)
    BY <1>1, <2>1, FormatStep, QuietSteps
  <2>2. CASE Sequence(r)
    BY <1>1, <2>2, SequenceStep
  <2>3. CASE Commit(r)
    BY <1>1, <2>3, CommitStep
  <2>4. CASE \/ Start(r) \/ ApplyCommit(r) \/ Busy(r) \/ Refuse(r) \/ SequenceFail(r)
             \/ CommitFail(r) \/ UpdateRepoRoot(r) \/ UpdateRepoRootFail(r)
    BY <1>1, <2>4, QuietSteps
  <2>5. QED
    BY <1>4, <2>1, <2>2, <2>3, <2>4 DEF Step
<1>5. QED
  BY <1>2, <1>3, <1>4 DEF Next

LEMMA IInvAlways == Spec => []IInv
BY IInvInit, IInvStep, PTL DEF Spec

-----------------------------------------------------------------------------
(* The theorems                                                            *)

(***************************************************************************)
(* No commit goes without its event, and events are in commit order:       *)
(* sequencing precedes COMMIT and happens under the write lock.            *)
(***************************************************************************)
THEOREM EveryCommitSequenced == Spec => []CommitsSequenced
<1>1. IInv => CommitsSequenced
  BY DEF IInv
<1>2. QED
  BY <1>1, IInvAlways, PTL

(***************************************************************************)
(* Each event's "since" is a committed root with no committed event        *)
(* between: what a consumer checks a commit against.                       *)
(***************************************************************************)
THEOREM EventsChained == Spec => []Chained
<1>1. IInv => Chained
  BY DEF IInv
<1>2. QED
  BY <1>1, IInvAlways, PTL

(***************************************************************************)
(* Retries alone never sequence a commit that does not happen.             *)
(***************************************************************************)
THEOREM NoPhantomEvents == Spec => []NoPhantom
<1>1. IInv => NoPhantom
  BY DEF IInv
<1>2. QED
  BY <1>1, IInvAlways, PTL

(***************************************************************************)
(* The record table and the signed tree agree.                             *)
(***************************************************************************)
THEOREM IndexAgrees == Spec => []IndexMatchesTree
<1>1. IInv => IndexMatchesTree
  BY DEF IInv
<1>2. QED
  BY <1>1, IInvAlways, PTL

(***************************************************************************)
(* A commit takes effect as if its request had run alone on the root it    *)
(* replaces.                                                               *)
(***************************************************************************)
THEOREM CommitsSerialized == Spec => Serialized
<1>1. IInv /\ [Next]_vars =>
        [head' # head => \E r \in Reqs : pc[r] = "sequenced" /\ Alone(r)]_vars
  <2> SUFFICES ASSUME IInv, Next, head' # head
               PROVE  \E r \in Reqs : pc[r] = "sequenced" /\ Alone(r)
    BY DEF vars, actorStore
  <2>1. PICK r \in Reqs : Commit(r)
    BY DEF Next, Step, Crash, Start, Format, ApplyCommit, Busy, Refuse, Sequence, SequenceFail, Rollback,
           CommitFail, UpdateRepoRoot, UpdateRepoRootFail, actorStore
  <2>2. pc[r] = "sequenced" /\ tree' = txn[r].tree
    BY <2>1 DEF Commit
  <2>3. Fits(r)
    BY <2>2 DEF IInv, LockInv, TxnInv, Pending
  <2>4. QED
    BY <2>2, <2>3 DEF Fits, Alone
<1>2. QED
  BY <1>1, IInvAlways, PTL DEF Spec, Serialized
=============================================================================
