------------------------- MODULE Communities_proofs -------------------------
(***************************************************************************)
(* Proofs about Communities, for any number of requests, communities and   *)
(* members, and any bounds.                                                *)
(***************************************************************************)
EXTENDS Communities, FiniteSetTheorems, TLAPS

-----------------------------------------------------------------------------
(* The shapes of requests                                                  *)

CreateStages == {"exists", "create", "key", "migrate", "look", "root", "done"}
JoinStages == {"look", "check", "add", "root", "done"}
LeaveStages == {"own", "drop", "root"}

(***************************************************************************)
(* A request that is not at an end is one of the four kinds, and has what  *)
(* its kind and its stage have.                                            *)
(***************************************************************************)
LEMMA RequestShape ==
  ASSUME NEW q \in Requests, q.at \notin {"idle", "done"}
  PROVE  /\ q.dao \in Daos
         /\ q.op \in {"create", "join", "getMembership", "leave"}
         /\ q.op # "create" => q.user \in Users
         /\ q.at = "write" => q.op = "create" /\ q.tid \in 1..tids
         /\ q.at \in {"exists", "create", "key", "migrate"} => q.op = "create"
         /\ q.at = "check" => q.op \in {"join", "getMembership"}
         /\ q.at = "add" => q.op = "join"
         /\ q.at \in {"own", "drop"} => q.op = "leave"
BY DEF Requests, Idle, Left

LEMMA CreateMoves ==
  ASSUME NEW q \in Requests, q.op = "create", q.at # "write", NEW s \in CreateStages
  PROVE  [q EXCEPT !.at = s] \in Requests
<1>1. q \in [at : CreateStages, op : {"create"}, dao : Daos]
  BY DEF Requests, Idle, Left, CreateStages
<1>2. [q EXCEPT !.at = s] \in [at : CreateStages, op : {"create"}, dao : Daos]
  BY <1>1
<1>3. QED
  BY <1>2 DEF Requests, CreateStages

LEMMA JoinMoves ==
  ASSUME NEW q \in Requests, q.op = "join", NEW s \in JoinStages
  PROVE  [q EXCEPT !.at = s] \in Requests
<1>1. q \in [at : JoinStages, op : {"join"}, user : Users, dao : Daos]
  BY DEF Requests, Idle, Left, JoinStages
<1>2. [q EXCEPT !.at = s] \in [at : JoinStages, op : {"join"}, user : Users, dao : Daos]
  BY <1>1
<1>3. QED
  BY <1>2 DEF Requests, JoinStages

LEMMA LeaveMoves ==
  ASSUME NEW q \in Requests, q.op = "leave", q # Left, NEW s \in LeaveStages
  PROVE  [q EXCEPT !.at = s] \in Requests
<1>1. q \in [at : LeaveStages, op : {"leave"}, user : Users, dao : Daos]
  BY DEF Requests, Idle, Left, LeaveStages
<1>2. [q EXCEPT !.at = s] \in [at : LeaveStages, op : {"leave"}, user : Users, dao : Daos]
  BY <1>1
<1>3. QED
  BY <1>2 DEF Requests, LeaveStages

Questions == [at : {"look", "check", "done"}, op : {"getMembership"},
              user : Users, dao : Daos, was : BOOLEAN, isMember : BOOLEAN]

LEMMA QuestionMoves ==
  ASSUME NEW q \in Requests, q.op = "getMembership", NEW s \in {"look", "check", "done"}
  PROVE  /\ q \in Questions
         /\ [q EXCEPT !.at = s] \in Requests
<1>1. q \in Questions
  BY DEF Requests, Idle, Left, Questions
<1>2. [q EXCEPT !.at = s] \in Questions
  BY <1>1 DEF Questions
<1>3. QED
  BY <1>1, <1>2 DEF Requests, Questions

LEMMA RequestsGrow ==
  ASSUME tids \in Nat, tids' \in Nat, tids <= tids'
  PROVE  Requests \subseteq Requests'
<1>1. 1..tids \subseteq 1..tids'
  OBVIOUS
<1>2. QED
  BY <1>1 DEF Requests, Idle, Left

-----------------------------------------------------------------------------
(* Type correctness                                                        *)

\* A TID in a request is in no record and in no other request
FreshTids ==
  \A r \in Slots : At(r, "write") =>
    /\ \A c \in details : c.tid # req[r].tid
    /\ \A s \in Slots : At(s, "write") /\ req[s].tid = req[r].tid => s = r

\* What is about to be written was looked for in the store
StoreRead ==
  \A r \in Slots : req[r].at \in {"check", "add", "write"} => store = "ready"

TInv == TypeOK /\ IsFiniteSet(details) /\ FreshTids /\ StoreRead

LEMMA InitTyped == Init => TInv
<1> SUFFICES ASSUME Init PROVE TInv
  OBVIOUS
<1>1. Cardinality({}) = 0 /\ IsFiniteSet(details)
  BY FS_EmptySet DEF Init
<1>2. req \in [Slots -> Requests]
  BY DEF Init, Requests
<1>3. TypeOK
  BY <1>1, <1>2, BoundsAssumption DEF Init, TypeOK
<1>4. \A r \in Slots : req[r].at = "idle"
  BY DEF Init, Idle
<1>5. QED
  BY <1>1, <1>3, <1>4 DEF TInv, FreshTids, StoreRead, At

(***************************************************************************)
(* A step that only moves a request, and not to its transaction.           *)
(***************************************************************************)
LEMMA Moves ==
  ASSUME TInv, NEW r \in Slots, NEW q \in Requests, req' = [req EXCEPT ![r] = q],
         q.at # "write", q.at \in {"check", "add"} => store = "ready",
         UNCHANGED <<names, communities, own, moderation, tids>>,
         store = "ready" => store' = "ready",
         store' \in {"none", "bare", "ready"}
  PROVE  TInv'
<1> USE DEF TInv, names, communities, moderation
<1>1. Requests' = Requests
  BY DEF Requests, Idle, Left
<1>2. req' \in [Slots -> Requests]
  BY DEF TypeOK
<1>3. TypeOK'
  BY <1>1, <1>2 DEF TypeOK, Keys
<1>4. req \in [Slots -> Requests]
  BY DEF TypeOK
<1>5. req'[r] = q /\ \A s \in Slots : s # r => req'[s] = req[s]
  BY <1>4
<1>6. FreshTids'
  BY <1>5 DEF FreshTids, At
<1>7. StoreRead'
  BY <1>5 DEF StoreRead
<1>8. QED
  BY <1>3, <1>6, <1>7

LEMMA GotoIs ==
  ASSUME TypeOK, NEW r \in Slots, NEW s, Goto(r, s)
  PROVE  req' = [req EXCEPT ![r] = [req[r] EXCEPT !.at = s]]
BY DEF Goto

\* Where a request is that is neither idle nor done
LEMMA Under ==
  ASSUME TypeOK, NEW r \in Slots
  PROVE  req[r] \in Requests
BY DEF TypeOK

LEMMA IdleTyped == Idle \in Requests /\ Idle.at = "idle" /\ Left \in Requests /\ Left.at = "done"
BY DEF Requests, Idle, Left

LEMMA ThrowTyped ==
  ASSUME TInv, NEW r \in Slots, Throw(r),
         UNCHANGED <<names, store, communities, own, moderation, tids>>
  PROVE  TInv'
BY IdleTyped, Moves DEF Throw, TInv, TypeOK

LEMMA BeginTyped ==
  ASSUME TInv, NEW r \in Slots, NEW q \in Requests, Begin(r),
         req' = [req EXCEPT ![r] = q],
         q.at \notin {"check", "add", "write"}
  PROVE  TInv'
BY Moves DEF Begin, TInv, TypeOK

LEMMA GotoTyped ==
  ASSUME TInv, NEW r \in Slots, NEW s, Goto(r, s), [req[r] EXCEPT !.at = s] \in Requests,
         s # "write", s \in {"check", "add"} => store = "ready",
         UNCHANGED <<names, communities, own, moderation, tids>>,
         store = "ready" => store' = "ready",
         store' \in {"none", "bare", "ready"}
  PROVE  TInv'
<1> DEFINE q == [req[r] EXCEPT !.at = s]
<1>1. "at" \in DOMAIN req[r]
  <2>1. req[r] \in Requests
    BY Under DEF TInv
  <2>2. QED
    BY <2>1 DEF Requests, Idle, Left
<1>2. q.at = s
  BY <1>1
<1>3. req' = [req EXCEPT ![r] = q]
  BY GotoIs DEF TInv
<1> HIDE DEF q
<1>4. q \in Requests
  BY DEF q
<1>5. QED
  BY <1>2, <1>3, <1>4, Moves

LEMMA CreateTyped ==
  ASSUME TInv, NEW r \in Slots,
         ActorExists(r) \/ CreateStore(r) \/ WriteKey(r) \/ Migrate(r)
  PROVE  TInv'
<1> DEFINE q == req[r]
<1>1. q \in Requests /\ q.at \in {"exists", "create", "key", "migrate"}
  BY Under DEF TInv, At, ActorExists, CreateStore, WriteKey, Migrate
<1>2. q.op = "create" /\ q.at # "write"
  BY <1>1, RequestShape
<1>3. \A s \in CreateStages : [q EXCEPT !.at = s] \in Requests
  BY <1>1, <1>2, CreateMoves
<1>4. store \in {"none", "bare", "ready"}
  BY DEF TInv, TypeOK
<1>5. CASE ActorExists(r)
  <2>1. CASE store = "none"
    BY <1>3, <1>4, <1>5, <2>1, GotoTyped DEF ActorExists, CreateStages
  <2>2. CASE store # "none"
    BY <1>3, <1>4, <1>5, <2>2, GotoTyped DEF ActorExists, CreateStages
  <2>3. QED
    BY <2>1, <2>2
<1>6. CASE CreateStore(r)
  BY <1>3, <1>4, <1>6, GotoTyped, ThrowTyped DEF CreateStore, CreateStages
<1>7. CASE WriteKey(r)
  BY <1>3, <1>4, <1>7, GotoTyped DEF WriteKey, CreateStages
<1>8. CASE Migrate(r)
  BY <1>3, <1>4, <1>8, GotoTyped DEF Migrate, CreateStages
<1>9. QED
  BY <1>5, <1>6, <1>7, <1>8

LEMMA LookTyped ==
  ASSUME TInv, NEW r \in Slots, Look(r) \/ Check(r)
  PROVE  TInv'
<1> DEFINE q == req[r]
<1>1. q \in Requests /\ q.at \in {"look", "check"} /\ q.op \in {"join", "getMembership"}
  <2>1. q \in Requests /\ q.at \in {"look", "check"} /\ ~(q.at = "look" /\ q.op = "create")
    BY Under DEF TInv, At, IsOp, Look, Check, CheckWith
  <2>2. QED
    BY <2>1 DEF Requests, Idle, Left
<1>2. q.op = "join" => \A s \in JoinStages : [q EXCEPT !.at = s] \in Requests
  BY <1>1, JoinMoves
<1>3. q.op = "getMembership" =>
        q \in Questions /\ \A s \in {"look", "check", "done"} : [q EXCEPT !.at = s] \in Requests
  BY <1>1, QuestionMoves
<1>4. store \in {"none", "bare", "ready"}
  BY DEF TInv, TypeOK
<1>5. CASE Look(r)
  <2>1. CASE Throw(r)
    BY <1>5, <2>1, ThrowTyped DEF Look
  <2>2. CASE store = "ready" /\ Goto(r, "check")
    BY <1>1, <1>2, <1>3, <1>4, <1>5, <2>2, GotoTyped DEF Look, JoinStages
  <2>3. CASE IsOp(r, "getMembership") /\ Goto(r, "done")
    BY <1>3, <1>4, <1>5, <2>3, GotoTyped DEF Look, IsOp
  <2>4. QED
    BY <1>5, <2>1, <2>2, <2>3 DEF Look
<1>6. CASE Check(r) /\ q.op = "join"
  <2>0. store = "ready"
    BY <1>6 DEF TInv, StoreRead, Check, CheckWith, At
  <2>1. Goto(r, "done") \/ Goto(r, "add")
    BY <1>6 DEF Check, CheckWith, IsOp
  <2>2. QED
    BY <1>2, <1>4, <1>6, <2>0, <2>1, GotoTyped DEF Check, CheckWith, JoinStages
<1>7. CASE Check(r) /\ q.op = "getMembership"
  <2> DEFINE member == Visible(Key(q.user, q.dao))
             p == [q EXCEPT !.isMember = member, !.at = "done", !.was = @ /\ ~member]
  <2>1. member \in BOOLEAN
    BY DEF Visible
  <2>2. p \in Questions
    BY <1>3, <1>7, <2>1 DEF Questions
  <2>3. p \in Requests /\ p.at = "done"
    BY <2>2, <1>3, <1>7 DEF Requests, Questions
  <2>4. req' = [req EXCEPT ![r] = p]
    BY <1>7 DEF Check, CheckWith, IsOp
  <2> HIDE DEF p
  <2>5. QED
    BY <1>4, <1>7, <2>3, <2>4, Moves DEF Check, CheckWith
<1>8. QED
  BY <1>1, <1>5, <1>6, <1>7

(***************************************************************************)
(* prepareCreate takes the next TID, which nobody has.                     *)
(***************************************************************************)
LEMMA LookBeforeCreateTyped ==
  ASSUME TInv, NEW r \in Slots, LookBeforeCreate(r)
  PROVE  TInv'
<1> DEFINE q == req[r]
<1>1. q \in Requests /\ q.at = "look" /\ q.op = "create"
  BY Under DEF TInv, At, IsOp, LookBeforeCreate
<1>2. \A s \in CreateStages : [q EXCEPT !.at = s] \in Requests
  BY <1>1, CreateMoves
<1>3. store \in {"none", "bare", "ready"} /\ tids \in Nat
  BY BoundsAssumption DEF TInv, TypeOK
<1>4. CASE Throw(r) /\ UNCHANGED tids
  BY <1>4, ThrowTyped DEF LookBeforeCreate
<1>5. CASE Goto(r, "done") /\ UNCHANGED tids
  BY <1>2, <1>3, <1>5, GotoTyped DEF LookBeforeCreate, CreateStages
<1>6. CASE /\ store = "ready" /\ tids < MaxTids /\ tids' = tids + 1
           /\ req' = [req EXCEPT ![r] = [at |-> "write", op |-> "create",
                                         dao |-> q.dao, tid |-> tids + 1]]
  <2> DEFINE p == [at |-> "write", op |-> "create", dao |-> q.dao, tid |-> tids + 1]
  <2>1. UNCHANGED <<names, store, communities, own, moderation>>
    BY DEF LookBeforeCreate
  <2>2. q.dao \in Daos
    BY <1>1, RequestShape
  <2>3. tids' \in Nat /\ tids + 1 \in 1..tids' /\ tids' \in 0..MaxTids
    BY <1>3, <1>6, BoundsAssumption
  <2>4. Requests \subseteq Requests'
    BY <1>3, <1>6, <2>3, RequestsGrow
  <2>5. p \in Requests'
    BY <2>2, <2>3 DEF Requests
  <2>6. req \in [Slots -> Requests]
    BY DEF TInv, TypeOK
  <2>7. req'[r] = p /\ \A s \in Slots : s # r => req'[s] = req[s]
    BY <1>6, <2>6
  <2>8. req' \in [Slots -> Requests']
    BY <1>6, <2>4, <2>5, <2>6
  <2>9. 1..tids \subseteq 1..tids' /\ tids + 1 \notin 1..tids
    BY <1>3, <1>6
  <2>10. TypeOK'
    BY <2>1, <2>3, <2>8, <2>9 DEF TInv, TypeOK, names, communities, moderation, Keys
  <2>11. \A c \in details : c.tid \in 1..tids
    BY DEF TInv, TypeOK
  <2>12. \A s \in Slots : At(s, "write") => req[s].tid \in 1..tids
    BY <2>6, RequestShape DEF At
  <2>13. FreshTids'
    BY <2>1, <2>7, <2>9, <2>11, <2>12 DEF TInv, FreshTids, At, communities
  <2>14. StoreRead' /\ IsFiniteSet(details)'
    BY <1>6, <2>1, <2>7 DEF TInv, StoreRead, communities
  <2>15. QED
    BY <2>10, <2>13, <2>14 DEF TInv
<1>7. QED
  BY <1>4, <1>5, <1>6 DEF LookBeforeCreate

(***************************************************************************)
(* A TID that was handed out becomes a record key.                         *)
(***************************************************************************)
LEMMA WriteCommunityTyped ==
  ASSUME TInv, NEW r \in Slots, WriteCommunity(r)
  PROVE  TInv'
<1> DEFINE q == req[r]
           p == [at |-> "root", op |-> "create", dao |-> q.dao]
           d == [dao |-> q.dao, tid |-> q.tid]
<1>1. req \in [Slots -> Requests] /\ q.at = "write"
  BY DEF TInv, TypeOK, WriteCommunity, At
<1>2. q.dao \in Daos /\ q.tid \in 1..tids
  BY <1>1, RequestShape
<1>3. UNCHANGED <<names, store, items, own, moderation, tids>>
  BY DEF WriteCommunity
<1>4. CASE Throw(r) /\ UNCHANGED <<lists, details>>
  BY <1>3, <1>4, ThrowTyped DEF communities
<1>5. CASE Recorded(r)
  <2>1. p \in Requests
    BY <1>2 DEF Requests
  <2>2. req' = [req EXCEPT ![r] = p] /\ details' = details \cup {d}
        /\ lists' = lists \cup {prefix[q.dao]}
    BY <1>5 DEF Recorded
  <2>3. req'[r] = p /\ \A s \in Slots : s # r => req'[s] = req[s]
    BY <1>1, <2>2
  <2>4. Requests' = Requests
    BY <1>3 DEF Requests, Idle, Left
  <2>5. req' \in [Slots -> Requests']
    BY <1>1, <2>1, <2>2, <2>4
  <2>6. \A c \in details : c.tid # q.tid
    BY <1>1 DEF TInv, FreshTids, At
  <2>7. store = "ready"
    BY <1>1 DEF TInv, StoreRead
  <2>8. \A c, e \in details' : c.tid = e.tid => c = e
    <3>1. \A c, e \in details : c.tid = e.tid => c = e
      BY DEF TInv, TypeOK
    <3>2. d.tid = q.tid
      OBVIOUS
    <3> HIDE DEF d
    <3>3. QED
      BY <2>2, <2>6, <3>1, <3>2
  <2>9. details' \subseteq [dao : Daos, tid : (1..tids)'] /\ lists' \subseteq Prefixes
    <3>1. prefix[q.dao] \in Prefixes
      BY <1>2 DEF TInv, TypeOK
    <3>2. d \in [dao : Daos, tid : 1..tids]
      BY <1>2
    <3>3. QED
      BY <1>3, <2>2, <3>1, <3>2 DEF TInv, TypeOK
  <2>10. TypeOK'
    BY <1>3, <2>5, <2>7, <2>8, <2>9 DEF TInv, TypeOK, names, moderation, Keys
  <2>11. FreshTids'
    <3>1. \A s \in Slots : At(s, "write")' => s # r /\ At(s, "write") /\ req'[s] = req[s]
      BY <2>3 DEF At
    <3>2. \A s \in Slots : At(s, "write")' => req[s].tid # d.tid
      BY <1>1, <3>1 DEF TInv, FreshTids, At
    <3> HIDE DEF d
    <3>3. QED
      BY <2>2, <3>1, <3>2 DEF TInv, FreshTids
  <2>12. StoreRead'
    BY <1>3, <2>3 DEF TInv, StoreRead
  <2>13. IsFiniteSet(details')
    BY <2>2, FS_AddElement DEF TInv
  <2>14. QED
    BY <2>10, <2>11, <2>12, <2>13 DEF TInv
<1>6. QED
  BY <1>4, <1>5 DEF WriteCommunity

LEMMA AddTyped ==
  ASSUME TInv, NEW r \in Slots, Add(r)
  PROVE  TInv'
<1> DEFINE q == req[r]
           key == Key(q.user, q.dao)
           p == [q EXCEPT !.at = "root"]
<1>1. req \in [Slots -> Requests] /\ q.at = "add"
  BY DEF TInv, TypeOK, Add, At
<1>2. q.op = "join" /\ q.dao \in Daos /\ q.user \in Users
  BY <1>1, RequestShape
<1>3. UNCHANGED <<names, store, details, lists, own, moderation, tids>>
  BY DEF Add
<1>4. CASE Throw(r) /\ UNCHANGED items
  BY <1>3, <1>4, ThrowTyped DEF communities
<1>5. CASE Added(r, prefix[q.dao])
  <2>1. p \in Requests
    BY <1>1, <1>2, JoinMoves DEF JoinStages
  <2>2. req' = [req EXCEPT ![r] = p]
    BY <1>5 DEF Added, Goto
  <2>3. Requests' = Requests
    BY <1>3 DEF Requests, Idle, Left
  <2>4. req' \in [Slots -> Requests']
    BY <1>1, <2>1, <2>2, <2>3
  <2>5. prefix[q.dao] \in Prefixes /\ key \in Keys
    BY <1>2 DEF TInv, TypeOK, Key, Keys
  <2>6. items' = [k \in DOMAIN items \cup {key} |->
                    IF k = key THEN [subject |-> q.user, list |-> prefix[q.dao]] ELSE items[k]]
    BY <1>5 DEF Added
  <2> HIDE DEF key
  <2>7. DOMAIN items' \subseteq Keys
        /\ \A k \in DOMAIN items' : items'[k] \in [subject : Users, list : Prefixes]
    BY <1>2, <2>5, <2>6 DEF TInv, TypeOK
  <2>8. store = "ready"
    BY <1>1 DEF TInv, StoreRead
  <2>9. TypeOK'
    BY <1>3, <2>4, <2>7, <2>8 DEF TInv, TypeOK, names, moderation, Keys
  <2>10. req'[r].at = "root" /\ \A s \in Slots : s # r => req'[s] = req[s]
    <3>1. "at" \in DOMAIN q
      BY <1>1, <1>2 DEF Requests, Idle, Left
    <3>2. QED
      BY <1>1, <2>2, <3>1
  <2>11. FreshTids' /\ StoreRead' /\ IsFiniteSet(details')
    BY <1>3, <2>10 DEF TInv, FreshTids, StoreRead, At
  <2>12. QED
    BY <2>9, <2>11 DEF TInv
<1>6. QED
  BY <1>4, <1>5 DEF Add

(***************************************************************************)
(* own may change as long as it keeps its type.                            *)
(***************************************************************************)
LEMMA LeaveTyped ==
  ASSUME TInv, NEW r \in Slots, CheckOwnItem(r) \/ DeleteOwnItem(r)
  PROVE  TInv'
<1> DEFINE q == req[r]
<1>1. req \in [Slots -> Requests] /\ q.at \in {"own", "drop"}
  BY DEF TInv, TypeOK, CheckOwnItem, DeleteOwnItem, At
<1>2. q.op = "leave" /\ q # Left
  BY <1>1, RequestShape, IdleTyped
<1>3. \A s \in LeaveStages : [q EXCEPT !.at = s] \in Requests
  BY <1>1, <1>2, LeaveMoves
<1>4. store \in {"none", "bare", "ready"} /\ "at" \in DOMAIN q
  BY <1>1, <1>2 DEF TInv, TypeOK, Requests, Idle, Left
<1>5. CASE CheckOwnItem(r)
  <2>1. CASE Goto(r, "drop")
    BY <1>3, <1>4, <1>5, <2>1, GotoTyped DEF CheckOwnItem, LeaveStages
  <2>2. CASE req' = [req EXCEPT ![r] = Left]
    BY <1>4, <1>5, <2>2, IdleTyped, Moves DEF CheckOwnItem
  <2>3. QED
    BY <1>5, <2>1, <2>2 DEF CheckOwnItem
<1>6. CASE DeleteOwnItem(r)
  <2>1. \E p \in Requests : req' = [req EXCEPT ![r] = p] /\ p.at \in {"root", "idle"}
    <3>1. CASE Goto(r, "root")
      <4> DEFINE p == [q EXCEPT !.at = "root"]
      <4>1. p \in Requests /\ p.at = "root"
        BY <1>3, <1>4 DEF LeaveStages
      <4>2. QED
        BY <3>1, <4>1 DEF Goto
    <3>2. CASE Throw(r)
      BY <3>2, IdleTyped DEF Throw
    <3>3. QED
      BY <1>6, <3>1, <3>2 DEF DeleteOwnItem
  <2>2. PICK p \in Requests : req' = [req EXCEPT ![r] = p] /\ p.at \in {"root", "idle"}
    BY <2>1
  <2>3. UNCHANGED <<names, store, communities, moderation, tids>> /\ own' \subseteq own
    BY <1>6 DEF DeleteOwnItem
  <2>4. Requests' = Requests
    BY <2>3 DEF Requests, Idle, Left
  <2>5. req' \in [Slots -> Requests'] /\ own' \subseteq Users \X Keys
    BY <1>1, <2>2, <2>3, <2>4 DEF TInv, TypeOK
  <2>6. TypeOK'
    BY <2>3, <2>5 DEF TInv, TypeOK, names, communities, moderation, Keys
  <2>7. req'[r] = p /\ \A s \in Slots : s # r => req'[s] = req[s]
    BY <1>1, <2>2
  <2>8. FreshTids' /\ StoreRead' /\ IsFiniteSet(details')
    BY <2>2, <2>3, <2>7 DEF TInv, FreshTids, StoreRead, At, communities
  <2>9. QED
    BY <2>6, <2>8 DEF TInv
<1>7. QED
  BY <1>5, <1>6

LEMMA AnswerTyped ==
  ASSUME TInv, NEW r \in Slots, Answer(r)
  PROVE  TInv'
<1> DEFINE q == req[r]
<1>1. q \in Requests /\ q.at = "root"
  BY Under DEF TInv, Answer, At
<1>2. q.op = "create" \/ q.op = "join" \/ q.op = "leave"
  BY <1>1 DEF Requests, Idle, Left
<1>3. store \in {"none", "bare", "ready"}
  BY DEF TInv, TypeOK
<1>4. CASE req' = [req EXCEPT ![r] = Left]
  BY <1>3, <1>4, IdleTyped, Moves DEF Answer
<1>5. CASE q.op # "leave" /\ Goto(r, "done")
  <2>1. [q EXCEPT !.at = "done"] \in Requests
    BY <1>1, <1>2, <1>5, CreateMoves, JoinMoves DEF CreateStages, JoinStages
  <2>2. QED
    BY <1>3, <1>5, <2>1, GotoTyped DEF Answer
<1>6. QED
  BY <1>4, <1>5 DEF Answer, IsOp

LEMMA OthersTyped ==
  ASSUME TInv,
         \/ \E user \in Users, key \in Keys : WriteOwn(user, key)
         \/ \E subject \in Daos \cup Keys : Takedown(subject)
  PROVE  TInv'
<1>1. CASE \E user \in Users, key \in Keys : WriteOwn(user, key)
  <2>1. UNCHANGED <<names, store, communities, moderation, tids, req>>
        /\ own' \subseteq Users \X Keys
    BY <1>1 DEF WriteOwn, TInv, TypeOK
  <2>2. Requests' = Requests
    BY <2>1 DEF Requests, Idle, Left
  <2>3. QED
    BY <2>1, <2>2 DEF TInv, TypeOK, FreshTids, StoreRead, At, names, communities, moderation, Keys
<1>2. CASE \E subject \in Daos \cup Keys : Takedown(subject)
  <2>1. PICK subject \in Daos \cup Keys : Takedown(subject)
    BY <1>2
  <2>2. UNCHANGED <<names, store, communities, own, tids, req>>
        /\ downed' = downed \cup {subject} /\ hidden' \subseteq hidden \cup {subject}
    BY <2>1 DEF Takedown
  <2>3. Cardinality(downed') <= MaxTakedowns
    <3>1. CASE subject \in hidden
      <4>1. downed' = downed
        BY <2>2, <3>1 DEF TInv, TypeOK
      <4>2. QED
        BY <4>1 DEF TInv, TypeOK
    <3>2. QED
      BY <2>1, <2>2, <3>1 DEF Takedown
  <2>4. hidden' \subseteq downed' /\ downed' \subseteq Daos \cup Keys
    BY <2>2 DEF TInv, TypeOK
  <2>5. Requests' = Requests
    BY <2>2 DEF Requests, Idle, Left
  <2>6. QED
    BY <2>2, <2>3, <2>4, <2>5 DEF TInv, TypeOK, FreshTids, StoreRead, At, names, communities, Keys
<1>3. QED
  BY <1>1, <1>2

LEMMA BeginsTyped ==
  ASSUME TInv, NEW r \in Slots, NEW dao \in Daos,
         \/ Create(r, dao)
         \/ \E user \in Users : \/ Join(r, user, dao)
                                \/ GetMembership(r, user, dao)
                                \/ Leave(r, user, dao)
  PROVE  TInv'
<1>1. CASE Create(r, dao)
  <2> DEFINE q == [at |-> "exists", op |-> "create", dao |-> dao]
  <2>1. q \in Requests /\ q.at = "exists"
    BY DEF Requests
  <2>2. QED
    BY <1>1, <2>1, BeginTyped DEF Create
<1>2. CASE \E user \in Users : Join(r, user, dao)
  <2>1. PICK user \in Users : Join(r, user, dao)
    BY <1>2
  <2> DEFINE q == [at |-> "look", op |-> "join", user |-> user, dao |-> dao]
  <2>2. q \in Requests /\ q.at = "look"
    BY DEF Requests
  <2>3. QED
    BY <2>1, <2>2, BeginTyped DEF Join
<1>3. CASE \E user \in Users : GetMembership(r, user, dao)
  <2>1. PICK user \in Users : GetMembership(r, user, dao)
    BY <1>3
  <2> DEFINE q == [at |-> "look", op |-> "getMembership", user |-> user, dao |-> dao,
                   was |-> Member(user, dao), isMember |-> FALSE]
  <2>2. Member(user, dao) \in BOOLEAN
    BY DEF Member
  <2>3. q \in Requests /\ q.at = "look"
    BY <2>2 DEF Requests
  <2>4. QED
    BY <2>1, <2>3, BeginTyped DEF GetMembership
<1>4. CASE \E user \in Users : Leave(r, user, dao)
  <2>1. PICK user \in Users : Leave(r, user, dao)
    BY <1>4
  <2> DEFINE q == [at |-> "own", op |-> "leave", user |-> user, dao |-> dao]
  <2>2. q \in Requests /\ q.at = "own"
    BY DEF Requests
  <2>3. QED
    BY <2>1, <2>2, BeginTyped DEF Leave
<1>5. QED
  BY <1>1, <1>2, <1>3, <1>4

LEMMA TInvStep == TInv /\ [Next]_vars => TInv'
<1>1. ASSUME TInv, UNCHANGED vars PROVE TInv'
  <2>1. Requests' = Requests
    BY <1>1 DEF vars, Requests, Idle, Left
  <2>2. QED
    BY <1>1, <2>1 DEF vars, names, communities, moderation, TInv, TypeOK, FreshTids, StoreRead,
                      At, Keys
<1>2. ASSUME TInv, NEW r \in Slots, Step(r) \/ Fail(r) PROVE TInv'
  <2>1. CASE Fail(r)
    BY <1>2, <2>1, ThrowTyped DEF Fail
  <2>2. QED
    BY <1>2, <2>1, CreateTyped, LookTyped, LookBeforeCreateTyped, WriteCommunityTyped, AddTyped,
       LeaveTyped, AnswerTyped DEF Step
<1>3. QED
  BY <1>1, <1>2, BeginsTyped, OthersTyped DEF Next

LEMMA TInvAlways == Spec => []TInv
BY InitTyped, TInvStep, PTL DEF Spec

(***************************************************************************)
(* The state is well formed: record keys are handed out once, and records  *)
(* lie in a store that has its tables.                                     *)
(***************************************************************************)
THEOREM TypeCorrect == Spec => []TypeOK
<1>1. TInv => TypeOK
  BY DEF TInv
<1>2. QED
  BY <1>1, TInvAlways, PTL

-----------------------------------------------------------------------------
(* One list for each community, members in lists that exist                *)

\* Details, lists and items are only added to, and by two actions only
LEMMA WhoWrites ==
  ASSUME [Next]_vars
  PROVE  /\ UNCHANGED names
         /\ \/ UNCHANGED communities
            \/ \E r \in Slots : WriteCommunity(r) \/ Add(r)
<1>1. ASSUME NEW r \in Slots, Step(r) \/ Fail(r)
      PROVE  UNCHANGED names /\ (UNCHANGED communities \/ WriteCommunity(r) \/ Add(r))
  BY <1>1 DEF Step, Fail, ActorExists, CreateStore, WriteKey, Migrate, LookBeforeCreate,
              WriteCommunity, Look, Check, CheckWith, Add, CheckOwnItem, DeleteOwnItem, Answer
<1>2. ASSUME NEW r \in Slots, NEW dao \in Daos,
             \/ Create(r, dao)
             \/ \E user \in Users : \/ Join(r, user, dao)
                                    \/ GetMembership(r, user, dao)
                                    \/ Leave(r, user, dao)
      PROVE  UNCHANGED <<names, communities>>
  BY <1>2 DEF Create, Join, GetMembership, Leave, Begin
<1>3. QED
  BY <1>1, <1>2 DEF Next, vars, WriteOwn, Takedown

LEMMA WriteCommunityConsistent ==
  ASSUME TInv, CommunitiesConsistent, NEW r \in Slots, WriteCommunity(r)
  PROVE  CommunitiesConsistent'
<1>1. CASE UNCHANGED <<lists, details>>
  BY <1>1 DEF WriteCommunity, CommunitiesConsistent, OneCommunityPerList, MembersListed, names
<1>2. CASE prefix[req[r].dao] \notin lists /\ Recorded(r)
  <2> DEFINE d == [dao |-> req[r].dao, tid |-> req[r].tid]
  <2>1. details' = details \cup {d} /\ lists' = lists \cup {prefix[d.dao]}
    BY <1>2 DEF Recorded
  <2>2. d.dao = req[r].dao
    OBVIOUS
  <2> HIDE DEF d
  <2>3. UNCHANGED <<prefix, suffix, items>>
    BY DEF WriteCommunity, names
  <2>4. \A c \in details : prefix[c.dao] # prefix[d.dao]
    BY <1>2, <2>2 DEF CommunitiesConsistent, OneCommunityPerList
  <2>5. OneCommunityPerList'
    BY <2>1, <2>3, <2>4 DEF CommunitiesConsistent, OneCommunityPerList
  <2>6. MembersListed'
    BY <2>1, <2>3 DEF CommunitiesConsistent, MembersListed
  <2>7. QED
    BY <2>5, <2>6 DEF CommunitiesConsistent
<1>3. QED
  BY <1>1, <1>2 DEF WriteCommunity

(***************************************************************************)
(* A request that is about to add has found its community.                 *)
(***************************************************************************)
FoundInv ==
  \A r \in Slots : req[r].at \in {"check", "add"} => \E c \in details : c.dao = req[r].dao

LEMMA AddConsistent ==
  ASSUME TInv, CommunitiesConsistent, FoundInv, NEW r \in Slots, Add(r)
  PROVE  CommunitiesConsistent'
<1>1. CASE UNCHANGED items
  BY <1>1 DEF Add, CommunitiesConsistent, OneCommunityPerList, MembersListed, names
<1>2. CASE Added(r, prefix[req[r].dao])
  <2> DEFINE q == req[r]
             key == Key(q.user, q.dao)
             item == [subject |-> q.user, list |-> prefix[q.dao]]
  <2>1. UNCHANGED <<prefix, suffix, details, lists>>
    BY DEF Add, names
  <2>2. items' = [k \in DOMAIN items \cup {key} |-> IF k = key THEN item ELSE items[k]]
    BY <1>2 DEF Added
  <2>3. prefix[q.dao] \in lists
    <3>1. PICK c \in details : c.dao = q.dao
      BY DEF Add, At, FoundInv
    <3>2. QED
      BY <3>1 DEF CommunitiesConsistent, OneCommunityPerList
  <2>4. item.list = prefix[q.dao] /\ key = <<item.list, suffix[item.subject]>>
    BY DEF Key
  <2> HIDE DEF key, item
  <2>5. MembersListed'
    BY <2>1, <2>2, <2>3, <2>4 DEF CommunitiesConsistent, MembersListed
  <2>6. QED
    BY <2>1, <2>5 DEF CommunitiesConsistent, OneCommunityPerList
<1>3. QED
  BY <1>1, <1>2 DEF Add

-----------------------------------------------------------------------------
(* Answers                                                                 *)

\* What a request has found or written, and what its answer rests on
Promised(r) ==
  LET q == req[r]
      key == Key(q.user, q.dao)
      known == \E c \in details : c.dao = q.dao
  IN  /\ q.at \in {"check", "add"} => known
      /\ q.op = "create" /\ q.at \in {"root", "done"} => known
      /\ q.op = "join" /\ q.at \in {"root", "done"} => key \in DOMAIN items
      /\ q.op = "getMembership" /\ q.at \in {"look", "check"} =>
           ~q.isMember /\ (q.was => known /\ key \in DOMAIN items)
      /\ q.op = "getMembership" /\ q.at = "done" =>
           IF q.isMember THEN key \in DOMAIN items
           ELSE \/ ~q.was
                \/ {key, q.dao} \cap downed # {}
                \/ Cardinality(details) > Limit

AnswerInv == \A r \in Slots : Promised(r)

\* Nothing an answer rests on is taken away
Grow == /\ UNCHANGED names
        /\ details \subseteq details' /\ IsFiniteSet(details')
        /\ DOMAIN items \subseteq DOMAIN items'
        /\ downed \subseteq downed'

LEMMA NextGrows ==
  ASSUME TInv, TInv', [Next]_vars
  PROVE  Grow
<1>1. UNCHANGED names /\ IsFiniteSet(details')
  BY WhoWrites DEF TInv
<1>2. details \subseteq details' /\ DOMAIN items \subseteq DOMAIN items'
  <2>1. CASE UNCHANGED communities
    BY <2>1 DEF communities
  <2>2. CASE \E r \in Slots : WriteCommunity(r)
    BY <2>2 DEF WriteCommunity, Recorded
  <2>3. CASE \E r \in Slots : Add(r)
    BY <2>3 DEF Add, Added
  <2>4. QED
    BY <2>1, <2>2, <2>3, WhoWrites
<1>3. downed \subseteq downed'
  <2>1. ASSUME NEW r \in Slots, Step(r) \/ Fail(r) PROVE UNCHANGED moderation
    BY <2>1 DEF Step, Fail, ActorExists, CreateStore, WriteKey, Migrate, LookBeforeCreate,
                WriteCommunity, Look, Check, CheckWith, Add, CheckOwnItem, DeleteOwnItem, Answer
  <2>2. ASSUME NEW r \in Slots, NEW dao \in Daos,
               \/ Create(r, dao)
               \/ \E user \in Users : \/ Join(r, user, dao)
                                      \/ GetMembership(r, user, dao)
                                      \/ Leave(r, user, dao)
        PROVE  UNCHANGED moderation
    BY <2>2 DEF Create, Join, GetMembership, Leave, Begin
  <2>3. QED
    BY <2>1, <2>2 DEF Next, vars, moderation, WriteOwn, Takedown
<1>4. QED
  BY <1>1, <1>2, <1>3 DEF Grow

LEMMA StaysPromised ==
  ASSUME TInv, Grow, NEW r \in Slots, req'[r] = req[r], Promised(r)
  PROVE  Promised(r)'
<1>1. Key(req[r].user, req[r].dao)' = Key(req[r].user, req[r].dao)
  BY DEF Grow, names, Key
<1>2. Cardinality(details) <= Cardinality(details')
      /\ Cardinality(details) \in Nat /\ Cardinality(details') \in Nat
  BY FS_Subset, FS_CardinalityType DEF Grow, TInv
<1>3. Limit \in Nat
  BY BoundsAssumption
<1>4. Cardinality(details) > Limit => Cardinality(details') > Limit
  BY <1>2, <1>3
<1>5. QED
  BY <1>1, <1>4 DEF Promised, Grow

(***************************************************************************)
(* A community that is there, and not taken down, is found unless more     *)
(* than Limit communities are there.                                       *)
(***************************************************************************)
LEMMA NotFound ==
  ASSUME TInv, NEW c \in details, ~Found(c.dao), c.dao \notin hidden
  PROVE  Cardinality(details) > Limit
<1> DEFINE shown == {e \in details : e.dao \notin hidden}
           newer == {e \in shown : e.tid > c.tid}
<1>1. IsFiniteSet(details) /\ Limit \in Nat
  BY BoundsAssumption DEF TInv
<1>2. ~(Cardinality(newer) < Limit)
  BY DEF Found, Listed
<1>3. c.tid \in Nat
  BY DEF TInv, TypeOK
<1>4. newer \subseteq details \ {c}
  BY <1>3
<1>5. IsFiniteSet(details \ {c}) /\ Cardinality(details \ {c}) = Cardinality(details) - 1
  BY <1>1, FS_RemoveElement
<1>6. Cardinality(newer) <= Cardinality(details \ {c}) /\ Cardinality(newer) \in Nat
  BY <1>4, <1>5, FS_Subset, FS_CardinalityType
<1>7. Cardinality(details) \in Nat
  BY <1>1, FS_CardinalityType
<1> HIDE DEF newer
<1>8. QED
  BY <1>1, <1>2, <1>5, <1>6, <1>7

\* What a request is after a Goto
LEMMA AfterGoto ==
  ASSUME TInv, NEW r \in Slots, NEW s, Goto(r, s), req[r].at \notin {"idle", "done"}
  PROVE  /\ req'[r].at = s /\ req'[r].op = req[r].op /\ req'[r].dao = req[r].dao
         /\ req[r].op # "create" => req'[r].user = req[r].user
         /\ req[r].op = "getMembership" =>
              req'[r].was = req[r].was /\ req'[r].isMember = req[r].isMember
<1> DEFINE q == req[r]
<1>1. req \in [Slots -> Requests] /\ q \in Requests
  BY DEF TInv, TypeOK
<1>2. req'[r] = [q EXCEPT !.at = s]
  BY <1>1 DEF Goto
<1>3. "at" \in DOMAIN q
  BY <1>1 DEF Requests, Idle, Left
<1> HIDE DEF q
<1>4. QED
  BY <1>2, <1>3 DEF q

LEMMA AfterThrow ==
  ASSUME TInv, NEW r \in Slots, Throw(r) \/ req' = [req EXCEPT ![r] = Left]
  PROVE  Promised(r)'
<1>1. req'[r] = Idle \/ req'[r] = Left
  BY DEF TInv, TypeOK, Throw
<1>2. req'[r].at \in {"idle", "done"} /\ req'[r].op \in {"none", "leave"}
  BY <1>1 DEF Idle, Left
<1>3. QED
  BY <1>2 DEF Promised

LEMMA CreateKept ==
  ASSUME TInv, Grow, NEW r \in Slots, Promised(r),
         \/ ActorExists(r) \/ CreateStore(r) \/ WriteKey(r) \/ Migrate(r)
         \/ LookBeforeCreate(r) \/ WriteCommunity(r)
  PROVE  Promised(r)'
<1>1. req \in [Slots -> Requests]
  BY DEF TInv, TypeOK
<1>2. req[r].at \notin {"idle", "done"} /\ req[r].op = "create"
  BY <1>1, RequestShape DEF ActorExists, CreateStore, WriteKey, Migrate, LookBeforeCreate,
                            WriteCommunity, At, IsOp
<1>3. CASE Throw(r)
  BY <1>3, AfterThrow
<1>4. ASSUME NEW s \in {"create", "key", "migrate", "look"}, Goto(r, s)
      PROVE  Promised(r)'
  BY <1>2, <1>4, AfterGoto DEF Promised
<1>5. CASE LookBeforeCreate(r)
  <2>1. CASE Found(req[r].dao) /\ Goto(r, "done")
    <3>1. \E c \in details' : c.dao = req[r].dao
      BY <2>1 DEF Found, Listed, Grow
    <3>2. QED
      BY <1>2, <2>1, <3>1, AfterGoto DEF Promised
  <2>2. CASE req' = [req EXCEPT ![r] = [at |-> "write", op |-> "create",
                                        dao |-> req[r].dao, tid |-> tids + 1]]
    <3>1. req'[r].at = "write" /\ req'[r].op = "create"
      BY <1>1, <2>2
    <3>2. QED
      BY <3>1 DEF Promised
  <2>3. QED
    BY <1>3, <1>5, <2>1, <2>2 DEF LookBeforeCreate
<1>6. CASE Recorded(r)
  <2>1. req'[r] = [at |-> "root", op |-> "create", dao |-> req[r].dao]
    BY <1>1, <1>6 DEF Recorded
  <2>2. \E c \in details' : c.dao = req[r].dao
    <3> DEFINE d == [dao |-> req[r].dao, tid |-> req[r].tid]
    <3>1. d \in details' /\ d.dao = req[r].dao
      BY <1>6 DEF Recorded
    <3>2. QED
      BY <3>1
  <2>3. QED
    BY <2>1, <2>2 DEF Promised
<1>7. CASE ActorExists(r)
  <2>1. Goto(r, "create") \/ Goto(r, "look")
    BY <1>7 DEF ActorExists
  <2>2. QED
    BY <1>4, <2>1
<1>8. QED
  BY <1>3, <1>4, <1>5, <1>6, <1>7 DEF CreateStore, WriteKey, Migrate, WriteCommunity

LEMMA LookKept ==
  ASSUME TInv, Grow, NEW r \in Slots, Promised(r), Look(r)
  PROVE  Promised(r)'
<1> DEFINE q == req[r]
<1>1. q \in Requests /\ q.at = "look" /\ q.op \in {"join", "getMembership"}
  <2>1. q \in Requests /\ q.at = "look" /\ q.op # "create"
    BY DEF TInv, TypeOK, At, IsOp, Look
  <2>2. QED
    BY <2>1 DEF Requests, Idle, Left
<1>2. UNCHANGED <<names, communities, moderation>>
  BY DEF Look
<1>3. CASE Throw(r)
  BY <1>3, AfterThrow
<1>4. CASE Found(q.dao) /\ Goto(r, "check")
  <2>1. \E c \in details : c.dao = q.dao
    BY <1>4 DEF Found, Listed
  <2>2. prefix' = prefix /\ suffix' = suffix /\ items' = items /\ details' = details
    BY <1>2 DEF names, communities
  <2>3. q.op = "getMembership" => ~q.isMember /\ (q.was => Key(q.user, q.dao) \in DOMAIN items)
    BY <1>1 DEF Promised
  <2>4. req'[r].at = "check" /\ req'[r].op = q.op /\ req'[r].dao = q.dao /\ req'[r].user = q.user
    BY <1>1, <1>4, AfterGoto
  <2>5. q.op = "getMembership" => req'[r].was = q.was /\ req'[r].isMember = q.isMember
    BY <1>1, <1>4, AfterGoto
  <2>6. QED
    BY <1>1, <2>1, <2>2, <2>3, <2>4, <2>5 DEF Promised, Key
<1>5. CASE ~Found(q.dao) /\ q.op = "getMembership" /\ Goto(r, "done")
  <2>1. ~q.isMember /\ (q.was => \E c \in details : c.dao = q.dao)
    BY <1>1, <1>5 DEF Promised
  <2>2. q.was => q.dao \in downed \/ Cardinality(details) > Limit
    BY <1>5, <2>1, NotFound DEF TInv, TypeOK
  <2>3. downed' = downed /\ details' = details
    BY <1>2 DEF communities, moderation
  <2>4. req'[r].at = "done" /\ req'[r].op = q.op /\ req'[r].dao = q.dao /\ req'[r].user = q.user
        /\ req'[r].was = q.was /\ req'[r].isMember = q.isMember
    BY <1>1, <1>5, AfterGoto
  <2>5. QED
    BY <1>5, <2>1, <2>2, <2>3, <2>4 DEF Promised
<1>6. QED
  BY <1>1, <1>3, <1>4, <1>5 DEF Look, IsOp

LEMMA CheckKept ==
  ASSUME TInv, Grow, NEW r \in Slots, Promised(r), Check(r)
  PROVE  Promised(r)'
<1> DEFINE q == req[r]
           key == Key(q.user, q.dao)
           member == Visible(key)
<1>1. req \in [Slots -> Requests] /\ q \in Requests /\ q.at = "check"
      /\ q.op \in {"join", "getMembership"}
  BY RequestShape DEF TInv, TypeOK, At, Check, CheckWith
<1>2. prefix' = prefix /\ suffix' = suffix
      /\ items' = items /\ details' = details /\ downed' = downed
  BY DEF Check, CheckWith, names, communities, moderation
<1>3. member => key \in DOMAIN items
  BY DEF Visible
<1>4. ~member => key \notin DOMAIN items \/ key \in downed
  BY DEF Visible, TInv, TypeOK
<1>5. \E c \in details : c.dao = q.dao
  BY <1>1 DEF Promised
<1>6. CASE q.op = "join"
  <2>1. \/ member /\ Goto(r, "done")
        \/ Goto(r, "add")
    BY <1>6 DEF Check, CheckWith, IsOp
  <2>2. /\ req'[r].op = "join" /\ req'[r].dao = q.dao /\ req'[r].user = q.user
        /\ \/ req'[r].at = "add"
           \/ req'[r].at = "done" /\ member
    <3>1. CASE member /\ Goto(r, "done")
      BY <1>1, <1>6, <3>1, AfterGoto
    <3>2. CASE Goto(r, "add")
      BY <1>1, <1>6, <3>2, AfterGoto
    <3>3. QED
      BY <2>1, <3>1, <3>2
  <2>3. member => <<prefix'[q.dao], suffix'[q.user]>> \in DOMAIN items'
    BY <1>2, <1>3 DEF Key
  <2>4. \E c \in details' : c.dao = q.dao
    BY <1>2, <1>5
  <2> HIDE DEF member
  <2>5. QED
    BY <2>2, <2>3, <2>4 DEF Promised, Key
<1>7. CASE q.op = "getMembership"
  <2>1. req'[r] = [q EXCEPT !.isMember = member, !.at = "done", !.was = @ /\ ~member]
    BY <1>1, <1>7 DEF Check, CheckWith, IsOp
  <2>2. q \in Questions
    BY <1>1, <1>7, QuestionMoves
  <2> HIDE DEF member
  <2>3. req'[r].at = "done" /\ req'[r].op = "getMembership" /\ req'[r].dao = q.dao
        /\ req'[r].user = q.user /\ req'[r].isMember = member
        /\ req'[r].was = (q.was /\ ~member)
    BY <2>1, <2>2 DEF Questions
  <2>4. q.was => key \in DOMAIN items
    BY <1>1, <1>7 DEF Promised
  <2>5. key = <<prefix'[q.dao], suffix'[q.user]>>
    BY <1>2 DEF Key
  <2>6. IF req'[r].isMember THEN key \in DOMAIN items ELSE ~req'[r].was \/ key \in downed
    BY <1>3, <1>4, <2>3, <2>4
  <2> HIDE DEF q, key
  <2>7. QED
    BY <1>2, <2>3, <2>5, <2>6 DEF Promised, Key
<1>8. QED
  BY <1>1, <1>6, <1>7

LEMMA AddKept ==
  ASSUME TInv, Grow, NEW r \in Slots, Promised(r), Add(r)
  PROVE  Promised(r)'
<1> DEFINE q == req[r]
           key == Key(q.user, q.dao)
<1>1. q \in Requests /\ q.at = "add" /\ q.op = "join"
  <2>1. q \in Requests /\ q.at = "add"
    BY DEF TInv, TypeOK, Add, At
  <2>2. QED
    BY <2>1, RequestShape
<1>2. CASE Throw(r)
  BY <1>2, AfterThrow
<1>3. CASE Added(r, prefix[q.dao])
  <2>1. req'[r].at = "root" /\ req'[r].op = "join" /\ req'[r].dao = q.dao /\ req'[r].user = q.user
    BY <1>1, <1>3, AfterGoto DEF Added
  <2>2. key \in DOMAIN items'
    BY <1>3 DEF Added
  <2>3. key = <<prefix'[q.dao], suffix'[q.user]>>
    BY DEF Add, names, Key
  <2>4. QED
    BY <2>1, <2>2, <2>3 DEF Promised, Key
<1>4. QED
  BY <1>2, <1>3 DEF Add

LEMMA LeaveKept ==
  ASSUME TInv, NEW r \in Slots, CheckOwnItem(r) \/ DeleteOwnItem(r)
  PROVE  Promised(r)'
<1>1. req[r] \in Requests /\ req[r].at \in {"own", "drop"}
  BY DEF TInv, TypeOK, CheckOwnItem, DeleteOwnItem, At
<1>2. req[r].op = "leave"
  BY <1>1, RequestShape
<1>3. ASSUME NEW s \in {"drop", "root"}, Goto(r, s) PROVE Promised(r)'
  BY <1>1, <1>2, <1>3, AfterGoto DEF Promised
<1>4. QED
  BY <1>3, AfterThrow DEF CheckOwnItem, DeleteOwnItem

LEMMA AnswerKept ==
  ASSUME TInv, Grow, NEW r \in Slots, Promised(r), Answer(r)
  PROVE  Promised(r)'
<1> DEFINE q == req[r]
<1>1. q \in Requests /\ q.at = "root"
  BY DEF TInv, TypeOK, Answer, At
<1>2. q.op = "create" \/ q.op = "join" \/ q.op = "leave"
  BY <1>1 DEF Requests, Idle, Left
<1>3. CASE req' = [req EXCEPT ![r] = Left]
  BY <1>3, AfterThrow
<1>4. CASE q.op # "leave" /\ Goto(r, "done")
  <2>1. prefix' = prefix /\ suffix' = suffix /\ items' = items /\ details' = details
    BY DEF Answer, names, communities
  <2>2. req'[r].at = "done" /\ req'[r].op = q.op /\ req'[r].dao = q.dao
        /\ (q.op = "join" => req'[r].user = q.user)
    BY <1>1, <1>4, AfterGoto
  <2>3. QED
    BY <1>1, <1>2, <1>4, <2>1, <2>2 DEF Promised, Key
<1>5. QED
  BY <1>3, <1>4 DEF Answer, IsOp

LEMMA BeginKept ==
  ASSUME TInv, Grow, NEW r \in Slots, NEW dao \in Daos,
         \/ Create(r, dao)
         \/ \E user \in Users : \/ Join(r, user, dao)
                                \/ GetMembership(r, user, dao)
                                \/ Leave(r, user, dao)
  PROVE  Promised(r)'
<1>1. req \in [Slots -> Requests]
  BY DEF TInv, TypeOK
<1>2. CASE Create(r, dao) \/ \E user \in Users : Join(r, user, dao) \/ Leave(r, user, dao)
  <2>1. req'[r].op # "getMembership" /\ req'[r].at \in {"exists", "look", "own"}
    BY <1>1, <1>2 DEF Create, Join, Leave, Begin
  <2>2. QED
    BY <2>1 DEF Promised
<1>3. CASE \E user \in Users : GetMembership(r, user, dao)
  <2>1. PICK user \in Users : GetMembership(r, user, dao)
    BY <1>3
  <2>2. req'[r] = [at |-> "look", op |-> "getMembership", user |-> user, dao |-> dao,
                   was |-> Member(user, dao), isMember |-> FALSE]
    BY <1>1, <2>1 DEF GetMembership, Begin
  <2>3. prefix' = prefix /\ suffix' = suffix /\ items' = items /\ details' = details
    BY <2>1 DEF GetMembership, Begin, names, communities
  <2>4. QED
    BY <2>2, <2>3 DEF Promised, Member, Visible, Key
<1>4. QED
  BY <1>2, <1>3

LEMMA AnswerInvStep ==
  ASSUME TInv, TInv', AnswerInv, [Next]_vars
  PROVE  AnswerInv'
<1>1. Grow
  BY NextGrows
<1>2. \A r \in Slots : req'[r] = req[r] => Promised(r)'
  BY <1>1, StaysPromised DEF AnswerInv
<1>3. req \in [Slots -> Requests]
  BY DEF TInv, TypeOK
<1>4. ASSUME NEW r \in Slots, Step(r) \/ Fail(r) PROVE AnswerInv'
  <2>1. Promised(r)'
    <3>1. CASE Fail(r)
      BY <3>1, AfterThrow DEF Fail
    <3>2. QED
      BY <1>1, <1>4, <3>1, CreateKept, LookKept, CheckKept, AddKept, LeaveKept, AnswerKept
         DEF Step, AnswerInv
  <2>2. \A s \in Slots : s # r => req'[s] = req[s]
    BY <1>3, <1>4 DEF Step, Fail, ActorExists, CreateStore, WriteKey, Migrate, LookBeforeCreate,
                      WriteCommunity, Recorded, Look, Check, CheckWith, Add, Added, CheckOwnItem,
                      DeleteOwnItem, Answer, Goto, Throw
  <2>3. QED
    BY <1>2, <2>1, <2>2 DEF AnswerInv
<1>5. ASSUME NEW r \in Slots, NEW dao \in Daos,
             \/ Create(r, dao)
             \/ \E user \in Users : \/ Join(r, user, dao)
                                    \/ GetMembership(r, user, dao)
                                    \/ Leave(r, user, dao)
      PROVE  AnswerInv'
  <2>1. Promised(r)'
    BY <1>1, <1>5, BeginKept
  <2>2. \A s \in Slots : s # r => req'[s] = req[s]
    BY <1>3, <1>5 DEF Create, Join, GetMembership, Leave, Begin
  <2>3. QED
    BY <1>2, <2>1, <2>2 DEF AnswerInv
<1>6. CASE UNCHANGED req
  BY <1>2, <1>6 DEF AnswerInv
<1>7. QED
  BY <1>4, <1>5, <1>6 DEF Next, vars, WriteOwn, Takedown

-----------------------------------------------------------------------------
(* The inductive invariant, and what follows from it                       *)

CInv == TInv /\ CommunitiesConsistent /\ AnswerInv

LEMMA CInvAlways == Spec => []CInv
<1>1. Init => CInv
  <2> SUFFICES ASSUME Init PROVE CommunitiesConsistent /\ AnswerInv
    BY InitTyped DEF CInv
  <2>1. CommunitiesConsistent
    BY DEF Init, CommunitiesConsistent, OneCommunityPerList, MembersListed
  <2>2. \A r \in Slots : req[r].at = "idle" /\ req[r].op = "none"
    BY DEF Init, Idle
  <2>3. QED
    BY <2>1, <2>2 DEF AnswerInv, Promised
<1>2. ASSUME CInv, [Next]_vars PROVE CInv'
  <2>1. TInv'
    BY <1>2, TInvStep DEF CInv
  <2>2. AnswerInv'
    BY <1>2, <2>1, AnswerInvStep DEF CInv
  <2>3. FoundInv
    BY <1>2 DEF CInv, AnswerInv, Promised, FoundInv
  <2>4. CommunitiesConsistent'
    <3>1. CASE UNCHANGED communities
      BY <1>2, <3>1, WhoWrites DEF CInv, CommunitiesConsistent, OneCommunityPerList,
                                   MembersListed, names, communities
    <3>2. QED
      BY <1>2, <2>3, <3>1, WhoWrites, WriteCommunityConsistent, AddConsistent DEF CInv
  <2>5. QED
    BY <2>1, <2>2, <2>4 DEF CInv
<1>3. QED
  BY <1>1, <1>2, PTL DEF Spec

(***************************************************************************)
(* A community has one details record and one list, and members are in     *)
(* lists that exist, under their record keys, however creates and joins    *)
(* overlap or break off.                                                   *)
(***************************************************************************)
THEOREM AlwaysConsistent == Spec => []CommunitiesConsistent
<1>1. CInv => CommunitiesConsistent
  BY DEF CInv
<1>2. QED
  BY <1>1, CInvAlways, PTL

(***************************************************************************)
(* An item under the record key of a user names him or one whose DID ends  *)
(* alike: nothing else makes record keys meet.                             *)
(***************************************************************************)
LEMMA WhoseItem ==
  ASSUME TypeOK, MembersListed, NEW user \in Users, NEW dao \in Daos,
         Key(user, dao) \in DOMAIN items
  PROVE  Named(user, dao) \/ Namesake(user, dao)
<1> DEFINE item == items[Key(user, dao)]
<1>1. item \in [subject : Users, list : Prefixes]
  BY DEF TypeOK
<1>2. <<prefix[dao], suffix[user]>> = <<item.list, suffix[item.subject]>>
  BY DEF MembersListed, Key
<1>3. item = [subject |-> item.subject, list |-> prefix[dao]]
      /\ item.subject \in Users /\ suffix[item.subject] = suffix[user]
  BY <1>1, <1>2
<1> HIDE DEF item
<1>4. Key(item.subject, dao) = Key(user, dao)
  BY <1>3 DEF Key
<1>5. Named(item.subject, dao)
  BY <1>3, <1>4 DEF Named, item
<1>6. QED
  BY <1>3, <1>5 DEF Namesake

\* who joined, or asks
LEMMA DoneShape ==
  ASSUME TypeOK, NEW r \in Slots, At(r, "done"), IsOp(r, "join") \/ IsOp(r, "getMembership")
  PROVE  req[r].user \in Users /\ req[r].dao \in Daos
BY DEF TypeOK, Requests, Idle, Left, At, IsOp

(***************************************************************************)
(* An answered create has its community.  An answered join has an item     *)
(* that names who joined, unless one whose DID ends alike has the key: a   *)
(* collision of record keys is the only way to be told so in vain.         *)
(***************************************************************************)
THEOREM AnswersAlwaysHold == Spec => []AnswersHold
<1>1. ASSUME CInv PROVE AnswersHold
  <2> SUFFICES ASSUME NEW r \in Slots, At(r, "done")
               PROVE  /\ IsOp(r, "create") => \E c \in details : c.dao = req[r].dao
                      /\ IsOp(r, "join") => \/ Named(req[r].user, req[r].dao)
                                            \/ Namesake(req[r].user, req[r].dao)
    BY DEF AnswersHold
  <2>1. Promised(r)
    BY <1>1 DEF CInv, AnswerInv
  <2>2. IsOp(r, "create") => \E c \in details : c.dao = req[r].dao
    BY <2>1 DEF Promised, At, IsOp
  <2>3. ASSUME IsOp(r, "join")
        PROVE  \/ Named(req[r].user, req[r].dao)
               \/ Namesake(req[r].user, req[r].dao)
    <3>1. Key(req[r].user, req[r].dao) \in DOMAIN items
      BY <2>1, <2>3 DEF Promised, At, IsOp
    <3>2. QED
      BY <1>1, <2>3, <3>1, DoneShape, WhoseItem DEF CInv, TInv, CommunitiesConsistent
  <2>4. QED
    BY <2>2, <2>3
<1>2. QED
  BY <1>1, CInvAlways, PTL

(***************************************************************************)
(* A "yes" of getMembership goes to one whom an item names or to one whose *)
(* DID ends like that of the one it names; a "no" never to a member, but   *)
(* for what was taken down and what lies beyond the limit of a lookup.     *)
(***************************************************************************)
THEOREM MembershipAlwaysHolds == Spec => []MembershipHolds
<1>1. ASSUME CInv PROVE MembershipHolds
  <2> SUFFICES ASSUME NEW r \in Slots, At(r, "done"), IsOp(r, "getMembership")
               PROVE  IF req[r].isMember
                      THEN \/ Named(req[r].user, req[r].dao)
                           \/ Namesake(req[r].user, req[r].dao)
                      ELSE \/ ~req[r].was
                           \/ {Key(req[r].user, req[r].dao), req[r].dao} \cap downed # {}
                           \/ Cardinality(details) > Limit
    BY DEF MembershipHolds
  <2>1. Promised(r)
    BY <1>1 DEF CInv, AnswerInv
  <2>2. CASE req[r].isMember
    <3>1. Key(req[r].user, req[r].dao) \in DOMAIN items
      BY <2>1, <2>2 DEF Promised, At, IsOp
    <3>2. \/ Named(req[r].user, req[r].dao)
          \/ Namesake(req[r].user, req[r].dao)
      BY <1>1, <3>1, DoneShape, WhoseItem DEF CInv, TInv, CommunitiesConsistent
    <3>3. QED
      BY <2>2, <3>2
  <2>3. CASE ~req[r].isMember
    BY <2>1, <2>3 DEF Promised, At, IsOp
  <2>4. QED
    BY <2>2, <2>3
<1>2. QED
  BY <1>1, CInvAlways, PTL
=============================================================================
