---------------------------- MODULE Communities ----------------------------
(***************************************************************************)
(* Creaton's communities on a PDS: the handlers create, join, leave and    *)
(* getMembership of app.creaton.community.                                 *)
(*                                                                         *)
(* A community is a details record and a member list in the repository of  *)
(* the service itself, which the first create makes.  A membership is a    *)
(* list item whose record key holds a piece of the DAO's address and a     *)
(* piece of the user's DID.  Each handler looks before it writes, in       *)
(* separate database calls, so requests interleave between them.           *)
(*                                                                         *)
(* A transaction with its event is one step: RepoWrites has its inside,    *)
(* and what updateRepoRoot does after it.  Names and symbols are left out. *)
(***************************************************************************)
EXTENDS Integers, FiniteSets

CONSTANTS Slots,        \* requests under way at once
          Daos, Users,
          Prefixes,     \* daoAddress.slice(2, 10)
          Suffixes,     \* did.slice(-8)
          Limit,        \* details records a lookup reads: 100
          None,
          Workloads,    \* bound: what is used in one behaviour besides
                        \* create, join and getMembership
          MaxTids,      \* bound: creates that got as far as a record key
          MaxTakedowns, \* bound: records ever taken down
          MaxOwn        \* bound: such items in users' own repositories

ASSUME NoneAssumption == None \notin Prefixes
ASSUME WorkloadsAssumption == Workloads \subseteq SUBSET {"leave", "takedown"}
ASSUME BoundsAssumption ==
  Limit \in Nat \ {0} /\ MaxTids \in Nat /\ MaxTakedowns \in Nat
  /\ MaxOwn \in Nat

VARIABLES
  prefix,   \* the piece of each DAO's address that is in record keys
  suffix,   \* the piece of each user's DID
  workload, \* what is used
  store,    \* the service's database file: none, bare (without tables), ready
  details,  \* app.creaton.community.details: records [dao, tid]
  lists,    \* app.bsky.graph.list: the prefixes in their record keys
  items,    \* app.bsky.graph.listitem of the service: key -> [subject, list]
  own,      \* users' own repositories: <<user, key>> of such list items
  hidden,   \* details (by DAO) and items (by key) that are taken down
  tids,     \* record keys handed out by TID.nextStr
  req,      \* the request in each slot
  downed    \* what was ever taken down (history)

communities == <<details, lists, items>>
moderation == <<hidden, downed>>
names == <<prefix, suffix, workload>>
vars == <<names, store, communities, own, moderation, tids, req>>

Keys == Prefixes \X Suffixes

\* The record key of a membership, without its "member-"
Key(user, dao) == <<prefix[dao], suffix[user]>>

Idle == [at |-> "idle", op |-> "none"]

Init ==
  /\ prefix \in [Daos -> Prefixes]
  /\ suffix \in [Users -> Suffixes]
  /\ workload \in Workloads
  /\ store = "none"
  /\ details = {} /\ lists = {} /\ items = <<>>
  /\ own = {}
  /\ hidden = {} /\ downed = {}
  /\ tids = 0
  /\ req = [r \in Slots |-> Idle]

At(r, stage) == req[r].at = stage

IsOp(r, op) == req[r].op = op

Goto(r, stage) == req' = [req EXCEPT ![r].at = stage]

Throw(r) == req' = [req EXCEPT ![r] = Idle]

\* getRecord does not find what is taken down
Visible(key) == key \in DOMAIN items \ hidden

Begin(r) == /\ req[r].at \in {"idle", "done"}
            /\ UNCHANGED <<names, store, communities, own, moderation, tids>>

-----------------------------------------------------------------------------
(* Creating the service's repository and a community                       *)

Create(r, dao) ==
  /\ Begin(r)
  /\ req' = [req EXCEPT ![r] = [at |-> "exists", op |-> "create", dao |-> dao]]

ActorExists(r) == /\ At(r, "exists")
                  /\ Goto(r, IF store = "none" THEN "create" ELSE "look")
                  /\ UNCHANGED <<names, store, communities, own, moderation, tids>>

\* actorStore.create looks for the file once more
CreateStore(r) == /\ At(r, "create")
                  /\ \/ store = "none" /\ Goto(r, "key")
                     \/ store # "none" /\ Throw(r)
                  /\ UNCHANGED <<names, store, communities, own, moderation, tids>>

\* the key file, then getDb, which makes the file without its tables
WriteKey(r) == /\ At(r, "key")
               /\ store' = IF store = "none" THEN "bare" ELSE store
               /\ Goto(r, "migrate")
               /\ UNCHANGED <<names, communities, own, moderation, tids>>

Migrate(r) == /\ At(r, "migrate")
              /\ store' = "ready"
              /\ Goto(r, "look")
              /\ UNCHANGED <<names, communities, own, moderation, tids>>

\* listRecordsForCollection: the newest details that are not taken down
Listed == LET shown == {c \in details : c.dao \notin hidden}
          IN  {c \in shown : Cardinality({e \in shown : e.tid > c.tid}) < Limit}

Found(dao) == \E c \in Listed : c.dao = dao

\* A store without its tables cannot be read.  prepareCreate takes the TID
LookBeforeCreate(r) ==
  /\ At(r, "look") /\ IsOp(r, "create")
  /\ \/ store # "ready" /\ Throw(r) /\ UNCHANGED tids
     \/ store = "ready" /\ Found(req[r].dao) /\ Goto(r, "done") /\ UNCHANGED tids
     \/ /\ store = "ready" /\ ~Found(req[r].dao)
        /\ tids < MaxTids
        /\ tids' = tids + 1
        /\ req' = [req EXCEPT ![r] = [at |-> "write", op |-> "create",
                                      dao |-> req[r].dao, tid |-> tids + 1]]
  /\ UNCHANGED <<names, store, communities, own, moderation>>

Recorded(r) == /\ lists' = lists \cup {prefix[req[r].dao]}
               /\ details' = details \cup {[dao |-> req[r].dao, tid |-> req[r].tid]}
               /\ req' = [req EXCEPT ![r] = [at |-> "root", op |-> "create",
                                             dao |-> req[r].dao]]

WriteCommunityUnkeyed(r) == /\ At(r, "write")
                            /\ Recorded(r)
                            /\ UNCHANGED <<names, store, items, own, moderation, tids>>

(***************************************************************************)
(* The transaction, which makes the repository if it has no root: both     *)
(* records or neither.  The tree refuses a list that is there already.     *)
(***************************************************************************)
WriteCommunity(r) ==
  /\ At(r, "write")
  /\ \/ prefix[req[r].dao] \notin lists /\ Recorded(r)
     \/ prefix[req[r].dao] \in lists /\ Throw(r) /\ UNCHANGED <<lists, details>>
  /\ UNCHANGED <<names, store, items, own, moderation, tids>>

-----------------------------------------------------------------------------
(* Joining, and asking                                                     *)

Join(r, user, dao) ==
  /\ Begin(r)
  /\ req' = [req EXCEPT ![r] = [at |-> "look", op |-> "join", user |-> user, dao |-> dao]]

\* The list has an item that names the user
Named(user, dao) ==
  LET key == Key(user, dao)
  IN  key \in DOMAIN items /\ items[key] = [subject |-> user, list |-> prefix[dao]]

\* One whose DID ends alike has the record key that the user's item would have
Namesake(user, dao) ==
  \E other \in Users \ {user} : suffix[other] = suffix[user] /\ Named(other, dao)

Member(user, dao) == /\ \E c \in details : c.dao = dao
                     /\ Named(user, dao)
                     /\ Visible(Key(user, dao))

\* was: the answer that was right when the request came in (history)
GetMembership(r, user, dao) ==
  /\ Begin(r)
  /\ req' = [req EXCEPT ![r] =
               [at |-> "look", op |-> "getMembership", user |-> user, dao |-> dao,
                was |-> Member(user, dao), isMember |-> FALSE]]

Look(r) ==
  /\ At(r, "look") /\ ~IsOp(r, "create")
  /\ \/ store # "ready" /\ Throw(r)
     \/ store = "ready" /\ Found(req[r].dao) /\ Goto(r, "check")
     \/ /\ store = "ready" /\ ~Found(req[r].dao)
        /\ \/ IsOp(r, "join") /\ Throw(r)
           \/ IsOp(r, "getMembership") /\ Goto(r, "done")
  /\ UNCHANGED <<names, store, communities, own, moderation, tids>>

CheckWith(r, member) ==
  /\ At(r, "check")
  /\ \/ IsOp(r, "join") /\ Goto(r, IF member THEN "done" ELSE "add")
     \/ /\ IsOp(r, "getMembership")
        /\ req' = [req EXCEPT ![r].isMember = member, ![r].at = "done",
                              ![r].was = @ /\ ~member]
  /\ UNCHANGED <<names, store, communities, own, moderation, tids>>

CheckInOwn(r) ==
  CheckWith(r, <<req[r].user, Key(req[r].user, req[r].dao)>> \in own)

Check(r) == CheckWith(r, Visible(Key(req[r].user, req[r].dao)))

Added(r, list) ==
  LET key == Key(req[r].user, req[r].dao)
  IN  /\ items' = [k \in DOMAIN items \cup {key} |->
                     IF k = key THEN [subject |-> req[r].user, list |-> list] ELSE items[k]]
      /\ Goto(r, "root")

AddUnlisted(r) ==
  /\ At(r, "add")
  /\ Key(req[r].user, req[r].dao) \notin DOMAIN items
  /\ Added(r, None)
  /\ UNCHANGED <<names, store, details, lists, own, moderation, tids>>

AddSwallowed(r) ==
  /\ At(r, "add")
  /\ Goto(r, "root")
  /\ UNCHANGED <<names, store, communities, own, moderation, tids>>

\* The tree refuses an item that is there, be it taken down
Add(r) ==
  /\ At(r, "add")
  /\ \/ /\ Key(req[r].user, req[r].dao) \notin DOMAIN items
        /\ Added(r, prefix[req[r].dao])
     \/ /\ Key(req[r].user, req[r].dao) \in DOMAIN items
        /\ Throw(r)
        /\ UNCHANGED items
  /\ UNCHANGED <<names, store, details, lists, own, moderation, tids>>

-----------------------------------------------------------------------------
(* Leaving: the handler looks in the requester's own repository            *)

Leave(r, user, dao) ==
  /\ "leave" \in workload
  /\ Begin(r)
  /\ req' = [req EXCEPT ![r] = [at |-> "own", op |-> "leave", user |-> user, dao |-> dao]]

Left == [at |-> "done", op |-> "leave"]

OwnKey(r) == <<req[r].user, Key(req[r].user, req[r].dao)>>

CheckOwnItem(r) == /\ At(r, "own")
                   /\ \/ OwnKey(r) \in own /\ Goto(r, "drop")
                      \/ OwnKey(r) \notin own /\ req' = [req EXCEPT ![r] = Left]
                   /\ UNCHANGED <<names, store, communities, own, moderation, tids>>

DeleteOwnItem(r) == /\ At(r, "drop")
                    /\ \/ OwnKey(r) \in own /\ Goto(r, "root")
                       \/ OwnKey(r) \notin own /\ Throw(r)
                    /\ own' = own \ {OwnKey(r)}
                    /\ UNCHANGED <<names, store, communities, moderation, tids>>

-----------------------------------------------------------------------------
\* updateRepoRoot, whose errors are swallowed, and the answer
Answer(r) == /\ At(r, "root")
             /\ \/ ~IsOp(r, "leave") /\ Goto(r, "done")
                \/ IsOp(r, "leave") /\ req' = [req EXCEPT ![r] = Left]
             /\ UNCHANGED <<names, store, communities, own, moderation, tids>>

\* A call throws, or the process ends: what was done stays done
Fail(r) == /\ req[r].at \notin {"idle", "done"}
           /\ Throw(r)
           /\ UNCHANGED <<names, store, communities, own, moderation, tids>>

\* createRecord and deleteRecord, by the user's own client
WriteOwn(user, key) ==
  /\ "leave" \in workload
  /\ key[2] = suffix[user]
  /\ own' = IF <<user, key>> \in own THEN own \ {<<user, key>>}
            ELSE own \cup {<<user, key>>}
  /\ Cardinality(own') <= MaxOwn
  /\ UNCHANGED <<names, store, communities, moderation, tids, req>>

\* updateSubjectStatus of a record of the service
Takedown(subject) ==
  /\ "takedown" \in workload
  /\ subject \in DOMAIN items \cup {c.dao : c \in details}
  /\ \/ /\ subject \notin hidden
        /\ Cardinality(downed \cup {subject}) <= MaxTakedowns
        /\ hidden' = hidden \cup {subject}
     \/ subject \in hidden /\ hidden' = hidden \ {subject}
  /\ downed' = downed \cup {subject}
  /\ UNCHANGED <<names, store, communities, own, tids, req>>

Step(r) == \/ ActorExists(r) \/ CreateStore(r) \/ WriteKey(r) \/ Migrate(r)
           \/ LookBeforeCreate(r) \/ WriteCommunity(r)
           \/ Look(r) \/ Check(r) \/ Add(r)
           \/ CheckOwnItem(r) \/ DeleteOwnItem(r)
           \/ Answer(r)

Next == \/ \E r \in Slots : Step(r) \/ Fail(r)
        \/ \E r \in Slots, dao \in Daos :
              \/ Create(r, dao)
              \/ \E user \in Users : \/ Join(r, user, dao)
                                     \/ GetMembership(r, user, dao)
                                     \/ Leave(r, user, dao)
        \/ \E user \in Users, key \in Keys : WriteOwn(user, key)
        \/ \E subject \in Daos \cup Keys : Takedown(subject)

Spec == Init /\ [][Next]_vars

-----------------------------------------------------------------------------
(* Properties                                                              *)

Requests ==
  {Idle, Left}
  \cup [at : {"exists", "create", "key", "migrate", "look", "root", "done"},
        op : {"create"}, dao : Daos]
  \cup [at : {"write"}, op : {"create"}, dao : Daos, tid : 1..tids]
  \cup [at : {"look", "check", "add", "root", "done"}, op : {"join"},
        user : Users, dao : Daos]
  \cup [at : {"look", "check", "done"}, op : {"getMembership"},
        user : Users, dao : Daos, was : BOOLEAN, isMember : BOOLEAN]
  \cup [at : {"own", "drop", "root"}, op : {"leave"},
        user : Users, dao : Daos]

\* The state is well formed; a record key was handed out once, and records
\* lie in a store that has its tables.
TypeOK ==
  /\ prefix \in [Daos -> Prefixes]
  /\ suffix \in [Users -> Suffixes]
  /\ workload \in Workloads
  /\ store \in {"none", "bare", "ready"}
  /\ store # "ready" => details = {} /\ items = <<>>
  /\ details \subseteq [dao : Daos, tid : 1..tids]
  /\ \A c, e \in details : c.tid = e.tid => c = e
  /\ lists \subseteq Prefixes
  /\ DOMAIN items \subseteq Keys
  /\ \A k \in DOMAIN items : items[k] \in [subject : Users, list : Prefixes]
  /\ own \subseteq Users \X Keys
  /\ hidden \subseteq downed
  /\ downed \subseteq Daos \cup Keys /\ Cardinality(downed) <= MaxTakedowns
  /\ tids \in 0..MaxTids
  /\ req \in [Slots -> Requests]

OneCommunityPerList ==
  /\ lists = {prefix[c.dao] : c \in details}
  /\ \A c, e \in details : prefix[c.dao] = prefix[e.dao] => c = e

MembersListed ==
  \A k \in DOMAIN items : /\ items[k].list \in lists
                          /\ k = <<items[k].list, suffix[items[k].subject]>>

\* The service's repository hangs together, whatever creates and joins ran at
\* once or broke off: a community has exactly one details record and one list
\* of its own (create.ts:39-113), and an item is in the list of a community
\* that exists, under the record key of its subject (join.ts:44-69).
CommunitiesConsistent == OneCommunityPerList /\ MembersListed

\* Who was told that a community is there, or that he has joined it, finds the
\* community and an item that names him in its list, although others may have
\* created it, or joined, between the look and the write (create.ts:39-63,
\* join.ts:47-78).  One exception, which join.json:7 does not make: join.ts:49
\* looks for a record key and not for a subject, so with a member whose DID ends
\* alike in the list the user is told that he joined, and is not added.
AnswersHold ==
  \A r \in Slots : At(r, "done") =>
    /\ IsOp(r, "create") => \E c \in details : c.dao = req[r].dao
    /\ IsOp(r, "join") => \/ Named(req[r].user, req[r].dao)
                          \/ Namesake(req[r].user, req[r].dao)

\* getMembership.ts:24-60, two reads with anything between them: "yes" only to
\* one whom an item in the list names, or, against getMembership.json:29, whose
\* DID ends like that of such a one; "no" never to one who was a member all
\* along, unless a record in question was taken down or there are more
\* communities than a lookup reads.
MembershipHolds ==
  \A r \in Slots : At(r, "done") /\ IsOp(r, "getMembership") =>
    LET user == req[r].user
        dao == req[r].dao
    IN  IF req[r].isMember THEN Named(user, dao) \/ Namesake(user, dao)
        ELSE \/ ~req[r].was
             \/ {Key(user, dao), dao} \cap downed # {}
             \/ Cardinality(details) > Limit

\* leave.json: "Removes the requester from the community's member list."  Who
\* has his answer, and was not joining meanwhile, is no longer in the list.
LeftIsNotMember ==
  [][\A r \in Slots :
       (/\ IsOp(r, "leave") /\ ~At(r, "done") /\ req'[r] = Left
        /\ \A s \in Slots : IsOp(s, "join") => At(s, "done"))
       => Key(req[r].user, req[r].dao) \notin DOMAIN items']_vars
=============================================================================
