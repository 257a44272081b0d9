------------------------- MODULE TokenVotes_proofs -------------------------
(***************************************************************************)
(* Proofs about TokenVotes: types, and that no indexed vote outlives its   *)
(* record.                                                                 *)
(***************************************************************************)
EXTENDS TokenVotes, TLAPS

-----------------------------------------------------------------------------
(* Partial functions                                                       *)

LEMMA PartialType ==
  ASSUME NEW S, NEW T, NEW f
  PROVE  f \in PartialFunctions(S, T) <=> \E D \in SUBSET S : f \in [D -> T]
BY DEF PartialFunctions

LEMMA WithTyped ==
  ASSUME NEW S, NEW T, NEW f \in PartialFunctions(S, T), NEW x \in S, NEW value \in T
  PROVE  With(f, x, value) \in PartialFunctions(S, T)
<1>1. PICK D \in SUBSET S : f \in [D -> T]
  BY PartialType
<1>2. With(f, x, value) \in [D \cup {x} -> T] /\ D \cup {x} \in SUBSET S
  BY <1>1 DEF With
<1>3. QED
  BY <1>2, PartialType

LEMMA WithoutTyped ==
  ASSUME NEW S, NEW T, NEW f \in PartialFunctions(S, T), NEW x
  PROVE  Without(f, x) \in PartialFunctions(S, T)
<1>1. PICK D \in SUBSET S : f \in [D -> T]
  BY PartialType
<1>2. Without(f, x) \in [D \ {x} -> T] /\ D \ {x} \in SUBSET S
  BY <1>1 DEF Without
<1>3. QED
  BY <1>2, PartialType

LEMMA PartialApply ==
  ASSUME NEW S, NEW T, NEW f \in PartialFunctions(S, T), NEW x \in DOMAIN f
  PROVE  x \in S /\ f[x] \in T
BY PartialType

LEMMA PartialGrows ==
  ASSUME NEW S, NEW T, NEW U, T \subseteq U, NEW f \in PartialFunctions(S, T)
  PROVE  f \in PartialFunctions(S, U)
<1>1. PICK D \in SUBSET S : f \in [D -> T]
  BY PartialType
<1>2. f \in [D -> U]
  BY <1>1
<1>3. QED
  BY <1>2, PartialType

LEMMA EmptyIsPartial ==
  ASSUME NEW S, NEW T
  PROVE  <<>> \in PartialFunctions(S, T)
<1>1. <<>> \in [{} -> T] /\ {} \in SUBSET S
  OBVIOUS
<1>2. QED
  BY <1>1, PartialType

-----------------------------------------------------------------------------
(* Records that are written do not change what was written before          *)

LEMMA VersionsGrow ==
  ASSUME versions \in Nat, versions' \in Nat, versions <= versions'
  PROVE  /\ Votes \subseteq Votes' /\ Weighed \subseteq Weighed'
         /\ Weighings \subseteq Weighings' /\ Terms \subseteq Terms'
         /\ Events \subseteq Events'
<1>1. 1..versions \subseteq 1..versions'
  OBVIOUS
<1>2. Votes \subseteq Votes' /\ Weighed \subseteq Weighed' /\ Weighings \subseteq Weighings'
  BY <1>1 DEF Votes, Weighed, Weighings
<1>3. Terms \subseteq Terms'
  BY <1>2 DEF Terms
<1>4. Events \subseteq Events'
  BY <1>2 DEF Events
<1>5. QED
  BY <1>2, <1>3, <1>4

LEMMA HandsGrow ==
  ASSUME Votes \subseteq Votes', Terms \subseteq Terms'
  PROVE  Handling \subseteq Handling' /\ Snapping \subseteq Snapping'
<1>1. Handling \subseteq Handling'
  BY DEF Handling
<1>2. ASSUME NEW f \in PartialFunctions(Uris, Votes)
      PROVE  f \in PartialFunctions(Uris, Votes')
  BY <1>2, PartialGrows
<1>3. Snapping \subseteq Snapping'
  BY <1>2 DEF Snapping
<1>4. QED
  BY <1>1, <1>3

LEMMA NoneIsNoVote ==
  ASSUME versions \in Nat
  PROVE  None \notin Votes
BY NoneAssumption DEF Votes

\* The terms of a sum are of votes that were written
LEMMA SumsTyped ==
  ASSUME TypeOK, NEW s \in Subjects
  PROVE  Sums(s) \in Terms
<1>1. ASSUME NEW u \in DOMAIN votes PROVE u \in Uris /\ Weight(u) \in Weighings
  <2>1. u \in Uris /\ votes[u] \in Votes
    BY PartialApply DEF TypeOK
  <2>2. CASE u \in DOMAIN weights
    <3>1. weights[u] \in Weighed
      BY <2>2, PartialApply DEF TypeOK
    <3>2. QED
      BY <2>1, <2>2, <3>1 DEF Weight, Weighings
  <2>3. CASE u \notin DOMAIN weights
    BY <2>1, <2>3 DEF Weight, Weighings, Votes
  <2>4. QED
    BY <2>2, <2>3
<1>2. QED
  BY <1>1 DEF Sums, Terms

-----------------------------------------------------------------------------
(* Types                                                                   *)

LEMMA SameTypes ==
  ASSUME UNCHANGED versions
  PROVE  /\ Votes' = Votes /\ Weighed' = Weighed /\ Weighings' = Weighings
         /\ Terms' = Terms /\ Events' = Events
         /\ Handling' = Handling /\ Snapping' = Snapping
BY DEF Votes, Weighed, Weighings, Terms, Events, Handling, Snapping

\* What the handler has in its hands, by stage
LEMMA HandlerShape ==
  ASSUME TypeOK, handler.at # "idle"
  PROVE  /\ handler \in Handling /\ handler # Idle
         /\ handler.uri \in Uris /\ handler.uri[1] \in Voters
         /\ handler.at = "delete" => handler.vote = None
         /\ handler.at # "delete" => handler.vote \in Votes
         /\ handler.at = "send" => handler.sums \in Terms
         /\ handler.at \in {"insert", "refuse", "seed", "push"} =>
              handler \in [at : {"insert", "refuse", "seed", "push"}, uri : Uris, vote : Votes]
         /\ inbox[handler.uri[1]] # <<>>
         /\ Head(inbox[handler.uri[1]]) = [uri |-> handler.uri, vote |-> handler.vote]
<1>1. handler # Idle
  BY DEF Idle
<1>2. handler \in Handling
  BY <1>1 DEF TypeOK
<1>3. QED
  BY <1>1, <1>2, UrisAssumption DEF TypeOK, Handling

LEMMA TailTyped ==
  ASSUME NEW S, NEW q \in Seq(S), q # <<>>
  PROVE  /\ Tail(q) \in Seq(S) /\ Len(Tail(q)) = Len(q) - 1 /\ Len(q) \in Nat \ {0}
         /\ \A n \in 1..(Len(q) - 1) : Tail(q)[n] = q[n + 1]
         /\ Head(q) = q[1]
OBVIOUS

LEMMA ReturnTyped ==
  ASSUME TypeOK, Return, handler.at # "idle", feed' \in [Subjects -> Terms], UNCHANGED snap,
         votes' \in PartialFunctions(Uris, Votes), UNCHANGED weights
  PROVE  TypeOK'
<1>1. UNCHANGED versions /\ handler' = Idle /\ UNCHANGED repo
  BY DEF Return
<1>2. inbox' \in [Voters -> Seq(Events)]
  <2> DEFINE v == handler.uri[1]
  <2>1. v \in Voters /\ inbox \in [Voters -> Seq(Events)] /\ inbox[v] # <<>>
    BY HandlerShape DEF TypeOK
  <2>2. Tail(inbox[v]) \in Seq(Events)
    BY <2>1, TailTyped
  <2>3. QED
    BY <2>1, <2>2 DEF Return
<1>3. ASSUME NEW v \in Voters, NEW n \in DOMAIN inbox'[v]
      PROVE  inbox'[v][n].uri[1] = v
  <2>1. CASE inbox' = inbox
    BY <1>3, <2>1 DEF TypeOK
  <2>2. CASE inbox' = [inbox EXCEPT ![handler.uri[1]] = Tail(@)]
    <3>1. CASE v # handler.uri[1]
      BY <1>3, <2>2, <3>1 DEF TypeOK
    <3>2. CASE v = handler.uri[1]
      <4>1. inbox'[v] = Tail(inbox[v]) /\ inbox[v] \in Seq(Events) /\ inbox[v] # <<>>
        BY <2>2, <3>2, HandlerShape DEF TypeOK
      <4>2. n \in 1..(Len(inbox[v]) - 1) /\ n + 1 \in DOMAIN inbox[v]
        BY <1>3, <4>1, TailTyped
      <4>3. inbox'[v][n] = inbox[v][n + 1]
        BY <4>1, <4>2, TailTyped
      <4>4. QED
        BY <4>2, <4>3 DEF TypeOK
    <3>3. QED
      BY <3>1, <3>2
  <2>3. QED
    BY <2>1, <2>2 DEF Return
<1>4. faults' \in Nat
  BY DEF Return, Fault, TypeOK
<1>5. QED
  BY <1>1, <1>2, <1>3, <1>4, SameTypes DEF TypeOK

\* A step of the handler that keeps the event it has in hand
LEMMA StageTyped ==
  ASSUME TypeOK, handler.at # "idle", handler' \in Handling,
         handler'.uri = handler.uri, handler'.vote = handler.vote,
         UNCHANGED <<network, snap, feed>>, faults' \in Nat,
         votes' \in PartialFunctions(Uris, Votes), weights' \in PartialFunctions(Uris, Weighed)
  PROVE  TypeOK'
BY HandlerShape, SameTypes DEF TypeOK, network

LEMMA FaultTyped == TypeOK /\ Fault => faults' \in Nat
BY DEF TypeOK, Fault

LEMMA HandleTyped ==
  ASSUME TypeOK, Handle \/ SeedFails \/ HandlerFails
  PROVE  TypeOK'
<1>1. CASE Refuse
  BY <1>1, ReturnTyped DEF Refuse, database, TypeOK
<1>2. CASE Insert
  <2>1. handler' \in Handling /\ handler'.uri = handler.uri /\ handler'.vote = handler.vote
    BY <1>2, HandlerShape DEF Insert, Handling
  <2>2. votes' \in PartialFunctions(Uris, Votes)
    BY <1>2, HandlerShape, WithTyped DEF Insert, TypeOK
  <2>3. QED
    BY <1>2, <2>1, <2>2, StageTyped DEF Insert, TypeOK
<1>3. CASE Seed
  <2>1. handler' \in Handling /\ handler'.uri = handler.uri /\ handler'.vote = handler.vote
    BY <1>3, HandlerShape DEF Seed, Push, Handling
  <2>2. [of |-> handler.vote.ver, kind |-> "seed"] \in Weighed
    BY <1>3, HandlerShape DEF Seed, Weighed, Votes
  <2>3. weights' \in PartialFunctions(Uris, Weighed)
    BY <1>3, <2>2, HandlerShape, WithTyped DEF Seed, Weigh, TypeOK
  <2>4. QED
    BY <1>3, <2>1, <2>3, StageTyped DEF Seed, TypeOK
<1>4. CASE SeedFails
  <2>1. handler' \in Handling /\ handler'.uri = handler.uri /\ handler'.vote = handler.vote
    BY <1>4, HandlerShape DEF SeedFails, Push, Handling
  <2>2. QED
    BY <1>4, <2>1, StageTyped, FaultTyped DEF SeedFails, database, TypeOK
<1>5. CASE ReadSums
  <2>1. handler.vote.subject \in Subjects
    BY <1>5, HandlerShape DEF ReadSums, Votes
  <2>2. Sums(handler.vote.subject) \in Terms
    BY <2>1, SumsTyped
  <2>3. handler' \in Handling /\ handler'.uri = handler.uri /\ handler'.vote = handler.vote
    BY <1>5, <2>2, HandlerShape DEF ReadSums, Handling
  <2>4. QED
    BY <1>5, <2>3, StageTyped DEF ReadSums, database, TypeOK
<1>6. CASE UpdateWeight
  <2>1. handler.vote.subject \in Subjects /\ handler.sums \in Terms
    BY <1>6, HandlerShape DEF UpdateWeight, Votes
  <2>2. feed' \in [Subjects -> Terms]
    BY <1>6, <2>1 DEF UpdateWeight, TypeOK
  <2>3. QED
    BY <1>6, <2>2, ReturnTyped DEF UpdateWeight, database, TypeOK
<1>7. CASE UpdateWeightFails
  BY <1>7, ReturnTyped DEF UpdateWeightFails, database, TypeOK
<1>8. CASE DeleteVote
  <2>1. votes' \in PartialFunctions(Uris, Votes)
    BY <1>8, WithoutTyped DEF DeleteVote, TypeOK
  <2>2. QED
    BY <1>8, <2>1, ReturnTyped DEF DeleteVote, TypeOK
<1>9. CASE HandlerFails
  <2>1. faults' \in Nat
    BY <1>9, FaultTyped DEF HandlerFails
  <2>2. QED
    BY <1>9, <2>1, SameTypes DEF HandlerFails, network, database, TypeOK
<1>10. QED
  BY <1>1, <1>2, <1>3, <1>4, <1>5, <1>6, <1>7, <1>8, <1>9 DEF Handle

LEMMA HappensTyped ==
  ASSUME TypeOK, NEW u \in Uris, versions' \in Nat, versions <= versions',
         NEW vote \in Votes' \cup {None}, Happens(u, vote)
  PROVE  TypeOK'
<1> DEFINE v == u[1]
           e == [uri |-> u, vote |-> vote]
<1>1. /\ Votes \subseteq Votes' /\ Weighed \subseteq Weighed' /\ Terms \subseteq Terms'
      /\ Events \subseteq Events' /\ Handling \subseteq Handling' /\ Snapping \subseteq Snapping'
  BY VersionsGrow, HandsGrow DEF TypeOK
<1>2. repo' \in [Uris -> Votes' \cup {None}]
  BY <1>1 DEF Happens, TypeOK
<1>3. v \in Voters /\ e \in Events'
  BY UrisAssumption DEF Events
<1>4. inbox \in [Voters -> Seq(Events')]
  <2>1. ASSUME NEW w \in Voters PROVE inbox[w] \in Seq(Events')
    BY <1>1 DEF TypeOK
  <2>2. QED
    BY <2>1 DEF TypeOK
<1>5. inbox' = [inbox EXCEPT ![v] = Append(@, e)]
  BY DEF Happens
<1>6. inbox' \in [Voters -> Seq(Events')]
  BY <1>3, <1>4, <1>5
<1>7. ASSUME NEW w \in Voters, NEW n \in DOMAIN inbox'[w] PROVE inbox'[w][n].uri[1] = w
  <2>1. CASE w # v
    BY <1>4, <1>5, <1>7, <2>1 DEF TypeOK
  <2>2. CASE w = v
    <3>1. inbox'[w] = Append(inbox[w], e) /\ inbox[w] \in Seq(Events)
      BY <1>4, <1>5, <2>2 DEF TypeOK
    <3>2. CASE n = Len(inbox[w]) + 1
      BY <2>2, <3>1, <3>2
    <3>3. CASE n # Len(inbox[w]) + 1
      <4>1. n \in DOMAIN inbox[w] /\ inbox'[w][n] = inbox[w][n]
        BY <1>7, <3>1, <3>3
      <4>2. QED
        BY <4>1 DEF TypeOK
    <3>4. QED
      BY <3>2, <3>3
  <2>3. QED
    BY <2>1, <2>2
<1>8. votes \in PartialFunctions(Uris, Votes') /\ weights \in PartialFunctions(Uris, Weighed')
  BY <1>1, PartialGrows DEF TypeOK
<1>9. handler # Idle =>
        /\ inbox'[handler.uri[1]] # <<>>
        /\ Head(inbox'[handler.uri[1]]) = Head(inbox[handler.uri[1]])
  <2>1. SUFFICES ASSUME handler # Idle, handler.uri[1] = v
                 PROVE  /\ inbox'[v] # <<>> /\ Head(inbox'[v]) = Head(inbox[v])
    BY <1>3, <1>5 DEF TypeOK
  <2>2. inbox[v] \in Seq(Events') /\ inbox[v] # <<>> /\ inbox'[v] = Append(inbox[v], e)
    BY <1>3, <1>4, <1>5, <2>1 DEF TypeOK
  <2>3. QED
    BY <1>3, <2>2
<1>10. feed \in [Subjects -> Terms']
  BY <1>1 DEF TypeOK
<1>11. QED
  BY <1>1, <1>2, <1>6, <1>7, <1>8, <1>9, <1>10 DEF Happens, database, TypeOK

LEMMA VotersTyped ==
  ASSUME TypeOK, NEW u \in Uris, Remove(u) \/ \E s \in Subjects : Publish(u, s)
  PROVE  TypeOK'
<1>1. CASE Remove(u)
  BY <1>1, HappensTyped DEF Remove, TypeOK
<1>2. CASE \E s \in Subjects : Publish(u, s)
  <2>1. PICK s \in Subjects : Publish(u, s)
    BY <1>2
  <2>2. [ver |-> versions + 1, subject |-> s] \in Votes' /\ versions' = versions + 1
    BY <2>1 DEF Publish, Votes, TypeOK
  <2>3. QED
    BY <2>1, <2>2, HappensTyped DEF Publish, TypeOK
<1>3. QED
  BY <1>1, <1>2

LEMMA ReceiveTyped ==
  ASSUME TypeOK, NEW v \in Voters, Receive(v)
  PROVE  TypeOK'
<1> DEFINE e == inbox[v][1]
<1>1. inbox[v] # <<>> /\ inbox[v] \in Seq(Events) /\ 1 \in DOMAIN inbox[v] /\ Head(inbox[v]) = e
  BY DEF Receive, TypeOK
<1>2. e \in Events /\ e.uri[1] = v
  BY <1>1 DEF TypeOK
<1>3. \E stage \in IF e.vote = None THEN {"delete"} ELSE {"insert", "refuse"} :
        handler' = [at |-> stage, uri |-> e.uri, vote |-> e.vote]
  BY <1>1 DEF Receive
<1>4. handler' \in Handling /\ handler'.uri = e.uri /\ handler'.vote = e.vote
  BY <1>2, <1>3 DEF Handling, Events
<1>5. [uri |-> e.uri, vote |-> e.vote] = e
  BY <1>2 DEF Events
<1>6. UNCHANGED <<network, database, snap, feed, faults>>
  BY DEF Receive
<1>7. QED
  BY <1>1, <1>2, <1>4, <1>5, <1>6, SameTypes DEF network, database, TypeOK

LEMMA SnapShape ==
  ASSUME TypeOK, snap.at # "idle"
  PROVE  /\ snap.pairs \in SUBSET Subjects
         /\ snap.at = "weigh" =>
              snap \in [at : {"weigh"}, todo : PartialFunctions(Uris, Votes), pairs : SUBSET Subjects]
         /\ snap.at = "send" => snap.subject \in Subjects /\ snap.sums \in Terms
<1>1. snap \in Snapping
  BY DEF TypeOK, Idle
<1>2. QED
  BY <1>1 DEF Snapping

LEMMA SnapStepTyped ==
  ASSUME TypeOK, snap' \in Snapping \cup {Idle}, UNCHANGED <<network, votes, handler, faults>>,
         weights' \in PartialFunctions(Uris, Weighed), feed' \in [Subjects -> Terms]
  PROVE  TypeOK'
BY SameTypes DEF TypeOK, network

LEMMA SnapshotTyped ==
  ASSUME TypeOK, Snapshot
  PROVE  TypeOK'
<1>1. CASE RunSnapshot
  <2>1. snap' \in Snapping
    BY <1>1 DEF RunSnapshot, Snapping, TypeOK
  <2>2. QED
    BY <1>1, <2>1, SnapStepTyped DEF RunSnapshot, database, TypeOK
<1>2. ASSUME NEW u \in Uris, SkipVote(u) PROVE TypeOK'
  <2>1. Without(snap.todo, u) \in PartialFunctions(Uris, Votes)
    BY <1>2, SnapShape, WithoutTyped DEF SkipVote
  <2>2. snap' \in Snapping
    BY <1>2, <2>1, SnapShape DEF SkipVote, Snapping
  <2>3. QED
    BY <1>2, <2>2, SnapStepTyped DEF SkipVote, database, TypeOK
<1>3. ASSUME NEW u \in Uris, WeighVote(u) PROVE TypeOK'
  <2>1. snap.todo \in PartialFunctions(Uris, Votes) /\ u \in DOMAIN snap.todo
    BY <1>3, SnapShape DEF WeighVote
  <2>2. snap.todo[u] \in Votes /\ Without(snap.todo, u) \in PartialFunctions(Uris, Votes)
    BY <2>1, PartialApply, WithoutTyped
  <2>3. snap' \in Snapping
    BY <1>3, <2>2, SnapShape DEF WeighVote, Snapping, Votes
  <2>4. [of |-> snap.todo[u].ver, kind |-> "held"] \in Weighed
    BY <2>2 DEF Votes, Weighed
  <2>5. weights' \in PartialFunctions(Uris, Weighed)
    BY <1>3, <2>4, WithTyped DEF WeighVote, Weigh, TypeOK
  <2>6. QED
    BY <1>3, <2>3, <2>5, SnapStepTyped DEF WeighVote, TypeOK
<1>4. ASSUME NEW s \in Subjects, ReadPair(s) PROVE TypeOK'
  <2>1. Sums(s) \in Terms
    BY SumsTyped
  <2>2. snap' \in Snapping
    BY <1>4, <2>1, SnapShape DEF ReadPair, Snapping
  <2>3. QED
    BY <1>4, <2>2, SnapStepTyped DEF ReadPair, database, TypeOK
<1>5. CASE SendPair
  <2>1. snap' \in Snapping
    BY <1>5, SnapShape DEF SendPair, Snapping
  <2>2. feed' \in [Subjects -> Terms]
    BY <1>5, SnapShape DEF SendPair, TypeOK
  <2>3. QED
    BY <1>5, <2>1, <2>2, SnapStepTyped DEF SendPair, database, TypeOK
<1>6. CASE SendPairFails
  <2>1. snap' \in Snapping
    BY <1>6, SnapShape DEF SendPairFails, Snapping
  <2>2. QED
    BY <1>6, <2>1, SnapStepTyped DEF SendPairFails, database, TypeOK
<1>7. CASE EndSnapshot
  BY <1>7, SnapStepTyped DEF EndSnapshot, database, TypeOK
<1>8. QED
  BY <1>1, <1>2, <1>3, <1>4, <1>5, <1>6, <1>7 DEF Snapshot

LEMMA TypeStep == TypeOK /\ [Next]_vars => TypeOK'
<1> SUFFICES ASSUME TypeOK, [Next]_vars PROVE TypeOK'
  OBVIOUS
<1>1. CASE UNCHANGED vars
  BY <1>1, SameTypes DEF vars, network, database, TypeOK
<1>2. CASE Restart
  BY <1>2, FaultTyped, SameTypes DEF Restart, network, database, TypeOK
<1>3. CASE FeedGenRestart
  <2>1. feed' \in [Subjects -> Terms]
    BY <1>3 DEF FeedGenRestart, Terms
  <2>2. QED
    BY <1>3, <2>1, FaultTyped, SameTypes DEF FeedGenRestart, network, database, TypeOK
<1>4. QED
  BY <1>1, <1>2, <1>3, VotersTyped, ReceiveTyped, HandleTyped, SnapshotTyped DEF Next

LEMMA TypeInit == Init => TypeOK
<1> SUFFICES ASSUME Init PROVE TypeOK
  OBVIOUS
<1>1. votes \in PartialFunctions(Uris, Votes) /\ weights \in PartialFunctions(Uris, Weighed)
  BY EmptyIsPartial DEF Init
<1>2. feed \in [Subjects -> Terms]
  BY DEF Init, Terms
<1>3. QED
  BY <1>1, <1>2 DEF Init, TypeOK

(***************************************************************************)
(* Every variable keeps its type, and what the handler works on is the     *)
(* first event of its voter that tap knows to be unhandled, for any number *)
(* of voters, records, subjects and faults.                                *)
(***************************************************************************)
THEOREM TypeCorrect == Spec => []TypeOK
BY TypeInit, TypeStep, PTL DEF Spec

-----------------------------------------------------------------------------
(* No vote outlives its record                                             *)

\* In the inboxes q, the deletion of u comes behind place n
Behind(q, u, n) == \E m \in DOMAIN q[u[1]] : m > n /\ q[u[1]][m] = [uri |-> u, vote |-> None]

(***************************************************************************)
(* A vote that is still to be handled is of a record that exists, or its   *)
(* deletion comes behind it.                                               *)
(***************************************************************************)
EventsInv ==
  \A v \in Voters : \A n \in DOMAIN inbox[v] :
    inbox[v][n].vote # None =>
      repo[inbox[v][n].uri] # None \/ Behind(inbox, inbox[v][n].uri, n)

VInv == EventsInv /\ NoVoteOutlivesItsRecord

LEMMA DeletedIsBehind ==
  ASSUME TypeOK, NEW u \in Uris
  PROVE  Deleted(u) <=> Behind(inbox, u, 0)
<1>1. inbox[u[1]] \in Seq(Events)
  BY UrisAssumption DEF TypeOK
<1>2. \A n \in DOMAIN inbox[u[1]] : n > 0
  BY <1>1
<1>3. QED
  BY <1>2 DEF Deleted, Behind

LEMMA InboxTyped ==
  ASSUME TypeOK, NEW v \in Voters, NEW n \in DOMAIN inbox[v]
  PROVE  /\ inbox[v] \in Seq(Events) /\ n \in 1..Len(inbox[v])
         /\ inbox[v][n].uri \in Uris /\ inbox[v][n].uri[1] = v
<1>1. inbox[v] \in Seq(Events) /\ inbox[v][n].uri[1] = v
  BY DEF TypeOK
<1>2. n \in 1..Len(inbox[v]) /\ inbox[v][n] \in Events
  BY <1>1
<1>3. QED
  BY <1>1, <1>2 DEF Events

\* A record is written or removed
LEMMA HappensKept ==
  ASSUME TypeOK, TypeOK', VInv, NEW u \in Uris, NEW vote, Happens(u, vote)
  PROVE  VInv'
<1> DEFINE v == u[1]
           e == [uri |-> u, vote |-> vote]
<1>1. v \in Voters
  BY UrisAssumption
<1>2. inbox' = [inbox EXCEPT ![v] = Append(@, e)]
  BY DEF Happens
<1>3. /\ inbox[v] \in Seq(Events) /\ Len(inbox[v]) \in Nat
      /\ DOMAIN inbox[v] = 1..Len(inbox[v]) /\ DOMAIN inbox'[v] = 1..(Len(inbox[v]) + 1)
      /\ inbox'[v][Len(inbox[v]) + 1] = e
      /\ \A n \in DOMAIN inbox[v] : inbox'[v][n] = inbox[v][n]
  BY <1>1, <1>2 DEF TypeOK
<1>4. \A w \in Voters : w # v => inbox'[w] = inbox[w]
  BY <1>2 DEF TypeOK
<1>5. repo' = [repo EXCEPT ![u] = vote] /\ repo'[u] = vote
  BY DEF Happens, TypeOK
<1>6. ASSUME NEW x \in Uris, NEW n \in Nat, Behind(inbox, x, n) PROVE Behind(inbox', x, n)
  <2>1. CASE x[1] = v
    BY <1>3, <1>6, <2>1 DEF Behind
  <2>2. CASE x[1] # v
    BY <1>4, <1>6, <2>2, UrisAssumption DEF Behind
  <2>3. QED
    BY <2>1, <2>2
<1>7. ASSUME NEW x \in Uris, NEW n \in Nat,
             x[1] = v => n <= Len(inbox[v]),
             repo[x] # None \/ Behind(inbox, x, n)
      PROVE  repo'[x] # None \/ Behind(inbox', x, n)
  <2>1. CASE Behind(inbox, x, n)
    BY <1>6, <1>7, <2>1
  <2>2. CASE x # u
    BY <1>5, <1>6, <1>7, <2>2 DEF TypeOK
  <2>3. CASE x = u /\ vote = None
    BY <1>3, <1>7, <2>3 DEF Behind
  <2>4. CASE x = u /\ vote # None
    BY <1>5, <2>4
  <2>5. QED
    BY <2>1, <2>2, <2>3, <2>4
<1>8. EventsInv'
  <2> SUFFICES ASSUME NEW w \in Voters, NEW n \in DOMAIN inbox'[w], inbox'[w][n].vote # None
               PROVE  repo'[inbox'[w][n].uri] # None \/ Behind(inbox', inbox'[w][n].uri, n)
    BY DEF EventsInv, Behind
  <2>1. CASE n \in DOMAIN inbox[w]
    <3>1. inbox'[w][n] = inbox[w][n]
      BY <1>3, <1>4, <2>1
    <3>2. repo[inbox[w][n].uri] # None \/ Behind(inbox, inbox[w][n].uri, n)
      BY <2>1, <3>1 DEF VInv, EventsInv
    <3>3. /\ inbox[w][n].uri \in Uris /\ inbox[w][n].uri[1] = w
          /\ n \in 1..Len(inbox[w]) /\ inbox[w] \in Seq(Events)
      BY <2>1, InboxTyped
    <3>4. QED
      BY <1>7, <3>1, <3>2, <3>3
  <2>2. CASE n \notin DOMAIN inbox[w]
    <3>1. w = v /\ inbox'[w][n] = e
      BY <1>3, <1>4, <2>2
    <3>2. QED
      BY <1>5, <3>1
  <2>3. QED
    BY <2>1, <2>2
<1>9. NoVoteOutlivesItsRecord'
  <2>1. votes' = votes
    BY DEF Happens, database
  <2>2. ASSUME NEW x \in DOMAIN votes PROVE repo'[x] # None \/ Deleted(x)'
    <3>1. x \in Uris
      BY PartialApply DEF TypeOK
    <3>2. repo[x] # None \/ Behind(inbox, x, 0)
      BY <3>1, DeletedIsBehind DEF VInv, NoVoteOutlivesItsRecord
    <3>3. repo'[x] # None \/ Behind(inbox', x, 0)
      BY <1>3, <1>7, <3>1, <3>2
    <3>4. Behind(inbox', x, 0) => Deleted(x)'
      BY DEF Deleted, Behind
    <3>5. QED
      BY <3>3, <3>4
  <2>3. QED
    BY <2>1, <2>2 DEF NoVoteOutlivesItsRecord
<1>10. QED
  BY <1>8, <1>9 DEF VInv

\* The first event of a voter is handled
LEMMA ReturnKept ==
  ASSUME TypeOK, VInv, Return, handler.at # "idle",
         \A u \in DOMAIN votes' : u \in DOMAIN votes /\ (handler.vote = None => u # handler.uri)
  PROVE  VInv'
<1> DEFINE v == handler.uri[1]
<1>1. /\ v \in Voters /\ handler.uri \in Uris
      /\ inbox[v] \in Seq(Events) /\ inbox[v] # <<>> /\ inbox \in [Voters -> Seq(Events)]
      /\ inbox[v][1] = [uri |-> handler.uri, vote |-> handler.vote]
  BY HandlerShape DEF TypeOK
<1>2. repo' = repo
  BY DEF Return
<1>3. CASE inbox' = inbox
  BY <1>2, <1>3 DEF VInv, EventsInv, NoVoteOutlivesItsRecord, Deleted, Behind
<1>4. CASE inbox' = [inbox EXCEPT ![v] = Tail(@)]
  <2>1. /\ inbox'[v] = Tail(inbox[v]) /\ Len(inbox[v]) \in Nat \ {0}
        /\ DOMAIN inbox[v] = 1..Len(inbox[v]) /\ DOMAIN inbox'[v] = 1..(Len(inbox[v]) - 1)
        /\ \A n \in 1..(Len(inbox[v]) - 1) : inbox'[v][n] = inbox[v][n + 1]
    BY <1>1, <1>4, TailTyped
  <2>2. \A w \in Voters : w # v => inbox'[w] = inbox[w]
    BY <1>1, <1>4
  <2>3. ASSUME NEW x \in Uris, NEW n \in Nat, x[1] = v, n >= 1, Behind(inbox, x, n)
        PROVE  Behind(inbox', x, n - 1)
    <3>1. PICK m \in DOMAIN inbox[v] : m > n /\ inbox[v][m] = [uri |-> x, vote |-> None]
      BY <2>3 DEF Behind
    <3>2. m - 1 \in DOMAIN inbox'[v] /\ m - 1 > n - 1
          /\ inbox'[v][m - 1] = [uri |-> x, vote |-> None]
      BY <2>1, <2>3, <3>1
    <3>3. QED
      BY <2>3, <3>2 DEF Behind
  <2>4. ASSUME NEW x \in Uris, NEW n, x[1] # v, Behind(inbox, x, n) PROVE Behind(inbox', x, n)
    BY <2>2, <2>4, UrisAssumption DEF Behind
  <2>5. EventsInv'
    <3> SUFFICES ASSUME NEW w \in Voters, NEW n \in DOMAIN inbox'[w], inbox'[w][n].vote # None
                 PROVE  repo'[inbox'[w][n].uri] # None \/ Behind(inbox', inbox'[w][n].uri, n)
      BY DEF EventsInv, Behind
    <3>1. CASE w # v
      <4>1. inbox'[w] = inbox[w]
        BY <2>2, <3>1
      <4>2. inbox[w][n].uri \in Uris /\ inbox[w][n].uri[1] # v
        BY <3>1, <4>1, InboxTyped
      <4>3. repo[inbox[w][n].uri] # None \/ Behind(inbox, inbox[w][n].uri, n)
        BY <4>1 DEF VInv, EventsInv
      <4>4. QED
        BY <1>2, <2>4, <4>1, <4>2, <4>3
    <3>2. CASE w = v
      <4>1. n + 1 \in DOMAIN inbox[v] /\ inbox'[w][n] = inbox[v][n + 1] /\ n \in Nat
        <5> DEFINE k == Len(inbox[v])
        <5>1. n \in 1..(k - 1) /\ k \in Nat
          BY <2>1, <3>2
        <5>2. n \in Nat /\ n + 1 \in 1..k
          BY <5>1
        <5>3. QED
          BY <2>1, <3>2, <5>1, <5>2
      <4>2. inbox[v][n + 1].uri \in Uris /\ inbox[v][n + 1].uri[1] = v
        BY <1>1, <4>1, InboxTyped
      <4>3. repo[inbox[v][n + 1].uri] # None \/ Behind(inbox, inbox[v][n + 1].uri, n + 1)
        BY <1>1, <4>1 DEF VInv, EventsInv
      <4>4. (n + 1) - 1 = n /\ n + 1 >= 1 /\ n + 1 \in Nat
        BY <4>1
      <4>5. Behind(inbox, inbox[v][n + 1].uri, n + 1) => Behind(inbox', inbox[v][n + 1].uri, n)
        BY <2>3, <4>2, <4>4
      <4>6. QED
        BY <1>2, <4>1, <4>3, <4>5
    <3>3. QED
      BY <3>1, <3>2
  <2>6. NoVoteOutlivesItsRecord'
    <3>1. ASSUME NEW x \in DOMAIN votes' PROVE repo'[x] # None \/ Deleted(x)'
      <4>1. x \in DOMAIN votes /\ x \in Uris
        BY PartialApply DEF TypeOK
      <4>2. repo[x] # None \/ Deleted(x)
        BY <4>1 DEF VInv, NoVoteOutlivesItsRecord
      <4>3. CASE Deleted(x)
        <5>1. PICK m \in DOMAIN inbox[x[1]] : inbox[x[1]][m] = [uri |-> x, vote |-> None]
          BY <4>3 DEF Deleted
        <5>2. CASE x[1] # v
          BY <2>2, <4>1, <5>1, <5>2, UrisAssumption DEF Deleted
        <5>3. CASE x[1] = v
          <6>1. m # 1
            BY <1>1, <3>1, <5>1, <5>3
          <6>2. m - 1 \in DOMAIN inbox'[v] /\ inbox'[v][m - 1] = [uri |-> x, vote |-> None]
            <7> DEFINE k == Len(inbox[v])
            <7>1. m \in 1..k /\ k \in Nat
              BY <2>1, <5>1, <5>3
            <7>2. m - 1 \in 1..(k - 1) /\ (m - 1) + 1 = m
              BY <6>1, <7>1
            <7>3. QED
              BY <2>1, <5>1, <5>3, <7>2
          <6>3. QED
            BY <5>3, <6>2 DEF Deleted
        <5>4. QED
          BY <5>2, <5>3
      <4>4. QED
        BY <1>2, <4>2, <4>3
    <3>2. QED
      BY <3>1 DEF NoVoteOutlivesItsRecord
  <2>7. QED
    BY <2>5, <2>6 DEF VInv
<1>5. QED
  BY <1>3, <1>4 DEF Return

\* Steps that leave the network alone and index nothing new
LEMMA QuietKept ==
  ASSUME VInv, UNCHANGED <<repo, inbox>>, UNCHANGED votes
  PROVE  VInv'
BY DEF VInv, EventsInv, NoVoteOutlivesItsRecord, Deleted, Behind

LEMMA InsertKept ==
  ASSUME TypeOK, VInv, Insert
  PROVE  VInv'
<1> DEFINE u == handler.uri
<1>1. /\ u \in Uris /\ u[1] \in Voters /\ handler.vote \in Votes /\ inbox[u[1]] # <<>>
      /\ inbox[u[1]] \in Seq(Events)
      /\ inbox[u[1]][1] = [uri |-> u, vote |-> handler.vote] /\ 1 \in DOMAIN inbox[u[1]]
  BY HandlerShape DEF Insert, TypeOK
<1>2. handler.vote # None
  BY <1>1, NoneIsNoVote DEF TypeOK
<1>3. repo[u] # None \/ Behind(inbox, u, 1)
  BY <1>1, <1>2 DEF VInv, EventsInv
<1>4. repo[u] # None \/ Deleted(u)
  BY <1>3 DEF Behind, Deleted
<1>5. \A x \in DOMAIN votes' : x \in DOMAIN votes \/ x = u
  BY DEF Insert, With
<1>6. UNCHANGED <<repo, inbox>>
  BY DEF Insert, network
<1>7. QED
  BY <1>4, <1>5, <1>6 DEF VInv, EventsInv, NoVoteOutlivesItsRecord, Deleted, Behind

LEMMA VStep == TypeOK /\ TypeOK' /\ VInv /\ [Next]_vars => VInv'
<1> SUFFICES ASSUME TypeOK, TypeOK', VInv, [Next]_vars PROVE VInv'
  OBVIOUS
<1>1. ASSUME NEW u \in Uris, Remove(u) \/ \E s \in Subjects : Publish(u, s) PROVE VInv'
  BY <1>1, HappensKept DEF Remove, Publish
<1>2. CASE Insert
  BY <1>2, InsertKept
<1>3. CASE Refuse
  <2>1. handler.vote # None /\ handler.at # "idle"
    BY <1>3, HandlerShape, NoneIsNoVote DEF Refuse, TypeOK
  <2>2. QED
    BY <1>3, <2>1, ReturnKept DEF Refuse, database
<1>4. CASE UpdateWeight \/ UpdateWeightFails
  <2>1. handler.vote # None /\ handler.at # "idle"
    BY <1>4, HandlerShape, NoneIsNoVote DEF UpdateWeight, UpdateWeightFails, TypeOK
  <2>2. QED
    BY <1>4, <2>1, ReturnKept DEF UpdateWeight, UpdateWeightFails, database
<1>5. CASE DeleteVote
  <2>1. \A u \in DOMAIN votes' : u \in DOMAIN votes /\ u # handler.uri
    BY <1>5 DEF DeleteVote, Without
  <2>2. QED
    BY <1>5, <2>1, ReturnKept DEF DeleteVote
<1>6. CASE Seed \/ SeedFails \/ ReadSums \/ HandlerFails
  BY <1>6, QuietKept DEF Seed, SeedFails, ReadSums, HandlerFails, network, database
<1>7. CASE Snapshot
  BY <1>7, QuietKept
     DEF Snapshot, RunSnapshot, SkipVote, WeighVote, ReadPair, SendPair, SendPairFails, EndSnapshot,
         network, database
<1>8. ASSUME NEW v \in Voters, Receive(v) PROVE VInv'
  BY <1>8, QuietKept DEF Receive, network, database
<1>9. CASE Restart \/ FeedGenRestart \/ UNCHANGED vars
  BY <1>9, QuietKept DEF Restart, FeedGenRestart, vars, network, database
<1>10. QED
  BY <1>1, <1>2, <1>3, <1>4, <1>5, <1>6, <1>7, <1>8, <1>9 DEF Next, Handle

(***************************************************************************)
(* tap-consumer.ts:26-47: whatever is delivered again, fails half-way or   *)
(* is cut off by a restart, an indexed vote has its record, or the         *)
(* deletion of it is still to be handled.                                  *)
(***************************************************************************)
THEOREM NoVoteOutlives == Spec => []NoVoteOutlivesItsRecord
<1>1. Init => VInv
  BY DEF Init, VInv, EventsInv, NoVoteOutlivesItsRecord
<1>2. TypeOK /\ VInv /\ [Next]_vars => TypeOK' /\ VInv'
  BY TypeStep, VStep
<1>3. VInv => NoVoteOutlivesItsRecord
  BY DEF VInv
<1>4. QED
  BY <1>1, <1>2, <1>3, TypeInit, PTL DEF Spec
=============================================================================
