----------------------------- MODULE TokenVotes -----------------------------
(***************************************************************************)
(* The token vote appview and the feed generator it feeds.                 *)
(*                                                                         *)
(* Votes are records in their voters' repositories.  Tap delivers what     *)
(* happens to them, at least once and in order for each voter (see         *)
(* TapDelivery), to a handler that indexes votes, seeds their weight and   *)
(* pushes the sums of a subject to the feed generator.  Once a day a       *)
(* snapshot weighs every vote again and pushes too.  Handler and snapshot  *)
(* run in one process and interleave at every await.                       *)
(*                                                                         *)
(* Amounts are abstracted to what a weight was made from: the vote it was  *)
(* computed for, and whether it is the seed of a new vote ("seed", 0), was *)
(* weighed by a snapshot ("held"), or is the claim itself ("claimed").     *)
(* A sum is the set of its terms.  There is one token contract.            *)
(***************************************************************************)
EXTENDS Integers, Sequences

CONSTANTS Voters,      \* repositories
          Uris,        \* records: <<voter, rkey>>
          Subjects,
          None,
          MaxVersions, \* bound: votes ever written
          MaxFaults    \* bound: restarts, lost acks and failures of the handler

ASSUME UrisAssumption == \A u \in Uris : u[1] \in Voters
ASSUME NoneAssumption == None \notin [ver : Nat, subject : Subjects]
ASSUME BoundsAssumption == MaxVersions \in Nat /\ MaxFaults \in Nat

VARIABLES
  repo,     \* the record at each uri
  versions, \* records ever written
  inbox,    \* for each voter, events that tap knows to be unhandled
  votes,    \* token_vote: uri -> vote
  weights,  \* token_vote_weight: the newest row of each uri
  handler,  \* the tap handler
  snap,     \* the snapshot
  feed,     \* the feed generator's postWeights
  faults

network == <<repo, versions, inbox>>
database == <<votes, weights>>
vars == <<network, database, handler, snap, feed, faults>>

Idle == [at |-> "idle"]

Init ==
  /\ repo = [u \in Uris |-> None]
  /\ versions = 0
  /\ inbox = [v \in Voters |-> <<>>]
  /\ votes = <<>> /\ weights = <<>>
  /\ handler = Idle /\ snap = Idle
  /\ feed = [s \in Subjects |-> {}]
  /\ faults = 0

Without(f, x) == [y \in DOMAIN f \ {x} |-> f[y]]

With(f, x, value) == [y \in DOMAIN f \cup {x} |-> IF y = x THEN value ELSE f[y]]

-----------------------------------------------------------------------------
(* The voters and tap                                                      *)

Happens(u, vote) ==
  /\ repo' = [repo EXCEPT ![u] = vote]
  /\ inbox' = [inbox EXCEPT ![u[1]] = Append(@, [uri |-> u, vote |-> vote])]
  /\ UNCHANGED <<database, handler, snap, feed, faults>>

\* A record is created, or updated
Publish(u, subject) == /\ versions < MaxVersions
                       /\ versions' = versions + 1
                       /\ Happens(u, [ver |-> versions + 1, subject |-> subject])

Remove(u) == /\ repo[u] # None
             /\ Happens(u, None)
             /\ UNCHANGED versions

-----------------------------------------------------------------------------
(* The sums of a subject                                                   *)

\* COALESCE(w.effective_weight, v.claimed_amount)
Weight(u) == IF u \in DOMAIN weights
             THEN weights[u]
             ELSE [of |-> votes[u].ver, kind |-> "claimed"]

Sums(s) == {[uri |-> u, weight |-> Weight(u)] : u \in {w \in DOMAIN votes : votes[w].subject = s}}

\* INSERT ... ON CONFLICT DO UPDATE of the row of the day, which is the newest
Weigh(u, weight) == weights' = With(weights, u, weight)

-----------------------------------------------------------------------------
(* The handler: processVote and deleteVote                                 *)

Fault == faults < MaxFaults /\ faults' = faults + 1

\* Mutant: what happened last is handled first
ReceiveNewest(v) ==
  /\ handler.at = "idle" /\ inbox[v] # <<>>
  /\ LET event == inbox[v][Len(inbox[v])] IN
     \E stage \in IF event.vote = None THEN {"delete"} ELSE {"insert", "refuse"} :
       handler' = [at |-> stage, uri |-> event.uri, vote |-> event.vote]
  /\ UNCHANGED <<network, database, snap, feed, faults>>

(***************************************************************************)
(* The next event of a voter, up to the first write.  A vote with an       *)
(* invalid signature or too small a balance is refused; a balance that     *)
(* cannot be read refuses nothing.                                         *)
(***************************************************************************)
Receive(v) ==
  /\ handler.at = "idle" /\ inbox[v] # <<>>
  /\ LET event == Head(inbox[v]) IN
     \E stage \in IF event.vote = None THEN {"delete"} ELSE {"insert", "refuse"} :
       handler' = [at |-> stage, uri |-> event.uri, vote |-> event.vote]
  /\ UNCHANGED <<network, database, snap, feed, faults>>

\* The handler returns.  If the acknowledgement is lost, tap sends the event again.
Return ==
  /\ handler' = Idle
  /\ \/ inbox' = [inbox EXCEPT ![handler.uri[1]] = Tail(@)] /\ UNCHANGED faults
     \/ Fault /\ UNCHANGED inbox
  /\ UNCHANGED <<repo, versions>>

\* UNIQUE constraints: the uri, and the voter with the subject
Duplicate(u, vote) ==
  \/ u \in DOMAIN votes
  \/ \E w \in DOMAIN votes : w[1] = u[1] /\ votes[w].subject = vote.subject

Refuse == /\ \/ handler.at = "refuse"
             \/ handler.at = "insert" /\ Duplicate(handler.uri, handler.vote)
          /\ Return
          /\ UNCHANGED <<database, snap, feed>>

Insert ==
  /\ handler.at = "insert" /\ ~Duplicate(handler.uri, handler.vote)
  /\ votes' = With(votes, handler.uri, handler.vote)
  /\ handler' = [handler EXCEPT !.at = "seed"]
  /\ UNCHANGED <<network, weights, snap, feed, faults>>

Push == handler' = [handler EXCEPT !.at = "push"]

\* holdingMultiplier(0)
Seed == /\ handler.at = "seed"
        /\ Weigh(handler.uri, [of |-> handler.vote.ver, kind |-> "seed"])
        /\ Push
        /\ UNCHANGED <<network, votes, snap, feed, faults>>

\* Errors are logged, and the sums are pushed
SeedFails == /\ handler.at = "seed"
             /\ Push /\ Fault
             /\ UNCHANGED <<network, database, snap, feed>>

ReadSums == /\ handler.at = "push"
            /\ handler' = [at |-> "send", uri |-> handler.uri, vote |-> handler.vote,
                           sums |-> Sums(handler.vote.subject)]
            /\ UNCHANGED <<network, database, snap, feed, faults>>

\* The request of updateWeight, whose errors are swallowed
UpdateWeight == /\ handler.at = "send"
                /\ feed' = [feed EXCEPT ![handler.vote.subject] = handler.sums]
                /\ Return
                /\ UNCHANGED <<database, snap>>

UpdateWeightFails == /\ handler.at = "send"
                     /\ Return
                     /\ UNCHANGED <<database, snap, feed>>

\* Its weights stay
DeleteVote == /\ handler.at = "delete"
              /\ votes' = Without(votes, handler.uri)
              /\ Return
              /\ UNCHANGED <<weights, snap, feed>>

\* Mutant: errors of the database are logged
HandlerFailsQuietly == /\ handler.at \in {"insert", "delete"}
                       /\ handler' = Idle
                       /\ inbox' = [inbox EXCEPT ![handler.uri[1]] = Tail(@)]
                       /\ Fault
                       /\ UNCHANGED <<repo, versions, database, snap, feed>>

\* The database refuses: the handler throws, and the event is not acknowledged
HandlerFails == /\ handler.at \in {"insert", "delete"}
                /\ handler' = Idle
                /\ Fault
                /\ UNCHANGED <<network, database, snap, feed>>

-----------------------------------------------------------------------------
(* The snapshot                                                            *)

(***************************************************************************)
(* Midnight.  todo: the votes as they were read.  A snapshot, and a seed,  *)
(* is taken to end before the next midnight: every row that is written is  *)
(* then the newest of its vote.                                            *)
(***************************************************************************)
RunSnapshot == /\ snap.at = "idle"
               /\ snap' = [at |-> "weigh", todo |-> votes, pairs |-> {}]
               /\ UNCHANGED <<network, database, handler, feed, faults>>

\* Mutant: subjects are pushed only when a weight has changed
WeighVoteChanged(u) ==
  /\ snap.at = "weigh" /\ u \in DOMAIN snap.todo
  /\ Weigh(u, [of |-> snap.todo[u].ver, kind |-> "held"])
  /\ snap' = [snap EXCEPT !.todo = Without(@, u),
                          !.pairs = IF weights' = weights THEN @ ELSE @ \cup {snap.todo[u].subject}]
  /\ UNCHANGED <<network, votes, handler, feed, faults>>

\* One vote, after its calls to the chain, by the row that was read at the start
WeighVote(u) ==
  /\ snap.at = "weigh" /\ u \in DOMAIN snap.todo
  /\ Weigh(u, [of |-> snap.todo[u].ver, kind |-> "held"])
  /\ snap' = [snap EXCEPT !.todo = Without(@, u), !.pairs = @ \cup {snap.todo[u].subject}]
  /\ UNCHANGED <<network, votes, handler, feed, faults>>

\* The balance cannot be read, or the row not written
SkipVote(u) == /\ snap.at = "weigh" /\ u \in DOMAIN snap.todo
               /\ snap' = [snap EXCEPT !.todo = Without(@, u)]
               /\ UNCHANGED <<network, database, handler, feed, faults>>

\* affectedPairs
ReadPair(s) ==
  /\ snap.at \in {"weigh", "push"}
  /\ snap.at = "weigh" => snap.todo = <<>>
  /\ s \in snap.pairs
  /\ snap' = [at |-> "send", pairs |-> snap.pairs \ {s}, subject |-> s, sums |-> Sums(s)]
  /\ UNCHANGED <<network, database, handler, feed, faults>>

SendPair == /\ snap.at = "send"
            /\ feed' = [feed EXCEPT ![snap.subject] = snap.sums]
            /\ snap' = [at |-> "push", pairs |-> snap.pairs]
            /\ UNCHANGED <<network, database, handler, faults>>

SendPairFails == /\ snap.at = "send"
                 /\ snap' = [at |-> "push", pairs |-> snap.pairs]
                 /\ UNCHANGED <<network, database, handler, feed, faults>>

EndSnapshot == /\ \/ snap.at = "weigh" /\ snap.todo = <<>>
                  \/ snap.at = "push"
               /\ snap.pairs = {}
               /\ snap' = Idle
               /\ UNCHANGED <<network, database, handler, feed, faults>>

Restart == /\ handler # Idle \/ snap # Idle
           /\ handler' = Idle /\ snap' = Idle
           /\ Fault
           /\ UNCHANGED <<network, database, feed>>

\* postWeights is a Map in memory
FeedGenRestart == /\ feed' = [s \in Subjects |-> {}]
                  /\ feed # feed'
                  /\ Fault
                  /\ UNCHANGED <<network, database, handler, snap>>

-----------------------------------------------------------------------------

Handle == \/ Refuse \/ Insert \/ Seed \/ ReadSums \/ UpdateWeight \/ UpdateWeightFails
          \/ DeleteVote

Snapshot == \/ RunSnapshot
            \/ \E u \in Uris : SkipVote(u) \/ WeighVote(u)
            \/ \E s \in Subjects : ReadPair(s)
            \/ SendPair \/ SendPairFails \/ EndSnapshot

Next == \/ \E u \in Uris : Remove(u) \/ \E s \in Subjects : Publish(u, s)
        \/ \E v \in Voters : Receive(v)
        \/ Handle
        \/ SeedFails \/ HandlerFails
        \/ Snapshot
        \/ Restart \/ FeedGenRestart

(***************************************************************************)
(* Tap delivers, the handler and the snapshot go on, and cron fires; calls *)
(* to the chain and to the feed generator that are repeated day after day  *)
(* do not fail every time.                                                 *)
(***************************************************************************)
Fairness ==
  /\ \A v \in Voters : SF_vars(Receive(v))
  /\ WF_vars(Handle)
  /\ WF_vars(Snapshot)
  /\ \A u \in Uris : SF_vars(WeighVote(u))
  /\ \A s \in Subjects : SF_vars(SendPair /\ snap.subject = s)

Spec == Init /\ [][Next]_vars

FairSpec == Spec /\ Fairness

-----------------------------------------------------------------------------
(* Properties                                                              *)

Votes == [ver : 1..versions, subject : Subjects]

PartialFunctions(S, T) == UNION {[D -> T] : D \in SUBSET S}

Weighed == [of : 1..versions, kind : {"seed", "held"}]

Weighings == Weighed \cup [of : 1..versions, kind : {"claimed"}]

Terms == SUBSET [uri : Uris, weight : Weighings]

Events == [uri : Uris, vote : Votes \cup {None}]

Handling == [at : {"delete"}, uri : Uris, vote : {None}]
            \cup [at : {"insert", "refuse", "seed", "push"}, uri : Uris, vote : Votes]
            \cup [at : {"send"}, uri : Uris, vote : Votes, sums : Terms]

Snapping == [at : {"weigh"}, todo : PartialFunctions(Uris, Votes), pairs : SUBSET Subjects]
            \cup [at : {"push"}, pairs : SUBSET Subjects]
            \cup [at : {"send"}, pairs : SUBSET Subjects, subject : Subjects, sums : Terms]

\* The state is well formed; weights and sums are of votes that were written,
\* and what the handler has in hand is the first unhandled event of its voter.
TypeOK ==
  /\ repo \in [Uris -> Votes \cup {None}]
  /\ versions \in Nat
  /\ inbox \in [Voters -> Seq(Events)]
  /\ \A v \in Voters : \A n \in DOMAIN inbox[v] : inbox[v][n].uri[1] = v
  /\ votes \in PartialFunctions(Uris, Votes)
  /\ weights \in PartialFunctions(Uris, Weighed)
  /\ handler \in Handling \cup {Idle}
  /\ handler # Idle =>
       /\ inbox[handler.uri[1]] # <<>>
       /\ Head(inbox[handler.uri[1]]) = [uri |-> handler.uri, vote |-> handler.vote]
  /\ snap \in Snapping \cup {Idle}
  /\ feed \in [Subjects -> Terms]
  /\ faults \in Nat

Deleted(u) == \E n \in DOMAIN inbox[u[1]] : inbox[u[1]][n] = [uri |-> u, vote |-> None]

\* tap-consumer.ts:26-47: an indexed vote is a vote in its voter's repository,
\* or its deletion is still to be handled, whatever was delivered twice, failed
\* half-way or was overtaken by a restart.
NoVoteOutlivesItsRecord == \A u \in DOMAIN votes : repo[u] # None \/ Deleted(u)

\* "The daily snapshot corrects it": while a subject has a vote, what the feed
\* generator has of it comes to be the sums of the votes that are indexed, each
\* with a weight of its own and none with its claim, although pushes overtake
\* each other, snapshots write on votes that have been deleted and written
\* again meanwhile, seeds overwrite them, and either service restarts.
FeedCatchesUp ==
  \A s \in Subjects :
    <>[](\E u \in DOMAIN votes : votes[u].subject = s) =>
      []<>(/\ feed[s] = Sums(s)
           /\ \A term \in feed[s] : /\ term.weight.of = votes[term.uri].ver
                                    /\ term.weight.kind # "claimed")
=============================================================================
