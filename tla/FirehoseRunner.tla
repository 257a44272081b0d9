--------------------------- MODULE FirehoseRunner ---------------------------
(***************************************************************************)
(* A consumer of subscribeRepos: the Firehose client, which reconnects     *)
(* from its runner's cursor, and the MemoryRunner, which handles events    *)
(* concurrently - serially per account - and keeps a cursor of the last    *)
(* consecutive event finished.                                             *)
(*                                                                         *)
(* The server is EventStream, the abstract specification SubscribeRepos    *)
(* implements.  A cursor older than the server's backfill window is left   *)
(* out (the server announces that loss itself).                            *)
(*                                                                         *)
(* Every event tracked since the process started is an item, in the order  *)
(* of trackEvent.  Both queues are first in, first out and start a task as *)
(* soon as there is room, so where an item stands in them follows from the *)
(* items before it: see Started and Running.                               *)
(***************************************************************************)
EXTENDS Integers, Sequences, FiniteSets

CONSTANTS Dids,         \* accounts
          Concurrency,  \* of the main queue (Infinity by default)
          FirstCursor,  \* startCursor of a service that has stored none yet
          NoCursor,     \* undefined
          MaxSeq,       \* bound: rows ever logged
          MaxFaults     \* bound: disconnections and restarts

ASSUME ConcurrencyAssumption == Concurrency \in Nat \ {0}
ASSUME CursorAssumption == NoCursor \notin Int /\ FirstCursor \in {0, NoCursor}
ASSUME BoundsAssumption == MaxSeq \in Nat /\ MaxFaults \in Nat

VARIABLES
  log,     \* log[q]: the account row q is about
  gone,    \* rows the server purged
  open,    \* the connection, as EventStream has it
  fresh,
  pos,
  asked,   \* the cursor getParams put into the URL of a pending connection
  status,  \* of the client: see below
  items,   \* what runner.trackEvent was given since the process started
  cursor,  \* MemoryRunner.cursor
  stored,  \* what setCursor has persisted
  began,   \* what this service was given begins after this row (history)
  handled, \* rows whose handler finished, in any process (history)
  faults

client == <<asked, status, items, cursor, stored, began, handled, faults>>
server == <<log, gone, open, fresh, pos>>
vars   == <<server, client>>

Me == "firehose"

Stream == INSTANCE EventStream WITH Subs <- {Me}, len <- Len(log)

NotAsked == -1

(***************************************************************************)
(*   up         start() is running                                         *)
(*   ended      start() has returned: the server closed cleanly            *)
(*   stopped    firehose.destroy() has completed                           *)
(*   destroyed  runner.destroy() was called                                *)
(***************************************************************************)
Statuses == {"up", "ended", "stopped", "destroyed"}

(***************************************************************************)
(*   pending    in a queue, or its handler is running                      *)
(*   saving     complete, setCursor has not answered yet                   *)
(*   done       its task has settled                                       *)
(*   dropped    taken out of its partition by destroy()                    *)
(*   cleared    taken out of the main queue by destroy()                   *)
(***************************************************************************)
Item == [seq : 1..Len(log),
         st : {"pending", "saving", "done", "dropped", "cleared"},
         cur : 0..Len(log)]        \* what is being saved, 0 otherwise

Init ==
  /\ log = <<>>
  /\ Stream!Init
  /\ asked = NotAsked
  /\ status = "up"
  /\ items = <<>>
  /\ cursor = FirstCursor
  /\ stored = NoCursor
  /\ began = FirstCursor
  /\ handled = {}
  /\ faults = 0

-----------------------------------------------------------------------------
(* The server                                                              *)

LogRow(d) == /\ Len(log) < MaxSeq
             /\ log' = Append(log, d)
             /\ Stream!LogRow
             /\ UNCHANGED client

Purge(q) == /\ UNCHANGED <<log, client>>
            /\ q \notin gone
            /\ Stream!PurgeRows({q})

-----------------------------------------------------------------------------
(* The runner's queues                                                     *)

HoldingCleared(i) == items[i].st \in {"pending", "saving", "dropped", "cleared"}

\* items that hold a slot of the main queue once started: a task whose
\* partition entry was dropped never settles, so it never gives its slot back
Holding(i) == items[i].st \in {"pending", "saving", "dropped"}

Started(i) == Cardinality({j \in 1..(i - 1) : Holding(j)}) < Concurrency

\* in its partition, of concurrency 1, no earlier event of the account is unfinished
RunningUnpartitioned(i) ==
  /\ i \in 1..Len(items)
  /\ items[i].st = "pending"
  /\ Started(i)

Running(i) ==
  /\ i \in 1..Len(items)
  /\ items[i].st = "pending"
  /\ Started(i)
  /\ \A j \in 1..(i - 1) : log[items[j].seq] = log[items[i].seq] =>
                              items[j].st \notin {"pending", "saving"}

\* ConsecutiveItem.isComplete
Complete(item) == item.st \in {"saving", "done"}

(***************************************************************************)
(* How many items ConsecutiveList has spliced off: n is the length of the  *)
(* longest prefix of complete items.                                       *)
(***************************************************************************)
Spliced(list, n) ==
  /\ n \in 0..Len(list)
  /\ \A i \in 1..n : Complete(list[i])
  /\ n < Len(list) => ~Complete(list[n + 1])

-----------------------------------------------------------------------------
(* The client                                                              *)

(***************************************************************************)
(* Before each connection, and reconnection, getParams asks the runner for *)
(* its cursor ...                                                          *)
(***************************************************************************)
GetParamsForgetful ==
  /\ status = "up" /\ ~open[Me] /\ asked = NotAsked
  /\ asked' = NoCursor
  /\ UNCHANGED <<server, status, items, cursor, stored, began, handled, faults>>

GetParams ==
  /\ status = "up" /\ ~open[Me] /\ asked = NotAsked
  /\ asked' = cursor
  /\ UNCHANGED <<server, status, items, cursor, stored, began, handled, faults>>

(***************************************************************************)
(* ... and the server opens the stream there, or without a cursor wherever *)
(* its live stream is.                                                     *)
(***************************************************************************)
Connect ==
  /\ asked # NotAsked
  /\ \E p \in 0..Len(log) :
        /\ asked \in {p, NoCursor}
        /\ UNCHANGED log /\ Stream!Open(Me, p)
  /\ asked' = NotAsked
  /\ UNCHANGED <<status, items, cursor, stored, began, handled, faults>>

(***************************************************************************)
(* An event arrives: trackEvent pushes it on the consecutive list and into *)
(* the queues.                                                             *)
(***************************************************************************)
Receive(q) ==
  /\ status = "up"
  /\ UNCHANGED log
  /\ Stream!Send(Me, q) \/ Stream!Resend(Me, q)
  /\ items' = Append(items, [seq |-> q, st |-> "pending", cur |-> 0])
  /\ began' = IF began = NoCursor THEN q - 1 ELSE began
  /\ UNCHANGED <<asked, status, cursor, stored, handled, faults>>

(***************************************************************************)
(* The handler of item i finishes (its errors are caught): the item        *)
(* completes, and if that completes the head of the list then the cursor   *)
(* moves to the last consecutive item and setCursor is called.             *)
(***************************************************************************)
FinishUnordered(i) ==
  /\ Running(i)
  /\ handled' = handled \cup {items[i].seq}
  /\ cursor' = items[i].seq
  /\ items' = [items EXCEPT ![i].st = "saving", ![i].cur = items[i].seq]
  /\ UNCHANGED <<server, asked, status, stored, began, faults>>

FinishPast(i) ==
  /\ Running(i)
  /\ handled' = handled \cup {items[i].seq}
  /\ cursor' = items[i].seq + 1
  /\ items' = [items EXCEPT ![i].st = "done"]
  /\ UNCHANGED <<server, asked, status, stored, began, faults>>

Finish(i) ==
  /\ Running(i)
  /\ handled' = handled \cup {items[i].seq}
  /\ LET completed == [items EXCEPT ![i].st = "done"] IN
     \E n \in 0..Len(items) :
        /\ Spliced(completed, n)
        /\ \/ /\ i > n
              /\ items' = completed
              /\ UNCHANGED cursor
           \/ /\ i <= n
              /\ cursor' = items[n].seq
              /\ items' = [items EXCEPT ![i].st = "saving", ![i].cur = items[n].seq]
  /\ UNCHANGED <<server, asked, status, stored, began, faults>>

(***************************************************************************)
(* setCursor answers.  Calls of different partitions overlap and may reach *)
(* the store in any order.  One that fails rejects trackEvent's promise,   *)
(* which nobody awaits; the queues go on.                                  *)
(***************************************************************************)
Settle(i) == /\ i \in 1..Len(items)
             /\ items[i].st = "saving"
             /\ items' = [items EXCEPT ![i].st = "done", ![i].cur = 0]
             /\ UNCHANGED <<server, asked, status, cursor, began, handled, faults>>

Save(i)     == Settle(i) /\ stored' = items[i].cur
SaveFail(i) == Settle(i) /\ UNCHANGED stored

(***************************************************************************)
(* The connection breaks, also before it is established: the client will   *)
(* ask for the cursor again.  What the queues hold stays there.            *)
(***************************************************************************)
Disconnect ==
  /\ open[Me] \/ asked # NotAsked
  /\ faults < MaxFaults
  /\ faults' = faults + 1
  /\ UNCHANGED log /\ Stream!Close({Me})
  /\ asked' = NotAsked
  /\ UNCHANGED <<status, items, cursor, stored, began, handled>>

(***************************************************************************)
(* The server closes with a close frame: the subscription's loop ends      *)
(* without an error, start() returns and nothing reconnects.               *)
(***************************************************************************)
CloseCleanly ==
  /\ open[Me]
  /\ UNCHANGED log /\ Stream!Close({Me})
  /\ status' = "ended"
  /\ UNCHANGED <<asked, items, cursor, stored, began, handled, faults>>

(***************************************************************************)
(* Shutdown: firehose.destroy() aborts the subscription.  It completes     *)
(* only if start() has not returned by then and there is a socket, also a  *)
(* pending one.  An abort between two sockets is missed (see TapChannel):  *)
(* the next loss of a connection then ends it as CloseCleanly does.        *)
(***************************************************************************)
Stop ==
  /\ status = "up"
  /\ open[Me] \/ asked # NotAsked
  /\ status' = "stopped"
  /\ UNCHANGED log /\ Stream!Close({Me})
  /\ asked' = NotAsked
  /\ UNCHANGED <<items, cursor, stored, began, handled, faults>>

(***************************************************************************)
(* ... then runner.destroy() pauses and clears the main queue, and clears  *)
(* every partition's queue.                                                *)
(***************************************************************************)
Destroy ==
  /\ status = "stopped"
  /\ status' = "destroyed"
  /\ items' = [i \in 1..Len(items) |->
                 IF items[i].st # "pending" \/ Running(i) THEN items[i]
                 ELSE [items[i] EXCEPT !.st = IF Started(i) THEN "dropped" ELSE "cleared"]]
  /\ UNCHANGED <<server, asked, cursor, stored, began, handled, faults>>

(***************************************************************************)
(* The process ends, at any moment, and a new one starts from what is      *)
(* stored.                                                                 *)
(***************************************************************************)
Restart ==
  /\ faults < MaxFaults
  /\ faults' = faults + 1
  /\ UNCHANGED log /\ Stream!Close({Me})
  /\ asked' = NotAsked
  /\ status' = "up"
  /\ items' = <<>>
  /\ cursor' = IF stored = NoCursor THEN FirstCursor ELSE stored
  /\ UNCHANGED <<stored, began, handled>>

-----------------------------------------------------------------------------
Next == \/ \E d \in Dids : LogRow(d)
        \/ \E q \in 1..Len(log) : Purge(q) \/ Receive(q)
        \/ \E i \in 1..Len(items) : Finish(i) \/ Save(i) \/ SaveFail(i)
        \/ GetParams
        \/ Connect
        \/ Disconnect
        \/ CloseCleanly
        \/ Stop
        \/ Destroy
        \/ Restart

Spec == Init /\ [][Next]_vars

(***************************************************************************)
(* While handlers or setCursor calls are under way, one of them returns    *)
(* sooner or later; the client reconnects after its backoff and the server *)
(* sends what it has.  Shutdown, once begun, is carried through.  Nothing  *)
(* obliges anyone to begin it, to write rows or to fail.                   *)
(***************************************************************************)
Fairness ==
  /\ WF_vars(GetParams)
  /\ WF_vars(Connect)
  /\ WF_vars(\E q \in 1..Len(log) : Receive(q))
  /\ WF_vars(\E i \in 1..Len(items) : Finish(i) \/ Save(i) \/ SaveFail(i))
  /\ WF_vars(Destroy)

FairSpec == Spec /\ Fairness

-----------------------------------------------------------------------------
(* Properties                                                              *)

Cursor == 0..Len(log) \cup {NoCursor}

TypeOK ==
  /\ log \in Seq(Dids)
  /\ gone \subseteq 1..Len(log)
  /\ open \in [{Me} -> BOOLEAN]
  /\ fresh \in [{Me} -> BOOLEAN]
  /\ pos \in [{Me} -> 0..Len(log)]
  /\ asked \in Cursor \cup {NotAsked}
  /\ status \in Statuses
  /\ items \in Seq(Item)
  /\ cursor \in Cursor
  /\ stored \in Cursor
  /\ began \in Cursor
  /\ handled \subseteq 1..Len(log)
  /\ faults \in 0..MaxFaults

(***************************************************************************)
(* "This ensures that no events are dropped": whatever cursor the client   *)
(* may resume from - the runner's, the persisted one, the one in a pending *)
(* request - every event before it has been handled, or was purged before  *)
(* it could be sent.  Handlers finish in any order, writes of the cursor   *)
(* land in any order, and processes and connections come and go.           *)
(***************************************************************************)
SettledUpTo(c) ==
  c \in Nat /\ began \in Nat => \A q \in (began + 1)..c : q \in handled \cup gone

NoEventDropped == \A c \in {cursor, stored, asked} : SettledUpTo(c)

(***************************************************************************)
(* "events from a given repo must be processed in order": an event is      *)
(* handled for the first time only after every earlier event of its        *)
(* account, whatever was replayed or restarted in between.                 *)
(***************************************************************************)
InOrder ==
  \A q \in handled : \A r \in (began + 1)..(q - 1) :
     log[r] = log[q] => r \in handled \cup gone

(***************************************************************************)
(* Every row is eventually handled, unless it is purged, while the client  *)
(* is up: time and again nothing is left unhandled.  In particular a       *)
(* reconnection never skips what was not finished.                         *)
(***************************************************************************)
EventuallyHandled ==
  []<>(status = "up" => \A q \in 1..Len(log) : q \in handled \cup gone)

(***************************************************************************)
(* runner.destroy() returns once the handlers under way have finished.     *)
(***************************************************************************)
Idle == \A i \in 1..Len(items) : ~Holding(i)

DestroyReturns == []<>(status = "destroyed" => Idle)

(***************************************************************************)
(* It fails to return only for a task it took out of a partition while the *)
(* main queue was waiting for it: never for what it cleared from the main  *)
(* queue, and never for a handler that was running.                        *)
(***************************************************************************)
DestroyReturnsUnlessDropped ==
  []<>(status = "destroyed" => Idle \/ \E i \in 1..Len(items) : items[i].st = "dropped")

(***************************************************************************)
(* The inductive invariant behind NoEventDropped and InOrder: whatever is  *)
(* missing before an item was tracked before it, so a consecutive run of   *)
(* complete items leaves nothing behind; before the stream's position      *)
(* nothing is missing that is not tracked; and what shutdown took out of   *)
(* the queues has nothing of its account left behind it.                   *)
(***************************************************************************)
TrackedBy(q, n) == \E j \in 1..n : items[j].seq = q

Accounted(c, n) == \A q \in (began + 1)..c : q \in handled \cup gone \/ TrackedBy(q, n)

Removed(item) == item.st \in {"dropped", "cleared"}

SameAccount(i, j) == log[items[i].seq] = log[items[j].seq]

RunnerInv ==
  /\ NoEventDropped
  /\ \A i \in 1..Len(items) :
        /\ began \in Nat
        /\ Accounted(items[i].seq, i)
        /\ Complete(items[i]) => items[i].seq \in handled
        /\ SettledUpTo(items[i].cur)
        /\ Removed(items[i]) => status = "destroyed"
  /\ \A j \in 1..Len(items) : \A i \in 1..(j - 1) :
        SameAccount(i, j) /\ Removed(items[i]) => items[j].st # "pending"
  /\ open[Me] /\ began \in Nat => Accounted(pos[Me], Len(items))
  /\ open[Me] => status = "up" /\ asked = NotAsked
  /\ asked # NotAsked => status = "up"
=============================================================================
