----------------------------- MODULE TapChannel -----------------------------
(***************************************************************************)
(* A TapChannel: events arrive over a websocket, one at a time they are    *)
(* given to a handler, and the handler acknowledges them.  An ack that     *)
(* finds the connection gone waits in a buffer that is flushed when the    *)
(* connection is back.  Reconnecting is the work of an asynchronous        *)
(* generator (WebSocketKeepAlive), so it happens only while start() is     *)
(* waiting for its next event.                                             *)
(*                                                                         *)
(* The server is tap, which is not part of this repository: it sends the   *)
(* first unacknowledged event of each repository, and may send it again.   *)
(***************************************************************************)
EXTENDS Integers, Sequences, FiniteSets

CONSTANTS Dids,       \* repositories
          Handlers,   \* the handlers to consider: see awaits
          MaxLog,     \* bound: events ever published
          MaxPipe,    \* bound: frames between the server and the handler
          MaxFaults   \* bound: losses, failures and restarts

ASSUME HandlersAssumption == Handlers \subseteq BOOLEAN
ASSUME BoundsAssumption == MaxLog \in Nat /\ MaxPipe \in Nat /\ MaxFaults \in Nat

VARIABLES
  log,      \* log[n]: the repository event n is about
  acked,    \* events whose ack the server has received
  conn,     \* the websocket: see Conns
  pipe,     \* frames under way, in the socket or in the stream's queue
  acks,     \* acks written to the socket and not yet received
  work,     \* the event processWsEvent is at, see Stages
  sends,    \* acks whose write has not answered yet
  buffered, \* TapChannel.bufferedAcks
  flushing, \* flushBufferedAcks is in its loop
  setup,    \* WebSocketKeepAlive.initialSetup
  abort,    \* destroy() was called: see Aborts
  running,  \* start() has not returned
  awaits,   \* whether the handler awaits ack(), as SimpleIndexer and LexIndexer do
  done,     \* done[d]: the event of d whose handler finished last (history)
  faults

server == <<log, acked>>
socket == <<conn, pipe, acks, setup>>
channel == <<work, sends, buffered, flushing, abort, running, awaits>>
vars == <<server, socket, channel, done, faults>>

(***************************************************************************)
(*   none        no socket yet                                             *)
(*   connecting  new WebSocket()                                           *)
(*   open        readyState is OPEN                                        *)
(*   dead        readyState is OPEN, but the other side is gone            *)
(*   lost        closed abnormally: the stream is destroyed with an error  *)
(*   closed      closed by the server's close frame                        *)
(***************************************************************************)
Conns == {"none", "connecting", "open", "dead", "lost", "closed"}

isConnected == conn \in {"open", "dead"}

(***************************************************************************)
(* idle: the generator is resumed and start() waits for the next event.    *)
(* In the other stages it is suspended at its yield.                       *)
(***************************************************************************)
Stages == {"idle", "handling", "acking"}

Idle == [evt |-> 0, st |-> "idle"]

Pulled == running /\ work = Idle

(***************************************************************************)
(* no       destroy() was not called                                       *)
(* heard    the stream has been destroyed                                  *)
(* missed   there was no stream to destroy: forwardSignal aborts the       *)
(*          controller of the next socket before anything listens to it    *)
(***************************************************************************)
Aborts == {"no", "heard", "missed"}

Live == abort # "heard"

Fault == faults < MaxFaults /\ faults' = faults + 1

Init ==
  /\ log = <<>> /\ acked = {}
  /\ conn = "none" /\ pipe = <<>> /\ acks = {} /\ setup = TRUE
  /\ work = Idle /\ sends = {} /\ buffered = <<>> /\ flushing = FALSE
  /\ abort = "no" /\ running = TRUE
  /\ awaits \in Handlers
  /\ done = [d \in Dids |-> 0]
  /\ faults = 0

-----------------------------------------------------------------------------
(* The server                                                              *)

Publish(d) == /\ Len(log) < MaxLog
              /\ log' = Append(log, d)
              /\ UNCHANGED <<acked, socket, channel, done, faults>>

FirstUnacked(n) == /\ n \notin acked
                   /\ \A m \in 1..(n - 1) : log[m] = log[n] => m \in acked

\* a stream that was destroyed no longer listens
Send(n) == /\ conn = "open" /\ Live
           /\ FirstUnacked(n)
           /\ Len(pipe) < MaxPipe
           /\ pipe' = Append(pipe, n)
           /\ UNCHANGED <<server, conn, acks, setup, channel, done, faults>>

AckArrives(n) == /\ conn = "open"
                 /\ n \in acks
                 /\ acks' = acks \ {n}
                 /\ acked' = acked \cup {n}
                 /\ UNCHANGED <<log, conn, pipe, setup, channel, done, faults>>

-----------------------------------------------------------------------------
(* The connection                                                          *)

(***************************************************************************)
(* The generator starts, or learns that its stream is gone, backs off and  *)
(* opens a socket.  The old socket has failed its writes long before.      *)
(***************************************************************************)
Connect == /\ Pulled /\ Live
           /\ conn \in {"none", "lost"}
           /\ sends = {} /\ ~flushing
           /\ conn' = "connecting"
           /\ UNCHANGED <<server, pipe, acks, setup, channel, done, faults>>

OpenUnflushed ==
  /\ conn = "connecting" /\ Pulled /\ Live
  /\ conn' = "open"
  /\ setup' = FALSE
  /\ UNCHANGED <<server, pipe, acks, channel, done, faults>>

\* on any open but the first, onReconnect() starts a flush
Open ==
  /\ conn = "connecting" /\ Pulled /\ Live
  /\ conn' = "open"
  /\ setup' = FALSE
  /\ flushing' = (~setup /\ buffered # <<>>)
  /\ UNCHANGED <<server, pipe, acks, work, sends, buffered, abort, running,
                 awaits, done, faults>>

\* a network error: isReconnectable, so the loop continues
ConnectFails ==
  /\ conn = "connecting" /\ Fault
  /\ conn' = "none"
  /\ UNCHANGED <<server, pipe, acks, setup, channel, done>>

\* any other error ends start()
Refused ==
  /\ conn = "connecting" /\ Fault
  /\ conn' = "none"
  /\ running' = FALSE
  /\ UNCHANGED <<server, pipe, acks, setup, work, sends, buffered, flushing,
                 abort, awaits, done>>

(***************************************************************************)
(* An abnormal close aborts the controller of the socket, which destroys   *)
(* the stream and what it had queued.  One that is aborted already hears   *)
(* nothing, and the stream ends as after a clean close.                    *)
(***************************************************************************)
Drop == /\ \/ abort # "missed" /\ conn' = "lost" /\ pipe' = <<>>
           \/ abort = "missed" /\ conn' = "closed" /\ UNCHANGED pipe
        /\ acks' = {}
        /\ UNCHANGED <<server, setup, channel, done>>

Lose == conn = "open" /\ Fault /\ Drop

\* the other side goes silent: acks can still be written, and go nowhere
Silence == /\ conn = "open" /\ Fault
           /\ conn' = "dead"
           /\ acks' = {}
           /\ UNCHANGED <<server, pipe, setup, channel, done>>

HeartbeatForgotten == conn = "none" /\ Drop /\ UNCHANGED faults

\* no pong within the interval: ws.terminate()
Heartbeat == conn = "dead" /\ Drop /\ UNCHANGED faults

\* the server's close frame ends the stream after what is queued in it
CloseCleanly == /\ conn = "open" /\ Fault
                /\ conn' = "closed"
                /\ acks' = {}
                /\ UNCHANGED <<server, pipe, setup, channel, done>>

EndStart == /\ Pulled /\ Live
            /\ conn = "closed" /\ pipe = <<>>
            /\ running' = FALSE
            /\ UNCHANGED <<server, socket, work, sends, buffered, flushing, abort,
                           awaits, done, faults>>

-----------------------------------------------------------------------------
(* Events and acks                                                         *)

Deliver == /\ Pulled /\ Live
           /\ pipe # <<>>
           /\ work' = [evt |-> Head(pipe), st |-> "handling"]
           /\ pipe' = Tail(pipe)
           /\ UNCHANGED <<server, conn, acks, setup, sends, buffered, flushing,
                          abort, running, awaits, done, faults>>

\* an ack that names where to resume, as a cursor would
AckEventNext(n) == IF isConnected
                   THEN sends' = sends \cup {n + 1} /\ UNCHANGED buffered
                   ELSE buffered' = Append(buffered, n + 1) /\ UNCHANGED sends

\* ackEvent: a write if the socket looks open, else into the buffer
AckEvent(n) == IF isConnected
               THEN sends' = sends \cup {n} /\ UNCHANGED buffered
               ELSE buffered' = Append(buffered, n) /\ UNCHANGED sends

(***************************************************************************)
(* onEvent: the handler has done its work and calls ack().                 *)
(***************************************************************************)
Handle == LET n == work.evt IN
  /\ work.st = "handling"
  /\ done' = [done EXCEPT ![log[n]] = n]
  /\ AckEvent(n)
  /\ work' = IF awaits THEN [work EXCEPT !.st = "acking"] ELSE Idle
  /\ UNCHANGED <<server, socket, flushing, abort, running, awaits, faults>>

HandlerFailsAcking ==
  /\ work.st = "handling" /\ Fault
  /\ AckEvent(work.evt)
  /\ work' = Idle
  /\ UNCHANGED <<server, socket, flushing, abort, running, awaits, done>>

\* "Don't ack on error - let Tap retry"
HandlerFails ==
  /\ work.st = "handling" /\ Fault
  /\ work' = Idle
  /\ UNCHANGED <<server, socket, sends, buffered, flushing, abort, running,
                 awaits, done>>

Written(n) == acks' = IF conn = "open" THEN acks \cup {n} ELSE acks

\* sendAck answers ...
Sent(n) == /\ n \in sends /\ isConnected
           /\ sends' = sends \ {n}
           /\ Written(n)
           /\ UNCHANGED <<server, conn, pipe, setup, work, buffered, flushing, abort,
                          running, awaits, done, faults>>

\* ... or throws, because the connection broke meanwhile
SendFails(n) == /\ n \in sends /\ ~isConnected
                /\ sends' = sends \ {n}
                /\ buffered' = Append(buffered, n)
                /\ UNCHANGED <<server, socket, work, flushing, abort, running, awaits,
                               done, faults>>

\* the promise an awaiting handler waits for has resolved
Acked == /\ work.st = "acking"
         /\ work.evt \notin sends
         /\ \A i \in DOMAIN buffered : buffered[i] # work.evt
         /\ work' = Idle
         /\ UNCHANGED <<server, socket, sends, buffered, flushing, abort, running,
                        awaits, done, faults>>

(***************************************************************************)
(* flushBufferedAcks: the first ack is written, resolved and taken off the *)
(* buffer, until the buffer is empty or a write fails.                     *)
(***************************************************************************)
Flush == /\ flushing /\ isConnected
         /\ Written(Head(buffered))
         /\ buffered' = Tail(buffered)
         /\ flushing' = (Len(buffered) > 1)
         /\ UNCHANGED <<server, conn, pipe, setup, work, sends, abort, running,
                        awaits, done, faults>>

FlushFails == /\ flushing /\ ~isConnected
              /\ flushing' = FALSE
              /\ UNCHANGED <<server, socket, work, sends, buffered, abort, running,
                             awaits, done, faults>>

-----------------------------------------------------------------------------
(* Shutdown and restart                                                    *)

\* destroy() aborts: the stream is destroyed, if there is one; the socket stays
Destroy == /\ running /\ abort = "no"
           /\ abort' = IF conn \in {"none", "lost"} THEN "missed" ELSE "heard"
           /\ pipe' = <<>>
           /\ UNCHANGED <<server, conn, acks, setup, work, sends, buffered, flushing,
                          running, awaits, done, faults>>

AbortIgnored == /\ Pulled /\ abort = "heard" /\ conn = "open"
                /\ running' = FALSE
                /\ conn' = "closed"
                /\ acks' = {}
                /\ UNCHANGED <<server, pipe, setup, work, sends, buffered, flushing,
                               abort, awaits, done, faults>>

\* once resumed, the generator closes the socket and throws: start() returns
Abort == /\ Pulled /\ abort = "heard"
         /\ running' = FALSE
         /\ conn' = "closed"
         /\ acks' = {}
         /\ UNCHANGED <<server, pipe, setup, work, sends, buffered, flushing, abort,
                        awaits, done, faults>>

\* the process ends, at any moment, and a new one makes a new channel
Restart ==
  /\ Fault
  /\ conn' = "none" /\ pipe' = <<>> /\ acks' = {} /\ setup' = TRUE
  /\ work' = Idle /\ sends' = {} /\ buffered' = <<>> /\ flushing' = FALSE
  /\ abort' = "no" /\ running' = TRUE
  /\ UNCHANGED <<server, awaits, done>>

-----------------------------------------------------------------------------
Next == \/ \E d \in Dids : Publish(d)
        \/ \E n \in 1..Len(log) : \/ Send(n) \/ AckArrives(n)
                                  \/ Sent(n) \/ SendFails(n)
        \/ Connect \/ Open \/ ConnectFails \/ Refused
        \/ Lose \/ Silence \/ Heartbeat \/ CloseCleanly \/ EndStart
        \/ Deliver \/ Handle \/ HandlerFails \/ Acked
        \/ Flush \/ FlushFails
        \/ Destroy \/ Abort
        \/ Restart

Spec == Init /\ [][Next]_vars

(***************************************************************************)
(* The server is reachable after a finite number of faults and retries     *)
(* what is not acknowledged; sockets report what happens to them; the      *)
(* handler returns.  Nothing obliges anyone to publish, to call destroy()  *)
(* or to fail.                                                             *)
(***************************************************************************)
Fairness ==
  /\ WF_vars(Connect \/ Open)
  /\ WF_vars(Deliver)
  /\ WF_vars(Handle)
  /\ WF_vars(Acked)
  /\ WF_vars(Flush \/ FlushFails)
  /\ WF_vars(Heartbeat)
  /\ WF_vars(EndStart \/ Abort)
  /\ \A n \in 1..MaxLog : /\ WF_vars(n \in 1..Len(log) /\ Send(n))
                          /\ WF_vars(AckArrives(n))
                          /\ WF_vars(Sent(n) \/ SendFails(n))

FairSpec == Spec /\ Fairness

-----------------------------------------------------------------------------
(* Properties                                                              *)

Events == 1..Len(log)

TypeOK ==
  /\ log \in Seq(Dids)
  /\ acked \subseteq Events /\ acks \subseteq Events /\ sends \subseteq Events
  /\ conn \in Conns
  /\ pipe \in Seq(Events) /\ buffered \in Seq(Events)
  /\ work \in [evt : Events, st : {"handling", "acking"}] \cup {Idle}
  /\ {setup, flushing, running, awaits} \subseteq BOOLEAN
  /\ abort \in Aborts
  /\ done \in [Dids -> 0..Len(log)]
  /\ faults \in 0..MaxFaults

(***************************************************************************)
(* "At-least-once delivery ... per-repo ordering": through losses,         *)
(* replays, failing handlers and restarts, the handlers of a repository's  *)
(* events finish in order, none is handled again after a later one, and    *)
(* the server never takes an event for handled that was not.               *)
(***************************************************************************)
Delivery == INSTANCE TapDelivery

ImplementsTapDelivery == Delivery!Spec

(***************************************************************************)
(* Why: an ack exists only for what was handled, whatever is on its way to *)
(* the handler has nothing unacknowledged before it in its repository, and *)
(* the frames of a repository are in order behind what was handled last.   *)
(***************************************************************************)
Before(n) == {m \in 1..(n - 1) : log[m] = log[n]}

Settled(n) == Before(n) \subseteq acked /\ done[log[n]] <= n

InOrder(m, n) == log[m] = log[n] => m <= n

Handled(n) == n <= done[log[n]]

AcksInv ==
  /\ \A n \in acked \cup acks \cup sends : Handled(n)
  /\ \A i \in DOMAIN buffered : Handled(buffered[i])
  /\ work.st = "acking" => Handled(work.evt)

OrderInv ==
  /\ work # Idle => Settled(work.evt)
  /\ \A i \in DOMAIN pipe : /\ Settled(pipe[i])
                            /\ work # Idle => InOrder(work.evt, pipe[i])
                            /\ \A j \in 1..(i - 1) : InOrder(pipe[j], pipe[i])
  /\ \A d \in Dids : done[d] # 0 => log[done[d]] = d /\ Before(done[d]) \subseteq acked

\* A flush has something to write
FlushInv == flushing => buffered # <<>>

TapInv == AcksInv /\ OrderInv /\ FlushInv

(***************************************************************************)
(* A handler that does not await ack() holds nothing up: as long as        *)
(* start() runs, every event is acknowledged in the end - in particular a  *)
(* connection that died silently is noticed, and lost acks and failed      *)
(* handlers make the server send the event again.                          *)
(***************************************************************************)
EventuallyAcked == []<>(running /\ ~awaits /\ abort = "no" => acked = Events)

(***************************************************************************)
(* "resolves after the ack has been actually sent": it does resolve.       *)
(***************************************************************************)
AcksResolve == []<>(running /\ abort = "no" => buffered = <<>> /\ sends = {})

(***************************************************************************)
(* The same, for a handler that does not wait for it.                      *)
(***************************************************************************)
LooseAcksResolve ==
  []<>(running /\ ~awaits /\ abort = "no" => buffered = <<>> /\ sends = {})

(***************************************************************************)
(* channel.destroy() returns: it waits for start() to return, which is     *)
(* prevented by a handler waiting for an ack in the buffer, and by an      *)
(* abort that was missed for as long as the server keeps the connection.   *)
(* Nothing else holds it up: not the acks in flight, a failing flush, a    *)
(* dead connection or frames that were still to be handled.                *)
(***************************************************************************)
DestroyReturns ==
  []<>(abort # "no" => \/ ~running
                       \/ work.st = "acking" /\ \E i \in DOMAIN buffered : buffered[i] = work.evt
                       \/ abort = "missed" /\ conn = "open")
=============================================================================
