------------------------- MODULE TapChannel_proofs -------------------------
(***************************************************************************)
(* Proofs about TapChannel: types, the invariant of acks and orders, and   *)
(* that the channel implements TapDelivery.                                *)
(***************************************************************************)
EXTENDS TapChannel, TLAPS

-----------------------------------------------------------------------------
(* Sequences                                                               *)

LEMMA AppendFacts ==
  ASSUME NEW S, NEW s \in Seq(S), NEW x \in S
  PROVE  /\ Append(s, x) \in Seq(S)
         /\ Len(s) \in Nat /\ Len(Append(s, x)) = Len(s) + 1
         /\ DOMAIN s = 1..Len(s) /\ DOMAIN Append(s, x) = 1..(Len(s) + 1)
         /\ \A i \in 1..Len(s) : s[i] \in S /\ Append(s, x)[i] = s[i]
         /\ Append(s, x)[Len(s) + 1] = x
OBVIOUS

LEMMA TailFacts ==
  ASSUME NEW S, NEW s \in Seq(S), s # <<>>
  PROVE  /\ Tail(s) \in Seq(S) /\ Head(s) \in S /\ Head(s) = s[1]
         /\ Len(s) \in Nat \ {0} /\ DOMAIN s = 1..Len(s) /\ 1 \in DOMAIN s
         /\ Len(Tail(s)) = Len(s) - 1 /\ DOMAIN Tail(s) = 1..(Len(s) - 1)
         /\ \A i \in 1..(Len(s) - 1) : Tail(s)[i] = s[i + 1]
<1>1. /\ Tail(s) \in Seq(S) /\ Head(s) \in S /\ Head(s) = s[1]
      /\ Len(s) \in Nat \ {0} /\ DOMAIN s = 1..Len(s)
      /\ Len(Tail(s)) = Len(s) - 1 /\ DOMAIN Tail(s) = 1..(Len(s) - 1)
  OBVIOUS
<1>2. \A i \in 1..(Len(s) - 1) : Tail(s)[i] = s[i + 1]
  OBVIOUS
<1>3. 1 \in DOMAIN s
  BY <1>1
<1>4. QED
  BY <1>1, <1>2, <1>3

LEMMA SeqGrows ==
  ASSUME NEW S, NEW T, S \subseteq T, NEW s \in Seq(S)
  PROVE  s \in Seq(T)
OBVIOUS

-----------------------------------------------------------------------------
(* Types                                                                   *)

TypeInv == TypeOK /\ FlushInv

LEMMA EventTyped ==
  ASSUME TypeOK, NEW n \in Events
  PROVE  n \in Nat \ {0} /\ n <= Len(log) /\ Len(log) \in Nat /\ log[n] \in Dids
         /\ done[log[n]] \in 0..Len(log)
<1>1. n \in 1..Len(log) /\ Len(log) \in Nat /\ log \in Seq(Dids)
  BY DEF TypeOK, Events
<1>2. log[n] \in Dids
  BY <1>1
<1>3. QED
  BY <1>1, <1>2 DEF TypeOK

LEMMA WorkTyped ==
  ASSUME TypeOK, work.st \in {"handling", "acking"}
  PROVE  work # Idle /\ work.evt \in Events /\ work \in [evt : Events, st : {"handling", "acking"}]
BY DEF TypeOK, Idle

LEMMA PublishTyped ==
  ASSUME TypeOK, NEW d \in Dids, Publish(d)
  PROVE  TypeOK'
<1>1. log \in Seq(Dids) /\ log' \in Seq(Dids) /\ Len(log) \in Nat /\ Len(log') = Len(log) + 1
  BY AppendFacts DEF Publish, TypeOK
<1>2. Events \subseteq Events' /\ 0..Len(log) \subseteq 0..Len(log')
  BY <1>1 DEF Events
<1>3. pipe' \in Seq(Events') /\ buffered' \in Seq(Events')
  BY <1>2, SeqGrows DEF Publish, TypeOK, socket, channel
<1>4. acked' \subseteq Events' /\ acks' \subseteq Events' /\ sends' \subseteq Events'
  BY <1>2 DEF Publish, TypeOK, socket, channel
<1>5. work' \in [evt : Events', st : {"handling", "acking"}] \cup {Idle}
  BY <1>2 DEF Publish, TypeOK, channel
<1>6. done' \in [Dids -> 0..Len(log')]
  BY <1>2 DEF Publish, TypeOK
<1>7. QED
  BY <1>1, <1>3, <1>4, <1>5, <1>6 DEF Publish, TypeOK, socket, channel

LEMMA FaultTyped == TypeOK /\ Fault => faults' \in 0..MaxFaults
BY BoundsAssumption DEF TypeOK, Fault

\* Steps that publish nothing
LEMMA TypesKept ==
  ASSUME TypeInv, log' = log,
         acked' \subseteq Events /\ acks' \subseteq Events /\ sends' \subseteq Events,
         conn' \in Conns /\ abort' \in Aborts,
         pipe' \in Seq(Events) /\ buffered' \in Seq(Events),
         work' \in [evt : Events, st : {"handling", "acking"}] \cup {Idle},
         setup' \in BOOLEAN /\ flushing' \in BOOLEAN /\ running' \in BOOLEAN,
         awaits' = awaits,
         done' \in [Dids -> 0..Len(log)],
         faults' \in 0..MaxFaults,
         flushing' => buffered' # <<>>
  PROVE  TypeInv'
<1>1. Events' = Events
  BY DEF Events
<1>2. awaits' \in BOOLEAN
  BY DEF TypeInv, TypeOK
<1>3. QED
  BY <1>1, <1>2 DEF TypeInv, TypeOK, FlushInv

LEMMA Typed ==
  ASSUME TypeInv
  PROVE  /\ acked \subseteq Events /\ acks \subseteq Events /\ sends \subseteq Events
         /\ conn \in Conns /\ abort \in Aborts
         /\ pipe \in Seq(Events) /\ buffered \in Seq(Events)
         /\ work \in [evt : Events, st : {"handling", "acking"}] \cup {Idle}
         /\ setup \in BOOLEAN /\ flushing \in BOOLEAN /\ running \in BOOLEAN
         /\ done \in [Dids -> 0..Len(log)]
         /\ faults \in 0..MaxFaults
         /\ flushing => buffered # <<>>
BY DEF TypeInv, TypeOK, FlushInv

LEMMA AckTyped ==
  ASSUME TypeInv, NEW n \in Events, AckEvent(n)
  PROVE  sends' \subseteq Events /\ buffered' \in Seq(Events) /\ (flushing => buffered' # <<>>)
<1>1. Append(buffered, n) \in Seq(Events) /\ Append(buffered, n) # <<>>
  BY Typed, AppendFacts
<1>2. QED
  BY <1>1, Typed DEF AckEvent

LEMMA TypeInit == Init => TypeInv
<1> SUFFICES ASSUME Init PROVE TypeInv
  OBVIOUS
<1>1. log = <<>> /\ Len(log) = 0 /\ log \in Seq(Dids)
  BY DEF Init
<1>2. <<>> \in Seq(Events)
  OBVIOUS
<1>3. awaits \in BOOLEAN
  BY HandlersAssumption DEF Init
<1>4. {setup, flushing, running, awaits} \subseteq BOOLEAN
  BY <1>3 DEF Init
<1>5. done \in [Dids -> 0..Len(log)] /\ faults \in 0..MaxFaults
  BY <1>1, BoundsAssumption DEF Init
<1>6. conn \in Conns /\ abort \in Aborts /\ ~flushing
  BY DEF Init, Conns, Aborts
<1>7. QED
  BY <1>1, <1>2, <1>4, <1>5, <1>6 DEF Init, TypeInv, TypeOK, FlushInv

LEMMA TypeStep == TypeInv /\ [Next]_vars => TypeInv'
<1> SUFFICES ASSUME TypeInv, [Next]_vars PROVE TypeInv'
  OBVIOUS
<1>1. /\ acked \subseteq Events /\ acks \subseteq Events /\ sends \subseteq Events
      /\ conn \in Conns /\ abort \in Aborts
      /\ pipe \in Seq(Events) /\ buffered \in Seq(Events) /\ <<>> \in Seq(Events)
      /\ work \in [evt : Events, st : {"handling", "acking"}] \cup {Idle}
      /\ setup \in BOOLEAN /\ flushing \in BOOLEAN /\ running \in BOOLEAN
      /\ done \in [Dids -> 0..Len(log)]
      /\ faults \in 0..MaxFaults
      /\ flushing => buffered # <<>>
  BY Typed
<1>2. Fault => faults' \in 0..MaxFaults
  BY FaultTyped DEF TypeInv
<1>3. ASSUME NEW d \in Dids, Publish(d) PROVE TypeInv'
  BY <1>3, PublishTyped DEF TypeInv, FlushInv, Publish, channel
<1>4. ASSUME NEW n \in Events, Send(n) PROVE TypeInv'
  <2>1. pipe' \in Seq(Events)
    BY <1>1, <1>4, AppendFacts DEF Send
  <2>2. QED
    BY <1>1, <1>4, <2>1, TypesKept DEF Send, server, channel
<1>5. ASSUME NEW n \in Events, AckArrives(n) PROVE TypeInv'
  <2>1. acks' \subseteq Events /\ acked' \subseteq Events
    BY <1>1, <1>5 DEF AckArrives
  <2>2. QED
    BY <1>1, <1>5, <2>1, TypesKept DEF AckArrives, channel
<1>6. CASE Connect
  BY <1>1, <1>6, TypesKept DEF Connect, server, channel, Conns
<1>7. CASE Open
  <2>1. flushing' \in BOOLEAN
    BY <1>7 DEF Open
  <2>2. flushing' => buffered' # <<>>
    BY <1>7 DEF Open
  <2>3. QED
    BY <1>1, <1>7, <2>1, <2>2, TypesKept DEF Open, server, Conns
<1>8. CASE ConnectFails
  BY <1>1, <1>2, <1>8, TypesKept DEF ConnectFails, server, channel, Conns
<1>9. CASE Refused
  BY <1>1, <1>2, <1>9, TypesKept DEF Refused, server, Conns
<1>10. ASSUME Drop, faults' \in 0..MaxFaults PROVE TypeInv'
  <2>1. conn' \in Conns /\ pipe' \in Seq(Events) /\ acks' = {}
    BY <1>1, <1>10 DEF Drop, Conns
  <2>2. QED
    BY <1>1, <1>10, <2>1, TypesKept DEF Drop, server, channel
<1>11. CASE Lose \/ Heartbeat
  BY <1>1, <1>2, <1>10, <1>11 DEF Lose, Heartbeat
<1>12. CASE Silence
  BY <1>1, <1>2, <1>12, TypesKept DEF Silence, server, channel, Conns
<1>13. CASE CloseCleanly
  BY <1>1, <1>2, <1>13, TypesKept DEF CloseCleanly, server, channel, Conns
<1>14. CASE EndStart
  BY <1>1, <1>14, TypesKept DEF EndStart, server, socket
<1>15. CASE Deliver
  <2>1. pipe' \in Seq(Events) /\ work' \in [evt : Events, st : {"handling", "acking"}]
    BY <1>1, <1>15, TailFacts DEF Deliver
  <2>2. QED
    BY <1>1, <1>15, <2>1, TypesKept DEF Deliver, server
<1>16. CASE Handle
  <2>1. work.evt \in Events /\ work \in [evt : Events, st : {"handling", "acking"}]
    BY <1>16, WorkTyped DEF Handle, TypeInv
  <2>2. log[work.evt] \in Dids /\ work.evt \in 0..Len(log)
    BY <2>1, EventTyped DEF TypeInv
  <2>3. done' \in [Dids -> 0..Len(log)]
    BY <1>1, <1>16, <2>2 DEF Handle
  <2>4. work' \in [evt : Events, st : {"handling", "acking"}] \cup {Idle}
    BY <1>16, <2>1 DEF Handle
  <2>5. sends' \subseteq Events /\ buffered' \in Seq(Events) /\ (flushing => buffered' # <<>>)
    BY <1>16, <2>1, AckTyped DEF Handle
  <2>6. QED
    BY <1>1, <1>16, <2>3, <2>4, <2>5, TypesKept DEF Handle, server, socket
<1>17. CASE HandlerFails
  BY <1>1, <1>2, <1>17, TypesKept DEF HandlerFails, server, socket
<1>18. ASSUME NEW n \in Events, Sent(n) PROVE TypeInv'
  <2>1. acks' \subseteq Events
    BY <1>1, <1>18 DEF Sent, Written
  <2>2. QED
    BY <1>1, <1>18, <2>1, TypesKept DEF Sent, server
<1>19. ASSUME NEW n \in Events, SendFails(n) PROVE TypeInv'
  <2>1. buffered' \in Seq(Events) /\ buffered' # <<>>
    BY <1>1, <1>19, AppendFacts DEF SendFails
  <2>2. QED
    BY <1>1, <1>19, <2>1, TypesKept DEF SendFails, server, socket
<1>20. CASE Acked
  BY <1>1, <1>20, TypesKept DEF Acked, server, socket
<1>21. CASE Flush
  <2>1. /\ Head(buffered) \in Events /\ buffered' \in Seq(Events)
        /\ Len(buffered') = Len(buffered) - 1 /\ Len(buffered) \in Nat
    BY <1>1, <1>21, TailFacts DEF Flush
  <2>2. acks' \subseteq Events
    BY <1>1, <1>21, <2>1 DEF Flush, Written
  <2>3. Len(buffered) > 1 => buffered' # <<>>
    BY <2>1
  <2>4. flushing' \in BOOLEAN /\ (flushing' => buffered' # <<>>)
    <3> DEFINE more == Len(buffered) > 1
    <3>1. flushing' = more /\ more \in BOOLEAN /\ (more => buffered' # <<>>)
      BY <1>21, <2>3 DEF Flush
    <3> HIDE DEF more
    <3>2. QED
      BY <3>1
  <2>5. QED
    BY <1>1, <1>21, <2>1, <2>2, <2>4, TypesKept DEF Flush, server
<1>22. CASE FlushFails
  BY <1>1, <1>22, TypesKept DEF FlushFails, server, socket
<1>23. CASE Destroy
  BY <1>1, <1>23, TypesKept DEF Destroy, server, Aborts
<1>24. CASE Abort
  BY <1>1, <1>24, TypesKept DEF Abort, server, Conns
<1>25. CASE Restart
  BY <1>1, <1>2, <1>25, TypesKept DEF Restart, server, Conns, Aborts
<1>26. CASE UNCHANGED vars
  BY <1>1, <1>26, TypesKept DEF vars, server, socket, channel
<1>27. QED
  BY <1>3, <1>4, <1>5, <1>6, <1>7, <1>8, <1>9, <1>11, <1>12, <1>13, <1>14, <1>15, <1>16, <1>17,
     <1>18, <1>19, <1>20, <1>21, <1>22, <1>23, <1>24, <1>25, <1>26
     DEF Next, Events

(***************************************************************************)
(* Every variable keeps its type; acks, frames and what the handler works  *)
(* on are of events that were published, for any number of repositories,   *)
(* events, frames and faults.                                              *)
(***************************************************************************)
THEOREM TypeCorrect == Spec => []TypeOK
<1>1. TypeInv => TypeOK
  BY DEF TypeInv
<1>2. QED
  BY <1>1, TypeInit, TypeStep, PTL DEF Spec

-----------------------------------------------------------------------------
(* Acks and orders                                                         *)

\* Steps that publish nothing and end no handler
LEMMA AcksKept ==
  ASSUME AcksInv, UNCHANGED <<log, done>>,
         \A n \in acked' \cup acks' \cup sends' :
            n \in acked \cup acks \cup sends \/ \E i \in DOMAIN buffered : buffered[i] = n,
         \A i \in DOMAIN buffered' :
            buffered'[i] \in sends \/ \E j \in DOMAIN buffered : buffered[j] = buffered'[i],
         work'.st = "acking" => work' = work
  PROVE  AcksInv'
BY DEF AcksInv, Handled

LEMMA OrderKept ==
  ASSUME OrderInv, UNCHANGED <<log, done>>, acked \subseteq acked',
         pipe' = pipe \/ pipe' = <<>>, work' = work \/ work' = Idle
  PROVE  OrderInv'
<1>1. \A n : Before(n)' = Before(n)
  BY DEF Before
<1>2. \A n : Settled(n) => Settled(n)'
  BY <1>1 DEF Settled
<1>3. QED
  BY <1>1, <1>2 DEF OrderInv, InOrder

\* An event is published: nothing earlier changes
LEMMA PublishKept ==
  ASSUME TypeInv, TapInv, NEW d \in Dids, Publish(d)
  PROVE  AcksInv' /\ OrderInv'
<1>1. /\ log \in Seq(Dids) /\ Len(log) \in Nat
      /\ \A n \in 1..Len(log) : log'[n] = log[n]
  BY AppendFacts DEF Publish, TypeInv, TypeOK
<1>2. UNCHANGED <<acked, acks, sends, buffered, pipe, work, done>>
  BY DEF Publish, socket, channel
<1>3. /\ acked \subseteq Events /\ acks \subseteq Events /\ sends \subseteq Events
      /\ \A i \in DOMAIN buffered : buffered[i] \in Events
      /\ \A i \in DOMAIN pipe : pipe[i] \in Events
      /\ work # Idle => work.evt \in Events
      /\ work.st = "acking" => work # Idle
      /\ \A e \in Dids : done[e] # 0 => done[e] \in Events
  <2>1. \A e \in Dids : done[e] \in 0..Len(log)
    BY DEF TypeInv, TypeOK
  <2>2. \A e \in Dids : done[e] # 0 => done[e] \in Events
    BY <1>1, <2>1 DEF Events
  <2>3. work # Idle => work.evt \in Events
    BY DEF TypeInv, TypeOK
  <2>4. QED
    BY <2>2, <2>3 DEF TypeInv, TypeOK, Idle
<1>4. \A n \in Events : log'[n] = log[n] /\ Before(n)' = Before(n)
  BY <1>1 DEF Before, Events
<1>5. \A n \in Events : Settled(n)' = Settled(n) /\ Handled(n)' = Handled(n)
  BY <1>2, <1>4 DEF Settled, Handled
<1>6. AcksInv'
  BY <1>2, <1>3, <1>5 DEF TapInv, AcksInv
<1>7. \A m, n \in Events : InOrder(m, n)' = InOrder(m, n)
  BY <1>4 DEF InOrder
<1>8. \A i \in DOMAIN pipe : \A j \in 1..(i - 1) : j \in DOMAIN pipe
  BY DEF TypeInv, TypeOK
<1>9. OrderInv'
  BY <1>2, <1>3, <1>4, <1>5, <1>7, <1>8 DEF TapInv, OrderInv
<1>10. QED
  BY <1>6, <1>9

(***************************************************************************)
(* The server sends the first unacknowledged event of a repository.  What  *)
(* was handled or is under way already has nothing unacknowledged before   *)
(* it, so it is not later.                                                 *)
(***************************************************************************)
LEMMA SendKept ==
  ASSUME TypeInv, TapInv, NEW n \in Events, Send(n)
  PROVE  OrderInv'
<1>1. n \notin acked /\ Before(n) \subseteq acked
  BY DEF Send, FirstUnacked, Before
<1>2. UNCHANGED <<log, done, acked, work>>
  BY DEF Send, server, channel
<1>3. /\ DOMAIN pipe = 1..Len(pipe) /\ Len(pipe) \in Nat
      /\ DOMAIN pipe' = 1..(Len(pipe) + 1)
      /\ \A i \in 1..Len(pipe) : pipe'[i] = pipe[i] /\ pipe[i] \in Events
      /\ pipe'[Len(pipe) + 1] = n
  BY AppendFacts DEF Send, TypeInv, TypeOK
<1>4. n \in Nat \ {0} /\ log[n] \in Dids /\ done[log[n]] \in 0..Len(log)
  BY EventTyped DEF TypeInv
<1>5. ASSUME NEW m \in Events, Before(m) \subseteq acked PROVE InOrder(m, n)
  BY <1>1, <1>4, <1>5, EventTyped DEF Before, InOrder, TypeInv
<1>6. Settled(n)
  <2>1. CASE done[log[n]] = 0
    BY <1>1, <1>4, <2>1 DEF Settled
  <2>2. CASE done[log[n]] # 0
    <3>1. LET m == done[log[n]] IN m \in Events /\ log[m] = log[n] /\ Before(m) \subseteq acked
      BY <1>4, <2>2 DEF TapInv, OrderInv, Events
    <3>2. QED
      BY <1>1, <1>5, <3>1 DEF Settled, InOrder
  <2>3. QED
    BY <2>1, <2>2
<1>7. \A i \in 1..Len(pipe) : Settled(pipe[i]) /\ InOrder(pipe[i], n)
  BY <1>3, <1>5 DEF TapInv, OrderInv, Settled
<1>8. work # Idle => work.evt \in Events /\ Settled(work.evt) /\ InOrder(work.evt, n)
  BY <1>5 DEF TapInv, OrderInv, Settled, TypeInv, TypeOK
<1>9. \A m : Before(m)' = Before(m) /\ Settled(m)' = Settled(m)
  BY <1>2 DEF Before, Settled
<1>10. \A m, k : InOrder(m, k)' = InOrder(m, k)
  BY <1>2 DEF InOrder
<1>11. ASSUME NEW i \in DOMAIN pipe'
       PROVE  /\ Settled(pipe'[i])
              /\ work # Idle => InOrder(work.evt, pipe'[i])
              /\ \A j \in 1..(i - 1) : InOrder(pipe'[j], pipe'[i])
  <2>1. CASE i \in 1..Len(pipe)
    <3>1. \A j \in 1..(i - 1) : j \in 1..Len(pipe)
      BY <1>3, <2>1
    <3>2. QED
      BY <1>3, <2>1, <3>1 DEF TapInv, OrderInv
  <2>2. CASE i = Len(pipe) + 1
    BY <1>3, <1>6, <1>7, <1>8, <2>2
  <2>3. QED
    BY <1>3, <1>11, <2>1, <2>2
<1>12. QED
  BY <1>2, <1>8, <1>9, <1>10, <1>11 DEF OrderInv, TapInv

\* The first frame is given to the handler
LEMMA DeliverKept ==
  ASSUME TypeInv, TapInv, Deliver
  PROVE  AcksInv' /\ OrderInv'
<1>1. /\ UNCHANGED <<log, done, acked, acks, sends, buffered>> /\ work = Idle
      /\ pipe \in Seq(Events) /\ pipe # <<>> /\ pipe' = Tail(pipe)
      /\ work' = [evt |-> Head(pipe), st |-> "handling"]
  BY DEF Deliver, server, Pulled, TypeInv, TypeOK
<1>2. /\ DOMAIN pipe = 1..Len(pipe) /\ Len(pipe) \in Nat \ {0} /\ 1 \in DOMAIN pipe
      /\ DOMAIN pipe' = 1..(Len(pipe) - 1)
      /\ \A i \in 1..(Len(pipe) - 1) : pipe'[i] = pipe[i + 1]
      /\ work'.evt = pipe[1]
  BY <1>1, TailFacts
<1>3. AcksInv'
  BY <1>1 DEF TapInv, AcksInv, Handled
<1>4. \A m : Before(m)' = Before(m) /\ Settled(m)' = Settled(m)
  BY <1>1 DEF Before, Settled
<1>5. \A m, k : InOrder(m, k)' = InOrder(m, k)
  BY <1>1 DEF InOrder
<1>6. Settled(work'.evt)
  BY <1>2 DEF TapInv, OrderInv
<1>7. ASSUME NEW i \in DOMAIN pipe'
      PROVE  /\ Settled(pipe'[i]) /\ InOrder(work'.evt, pipe'[i])
             /\ \A j \in 1..(i - 1) : InOrder(pipe'[j], pipe'[i])
  <2>1. /\ i + 1 \in DOMAIN pipe /\ pipe'[i] = pipe[i + 1] /\ 1 \in 1..((i + 1) - 1)
        /\ \A j \in 1..(i - 1) : j + 1 \in 1..((i + 1) - 1) /\ pipe'[j] = pipe[j + 1]
    BY <1>2
  <2>2. Settled(pipe[i + 1]) /\ \A j \in 1..((i + 1) - 1) : InOrder(pipe[j], pipe[i + 1])
    BY <2>1 DEF TapInv, OrderInv
  <2>3. QED
    BY <1>2, <2>1, <2>2
<1>8. QED
  BY <1>1, <1>3, <1>4, <1>5, <1>6, <1>7 DEF OrderInv, TapInv

\* A handler ends, and acknowledges
LEMMA HandleKept ==
  ASSUME TypeInv, TapInv, Handle, NEW n, n = work.evt
  PROVE  AcksInv' /\ OrderInv'
<1>1. /\ work # Idle /\ n \in Events /\ Settled(n)
      /\ UNCHANGED <<log, acked, acks, pipe>>
      /\ done' = [done EXCEPT ![log[n]] = n]
  BY WorkTyped DEF Handle, TypeInv, TapInv, OrderInv, server, socket
<1>2. n \in Nat \ {0} /\ log[n] \in Dids /\ done \in [Dids -> 0..Len(log)] /\ Len(log) \in Nat
  BY <1>1, EventTyped DEF TypeInv, TypeOK
<1>3. done'[log[n]] = n /\ \A d \in Dids : d # log[n] => done'[d] = done[d]
  BY <1>1, <1>2
<1>4. \A m \in Events : log[m] \in Dids /\ m \in Nat
  BY EventTyped DEF TypeInv
<1>5. \A m \in Events : Handled(m) => Handled(m)'
  <2> SUFFICES ASSUME NEW m \in Events, Handled(m) PROVE Handled(m)'
    OBVIOUS
  <2>1. CASE log[m] = log[n]
    BY <1>1, <1>2, <1>3, <1>4, <2>1 DEF Handled, Settled
  <2>2. CASE log[m] # log[n]
    BY <1>1, <1>3, <1>4, <2>2 DEF Handled
  <2>3. QED
    BY <2>1, <2>2
<1>6. Handled(n)'
  BY <1>1, <1>2, <1>3 DEF Handled
<1>7. /\ sends' \subseteq sends \cup {n} /\ sends \subseteq Events
      /\ \A i \in DOMAIN buffered' : buffered'[i] = n \/
            \E j \in DOMAIN buffered : buffered'[i] = buffered[j]
      /\ \A i \in DOMAIN buffered : buffered[i] \in Events
  <2>1. buffered \in Seq(Events) /\ sends \subseteq Events
    BY DEF TypeInv, TypeOK
  <2>2. CASE UNCHANGED buffered
    BY <2>1, <2>2 DEF Handle, AckEvent
  <2>3. CASE buffered' = Append(buffered, n)
    BY <1>1, <2>1, <2>3, AppendFacts DEF Handle, AckEvent
  <2>4. QED
    BY <2>2, <2>3 DEF Handle, AckEvent
<1>8. work' = Idle \/ work'.evt = n
  BY DEF Handle
<1>9. AcksInv'
  <2>1. \A m \in acked' \cup acks' \cup sends' : Handled(m)'
    BY <1>1, <1>5, <1>6, <1>7 DEF TapInv, AcksInv, TypeInv, TypeOK
  <2>2. ASSUME NEW i \in DOMAIN buffered' PROVE buffered'[i] <= done'[log'[buffered'[i]]]
    BY <1>5, <1>6, <1>7 DEF TapInv, AcksInv, Handled
  <2>3. work'.st = "acking" => work'.evt <= done'[log'[work'.evt]]
    BY <1>6, <1>8 DEF Idle, Handled
  <2>5. QED
    BY <2>1, <2>2, <2>3 DEF AcksInv, Handled
<1>10. ASSUME NEW m \in Events, Settled(m), InOrder(n, m) PROVE Settled(m)'
  <2>1. Before(m)' = Before(m)
    BY <1>1 DEF Before
  <2>2. QED
    BY <1>1, <1>3, <1>4, <1>10, <2>1 DEF Settled, InOrder
<1>11. Settled(n)'
  BY <1>1, <1>2, <1>3 DEF Settled, Before
<1>12. \A m, k : InOrder(m, k)' = InOrder(m, k)
  BY <1>1 DEF InOrder
<1>13. ASSUME NEW i \in DOMAIN pipe
       PROVE  /\ Settled(pipe[i])' /\ InOrder(n, pipe[i])
              /\ \A j \in 1..(i - 1) : InOrder(pipe[j], pipe[i])
  <2>1. pipe[i] \in Events
    BY DEF TypeInv, TypeOK
  <2>2. QED
    BY <1>1, <1>10, <2>1 DEF TapInv, OrderInv
<1>14. \A d \in Dids : done'[d] # 0 => log[done'[d]] = d /\ Before(done'[d]) \subseteq acked
  BY <1>1, <1>3 DEF TapInv, OrderInv, Settled
<1>15. OrderInv'
  <2>1. \A m : Before(m)' = Before(m)
    BY <1>1 DEF Before
  <2>2. QED
    BY <1>1, <1>8, <1>11, <1>12, <1>13, <1>14, <2>1 DEF OrderInv, Settled, Before
<1>16. QED
  BY <1>9, <1>15

LEMMA TapStep == TypeInv /\ TypeInv' /\ TapInv /\ [Next]_vars => TapInv'
<1> SUFFICES ASSUME TypeInv, TypeInv', TapInv, [Next]_vars PROVE TapInv'
  OBVIOUS
<1> SUFFICES AcksInv' /\ OrderInv'
  BY DEF TapInv, TypeInv
<1>1. /\ AcksInv /\ OrderInv /\ Idle.st # "acking"
      /\ buffered \in Seq(Events) /\ (flushing => buffered # <<>>)
  BY DEF TapInv, TypeInv, TypeOK, FlushInv, Idle
<1>2. ASSUME NEW d \in Dids, Publish(d) PROVE AcksInv' /\ OrderInv'
  BY <1>2, PublishKept
<1>3. ASSUME NEW n \in Events, Send(n) PROVE AcksInv' /\ OrderInv'
  BY <1>1, <1>3, SendKept, AcksKept DEF Send, server, channel
<1>4. ASSUME NEW n \in Events, AckArrives(n) PROVE AcksInv' /\ OrderInv'
  BY <1>1, <1>4, AcksKept, OrderKept DEF AckArrives, channel
<1>5. CASE Connect \/ Open \/ ConnectFails \/ Refused \/ EndStart
  BY <1>1, <1>5, AcksKept, OrderKept
     DEF Connect, Open, ConnectFails, Refused, EndStart, server, socket, channel
<1>6. CASE Lose \/ Heartbeat
  BY <1>1, <1>6, AcksKept, OrderKept DEF Lose, Heartbeat, Drop, server, channel
<1>7. CASE Silence \/ CloseCleanly
  BY <1>1, <1>7, AcksKept, OrderKept DEF Silence, CloseCleanly, server, channel
<1>8. CASE Deliver
  BY <1>8, DeliverKept
<1>9. CASE Handle
  BY <1>9, HandleKept
<1>10. CASE HandlerFails \/ Acked
  BY <1>1, <1>10, AcksKept, OrderKept DEF HandlerFails, Acked, server, socket
<1>11. ASSUME NEW n \in Events, Sent(n) PROVE AcksInv' /\ OrderInv'
  BY <1>1, <1>11, AcksKept, OrderKept DEF Sent, Written, server
<1>12. ASSUME NEW n \in Events, SendFails(n) PROVE AcksInv' /\ OrderInv'
  <2>1. \A i \in DOMAIN buffered' :
           buffered'[i] = n \/ \E j \in DOMAIN buffered : buffered[j] = buffered'[i]
    BY <1>1, <1>12, AppendFacts DEF SendFails
  <2>2. n \in sends
    BY <1>12 DEF SendFails
  <2>3. UNCHANGED <<log, done, acked, acks, pipe, work>> /\ sends' \subseteq sends
    BY <1>12 DEF SendFails, server, socket
  <2>4. QED
    BY <1>1, <2>1, <2>2, <2>3, AcksKept, OrderKept
<1>13. CASE Flush
  <2>1. UNCHANGED <<log, done, acked, sends, pipe, work>>
    BY <1>13 DEF Flush, server
  <2>2. /\ \E i \in DOMAIN buffered : buffered[i] = Head(buffered)
        /\ \A i \in DOMAIN buffered' : \E j \in DOMAIN buffered : buffered[j] = buffered'[i]
    <3>1. buffered # <<>> /\ buffered' = Tail(buffered)
      BY <1>1, <1>13 DEF Flush
    <3>2. /\ DOMAIN buffered = 1..Len(buffered) /\ Len(buffered) \in Nat /\ 1 \in DOMAIN buffered
          /\ buffered[1] = Head(buffered) /\ DOMAIN buffered' = 1..(Len(buffered) - 1)
          /\ \A i \in 1..(Len(buffered) - 1) : buffered'[i] = buffered[i + 1]
      BY <1>1, <3>1, TailFacts
    <3>3. \A i \in DOMAIN buffered' : i + 1 \in DOMAIN buffered
      BY <3>2
    <3>4. QED
      BY <3>2, <3>3
  <2>3. acks' \subseteq acks \cup {Head(buffered)}
    BY <1>13 DEF Flush, Written
  <2>4. QED
    BY <1>1, <2>1, <2>2, <2>3, AcksKept, OrderKept
<1>14. CASE FlushFails
  BY <1>1, <1>14, AcksKept, OrderKept DEF FlushFails, server, socket
<1>15. CASE Destroy \/ Abort
  BY <1>1, <1>15, AcksKept, OrderKept DEF Destroy, Abort, server
<1>16. CASE Restart
  BY <1>1, <1>16, AcksKept, OrderKept DEF Restart, server
<1>17. CASE UNCHANGED vars
  BY <1>1, <1>17, AcksKept, OrderKept DEF vars, server, socket, channel
<1>18. QED
  BY <1>2, <1>3, <1>4, <1>5, <1>6, <1>7, <1>8, <1>9, <1>10, <1>11, <1>12, <1>13, <1>14, <1>15,
     <1>16, <1>17
     DEF Next, Events

LEMMA TapInit == Init => TapInv
BY DEF Init, TapInv, AcksInv, OrderInv, FlushInv, Idle

(***************************************************************************)
(* Whatever is lost, sent again, fails or restarts: an ack exists only for *)
(* what was handled, whatever is on its way to the handler has nothing     *)
(* unacknowledged before it in its repository, and the frames of a         *)
(* repository are in order behind what was handled last.                   *)
(***************************************************************************)
THEOREM AcksAndOrders == Spec => []TapInv
<1>1. TypeInv /\ TapInv /\ [Next]_vars => TypeInv' /\ TapInv'
  BY TypeStep, TapStep
<1>2. QED
  BY <1>1, TypeInit, TapInit, PTL DEF Spec

-----------------------------------------------------------------------------
(* The refinement                                                          *)

LEMMA HandleRefines ==
  ASSUME TypeInv, TapInv, Handle
  PROVE  \E n \in 1..Len(log) : Delivery!Handle(n)
<1> DEFINE n == work.evt
           d == log[n]
<1>1. work # Idle /\ n \in Events /\ UNCHANGED <<log, acked>> /\ done' = [done EXCEPT ![d] = n]
  BY WorkTyped DEF Handle, TypeInv, server
<1>2. Before(n) \subseteq acked /\ done[d] <= n
  BY <1>1 DEF TapInv, OrderInv, Settled
<1>3. ASSUME NEW m \in 1..(n - 1), log[m] = d PROVE m <= done[d]
  BY <1>2, <1>3 DEF Before, TapInv, AcksInv, Handled
<1>4. QED
  BY <1>1, <1>2, <1>3 DEF Delivery!Handle, Events

LEMMA AckRefines ==
  ASSUME TapInv, NEW n \in 1..Len(log), AckArrives(n)
  PROVE  Delivery!Acknowledge(n)
BY DEF AckArrives, TapInv, AcksInv, Handled, Delivery!Acknowledge

LEMMA StepRefines == TypeInv /\ TapInv /\ [Next]_vars => [Delivery!Next]_(Delivery!vars)
<1> SUFFICES ASSUME TypeInv, TapInv, [Next]_vars PROVE [Delivery!Next]_(Delivery!vars)
  OBVIOUS
<1>1. ASSUME NEW d \in Dids, Publish(d) PROVE Delivery!Publish(d)
  BY <1>1 DEF Publish, Delivery!Publish
<1>2. CASE Handle
  BY <1>2, HandleRefines DEF Delivery!Next
<1>3. ASSUME NEW n \in 1..Len(log), AckArrives(n) PROVE Delivery!Acknowledge(n)
  BY <1>3, AckRefines
<1>4. ASSUME NEW n \in 1..Len(log), Send(n) \/ Sent(n) \/ SendFails(n)
      PROVE  UNCHANGED <<log, done, acked>>
  BY <1>4 DEF Send, Sent, SendFails, server
<1>5. CASE Connect \/ Open \/ ConnectFails \/ Refused \/ Silence \/ CloseCleanly \/ EndStart
  BY <1>5 DEF Connect, Open, ConnectFails, Refused, Silence, CloseCleanly, EndStart, server,
             Delivery!vars
<1>6. CASE Lose \/ Heartbeat
  BY <1>6 DEF Lose, Heartbeat, Drop, server, Delivery!vars
<1>7. CASE Deliver \/ HandlerFails \/ Acked \/ Flush \/ FlushFails
  BY <1>7 DEF Deliver, HandlerFails, Acked, Flush, FlushFails, server, Delivery!vars
<1>8. CASE Destroy \/ Abort \/ Restart \/ UNCHANGED vars
  BY <1>8 DEF Destroy, Abort, Restart, vars, server, Delivery!vars
<1>9. QED
  BY <1>1, <1>2, <1>3, <1>4, <1>5, <1>6, <1>7, <1>8 DEF Next, Delivery!Next, Delivery!vars

(***************************************************************************)
(* tap/src/channel.ts: the channel, with its buffer, its reconnections, a  *)
(* server that sends again, faults and restarts, delivers as TapDelivery   *)
(* promises: each step is one of its steps or changes nothing it knows of. *)
(***************************************************************************)
THEOREM Refinement == Spec => ImplementsTapDelivery
<1>1. Init => Delivery!Init
  BY DEF Init, Delivery!Init
<1>2. TypeInv /\ TapInv /\ [Next]_vars => TypeInv' /\ TapInv'
  BY TypeStep, TapStep
<1>3. QED
  BY <1>1, <1>2, TypeInit, TapInit, StepRefines, PTL DEF Spec, ImplementsTapDelivery, Delivery!Spec
=============================================================================
