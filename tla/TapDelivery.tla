---------------------------- MODULE TapDelivery ----------------------------
(***************************************************************************)
(* What a tap connection promises the code behind it: events are published *)
(* for repositories, each is handled at least once, those of a repository  *)
(* in order, and the server only ever learns that an event is dealt with   *)
(* after its handler has finished.                                         *)
(***************************************************************************)
EXTENDS Integers, Sequences

CONSTANTS Dids    \* repositories

VARIABLES log,    \* log[n]: the repository event n is about
          done,   \* done[d]: the event of d whose handler finished last, 0 if none
          acked   \* events the server knows to be handled

vars == <<log, done, acked>>

Init == /\ log = <<>>
        /\ done = [d \in Dids |-> 0]
        /\ acked = {}

Publish(d) == /\ log' = Append(log, d)
              /\ UNCHANGED <<done, acked>>

(***************************************************************************)
(* The handler of event n finishes, for the first time or again: every     *)
(* earlier event of the repository has been handled, and no later one.     *)
(***************************************************************************)
Handle(n) == LET d == log[n] IN
  /\ done[d] <= n
  /\ \A m \in 1..(n - 1) : log[m] = d => m <= done[d]
  /\ done' = [done EXCEPT ![d] = n]
  /\ UNCHANGED <<log, acked>>

Acknowledge(n) == /\ n <= done[log[n]]
                  /\ acked' = acked \cup {n}
                  /\ UNCHANGED <<log, done>>

Next == \/ \E d \in Dids : Publish(d)
        \/ \E n \in 1..Len(log) : Handle(n) \/ Acknowledge(n)

Spec == Init /\ [][Next]_vars
=============================================================================
