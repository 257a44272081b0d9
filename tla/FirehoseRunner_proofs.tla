----------------------- MODULE FirehoseRunner_proofs -----------------------
(***************************************************************************)
(* Proofs about FirehoseRunner, for every set of accounts, every           *)
(* concurrency and every bound on the rows and the faults.                 *)
(***************************************************************************)
EXTENDS FirehoseRunner, SequenceTheorems, TLAPS

USE ConcurrencyAssumption, CursorAssumption, BoundsAssumption

-----------------------------------------------------------------------------
(* Type correctness                                                        *)

(***************************************************************************)
(* Changing one item of the runner's list leaves a list of items, of the   *)
(* same length.                                                            *)
(***************************************************************************)
LEMMA ItemChanged ==
  ASSUME NEW i \in 1..Len(items), items \in Seq(Item), NEW e \in Item
  PROVE  LET t == [items EXCEPT ![i] = e] IN
         /\ t \in Seq(Item)
         /\ Len(t) = Len(items)
         /\ \A j \in 1..Len(items) : t[j] = IF j = i THEN e ELSE items[j]
<1> DEFINE t == [items EXCEPT ![i] = e]
<1>1. Len(items) \in Nat /\ items \in [1..Len(items) -> Item]
  BY LenProperties
<1>2. t \in [1..Len(items) -> Item]
  BY <1>1
<1>3. t \in Seq(Item) /\ Len(t) = Len(items)
  BY <1>1, <1>2, IsASeq, LenProperties
<1>4. QED
  BY <1>1, <1>3

LEMMA ItemFields ==
  ASSUME NEW e \in Item
  PROVE  /\ e.seq \in 1..Len(log)
         /\ e.st \in {"pending", "saving", "done", "dropped", "cleared"}
         /\ e.cur \in 0..Len(log)
BY DEF Item

(***************************************************************************)
(* The log only grows, and then items stay items.                          *)
(***************************************************************************)
LEMMA ItemsStayTyped ==
  ASSUME TypeOK, Len(log') \in Nat, Len(log') >= Len(log), UNCHANGED items
  PROVE  items' \in Seq(Item')
<1>1. Len(log) \in Nat
  BY LenProperties DEF TypeOK
<1>2. Item \subseteq Item'
  BY <1>1 DEF Item
<1>3. Len(items) \in Nat /\ items \in [1..Len(items) -> Item]
  BY LenProperties DEF TypeOK
<1>4. items \in [1..Len(items) -> Item']
  BY <1>2, <1>3
<1>5. QED
  BY <1>3, <1>4, IsASeq

LEMMA TypedInit == Init => TypeOK
BY DEF Init, TypeOK, Stream!Init, Cursor, NotAsked, Statuses

(***************************************************************************)
(* The types survive the server's steps.                                   *)
(***************************************************************************)
LEMMA ServerTypes ==
  ASSUME TypeOK,
         (\E d \in Dids : LogRow(d)) \/ (\E q \in 1..Len(log) : Purge(q))
  PROVE  TypeOK'
<1>1. Len(log) \in Nat
  BY LenProperties DEF TypeOK
<1>2. ASSUME NEW d \in Dids, LogRow(d)
      PROVE  TypeOK'
  <2>1. log' \in Seq(Dids) /\ Len(log') = Len(log) + 1
    BY <1>2, AppendProperties DEF TypeOK, LogRow
  <2>2. UNCHANGED <<gone, open, fresh, pos, client>>
    BY <1>2 DEF LogRow, Stream!LogRow
  <2>3. items' \in Seq(Item')
    BY <1>1, <2>1, <2>2, ItemsStayTyped DEF client
  <2>4. /\ gone' \subseteq 1..Len(log')
        /\ pos' \in [{Me} -> 0..Len(log')]
        /\ asked' \in Cursor' \cup {NotAsked}
        /\ cursor' \in Cursor' /\ stored' \in Cursor' /\ began' \in Cursor'
        /\ handled' \subseteq 1..Len(log')
    BY <1>1, <2>1, <2>2 DEF TypeOK, client, Cursor
  <2>5. QED
    BY <2>1, <2>2, <2>3, <2>4 DEF TypeOK, client
<1>3. ASSUME NEW q \in 1..Len(log), Purge(q)
      PROVE  TypeOK'
  <2>1. UNCHANGED <<log, client, open, fresh, pos>> /\ gone' = gone \cup {q}
    BY <1>3 DEF Purge, Stream!PurgeRows
  <2>2. items' \in Seq(Item')
    BY <2>1 DEF TypeOK, client, Item
  <2>3. QED
    BY <2>1, <2>2 DEF TypeOK, client, Cursor
<1>4. QED
  BY <1>2, <1>3

(***************************************************************************)
(* The steps that leave the items alone.                                   *)
(***************************************************************************)
LEMMA ConnectionTypes ==
  ASSUME TypeOK,
         GetParams \/ Connect \/ Disconnect \/ CloseCleanly \/ Stop
  PROVE  TypeOK'
<1>1. Len(log) \in Nat
  BY LenProperties DEF TypeOK
<1>2. UNCHANGED <<log, gone, items, cursor, stored, began, handled>>
  BY DEF GetParams, Connect, Disconnect, CloseCleanly, Stop, server,
         Stream!Open, Stream!Close
<1>3. items' \in Seq(Item')
  BY <1>2 DEF TypeOK, Item
<1>4. open' \in [{Me} -> BOOLEAN] /\ fresh' \in [{Me} -> BOOLEAN]
  BY DEF TypeOK, GetParams, Connect, Disconnect, CloseCleanly, Stop, server,
         Stream!Open, Stream!Close
<1>5. pos' \in [{Me} -> 0..Len(log)]
  BY DEF TypeOK, GetParams, Connect, Disconnect, CloseCleanly, Stop, server,
         Stream!Open, Stream!Close
<1>6. asked' \in Cursor \cup {NotAsked}
  BY DEF TypeOK, GetParams, Connect, Disconnect, CloseCleanly, Stop
<1>7. status' \in Statuses /\ faults' \in 0..MaxFaults
  BY DEF TypeOK, GetParams, Connect, Disconnect, CloseCleanly, Stop, Statuses
<1>8. QED
  BY <1>2, <1>3, <1>4, <1>5, <1>6, <1>7 DEF TypeOK, Cursor

(***************************************************************************)
(* The steps of the runner, and a new process.                             *)
(***************************************************************************)
LEMMA ReceiveTypes ==
  ASSUME TypeOK, NEW q \in 1..Len(log), Receive(q)
  PROVE  TypeOK'
<1>1. Len(log) \in Nat
  BY LenProperties DEF TypeOK
<1>2. UNCHANGED <<log, gone, asked, status, cursor, stored, handled, faults>>
  BY DEF Receive, Stream!Send, Stream!Resend
<1>3. [seq |-> q, st |-> "pending", cur |-> 0] \in Item
  BY <1>1 DEF Item
<1>4. items' \in Seq(Item)
  BY <1>3, AppendProperties DEF Receive, TypeOK
<1>5. items' \in Seq(Item')
  BY <1>2, <1>4 DEF Item
<1>6. /\ open' \in [{Me} -> BOOLEAN] /\ fresh' \in [{Me} -> BOOLEAN]
      /\ pos' \in [{Me} -> 0..Len(log)]
  <2>1. q \in 0..Len(log)
    BY <1>1
  <2>2. pos' = [pos EXCEPT ![Me] = q] /\ fresh' = [fresh EXCEPT ![Me] = FALSE] /\ open' = open
    BY DEF Receive, Stream!Send, Stream!Resend
  <2>3. QED
    BY <2>1, <2>2 DEF TypeOK
<1>7. began' \in Cursor
  BY <1>1 DEF TypeOK, Receive, Cursor
<1>8. QED
  BY <1>2, <1>5, <1>6, <1>7 DEF TypeOK, Cursor

(***************************************************************************)
(* What Finish does, in both cases: the item is complete afterwards, and   *)
(* a new cursor comes from an item with only complete items before it.     *)
(***************************************************************************)
LEMMA FinishEffect ==
  ASSUME TypeOK, NEW i \in 1..Len(items), Finish(i)
  PROVE  /\ Len(items') = Len(items) /\ items' \in Seq(Item)
         /\ \A j \in 1..Len(items) :
              /\ items'[j].seq = items[j].seq
              /\ j # i => items'[j] = items[j]
         /\ Complete(items'[i])
         /\ \/ cursor' = cursor /\ items'[i].cur = items[i].cur
            \/ \E n \in 1..Len(items) :
                 /\ cursor' = items[n].seq
                 /\ items'[i].cur = items[n].seq
                 /\ \A j \in 1..n : j = i \/ Complete(items[j])
<1> DEFINE completed == [items EXCEPT ![i].st = "done"]
<1>1. Len(items) \in Nat /\ items \in Seq(Item) /\ items[i] \in Item
  BY LenProperties, ElementOfSeq DEF TypeOK
<1>2. /\ completed \in Seq(Item) /\ Len(completed) = Len(items)
      /\ \A j \in 1..Len(items) :
           completed[j] = IF j = i THEN [items[i] EXCEPT !.st = "done"] ELSE items[j]
  <2>1. completed = [items EXCEPT ![i] = [items[i] EXCEPT !.st = "done"]]
    OBVIOUS
  <2>2. [items[i] EXCEPT !.st = "done"] \in Item
    BY <1>1 DEF Item
  <2>3. QED
    BY <1>1, <2>1, <2>2, ItemChanged
<1>3. PICK n \in 0..Len(items) :
        /\ Spliced(completed, n)
        /\ \/ /\ i > n
              /\ items' = completed
              /\ UNCHANGED cursor
           \/ /\ i <= n
              /\ cursor' = items[n].seq
              /\ items' = [items EXCEPT ![i].st = "saving", ![i].cur = items[n].seq]
  BY DEF Finish
<1>4. CASE i > n /\ items' = completed /\ UNCHANGED cursor
  <2>1. /\ completed[i].seq = items[i].seq /\ completed[i].st = "done"
        /\ completed[i].cur = items[i].cur
    BY <1>1, <1>2 DEF Item
  <2>2. QED
    BY <1>2, <1>4, <2>1 DEF Complete
<1>5. CASE /\ i <= n
           /\ cursor' = items[n].seq
           /\ items' = [items EXCEPT ![i].st = "saving", ![i].cur = items[n].seq]
  <2> DEFINE e == [items[i] EXCEPT !.st = "saving", !.cur = items[n].seq]
  <2>1. n \in 1..Len(items) /\ items[n] \in Item
    BY <1>1, <1>5, ElementOfSeq
  <2>2. /\ e \in Item /\ e.seq = items[i].seq /\ e.st = "saving" /\ e.cur = items[n].seq
    <3>1. items[n].seq \in 0..Len(log)
      BY <2>1, LenProperties DEF Item, TypeOK
    <3>2. QED
      BY <1>1, <3>1 DEF Item
  <2>3. items' = [items EXCEPT ![i] = e]
    BY <1>5
  <2> HIDE DEF e
  <2>4. /\ items' \in Seq(Item) /\ Len(items') = Len(items)
        /\ \A j \in 1..Len(items) : items'[j] = IF j = i THEN e ELSE items[j]
    BY <1>1, <2>2, <2>3, ItemChanged
  <2>5. \A j \in 1..n : j = i \/ Complete(items[j])
    BY <1>2, <1>3, <2>1 DEF Spliced
  <2>6. QED
    BY <1>5, <2>1, <2>2, <2>4, <2>5 DEF Complete
<1>6. QED
  BY <1>3, <1>4, <1>5

LEMMA SettleEffect ==
  ASSUME TypeOK, NEW i \in 1..Len(items), Settle(i)
  PROVE  /\ Len(items') = Len(items) /\ items' \in Seq(Item)
         /\ \A j \in 1..Len(items) :
              /\ items'[j].seq = items[j].seq
              /\ j # i => items'[j] = items[j]
         /\ Complete(items[i]) /\ Complete(items'[i])
         /\ items'[i].cur = 0
<1>1. Len(items) \in Nat /\ items \in Seq(Item) /\ items[i] \in Item
  BY LenProperties, ElementOfSeq DEF TypeOK
<1> DEFINE e == [items[i] EXCEPT !.st = "done", !.cur = 0]
<1>2. Len(log) \in Nat
  BY LenProperties DEF TypeOK
<1>3. e \in Item /\ e.seq = items[i].seq /\ e.st = "done" /\ e.cur = 0
  <2>1. 0 \in 0..Len(log)
    BY <1>2
  <2>2. QED
    BY <1>1, <2>1 DEF Item
<1>4. items' = [items EXCEPT ![i] = e]
  BY DEF Settle
<1> HIDE DEF e
<1>5. /\ items' \in Seq(Item) /\ Len(items') = Len(items)
      /\ \A j \in 1..Len(items) : items'[j] = IF j = i THEN e ELSE items[j]
  BY <1>1, <1>3, <1>4, ItemChanged
<1>6. QED
  BY <1>3, <1>5 DEF Complete, Settle

(***************************************************************************)
(* What runner.destroy() does to the items.                                *)
(***************************************************************************)
LEMMA DestroyEffect ==
  ASSUME TypeOK, Destroy
  PROVE  /\ Len(items') = Len(items) /\ items' \in Seq(Item)
         /\ \A j \in 1..Len(items) :
              /\ items'[j].seq = items[j].seq /\ items'[j].cur = items[j].cur
              /\ Complete(items'[j]) => Complete(items[j])
              /\ items'[j].st = "pending" => Running(j)
              /\ Removed(items'[j]) => Removed(items[j]) \/ items[j].st = "pending"
<1>1. Len(items) \in Nat /\ items \in Seq(Item)
  BY LenProperties DEF TypeOK
<1>2. items' = [j \in 1..Len(items) |->
                 IF items[j].st # "pending" \/ Running(j) THEN items[j]
                 ELSE [items[j] EXCEPT !.st = IF Started(j) THEN "dropped" ELSE "cleared"]]
  BY DEF Destroy
<1>3. ASSUME NEW j \in 1..Len(items)
      PROVE  /\ items'[j] \in Item
             /\ items'[j].seq = items[j].seq /\ items'[j].cur = items[j].cur
             /\ \/ items'[j] = items[j] /\ (items[j].st # "pending" \/ Running(j))
                \/ items[j].st = "pending" /\ items'[j].st \in {"dropped", "cleared"}
  <2>1. items[j] \in Item
    BY <1>1, ElementOfSeq
  <2>2. CASE items[j].st # "pending" \/ Running(j)
    BY <1>2, <2>1, <2>2
  <2>3. CASE ~(items[j].st # "pending" \/ Running(j))
    <3>1. PICK st \in {"dropped", "cleared"} : items'[j] = [items[j] EXCEPT !.st = st]
      BY <1>2, <2>3
    <3>2. [items[j] EXCEPT !.st = st] \in Item
      BY <2>1 DEF Item
    <3>3. /\ [items[j] EXCEPT !.st = st].seq = items[j].seq
          /\ [items[j] EXCEPT !.st = st].cur = items[j].cur
          /\ [items[j] EXCEPT !.st = st].st = st
      BY <2>1 DEF Item
    <3>4. QED
      BY <2>3, <3>1, <3>2, <3>3, Zenon
  <2>4. QED
    BY <2>2, <2>3
<1>4. items' \in [1..Len(items) -> Item]
  BY <1>2, <1>3
<1>5. items' \in Seq(Item) /\ Len(items') = Len(items)
  BY <1>1, <1>4, IsASeq, LenProperties
<1>6. QED
  BY <1>3, <1>5 DEF Complete, Removed

LEMMA RunnerTypes ==
  ASSUME TypeOK,
         \/ \E i \in 1..Len(items) : Finish(i) \/ Save(i) \/ SaveFail(i)
         \/ Destroy
         \/ Restart
  PROVE  TypeOK'
<1>1. Len(log) \in Nat
  BY LenProperties DEF TypeOK
<1>2. ASSUME NEW i \in 1..Len(items), Finish(i)
      PROVE  TypeOK'
  <2>1. UNCHANGED <<server, asked, status, stored, began, faults>>
    BY <1>2 DEF Finish
  <2>2. items' \in Seq(Item)
    BY <1>2, FinishEffect
  <2>3. items \in Seq(Item) /\ items[i].seq \in 1..Len(log)
    BY ElementOfSeq, ItemFields DEF TypeOK
  <2>4. cursor' \in Cursor
    <3>1. CASE cursor' = cursor
      BY <3>1 DEF TypeOK
    <3>2. ASSUME NEW n \in 1..Len(items), cursor' = items[n].seq
          PROVE  cursor' \in Cursor
      <4>1. items[n] \in Item
        BY ElementOfSeq DEF TypeOK
      <4>2. items[n].seq \in 1..Len(log)
        BY <4>1, ItemFields
      <4>3. QED
        BY <1>1, <3>2, <4>2 DEF Cursor
    <3>3. QED
      BY <1>2, <3>1, <3>2, FinishEffect
  <2>5. handled' \subseteq 1..Len(log)
    BY <1>2, <2>3 DEF Finish, TypeOK
  <2>6. items' \in Seq(Item')
    BY <2>1, <2>2 DEF Item, server
  <2>7. QED
    BY <2>1, <2>4, <2>5, <2>6 DEF TypeOK, server, Cursor
<1>3. ASSUME NEW i \in 1..Len(items), Save(i) \/ SaveFail(i)
      PROVE  TypeOK'
  <2>1. UNCHANGED <<server, asked, status, cursor, began, handled, faults>>
    BY <1>3 DEF Save, SaveFail, Settle
  <2>2. items' \in Seq(Item)
    BY <1>3, SettleEffect DEF Save, SaveFail
  <2>3. stored' \in Cursor
    <3>1. items[i] \in Item
      BY ElementOfSeq DEF TypeOK
    <3>2. items[i].cur \in 0..Len(log)
      BY <3>1, ItemFields
    <3>3. QED
      BY <1>3, <3>2 DEF Save, SaveFail, TypeOK, Cursor
  <2>4. items' \in Seq(Item')
    BY <2>1, <2>2 DEF Item, server
  <2>5. QED
    BY <2>1, <2>3, <2>4 DEF TypeOK, server, Cursor
<1>4. CASE Destroy
  <2>1. UNCHANGED <<server, asked, cursor, stored, began, handled, faults>>
        /\ status' = "destroyed"
    BY <1>4 DEF Destroy
  <2>2. items' \in Seq(Item)
    BY <1>4, DestroyEffect
  <2>3. items' \in Seq(Item')
    BY <2>1, <2>2 DEF Item, server
  <2>4. QED
    BY <2>1, <2>3 DEF TypeOK, server, Cursor, Statuses
<1>5. CASE Restart
  <2>1. UNCHANGED <<log, gone, pos, stored, began, handled>>
        /\ asked' = NotAsked /\ status' = "up" /\ items' = <<>>
    BY <1>5 DEF Restart, Stream!Close
  <2>2. open' \in [{Me} -> BOOLEAN] /\ fresh' \in [{Me} -> BOOLEAN]
    BY <1>5 DEF TypeOK, Restart, Stream!Close
  <2>3. cursor' \in Cursor /\ faults' \in 0..MaxFaults
    BY <1>1, <1>5 DEF TypeOK, Restart, Cursor
  <2>4. items' \in Seq(Item')
    BY <2>1
  <2>5. QED
    BY <2>1, <2>2, <2>3, <2>4 DEF TypeOK, Statuses, Cursor
<1>6. QED
  BY <1>2, <1>3, <1>4, <1>5

LEMMA TypedStep == TypeOK /\ [Next]_vars => TypeOK'
<1> SUFFICES ASSUME TypeOK, [Next]_vars
             PROVE  TypeOK'
  OBVIOUS
<1>1. CASE UNCHANGED vars
  <2>1. items' \in Seq(Item')
    BY <1>1 DEF TypeOK, vars, server, client, Item
  <2>2. QED
    BY <1>1, <2>1 DEF TypeOK, vars, server, client, Cursor
<1>2. CASE Next
  BY <1>2, ServerTypes, ConnectionTypes, ReceiveTypes, RunnerTypes DEF Next
<1>3. QED
  BY <1>1, <1>2

(***************************************************************************)
(* Every state of the client and of its runner has its type.               *)
(***************************************************************************)
THEOREM TypeCorrect == Spec => []TypeOK
BY TypedInit, TypedStep, PTL DEF Spec

-----------------------------------------------------------------------------
(* No event is dropped                                                     *)

(***************************************************************************)
(* A service that starts at cursor 0 always has a cursor to resume from.   *)
(***************************************************************************)
FromZero == began = 0 /\ cursor # NoCursor /\ asked # NoCursor

ItemInv(i) ==
  /\ Accounted(items[i].seq, i)
  /\ Complete(items[i]) => items[i].seq \in handled
  /\ SettledUpTo(items[i].cur)
  /\ Removed(items[i]) => status = "destroyed"

PairInv(i, j) == SameAccount(i, j) /\ Removed(items[i]) => items[j].st # "pending"

OpenInv == /\ open[Me] => Accounted(pos[Me], Len(items))
           /\ open[Me] => status = "up" /\ asked = NotAsked
           /\ asked # NotAsked => status = "up"

(***************************************************************************)
(* The inductive invariant.                                                *)
(***************************************************************************)
IInv ==
  /\ TypeOK
  /\ FromZero
  /\ NoEventDropped
  /\ \A i \in 1..Len(items) : ItemInv(i)
  /\ \A j \in 1..Len(items) : \A i \in 1..(j - 1) : PairInv(i, j)
  /\ OpenInv
  /\ InOrder

LEMMA IInvRunnerInv == IInv => RunnerInv
BY DEF IInv, RunnerInv, FromZero, ItemInv, PairInv, OpenInv

LEMMA IInvInit == FirstCursor = 0 /\ Init => IInv
<1> SUFFICES ASSUME FirstCursor = 0, Init
             PROVE  IInv
  OBVIOUS
<1>1. TypeOK
  BY TypedInit
<1>2. items = <<>> /\ Len(items) = 0 /\ handled = {} /\ open[Me] = FALSE
  BY DEF Init, Stream!Init
<1>3. FromZero
  BY DEF Init, FromZero, NotAsked
<1>4. NoEventDropped
  BY DEF Init, NoEventDropped, SettledUpTo, NotAsked
<1>5. OpenInv
  BY <1>2 DEF Init, OpenInv, NotAsked
<1>6. InOrder
  BY <1>2 DEF InOrder
<1>7. QED
  BY <1>1, <1>2, <1>3, <1>4, <1>5, <1>6 DEF IInv

(***************************************************************************)
(* Facts about one state that the steps use.                               *)
(***************************************************************************)
LEMMA Ranges ==
  ASSUME TypeOK
  PROVE  /\ Len(log) \in Nat /\ Len(items) \in Nat
         /\ \A i \in 1..Len(items) : /\ items[i].seq \in 1..Len(log)
                                     /\ items[i].cur \in 0..Len(log)
                                     /\ items[i].st \in {"pending", "saving", "done",
                                                          "dropped", "cleared"}
         /\ pos[Me] \in 0..Len(log)
<1>1. \A i \in 1..Len(items) : items[i] \in Item
  BY ElementOfSeq DEF TypeOK
<1>2. QED
  BY <1>1, ItemFields, LenProperties DEF TypeOK

(***************************************************************************)
(* If every item up to the n-th is complete, or is i, then nothing but i's *)
(* row is missing up to the n-th item's row.                               *)
(***************************************************************************)
LEMMA PrefixSettled ==
  ASSUME IInv, NEW i \in 1..Len(items), NEW n \in 1..Len(items),
         \A j \in 1..n : j = i \/ Complete(items[j])
  PROVE  \A q \in 1..items[n].seq : q \in handled \cup {items[i].seq} \cup gone
<1>1. Len(items) \in Nat /\ began = 0
  BY Ranges DEF IInv, FromZero
<1> SUFFICES ASSUME NEW q \in 1..items[n].seq
             PROVE  q \in handled \cup {items[i].seq} \cup gone
  OBVIOUS
<1>2. q \in handled \cup gone \/ TrackedBy(q, n)
  BY <1>1 DEF IInv, ItemInv, Accounted
<1>3. ASSUME NEW j \in 1..n, items[j].seq = q
      PROVE  q \in handled \cup {items[i].seq}
  BY <1>1, <1>3 DEF IInv, ItemInv
<1>4. QED
  BY <1>2, <1>3 DEF TrackedBy

(***************************************************************************)
(* The earlier rows of an account are settled when one of its events is    *)
(* being handled.                                                          *)
(***************************************************************************)
LEMMA RunningLast ==
  ASSUME IInv, NEW i \in 1..Len(items), Running(i),
         NEW r \in 1..(items[i].seq - 1), log[r] = log[items[i].seq]
  PROVE  r \in handled \cup gone
<1>1. /\ Len(items) \in Nat /\ began = 0
      /\ \A j \in 1..Len(items) : /\ items[j].seq \in 1..Len(log)
                                  /\ items[j].st \in {"pending", "saving", "done",
                                                       "dropped", "cleared"}
  BY Ranges DEF IInv, FromZero
<1>2. Accounted(items[i].seq, i)
  BY DEF IInv, ItemInv
<1>3. r \in handled \cup gone \/ TrackedBy(r, i)
  BY <1>1, <1>2 DEF Accounted
<1>4. ASSUME NEW j \in 1..i, items[j].seq = r
      PROVE  r \in handled
  <2>1. j \in 1..(i - 1) /\ j \in 1..Len(items)
    BY <1>1, <1>4
  <2>2. items[j].st \notin {"pending", "saving"} /\ items[i].st = "pending"
    BY <1>4, <2>1 DEF Running
  <2>3. ~Removed(items[j])
    BY <1>4, <2>1, <2>2 DEF IInv, PairInv, SameAccount
  <2>4. Complete(items[j])
    BY <1>1, <2>1, <2>2, <2>3 DEF Removed, Complete
  <2>5. QED
    BY <1>4, <2>1, <2>4 DEF IInv, ItemInv
<1>5. QED
  BY <1>3, <1>4 DEF TrackedBy

(***************************************************************************)
(* The server logs and purges rows.                                        *)
(***************************************************************************)
LEMMA ServerStep ==
  ASSUME IInv, TypeOK',
         (\E d \in Dids : LogRow(d)) \/ (\E q \in 1..Len(log) : Purge(q))
  PROVE  IInv'
<1>1. /\ Len(log) \in Nat /\ Len(items) \in Nat /\ began = 0
      /\ \A i \in 1..Len(items) : items[i].seq \in 1..Len(log)
      /\ handled \subseteq 1..Len(log)
  BY Ranges DEF IInv, FromZero, TypeOK
<1>2. /\ UNCHANGED <<client, open, fresh, pos>>
      /\ gone \subseteq gone'
      /\ \A q \in 1..Len(log) : log'[q] = log[q]
  <2>1. ASSUME NEW d \in Dids, LogRow(d)
        PROVE  \A q \in 1..Len(log) : log'[q] = log[q]
    BY <1>1, <2>1, AppendProperties DEF LogRow, IInv, TypeOK
  <2>2. QED
    BY <2>1 DEF LogRow, Purge, Stream!LogRow, Stream!PurgeRows
<1>3. FromZero'
  BY <1>2 DEF IInv, FromZero, client
<1>4. NoEventDropped'
  BY <1>2 DEF IInv, NoEventDropped, SettledUpTo, client
<1>5. \A i \in 1..Len(items') : ItemInv(i)'
  BY <1>2 DEF IInv, ItemInv, Accounted, TrackedBy, SettledUpTo, Complete, Removed, client
<1>6. \A j \in 1..Len(items') : \A i \in 1..(j - 1) : PairInv(i, j)'
  BY <1>1, <1>2 DEF IInv, PairInv, SameAccount, Removed, client
<1>7. OpenInv'
  BY <1>2 DEF IInv, OpenInv, Accounted, TrackedBy, client
<1>8. InOrder'
  <2> SUFFICES ASSUME NEW q \in handled', NEW r \in (began' + 1)..(q - 1),
                      log'[r] = log'[q]
               PROVE  r \in handled' \cup gone'
    BY DEF InOrder
  <2>1. handled' = handled /\ began' = began
    BY <1>2 DEF client
  <2>2. q \in 1..Len(log) /\ r \in 1..Len(log) /\ log[r] = log[q]
    BY <1>1, <1>2, <2>1
  <2>3. r \in handled \cup gone
    BY <2>1, <2>2 DEF IInv, InOrder
  <2>4. QED
    BY <1>2, <2>1, <2>3
<1>9. QED
  BY <1>3, <1>4, <1>5, <1>6, <1>7, <1>8 DEF IInv

(***************************************************************************)
(* The connection comes and goes: it is opened at a cursor behind which    *)
(* nothing is missing.                                                     *)
(***************************************************************************)
LEMMA ConnectionStep ==
  ASSUME IInv, TypeOK',
         GetParams \/ Connect \/ Disconnect \/ CloseCleanly \/ Stop
  PROVE  IInv'
<1>1. UNCHANGED <<log, gone, items, cursor, stored, began, handled>>
  BY DEF GetParams, Connect, Disconnect, CloseCleanly, Stop, server,
         Stream!Open, Stream!Close
<1>2. asked' \in {cursor, NotAsked} /\ (asked' # NotAsked => status = "up")
  BY DEF IInv, OpenInv, GetParams, Connect, Disconnect, CloseCleanly, Stop
<1>3. status' = status \/ status = "up"
  BY DEF IInv, OpenInv, GetParams, Connect, Disconnect, CloseCleanly, Stop
<1>4. FromZero'
  BY <1>1, <1>2 DEF IInv, FromZero, NotAsked
<1>5. NoEventDropped'
  BY <1>1, <1>2 DEF IInv, NoEventDropped, SettledUpTo, NotAsked
<1>6. \A i \in 1..Len(items') : ItemInv(i)'
  BY <1>1, <1>3 DEF IInv, ItemInv, Accounted, TrackedBy, SettledUpTo, Complete, Removed
<1>7. \A j \in 1..Len(items') : \A i \in 1..(j - 1) : PairInv(i, j)'
  BY <1>1 DEF IInv, PairInv, SameAccount, Removed
<1>8. OpenInv'
  <2>1. CASE open'[Me] = FALSE
    <3>1. asked' # NotAsked => status' = "up"
      BY DEF IInv, OpenInv, GetParams, Connect, Disconnect, CloseCleanly, Stop
    <3>2. QED
      BY <2>1, <3>1 DEF OpenInv
  <2>2. CASE Connect
    <3>1. /\ asked # NotAsked /\ asked' = NotAsked /\ status' = status /\ status = "up"
      BY <2>2 DEF Connect, IInv, OpenInv
    <3>2. PICK p \in 0..Len(log) : asked \in {p, NoCursor} /\ Stream!Open(Me, p)
      BY <2>2 DEF Connect
    <3>3. asked = p /\ pos'[Me] = p
      BY <3>2 DEF IInv, FromZero, TypeOK, Stream!Open
    <3>4. \A q \in 1..p : q \in handled \cup gone
      BY <3>2, <3>3 DEF IInv, FromZero, NoEventDropped, SettledUpTo
    <3>5. QED
      BY <1>1, <3>1, <3>3, <3>4 DEF OpenInv, Accounted, IInv, FromZero
  <2>3. CASE GetParams
    <3>1. open'[Me] = FALSE
      BY <2>3 DEF GetParams, server, IInv, TypeOK
    <3>2. QED
      BY <2>1, <3>1
  <2>4. CASE Disconnect \/ CloseCleanly \/ Stop
    <3>1. open'[Me] = FALSE
      BY <2>4 DEF Disconnect, CloseCleanly, Stop, Stream!Close, IInv, TypeOK
    <3>2. QED
      BY <2>1, <3>1
  <2>5. QED
    BY <2>2, <2>3, <2>4
<1>9. InOrder'
  BY <1>1 DEF IInv, InOrder
<1>10. QED
  BY <1>4, <1>5, <1>6, <1>7, <1>8, <1>9 DEF IInv

(***************************************************************************)
(* An event arrives: every row before it that is not settled was tracked   *)
(* before it.                                                              *)
(***************************************************************************)
LEMMA ReceiveStep ==
  ASSUME IInv, TypeOK', NEW q \in 1..Len(log), Receive(q)
  PROVE  IInv'
<1>1. /\ Len(log) \in Nat /\ Len(items) \in Nat /\ began = 0 /\ pos[Me] \in 0..Len(log)
  BY Ranges DEF IInv, FromZero
<1> DEFINE e == [seq |-> q, st |-> "pending", cur |-> 0]
           n == Len(items) + 1
<1>2. /\ UNCHANGED <<log, gone, asked, status, cursor, stored, handled, began>>
      /\ status = "up"
  BY <1>1 DEF Receive, Stream!Send, Stream!Resend
<1>3. /\ Len(items') = n
      /\ \A i \in 1..Len(items) : items'[i] = items[i]
      /\ items'[n].seq = q /\ items'[n].st = "pending" /\ items'[n].cur = 0
  BY <1>1, AppendProperties DEF Receive, IInv, TypeOK
<1>4. /\ open[Me] /\ open' = open /\ pos'[Me] = q
      /\ \/ q <= pos[Me]
         \/ q > pos[Me] /\ (pos[Me] + 1)..(q - 1) \subseteq gone
  BY <1>1 DEF Receive, Stream!Send, Stream!Resend, IInv, TypeOK
<1>5. \A r \in 1..q : r \in handled \cup gone \/ (\E j \in 1..n : items'[j].seq = r)
  <2> SUFFICES ASSUME NEW r \in 1..q, r \notin handled \cup gone, r # q
               PROVE  \E j \in 1..n : items'[j].seq = r
    BY <1>1, <1>3
  <2>1. r \in 1..pos[Me]
    BY <1>1, <1>4
  <2>2. TrackedBy(r, Len(items))
    BY <1>1, <1>4, <2>1 DEF IInv, OpenInv, Accounted
  <2>3. QED
    BY <1>1, <1>3, <2>2 DEF TrackedBy
<1> HIDE DEF n
<1>6. FromZero'
  BY <1>2 DEF IInv, FromZero
<1>7. NoEventDropped'
  BY <1>2 DEF IInv, NoEventDropped, SettledUpTo
<1>8. ASSUME NEW i \in 1..n
      PROVE  ItemInv(i)'
  <2>1. CASE i \in 1..Len(items)
    <3>1. ItemInv(i) /\ items'[i] = items[i]
      BY <1>3, <2>1 DEF IInv
    <3>2. \A j \in 1..i : items'[j] = items[j]
      BY <1>1, <1>3, <2>1
    <3>3. Accounted(items[i].seq, i)'
      BY <1>2, <3>1, <3>2 DEF ItemInv, Accounted, TrackedBy
    <3>4. QED
      BY <1>2, <3>1, <3>3 DEF ItemInv, Complete, SettledUpTo, Removed
  <2>2. CASE i = n
    <3>1. Accounted(items[i].seq, i)'
      BY <1>1, <1>2, <1>3, <1>5, <2>2 DEF Accounted, TrackedBy
    <3>2. ~Complete(items[i])' /\ ~Removed(items[i])'
      BY <1>3, <2>2 DEF Complete, Removed
    <3>3. SettledUpTo(items[i].cur)'
      BY <1>1, <1>2, <1>3, <2>2 DEF SettledUpTo
    <3>4. QED
      BY <3>1, <3>2, <3>3 DEF ItemInv
  <2>3. QED
    BY <1>1, <2>1, <2>2 DEF n
<1>9. ASSUME NEW j \in 1..n, NEW i \in 1..(j - 1)
      PROVE  PairInv(i, j)'
  <2>1. i \in 1..Len(items) /\ items'[i] = items[i]
    BY <1>1, <1>3 DEF n
  <2>2. ~Removed(items[i])
    BY <1>2, <2>1 DEF IInv, ItemInv
  <2>3. QED
    BY <2>1, <2>2 DEF PairInv, Removed
<1>10. OpenInv'
  <2>1. Accounted(pos[Me], Len(items))'
    BY <1>1, <1>2, <1>3, <1>4, <1>5 DEF Accounted, TrackedBy
  <2>2. asked' = NotAsked /\ status' = "up"
    BY <1>2, <1>4 DEF IInv, OpenInv
  <2>3. QED
    BY <2>1, <2>2 DEF OpenInv
<1>11. InOrder'
  BY <1>2 DEF IInv, InOrder
<1>12. QED
  BY <1>3, <1>6, <1>7, <1>8, <1>9, <1>10, <1>11 DEF IInv

(***************************************************************************)
(* A handler finishes: the new cursor has only settled rows before it, and *)
(* the row is the next of its account.                                     *)
(***************************************************************************)
LEMMA FinishStep ==
  ASSUME IInv, TypeOK', NEW i \in 1..Len(items), Finish(i)
  PROVE  IInv'
<1>1. /\ Len(log) \in Nat /\ Len(items) \in Nat /\ began = 0 /\ TypeOK
      /\ \A j \in 1..Len(items) : items[j].seq \in 1..Len(log)
  BY Ranges DEF IInv, FromZero
<1>2. /\ UNCHANGED <<log, gone, open, fresh, pos, asked, status, stored, began>>
      /\ handled' = handled \cup {items[i].seq}
      /\ Running(i) /\ items[i].st = "pending"
  BY DEF Finish, server, Running
<1>3. /\ Len(items') = Len(items)
      /\ \A j \in 1..Len(items) : /\ items'[j].seq = items[j].seq
                                  /\ j # i => items'[j] = items[j]
      /\ Complete(items'[i])
  BY <1>1, FinishEffect
<1>4. \/ cursor' = cursor /\ items'[i].cur = items[i].cur
      \/ \E n \in 1..Len(items) :
           /\ cursor' = items[n].seq
           /\ items'[i].cur = items[n].seq
           /\ \A j \in 1..n : j = i \/ Complete(items[j])
  BY <1>1, FinishEffect
<1>5. /\ SettledUpTo(cursor)' /\ SettledUpTo(items[i].cur)' /\ cursor' # NoCursor
  <2>1. CASE cursor' = cursor /\ items'[i].cur = items[i].cur
    <3>1. SettledUpTo(cursor) /\ SettledUpTo(items[i].cur) /\ cursor # NoCursor
      BY DEF IInv, NoEventDropped, ItemInv, FromZero
    <3>2. QED
      BY <1>2, <2>1, <3>1 DEF SettledUpTo
  <2>2. ASSUME NEW n \in 1..Len(items),
               cursor' = items[n].seq, items'[i].cur = items[n].seq,
               \A j \in 1..n : j = i \/ Complete(items[j])
        PROVE  /\ SettledUpTo(cursor)' /\ SettledUpTo(items[i].cur)' /\ cursor' # NoCursor
    <3>1. \A q \in 1..items[n].seq : q \in handled \cup {items[i].seq} \cup gone
      BY <2>2, PrefixSettled
    <3>2. items[n].seq \in Nat
      BY <1>1
    <3>3. QED
      BY <1>1, <1>2, <2>2, <3>1, <3>2 DEF SettledUpTo
  <2>3. QED
    BY <1>4, <2>1, <2>2
<1>6. FromZero'
  BY <1>2, <1>5 DEF IInv, FromZero
<1>7. NoEventDropped'
  <2>1. SettledUpTo(stored) /\ SettledUpTo(asked)
    BY DEF IInv, NoEventDropped
  <2>2. SettledUpTo(stored)' /\ SettledUpTo(asked)'
    BY <1>2, <2>1 DEF SettledUpTo
  <2>3. QED
    BY <1>5, <2>2 DEF NoEventDropped
<1>8. ASSUME NEW j \in 1..Len(items)
      PROVE  ItemInv(j)'
  <2>1. ItemInv(j)
    BY DEF IInv
  <2>2. \A k \in 1..j : items'[k].seq = items[k].seq
    BY <1>1, <1>3
  <2>3. Accounted(items[j].seq, j)'
    BY <1>2, <1>3, <2>1, <2>2 DEF ItemInv, Accounted, TrackedBy
  <2>4. CASE j = i
    BY <1>2, <1>3, <1>5, <2>3, <2>4 DEF ItemInv, Complete, Removed
  <2>5. CASE j # i
    <3>1. items'[j] = items[j]
      BY <1>3, <2>5
    <3>2. QED
      BY <1>2, <2>1, <2>3, <3>1 DEF ItemInv, Complete, Removed, SettledUpTo
  <2>6. QED
    BY <2>4, <2>5
<1>9. ASSUME NEW k \in 1..Len(items), NEW j \in 1..(k - 1)
      PROVE  PairInv(j, k)'
  <2>1. PairInv(j, k) /\ j \in 1..Len(items)
    BY <1>1 DEF IInv
  <2>2. SameAccount(j, k)' => SameAccount(j, k)
    BY <1>2, <1>3, <2>1 DEF SameAccount
  <2>3. Removed(items'[j]) => Removed(items[j])
    BY <1>3, <2>1 DEF Removed, Complete
  <2>4. items'[k].st = "pending" => items[k].st = "pending"
    BY <1>3 DEF Complete
  <2>5. QED
    BY <2>1, <2>2, <2>3, <2>4 DEF PairInv
<1>10. OpenInv'
  BY <1>1, <1>2, <1>3 DEF IInv, OpenInv, Accounted, TrackedBy
<1>11. InOrder'
  <2> SUFFICES ASSUME NEW q \in handled', NEW r \in 1..(q - 1), log[r] = log[q]
               PROVE  r \in handled \cup gone
    BY <1>1, <1>2 DEF InOrder
  <2>1. CASE q \in handled
    BY <1>1, <2>1 DEF IInv, InOrder
  <2>2. CASE q = items[i].seq
    BY <1>2, <2>2, RunningLast
  <2>3. QED
    BY <1>2, <2>1, <2>2
<1>12. QED
  BY <1>3, <1>6, <1>7, <1>8, <1>9, <1>10, <1>11 DEF IInv

(***************************************************************************)
(* The cursor is saved, or is not.                                         *)
(***************************************************************************)
LEMMA SaveStep ==
  ASSUME IInv, TypeOK', NEW i \in 1..Len(items), Save(i) \/ SaveFail(i)
  PROVE  IInv'
<1>1. /\ Len(log) \in Nat /\ Len(items) \in Nat /\ began = 0 /\ TypeOK
  BY Ranges DEF IInv, FromZero
<1>2. UNCHANGED <<log, gone, open, fresh, pos, asked, status, cursor, began, handled>>
  BY DEF Save, SaveFail, Settle, server
<1>3. /\ Len(items') = Len(items)
      /\ \A j \in 1..Len(items) : /\ items'[j].seq = items[j].seq
                                  /\ j # i => items'[j] = items[j]
      /\ Complete(items[i]) /\ Complete(items'[i]) /\ items'[i].cur = 0
  BY <1>1, SettleEffect DEF Save, SaveFail
<1>4. FromZero'
  BY <1>2 DEF IInv, FromZero
<1>5. NoEventDropped'
  <2>1. SettledUpTo(cursor) /\ SettledUpTo(asked)
    BY DEF IInv, NoEventDropped
  <2>2. SettledUpTo(cursor)' /\ SettledUpTo(asked)'
    BY <1>2, <2>1 DEF SettledUpTo
  <2>3. SettledUpTo(stored)'
    <3>1. stored' = items[i].cur \/ stored' = stored
      BY DEF Save, SaveFail
    <3>2. SettledUpTo(items[i].cur) /\ SettledUpTo(stored)
      BY DEF IInv, NoEventDropped, ItemInv
    <3>3. QED
      BY <1>2, <3>1, <3>2 DEF SettledUpTo
  <2>4. QED
    BY <2>2, <2>3 DEF NoEventDropped
<1>6. ASSUME NEW j \in 1..Len(items)
      PROVE  ItemInv(j)'
  <2>1. ItemInv(j)
    BY DEF IInv
  <2>2. \A k \in 1..j : items'[k].seq = items[k].seq
    BY <1>1, <1>3
  <2>3. Accounted(items[j].seq, j)'
    BY <1>2, <1>3, <2>1, <2>2 DEF ItemInv, Accounted, TrackedBy
  <2>4. CASE j = i
    <3>1. SettledUpTo(items[j].cur)'
      BY <1>1, <1>2, <1>3, <2>4 DEF SettledUpTo
    <3>2. ~Removed(items'[j]) /\ items'[j].seq \in handled'
      BY <1>2, <1>3, <2>1, <2>4 DEF ItemInv, Complete, Removed
    <3>3. QED
      BY <2>3, <3>1, <3>2 DEF ItemInv
  <2>5. CASE j # i
    <3>1. items'[j] = items[j]
      BY <1>3, <2>5
    <3>2. QED
      BY <1>2, <2>1, <2>3, <3>1 DEF ItemInv, Complete, Removed, SettledUpTo
  <2>6. QED
    BY <2>4, <2>5
<1>7. ASSUME NEW k \in 1..Len(items), NEW j \in 1..(k - 1)
      PROVE  PairInv(j, k)'
  <2>1. PairInv(j, k) /\ j \in 1..Len(items)
    BY <1>1 DEF IInv
  <2>2. SameAccount(j, k)' => SameAccount(j, k)
    BY <1>2, <1>3, <2>1 DEF SameAccount
  <2>3. Removed(items'[j]) => Removed(items[j])
    BY <1>3, <2>1 DEF Removed, Complete
  <2>4. items'[k].st = "pending" => items[k].st = "pending"
    BY <1>3 DEF Complete
  <2>5. QED
    BY <2>1, <2>2, <2>3, <2>4 DEF PairInv
<1>8. OpenInv'
  BY <1>1, <1>2, <1>3 DEF IInv, OpenInv, Accounted, TrackedBy
<1>9. InOrder'
  BY <1>2 DEF IInv, InOrder
<1>10. QED
  BY <1>3, <1>4, <1>5, <1>6, <1>7, <1>8, <1>9 DEF IInv

(***************************************************************************)
(* Shutdown keeps only handlers under way, each the last unfinished event  *)
(* of its account.                                                         *)
(***************************************************************************)
LEMMA DestroyStep ==
  ASSUME IInv, TypeOK', Destroy
  PROVE  IInv'
<1>1. /\ Len(log) \in Nat /\ Len(items) \in Nat /\ began = 0 /\ TypeOK
  BY Ranges DEF IInv, FromZero
<1>2. /\ UNCHANGED <<server, asked, cursor, stored, began, handled>>
      /\ status = "stopped" /\ status' = "destroyed"
  BY DEF Destroy
<1>3. /\ Len(items') = Len(items)
      /\ \A j \in 1..Len(items) :
           /\ items'[j].seq = items[j].seq /\ items'[j].cur = items[j].cur
           /\ Complete(items'[j]) => Complete(items[j])
           /\ items'[j].st = "pending" => Running(j)
           /\ Removed(items'[j]) => Removed(items[j]) \/ items[j].st = "pending"
  BY <1>1, DestroyEffect
<1>4. FromZero'
  BY <1>2 DEF IInv, FromZero
<1>5. NoEventDropped'
  BY <1>2 DEF IInv, NoEventDropped, SettledUpTo, server
<1>6. ASSUME NEW j \in 1..Len(items)
      PROVE  ItemInv(j)'
  <2>1. ItemInv(j)
    BY DEF IInv
  <2>2. \A k \in 1..j : items'[k].seq = items[k].seq
    BY <1>1, <1>3
  <2>3. Accounted(items[j].seq, j)'
    BY <1>2, <1>3, <2>1, <2>2 DEF ItemInv, Accounted, TrackedBy, server
  <2>4. SettledUpTo(items[j].cur)'
    BY <1>2, <1>3, <2>1 DEF ItemInv, SettledUpTo, server
  <2>5. QED
    BY <1>2, <1>3, <2>1, <2>3, <2>4 DEF ItemInv
<1>7. ASSUME NEW k \in 1..Len(items), NEW j \in 1..(k - 1),
             SameAccount(j, k)', Removed(items'[j]), items'[k].st = "pending"
      PROVE  FALSE
  <2>1. j \in 1..Len(items)
    BY <1>1
  <2>2. SameAccount(j, k)
    BY <1>2, <1>3, <1>7, <2>1 DEF SameAccount, server
  <2>3. Running(k)
    BY <1>3, <1>7
  <2>4. items[k].st = "pending" /\ items[j].st # "pending"
    BY <2>2, <2>3 DEF Running, SameAccount
  <2>5. Removed(items[j])
    BY <1>3, <1>7, <2>1, <2>4
  <2>6. QED
    BY <2>2, <2>4, <2>5 DEF IInv, PairInv
<1>8. OpenInv'
  BY <1>2 DEF IInv, OpenInv, server
<1>9. InOrder'
  BY <1>2 DEF IInv, InOrder, server
<1>10. \A k \in 1..Len(items') : \A j \in 1..(k - 1) : PairInv(j, k)'
  BY <1>3, <1>7 DEF PairInv
<1>11. QED
  BY <1>3, <1>4, <1>5, <1>6, <1>8, <1>9, <1>10 DEF IInv

LEMMA RestartStep ==
  ASSUME FirstCursor = 0, IInv, TypeOK', Restart
  PROVE  IInv'
<1>1. /\ UNCHANGED <<log, gone, stored, began, handled>>
      /\ asked' = NotAsked /\ items' = <<>> /\ Len(items') = 0
      /\ cursor' \in {stored, 0} /\ cursor' # NoCursor
  BY DEF Restart, Stream!Close
<1>2. open'[Me] = FALSE
  BY DEF Restart, Stream!Close, IInv, TypeOK
<1>3. FromZero'
  BY <1>1 DEF IInv, FromZero, NotAsked
<1>4. NoEventDropped'
  <2>1. SettledUpTo(stored)'
    BY <1>1 DEF IInv, NoEventDropped, SettledUpTo
  <2>2. SettledUpTo(asked)'
    BY <1>1 DEF SettledUpTo, NotAsked
  <2>3. SettledUpTo(cursor)'
    BY <1>1, <2>1 DEF SettledUpTo, IInv, FromZero
  <2>4. QED
    BY <2>1, <2>2, <2>3 DEF NoEventDropped
<1>5. OpenInv' /\ InOrder'
  BY <1>1, <1>2 DEF IInv, OpenInv, InOrder
<1>6. QED
  BY <1>1, <1>3, <1>4, <1>5 DEF IInv

LEMMA IInvStep == FirstCursor = 0 /\ IInv /\ [Next]_vars => IInv'
<1> SUFFICES ASSUME FirstCursor = 0, IInv, [Next]_vars
             PROVE  IInv'
  OBVIOUS
<1>1. TypeOK'
  BY TypedStep DEF IInv
<1>2. CASE UNCHANGED vars
  BY <1>1, <1>2 DEF vars, server, client, IInv, FromZero, NoEventDropped, SettledUpTo,
     ItemInv, Accounted, TrackedBy, Complete, Removed, PairInv, SameAccount, OpenInv, InOrder
<1>3. CASE Next
  BY <1>1, <1>3, ServerStep, ConnectionStep, ReceiveStep, FinishStep, SaveStep,
     DestroyStep, RestartStep DEF Next
<1>4. QED
  BY <1>2, <1>3

(***************************************************************************)
(* A service whose first cursor is 0 never drops an event: whatever cursor *)
(* the client may resume from, in this process or in the next one,         *)
(* everything before it was handled or purged - with any number of         *)
(* accounts, any concurrency, any reconnections and restarts, and cursors  *)
(* that fail to be saved or are saved out of order.                        *)
(***************************************************************************)
THEOREM NothingDropped ==
  ASSUME FirstCursor = 0
  PROVE  Spec => []NoEventDropped
<1>1. Init => IInv
  BY IInvInit
<1>2. IInv /\ [Next]_vars => IInv'
  BY IInvStep
<1>3. IInv => NoEventDropped
  BY DEF IInv
<1>4. QED
  BY <1>1, <1>2, <1>3, PTL DEF Spec

(***************************************************************************)
(* "events from a given repo must be processed in order": no event of an   *)
(* account is handled before the earlier ones have been.                   *)
(***************************************************************************)
THEOREM AccountsInOrder ==
  ASSUME FirstCursor = 0
  PROVE  Spec => []InOrder
<1>1. Init => IInv
  BY IInvInit
<1>2. IInv /\ [Next]_vars => IInv'
  BY IInvStep
<1>3. IInv => InOrder
  BY DEF IInv
<1>4. QED
  BY <1>1, <1>2, <1>3, PTL DEF Spec

(***************************************************************************)
(* The invariant behind both, as the runs check it.                        *)
(***************************************************************************)
THEOREM RunnerInvariant ==
  ASSUME FirstCursor = 0
  PROVE  Spec => []RunnerInv
<1>1. Init => IInv
  BY IInvInit
<1>2. IInv /\ [Next]_vars => IInv'
  BY IInvStep
<1>3. IInv => RunnerInv
  BY IInvRunnerInv
<1>4. QED
  BY <1>1, <1>2, <1>3, PTL DEF Spec
=============================================================================
