----------------------- MODULE SubscribeRepos_proofs -----------------------
(***************************************************************************)
(* Proofs about SubscribeRepos, for every set of accounts and consumers    *)
(* and every poll limit, page size and buffer bound.                       *)
(***************************************************************************)
EXTENDS SubscribeRepos, SequenceTheorems, TLAPS

-----------------------------------------------------------------------------
(* Buffers that continue a stream                                          *)

(***************************************************************************)
(* A buffer that goes on where another one ends may be put behind it: this *)
(* is what cutover() and addToBuffer do.                                   *)
(***************************************************************************)
LEMMA ContinuesConcat ==
  ASSUME NEW g, NEW a \in Seq(Nat), NEW b \in Seq(Nat), NEW p \in Int, NEW n \in Int,
         Continues(g, a, p), Reaches(g, a, p, n), Continues(g, b, n)
  PROVE  Continues(g, a \o b, p)
<1> DEFINE c == a \o b
<1>1. /\ Len(c) = Len(a) + Len(b)
      /\ \A i \in 1..Len(a) + Len(b) :
            c[i] = IF i <= Len(a) THEN a[i] ELSE b[i - Len(a)]
  BY ConcatProperties
<1>2. Len(a) \in Nat /\ Len(b) \in Nat
  BY LenProperties
<1>3. \A i \in 1..Len(b) : b[i] \in Nat
  BY ElementOfSeq
<1>4. \A j \in 1..Len(a) : c[j] = a[j]
  BY <1>1, <1>2
<1>5. \A j \in 1..Len(b) : c[Len(a) + j] = b[j]
  BY <1>1, <1>2
<1> HIDE DEF c
<1>6. SUFFICES ASSUME NEW i \in 1..Len(c), NEW q \in (p + 1)..c[i], q \notin g
               PROVE  \E j \in 1..i : c[j] = q
  BY DEF Continues, c
<1>7. CASE i <= Len(a)
  <2>1. i \in 1..Len(a) /\ c[i] = a[i]
    <3>1. i \in Int /\ 1 <= i
      OBVIOUS
    <3>2. i \in 1..Len(a)
      BY <1>2, <1>7, <3>1
    <3>3. QED
      BY <1>4, <3>2
  <2>2. PICK j \in 1..i : a[j] = q
    BY <1>6, <2>1 DEF Continues
  <2>3. j \in 1..Len(a)
    BY <1>2, <2>1, <2>2
  <2>4. QED
    BY <1>4, <2>2, <2>3
<1>8. CASE i > Len(a)
  <2>1. i - Len(a) \in 1..Len(b) /\ c[i] = b[i - Len(a)]
    BY <1>1, <1>2, <1>8
  <2>2. CASE q <= n
    <3>1. q \in (p + 1)..n
      BY <2>2
    <3>2. PICK j \in 1..Len(a) : a[j] = q
      BY <1>6, <3>1 DEF Reaches
    <3>3. j \in 1..i
      BY <1>1, <1>2, <1>8
    <3>4. QED
      BY <1>4, <3>2, <3>3
  <2>3. CASE q > n
    <3>1. q \in (n + 1)..b[i - Len(a)]
      BY <1>3, <2>1, <2>3
    <3>2. PICK j \in 1..(i - Len(a)) : b[j] = q
      BY <1>6, <2>1, <3>1 DEF Continues
    <3>3. j \in 1..Len(b) /\ Len(a) + j \in 1..i
      BY <1>2, <2>1, <3>2
    <3>4. QED
      BY <1>5, <3>2, <3>3
  <2>4. QED
    BY <2>2, <2>3
<1>9. QED
  BY <1>1, <1>2, <1>7, <1>8

LEMMA ReachesConcat ==
  ASSUME NEW g, NEW a \in Seq(Nat), NEW b \in Seq(Nat),
         NEW p \in Int, NEW n \in Int, NEW m \in Int,
         Reaches(g, a, p, n), Reaches(g, b, n, m)
  PROVE  Reaches(g, a \o b, p, m)
<1> DEFINE c == a \o b
<1>1. /\ Len(c) = Len(a) + Len(b)
      /\ \A i \in 1..Len(a) + Len(b) :
            c[i] = IF i <= Len(a) THEN a[i] ELSE b[i - Len(a)]
  BY ConcatProperties
<1>2. Len(a) \in Nat /\ Len(b) \in Nat
  BY LenProperties
<1>3. \A j \in 1..Len(a) : j \in 1..Len(c) /\ c[j] = a[j]
  BY <1>1, <1>2
<1>4. \A j \in 1..Len(b) : Len(a) + j \in 1..Len(c) /\ c[Len(a) + j] = b[j]
  BY <1>1, <1>2
<1> HIDE DEF c
<1>5. SUFFICES ASSUME NEW q \in (p + 1)..m, q \notin g
               PROVE  \E j \in 1..Len(c) : c[j] = q
  BY DEF Reaches, c
<1>6. CASE q <= n
  <2>1. q \in (p + 1)..n
    BY <1>6
  <2>2. PICK j \in 1..Len(a) : a[j] = q
    BY <1>5, <2>1 DEF Reaches
  <2>3. QED
    BY <1>3, <2>2
<1>7. CASE q > n
  <2>1. q \in (n + 1)..m
    BY <1>7
  <2>2. PICK j \in 1..Len(b) : b[j] = q
    BY <1>5, <2>1 DEF Reaches
  <2>3. QED
    BY <1>4, <2>2
<1>8. QED
  BY <1>6, <1>7

(***************************************************************************)
(* A batch the sequencer emits reaches as far as its last row.             *)
(***************************************************************************)
LEMMA ReachesLast ==
  ASSUME NEW g, NEW b \in Seq(Nat), b # <<>>, NEW p \in Int, Continues(g, b, p)
  PROVE  Reaches(g, b, p, Last(b))
<1>1. Len(b) \in Nat /\ Len(b) \in 1..Len(b)
  BY EmptySeq, LenProperties
<1>2. QED
  BY <1>1 DEF Continues, Reaches, Last

LEMMA AboveConcat ==
  ASSUME NEW a \in Seq(Nat), NEW b \in Seq(Nat), NEW p \in Int, NEW n \in Int,
         p <= n, Above(a, p), Above(b, n)
  PROVE  Above(a \o b, p)
<1>1. Len(a) \in Nat /\ Len(b) \in Nat
  BY LenProperties
<1>2. \A i \in 1..Len(b) : b[i] \in Nat
  BY ElementOfSeq
<1>3. /\ Len(a \o b) = Len(a) + Len(b)
      /\ \A i \in 1..Len(a) + Len(b) :
            (a \o b)[i] = IF i <= Len(a) THEN a[i] ELSE b[i - Len(a)]
  BY ConcatProperties
<1>4. SUFFICES ASSUME NEW i \in 1..Len(a) + Len(b) PROVE (a \o b)[i] > p
  BY <1>3 DEF Above
<1>5. CASE i <= Len(a)
  BY <1>1, <1>3, <1>5 DEF Above
<1>6. CASE i > Len(a)
  <2>1. i - Len(a) \in 1..Len(b)
    BY <1>1, <1>6
  <2>2. b[i - Len(a)] > n /\ b[i - Len(a)] \in Nat
    BY <1>2, <2>1 DEF Above
  <2>3. QED
    BY <1>3, <1>6, <2>2
<1>7. QED
  BY <1>1, <1>5, <1>6

(***************************************************************************)
(* Taking the first row of a buffer that continues the stream at p: what   *)
(* lies between p and that row is deleted, and the rest of the buffer      *)
(* continues the stream from there.                                        *)
(***************************************************************************)
LEMMA PopNext ==
  ASSUME NEW g, NEW b \in Seq(Nat), b # <<>>, NEW p \in Int, Continues(g, b, p),
         Head(b) > p
  PROVE  /\ (p + 1)..(Head(b) - 1) \subseteq g
         /\ Continues(g, Tail(b), Head(b))
         /\ \A n \in Int : Reaches(g, b, p, n) => Reaches(g, Tail(b), Head(b), n)
<1>1. /\ Len(b) \in Nat \ {0}
      /\ Head(b) = b[1]
      /\ Len(Tail(b)) = Len(b) - 1
      /\ \A i \in 1..Len(Tail(b)) : Tail(b)[i] = b[i + 1]
  BY EmptySeq, HeadTailProperties
<1>2. \A i \in 1..Len(b) : b[i] \in Nat
  BY ElementOfSeq
<1>3. (p + 1)..(Head(b) - 1) \subseteq g
  <2>1. SUFFICES ASSUME NEW q \in (p + 1)..(b[1] - 1) PROVE q \in g
    BY <1>1
  <2>2. 1 \in 1..Len(b) /\ b[1] \in Nat
    BY <1>1, <1>2
  <2>3. q \in (p + 1)..b[1] /\ q # b[1]
    BY <2>2
  <2>4. q \in g \/ \E j \in 1..1 : b[j] = q
    BY <2>2, <2>3 DEF Continues
  <2>5. QED
    BY <2>3, <2>4
<1>4. Continues(g, Tail(b), Head(b))
  <2>1. SUFFICES ASSUME NEW i \in 1..Len(b) - 1, NEW q \in (b[1] + 1)..b[i + 1], q \notin g
                 PROVE  \E j \in 1..i : Tail(b)[j] = q
    BY <1>1 DEF Continues
  <2>2. i + 1 \in 1..Len(b) /\ q \in (p + 1)..b[i + 1] /\ q # b[1]
    BY <1>1, <1>2
  <2>3. PICK j \in 1..(i + 1) : b[j] = q
    BY <2>1, <2>2 DEF Continues
  <2>4. j - 1 \in 1..i /\ j - 1 \in 1..Len(b) - 1
    BY <2>2, <2>3
  <2>5. Tail(b)[j - 1] = q
    BY <1>1, <2>3, <2>4
  <2>6. QED
    BY <2>4, <2>5
<1>5. ASSUME NEW n \in Int, Reaches(g, b, p, n) PROVE Reaches(g, Tail(b), Head(b), n)
  <2>1. SUFFICES ASSUME NEW q \in (b[1] + 1)..n, q \notin g
                 PROVE  \E j \in 1..Len(b) - 1 : Tail(b)[j] = q
    BY <1>1 DEF Reaches
  <2>2. q \in (p + 1)..n /\ q # b[1]
    BY <1>1, <1>2
  <2>3. PICK j \in 1..Len(b) : b[j] = q
    BY <1>5, <2>1, <2>2 DEF Reaches
  <2>4. j - 1 \in 1..Len(b) - 1
    BY <1>1, <2>2, <2>3
  <2>5. Tail(b)[j - 1] = q
    BY <1>1, <2>3, <2>4
  <2>6. QED
    BY <2>4, <2>5
<1>6. QED
  BY <1>3, <1>4, <1>5

(***************************************************************************)
(* Dropping a first row the stream is already past: deduplication.         *)
(***************************************************************************)
LEMMA PopOld ==
  ASSUME NEW g, NEW b \in Seq(Nat), b # <<>>, NEW p \in Int, Continues(g, b, p),
         Head(b) <= p
  PROVE  /\ Continues(g, Tail(b), p)
         /\ \A n \in Int : Reaches(g, b, p, n) => Reaches(g, Tail(b), p, n)
<1>1. /\ Len(b) \in Nat \ {0}
      /\ Head(b) = b[1]
      /\ Len(Tail(b)) = Len(b) - 1
      /\ \A i \in 1..Len(Tail(b)) : Tail(b)[i] = b[i + 1]
  BY EmptySeq, HeadTailProperties
<1>2. \A i \in 1..Len(b) : b[i] \in Nat
  BY ElementOfSeq
<1>3. Continues(g, Tail(b), p)
  <2>1. SUFFICES ASSUME NEW i \in 1..Len(b) - 1, NEW q \in (p + 1)..b[i + 1], q \notin g
                 PROVE  \E j \in 1..i : Tail(b)[j] = q
    BY <1>1 DEF Continues
  <2>2. i + 1 \in 1..Len(b) /\ 1 \in 1..Len(b) /\ q # b[1]
    BY <1>1, <1>2
  <2>3. PICK j \in 1..(i + 1) : b[j] = q
    BY <2>1, <2>2 DEF Continues
  <2>4. j - 1 \in 1..i /\ j - 1 \in 1..Len(b) - 1
    BY <2>2, <2>3
  <2>5. Tail(b)[j - 1] = q
    BY <1>1, <2>3, <2>4
  <2>6. QED
    BY <2>4, <2>5
<1>4. ASSUME NEW n \in Int, Reaches(g, b, p, n) PROVE Reaches(g, Tail(b), p, n)
  <2>1. SUFFICES ASSUME NEW q \in (p + 1)..n, q \notin g
                 PROVE  \E j \in 1..Len(b) - 1 : Tail(b)[j] = q
    BY <1>1 DEF Reaches
  <2>2. 1 \in 1..Len(b) /\ q # b[1]
    BY <1>1, <1>2
  <2>3. PICK j \in 1..Len(b) : b[j] = q
    BY <1>4, <2>1 DEF Reaches
  <2>4. j - 1 \in 1..Len(b) - 1
    BY <1>1, <2>2, <2>3
  <2>5. Tail(b)[j - 1] = q
    BY <1>1, <2>3, <2>4
  <2>6. QED
    BY <2>4, <2>5
<1>5. QED
  BY <1>3, <1>4

(***************************************************************************)
(* Deleting rows breaks neither: Continues and Reaches only gain from it.  *)
(***************************************************************************)
LEMMA MoreGone ==
  ASSUME NEW g, NEW h, g \subseteq h, NEW b, NEW p
  PROVE  /\ Continues(g, b, p) => Continues(h, b, p)
         /\ \A n : Reaches(g, b, p, n) => Reaches(h, b, p, n)
BY DEF Continues, Reaches

-----------------------------------------------------------------------------
(* Types                                                                   *)

\* an insert widens the types that mention Len(log)
LEMMA SeqGrows ==
  ASSUME NEW m \in Nat, NEW n \in Nat, m <= n
  PROVE  /\ Seq(1..m) \subseteq Seq(1..n)
         /\ [Subs -> Seq(1..m)] \subseteq [Subs -> Seq(1..n)]
<1>1. 1..m \subseteq 1..n
  OBVIOUS
<1>2. Seq(1..m) \subseteq Seq(1..n)
  BY <1>1, SeqMonotonic
<1>3. QED
  BY <1>2

LEMMA AnswersType ==
  ASSUME TypeOK, NEW r, NEW c, NEW k, Answers(r, c, k)
  PROVE  r \in Seq(1..Len(log))
<1>1. r \in Seq(Alive) /\ Alive \subseteq 1..Len(log)
  BY DEF Answers, Alive
<1>2. QED
  BY <1>1, SeqMonotonic

(***************************************************************************)
(* An inserted row changes no connection, and every type allows for it.    *)
(***************************************************************************)
LEMMA InsertTypes ==
  ASSUME TypeOK, NEW e \in Row, log' = Append(log, e),
         purges' \subseteq purges \cup {Len(log) + 1},
         UNCHANGED <<gone, horizon, seqr, conn>>
  PROVE  TypeOK'
<1> USE DEF TypeOK
<1>1. log' \in Seq(Row) /\ Len(log) \in Nat /\ Len(log') = Len(log) + 1
  BY AppendProperties, LenProperties
<1>2. UNCHANGED <<gone, horizon, seqLastSeen, polled, phase, cursor, lastSeen, rows,
                  cutoverBuffer, outBuffer, pos, got>>
  BY DEF seqr, conn
<1>3. /\ Seq(1..Len(log)) \subseteq Seq(1..Len(log'))
      /\ [Subs -> Seq(1..Len(log))] \subseteq [Subs -> Seq(1..Len(log'))]
  BY <1>1, SeqGrows
<1>4. gone' \subseteq 1..Len(log') /\ purges' \subseteq 1..Len(log')
  BY <1>1, <1>2
<1>5. horizon' \in Nat \ {0} /\ seqLastSeen' \in 0..Len(log') /\ phase' \in [Subs -> Phases]
  BY <1>1, <1>2
<1>6. /\ polled' \in Seq(1..Len(log'))
      /\ rows' \in [Subs -> Seq(1..Len(log'))]
      /\ cutoverBuffer' \in [Subs -> Seq(1..Len(log'))]
      /\ outBuffer' \in [Subs -> Seq(1..Len(log'))]
  BY <1>2, <1>3
<1>7. cursor' \in [Subs -> 0..Len(log')] /\ pos' \in [Subs -> 0..Len(log')]
  BY <1>1, <1>2
<1>8. lastSeen' \in [Subs -> -1..Len(log')]
  BY <1>1, <1>2
<1>9. got' \in [Subs -> SUBSET (1..Len(log'))]
  <2>1. 1..Len(log) \subseteq 1..Len(log')
    BY <1>1
  <2>2. QED
    BY <1>2, <2>1
<1>10. QED
  BY <1>1, <1>4, <1>5, <1>6, <1>7, <1>8, <1>9

(***************************************************************************)
(* What both ways to write a row come to.                                  *)
(***************************************************************************)
LEMMA OneMoreRow ==
  ASSUME NEW d \in Dids, SequenceEvt(d) \/ SequenceDeletion(d)
  PROVE  /\ \E e \in Row : /\ log' = Append(log, e)
                           /\ e.did = d
                           /\ (\E k \in purges : log[k].did = d) => e.late
         /\ purges' \subseteq purges \cup {Len(log) + 1}
         /\ UNCHANGED <<gone, horizon, seqr, conn>>
<1> DEFINE e == [did |-> d, late |-> \E k \in purges : log[k].did = d]
<1>1. e \in Row /\ e.did = d /\ ((\E k \in purges : log[k].did = d) => e.late)
  BY Zenon DEF Row
<1>2. Insert(d) /\ UNCHANGED <<gone, horizon, seqr, conn>>
      /\ purges' \subseteq purges \cup {Len(log) + 1}
  BY DEF SequenceEvt, SequenceDeletion
<1>3. log' = Append(log, e)
  BY <1>2, Zenon DEF Insert
<1>4. QED
  BY <1>1, <1>2, <1>3, Zenon

\* the steps that leave the table alone
LEMMA TableSame ==
  ASSUME UNCHANGED table
  PROVE  /\ log' = log /\ gone' = gone /\ purges' = purges /\ horizon' = horizon
         /\ Alive' = Alive
BY DEF table, Alive

LEMMA GotoTypes ==
  ASSUME TypeOK, NEW s \in Subs, NEW p \in Phases, Goto(s, p)
  PROVE  phase' \in [Subs -> Phases]
BY DEF Goto, TypeOK

LEMMA ReceiveTypes ==
  ASSUME TypeOK, NEW s \in Subs, NEW q \in 1..Len(log), Receive(s, q)
  PROVE  /\ lastSeen' \in [Subs -> -1..Len(log)]
         /\ pos' \in [Subs -> 0..Len(log)]
         /\ got' \in [Subs -> SUBSET (1..Len(log))]
<1>1. Len(log) \in Nat
  BY LenProperties DEF TypeOK
<1>2. QED
  BY <1>1 DEF Receive, TypeOK

LEMMA NewOutboxTypes ==
  ASSUME TypeOK, NEW s \in Subs, NewOutbox(s)
  PROVE  /\ lastSeen' \in [Subs -> -1..Len(log)]
         /\ rows' \in [Subs -> Seq(1..Len(log))]
         /\ cutoverBuffer' \in [Subs -> Seq(1..Len(log))]
         /\ outBuffer' \in [Subs -> Seq(1..Len(log))]
         /\ got' \in [Subs -> SUBSET (1..Len(log))]
<1>1. Len(log) \in Nat /\ <<>> \in Seq(1..Len(log))
  BY LenProperties, EmptySeq DEF TypeOK
<1>2. QED
  BY <1>1 DEF NewOutbox, TypeOK

(***************************************************************************)
(* The types of the state: in particular that every seq in a buffer, a     *)
(* page or a cursor is the seq of a row that was written.                  *)
(***************************************************************************)
LEMMA TypeStep == TypeOK /\ [Next]_vars => TypeOK'
<1> SUFFICES ASSUME TypeOK, [Next]_vars PROVE TypeOK'
  OBVIOUS
<1> USE DEF TypeOK
<1>0. Len(log) \in Nat /\ <<>> \in Seq(1..Len(log))
  BY LenProperties, EmptySeq
<1>1. ASSUME NEW d \in Dids, SequenceEvt(d) \/ SequenceDeletion(d) PROVE TypeOK'
  <2>1. PICK e \in Row : log' = Append(log, e)
    BY <1>1, OneMoreRow, Zenon
  <2>2. /\ purges' \subseteq purges \cup {Len(log) + 1}
        /\ UNCHANGED <<gone, horizon, seqr, conn>>
    BY <1>1, OneMoreRow, Zenon
  <2>3. QED
    BY <2>1, <2>2, InsertTypes
<1>3. ASSUME NEW k \in purges, DeleteAllForUser(k) PROVE TypeOK'
  BY <1>0, <1>3 DEF DeleteAllForUser, Alive, seqr, conn
<1>4. CASE Age
  BY <1>0, <1>4 DEF Age, seqr, conn
<1>5. CASE PollDb
  <2>1. polled' \in Seq(1..Len(log))
    BY <1>5, AnswersType, Zenon DEF PollDb
  <2>2. QED
    BY <1>5, <2>1 DEF PollDb, table, conn
<1>6. CASE Emit
  <2>1. Last(polled) \in 1..Len(log)
    <3>1. Len(polled) \in 1..Len(polled)
      BY <1>6, EmptySeq DEF Emit
    <3>2. QED
      BY <3>1, ElementOfSeq DEF Last
  <2>2. \A s \in Subs : /\ outBuffer[s] \o polled \in Seq(1..Len(log))
                        /\ cutoverBuffer[s] \o polled \in Seq(1..Len(log))
    BY ConcatProperties
  <2>3. /\ outBuffer' \in [Subs -> Seq(1..Len(log))]
        /\ cutoverBuffer' \in [Subs -> Seq(1..Len(log))]
    BY <1>6, <2>2 DEF Emit
  <2>4. QED
    BY <1>0, <1>6, <2>1, <2>3 DEF Emit, table
<1>7. ASSUME NEW s \in Subs, NEW c \in 0..pos[s], OpenAt(s, c) PROVE TypeOK'
  <2>1. c \in 0..Len(log)
    BY <1>0
  <2>2. phase' \in [Subs -> Phases] /\ pos' \in [Subs -> 0..Len(log)]
    BY <1>7, <2>1, GotoTypes DEF OpenAt, Phases
  <2>3. cursor' \in [Subs -> 0..Len(log)] /\ NewOutbox(s) /\ UNCHANGED <<table, seqr>>
    BY <1>7, <2>1 DEF OpenAt
  <2>4. QED
    BY <2>2, <2>3, NewOutboxTypes DEF table, seqr
<1>8. ASSUME NEW s \in Subs, OpenLive(s) PROVE TypeOK'
  BY <1>8, NewOutboxTypes DEF OpenLive, Goto, Phases, table, seqr
<1>9. ASSUME NEW s \in Subs, OpenOutdated(s) PROVE TypeOK'
  <2>1. phase' \in [Subs -> Phases]
    BY <1>9, GotoTypes DEF OpenOutdated, Phases
  <2>2. cursor' \in [Subs -> 0..Len(log)] /\ pos' \in [Subs -> 0..Len(log)]
    <3>1. CASE UNCHANGED <<cursor, pos>>
      BY <3>1
    <3>2. ASSUME NEW q \in Alive, cursor' = [cursor EXCEPT ![s] = q - 1],
                 pos' = [pos EXCEPT ![s] = q - 1]
          PROVE  cursor' \in [Subs -> 0..Len(log)] /\ pos' \in [Subs -> 0..Len(log)]
      <4>1. q - 1 \in 0..Len(log)
        BY <1>0 DEF Alive
      <4>2. QED
        BY <3>2, <4>1
    <3>3. QED
      BY <1>9, <3>1, <3>2 DEF OpenOutdated
  <2>3. QED
    BY <1>9, <2>1, <2>2 DEF OpenOutdated, table, seqr
<1>10. ASSUME NEW s \in Subs, BackfillRequest(s) PROVE TypeOK'
  <2>1. PICK r : Answers(r, From(s), PageSize) /\ rows' = [rows EXCEPT ![s] = r]
                 /\ Goto(s, IF r = <<>> THEN "register" ELSE "page")
    BY <1>10 DEF BackfillRequest
  <2>2. r \in Seq(1..Len(log))
    BY <2>1, AnswersType
  <2>3. phase' \in [Subs -> Phases] /\ rows' \in [Subs -> Seq(1..Len(log))]
    BY <2>1, <2>2, GotoTypes DEF Phases
  <2>4. QED
    BY <1>10, <2>3 DEF BackfillRequest, table, seqr
<1>11. ASSUME NEW s \in Subs, BackfillYield(s) PROVE TypeOK'
  <2>1. Head(rows[s]) \in 1..Len(log) /\ Tail(rows[s]) \in Seq(1..Len(log))
    BY <1>11, HeadTailProperties DEF BackfillYield
  <2>2. rows' \in [Subs -> Seq(1..Len(log))]
    BY <1>11, <2>1 DEF BackfillYield
  <2>3. Receive(s, Head(rows[s]))
    BY <1>11 DEF BackfillYield
  <2>4. QED
    BY <1>11, <2>1, <2>2, <2>3, ReceiveTypes DEF BackfillYield, table, seqr
<1>12. ASSUME NEW s \in Subs, BackfillPageEnd(s) PROVE TypeOK'
  <2>1. phase' \in [Subs -> Phases]
    BY <1>12, GotoTypes DEF BackfillPageEnd, Phases, Listening
  <2>2. QED
    BY <1>12, <2>1 DEF BackfillPageEnd, table, seqr
<1>13. ASSUME NEW s \in Subs, Register(s) PROVE TypeOK'
  <2>1. UNCHANGED <<table, seqr, lastSeen, rows, cutoverBuffer, outBuffer, got>>
    BY <1>13 DEF Register
  <2>2. phase' \in [Subs -> Phases]
    BY <1>13, GotoTypes DEF Register, Phases, Listening
  <2>3. cursor' \in [Subs -> 0..Len(log)] /\ pos' \in [Subs -> 0..Len(log)]
    <3>1. CASE UNCHANGED <<cursor, pos>>
      BY <3>1
    <3>2. CASE /\ cursor' = [cursor EXCEPT ![s] = seqLastSeen]
               /\ pos' = [pos EXCEPT ![s] = seqLastSeen]
      BY <3>2
    <3>3. QED
      BY <1>13, <3>1, <3>2 DEF Register
  <2>4. QED
    BY <2>1, <2>2, <2>3 DEF table, seqr
<1>14. ASSUME NEW s \in Subs, CutoverRequest(s) PROVE TypeOK'
  <2>1. PICK r : Answers(r, From(s), NoLimit) /\ rows' = [rows EXCEPT ![s] = r]
    BY <1>14 DEF CutoverRequest
  <2>2. r \in Seq(1..Len(log))
    BY <2>1, AnswersType
  <2>3. phase' \in [Subs -> Phases] /\ rows' \in [Subs -> Seq(1..Len(log))]
    BY <1>14, <2>1, <2>2, GotoTypes DEF CutoverRequest, Phases, Listening
  <2>4. QED
    BY <1>14, <2>3 DEF CutoverRequest, table, seqr
<1>15. ASSUME NEW s \in Subs, CutoverMerge(s) PROVE TypeOK'
  <2>1. outBuffer[s] \o rows[s] \o cutoverBuffer[s] \in Seq(1..Len(log))
    BY ConcatProperties
  <2>2. phase' \in [Subs -> Phases]
    BY <1>15, GotoTypes DEF CutoverMerge, Phases, Listening
  <2>3. /\ outBuffer' \in [Subs -> Seq(1..Len(log))]
        /\ cutoverBuffer' \in [Subs -> Seq(1..Len(log))]
        /\ rows' \in [Subs -> Seq(1..Len(log))]
    BY <1>0, <1>15, <2>1 DEF CutoverMerge
  <2>4. QED
    BY <1>15, <2>2, <2>3 DEF CutoverMerge, table, seqr
<1>16. ASSUME NEW s \in Subs, Pull(s) PROVE TypeOK'
  <2>1. Head(outBuffer[s]) \in 1..Len(log) /\ Tail(outBuffer[s]) \in Seq(1..Len(log))
    BY <1>16, HeadTailProperties DEF Pull
  <2>2. outBuffer' \in [Subs -> Seq(1..Len(log))]
    BY <1>16, <2>1 DEF Pull
  <2>3. /\ lastSeen' \in [Subs -> -1..Len(log)]
        /\ pos' \in [Subs -> 0..Len(log)]
        /\ got' \in [Subs -> SUBSET (1..Len(log))]
    <3>1. CASE Head(outBuffer[s]) > lastSeen[s] /\ Receive(s, Head(outBuffer[s]))
      BY <2>1, <3>1, ReceiveTypes
    <3>2. CASE UNCHANGED <<lastSeen, pos, got>>
      BY <3>2
    <3>3. QED
      BY <1>16, <3>1, <3>2 DEF Pull
  <2>4. QED
    BY <1>16, <2>2, <2>3 DEF Pull, table, seqr
<1>17. ASSUME NEW s \in Subs, PullTooSlow(s) PROVE TypeOK'
  <2>1. phase' \in [Subs -> Phases]
    BY <1>17, GotoTypes DEF PullTooSlow, Phases, Listening
  <2>2. QED
    BY <1>17, <2>1 DEF PullTooSlow, table, seqr
<1>18. ASSUME NEW s \in Subs, Disconnect(s) PROVE TypeOK'
  BY <1>18, NewOutboxTypes DEF Disconnect, Goto, Phases, table, seqr
<1>19. CASE Restart
  BY <1>0, <1>19 DEF Restart, Phases
<1>20. CASE UNCHANGED vars
  BY <1>20 DEF vars, table, seqr, conn
<1>21. QED
  BY <1>1, <1>3, <1>4, <1>5, <1>6, <1>7, <1>8, <1>9, <1>10, <1>11, <1>12, <1>13,
     <1>14, <1>15, <1>16, <1>17, <1>18, <1>19, <1>20, Zenon DEF Next, Serve

(***************************************************************************)
(* Every seq the sequencer or a connection holds - in a page, in a buffer, *)
(* as a cursor, as lastSeen - is that of a row that was written, whatever  *)
(* is inserted, deleted, polled or restarted.                              *)
(***************************************************************************)
THEOREM TypeCorrect == Spec => []TypeOK
<1>1. Init => TypeOK
  <2>1. SUFFICES ASSUME Init PROVE TypeOK
    OBVIOUS
  <2>2. <<>> \in Seq(Row) /\ <<>> \in Seq(1..Len(log)) /\ Len(log) = 0
    BY <2>1, EmptySeq DEF Init
  <2>3. QED
    BY <2>1, <2>2 DEF Init, TypeOK, Phases
<1>2. QED
  BY <1>1, TypeStep, PTL DEF Spec

-----------------------------------------------------------------------------
(* No row is lost                                                          *)

IInv == TypeOK /\ StreamInv /\ NoGap

\* a buffer that continues a stream at p continues it at any later point
LEMMA Later ==
  ASSUME NEW g, NEW b, NEW p \in Int, NEW r \in Int, p <= r
  PROVE  /\ Continues(g, b, p) => Continues(g, b, r)
         /\ \A n : Reaches(g, b, p, n) => Reaches(g, b, r, n)
<1>1. \A n : (r + 1)..n \subseteq (p + 1)..n
  OBVIOUS
<1>2. QED
  BY <1>1 DEF Continues, Reaches

\* an empty buffer continues any stream, and reaches as far as the stream has come
LEMMA EmptyBuffer ==
  ASSUME NEW g, NEW p \in Int
  PROVE  /\ Continues(g, <<>>, p)
         /\ Above(<<>>, p)
         /\ Ascending(<<>>)
         /\ Reaches(g, <<>>, p, p)
BY EmptySeq DEF Continues, Above, Ascending, Reaches

\* what a request for the rows after c returns
LEMMA AnswersContinue ==
  ASSUME TypeOK, NEW c \in Nat, NEW k, NEW r, Answers(r, c, k)
  PROVE  /\ Continues(gone, r, c)
         /\ Above(r, c)
         /\ Ascending(r)
         /\ k = NoLimit => \A n \in 0..Len(log) : Reaches(gone, r, c, n)
<1>1. /\ Len(log) \in Nat
      /\ Len(r) \in Nat
      /\ \A i \in 1..Len(r) : r[i] \in Alive
      /\ Alive = (1..Len(log)) \ gone
  BY LenProperties, ElementOfSeq DEF TypeOK, Answers, Alive
<1>2. Continues(gone, r, c)
  <2>1. SUFFICES ASSUME NEW i \in 1..Len(r), NEW q \in (c + 1)..r[i], q \notin gone
                 PROVE  \E j \in 1..i : r[j] = q
    BY DEF Continues
  <2>2. q \in Alive /\ c < q /\ q <= r[i]
    BY <1>1, <2>1
  <2>3. QED
    BY <2>2 DEF Answers
<1>3. Above(r, c) /\ Ascending(r)
  BY DEF Above, Ascending, Answers
<1>4. ASSUME k = NoLimit, NEW n \in 0..Len(log) PROVE Reaches(gone, r, c, n)
  <2>1. SUFFICES ASSUME NEW q \in (c + 1)..n, q \notin gone
                 PROVE  \E j \in 1..Len(r) : r[j] = q
    BY DEF Reaches
  <2>2. q \in Alive /\ c < q
    BY <1>1, <2>1
  <2>3. QED
    BY <1>4, <2>2 DEF Answers
<1>5. QED
  BY <1>2, <1>3, <1>4

(***************************************************************************)
(* A connection a step does not touch: deletions do not disturb it.        *)
(***************************************************************************)
Same(s) == /\ phase'[s] = phase[s]
           /\ cursor'[s] = cursor[s]
           /\ lastSeen'[s] = lastSeen[s]
           /\ rows'[s] = rows[s]
           /\ cutoverBuffer'[s] = cutoverBuffer[s]
           /\ outBuffer'[s] = outBuffer[s]
           /\ got'[s] = got[s]

LEMMA Frame ==
  ASSUME NEW s \in Subs, ConnInv(s), NoGapOf(s), Same(s),
         gone \subseteq gone', seqLastSeen' = seqLastSeen
  PROVE  ConnInv(s)' /\ NoGapOf(s)'
<1> USE DEF Same
<1>1. From(s)' = From(s) /\ Base(s)' = Base(s)
  BY DEF From, Base
<1>2. IdleInv(s)' /\ BackfillInv(s)' /\ GotInv(s)'
  BY DEF ConnInv, IdleInv, BackfillInv, GotInv
<1>3. PageInv(s)'
  BY <1>1, MoreGone DEF ConnInv, PageInv
<1>4. CutoverInv(s)'
  <2>1. SUFFICES ASSUME phase[s] \in {"cutover", "merge"} PROVE CutoverInv(s)'
    BY DEF CutoverInv
  <2>2. PICK b \in 0..seqLastSeen :
           /\ Above(cutoverBuffer[s], b)
           /\ Continues(gone, cutoverBuffer[s], b)
           /\ Reaches(gone, cutoverBuffer[s], b, seqLastSeen)
           /\ phase[s] = "merge" => Reaches(gone, rows[s], From(s), b)
    BY <2>1 DEF ConnInv, CutoverInv
  <2>3. /\ Continues(gone', cutoverBuffer[s], b)
        /\ Reaches(gone', cutoverBuffer[s], b, seqLastSeen)
        /\ phase[s] = "merge" => Reaches(gone', rows[s], From(s), b)
    BY <2>2, MoreGone
  <2>4. QED
    BY <1>1, <2>1, <2>2, <2>3 DEF ConnInv, CutoverInv
<1>5. StreamingInv(s)'
  BY <1>1, MoreGone DEF ConnInv, StreamingInv
<1>6. NoGapOf(s)'
  BY DEF NoGapOf
<1>7. QED
  BY <1>2, <1>3, <1>4, <1>5, <1>6 DEF ConnInv

(***************************************************************************)
(* So a step of one connection need only be examined there.                *)
(***************************************************************************)
LEMMA OneConnection ==
  ASSUME IInv, NEW s \in Subs, UNCHANGED <<table, seqr>>,
         \A t \in Subs \ {s} : Same(t), ConnInv(s)', NoGapOf(s)'
  PROVE  StreamInv' /\ NoGap'
<1>1. gone' = gone /\ seqLastSeen' = seqLastSeen /\ polled' = polled
  BY DEF table, seqr
<1>2. PollInv'
  BY <1>1 DEF IInv, StreamInv, PollInv
<1>3. \A t \in Subs : ConnInv(t)' /\ NoGapOf(t)'
  BY <1>1, Frame DEF IInv, StreamInv, NoGap
<1>4. QED
  BY <1>2, <1>3 DEF StreamInv, NoGap

-----------------------------------------------------------------------------
(* The steps of a connection                                               *)

\* what the lemmas below use of the types
LEMMA ConnTypes ==
  ASSUME TypeOK, NEW s \in Subs
  PROVE  /\ Len(log) \in Nat
         /\ 1..Len(log) \subseteq Nat
         /\ phase[s] \in Phases
         /\ cursor[s] \in 0..Len(log)
         /\ lastSeen[s] \in -1..Len(log)
         /\ rows[s] \in Seq(Nat) /\ rows[s] \in Seq(1..Len(log))
         /\ cutoverBuffer[s] \in Seq(Nat) /\ cutoverBuffer[s] \in Seq(1..Len(log))
         /\ outBuffer[s] \in Seq(Nat) /\ outBuffer[s] \in Seq(1..Len(log))
         /\ got[s] \subseteq 1..Len(log)
         /\ seqLastSeen \in 0..Len(log)
         /\ polled \in Seq(Nat) /\ polled \in Seq(1..Len(log))
         /\ From(s) \in Nat
<1>1. Len(log) \in Nat /\ 1..Len(log) \subseteq Nat
  BY LenProperties DEF TypeOK
<1>2. \A b \in Seq(1..Len(log)) : b \in Seq(Nat)
  BY <1>1, SeqMonotonic
<1>3. QED
  BY <1>1, <1>2 DEF TypeOK, From

\* a connection without an outbox, or with an empty one, has nothing to lose
LEMMA FreshConnection ==
  ASSUME IInv, NEW s \in Subs, lastSeen'[s] = -1, outBuffer'[s] = <<>>,
         cutoverBuffer'[s] = <<>>, got'[s] = {},
         phase'[s] \in {"closed", "rejected", "outdated", "registerLive", "backfill"}
  PROVE  ConnInv(s)' /\ NoGapOf(s)'
BY DEF ConnInv, NoGapOf, IdleInv, BackfillInv, PageInv, CutoverInv, StreamingInv, GotInv

LEMMA OpenStep ==
  ASSUME IInv, NEW s \in Subs, NEW c \in 0..pos[s],
         OpenAt(s, c) \/ OpenLive(s) \/ Disconnect(s)
  PROVE  StreamInv' /\ NoGap'
<1> USE DEF NewOutbox, Goto
<1>1. UNCHANGED <<table, seqr>>
  BY DEF OpenAt, OpenLive, Disconnect
<1>2. \A t \in Subs \ {s} : Same(t)
  BY DEF IInv, TypeOK, Same, OpenAt, OpenLive, Disconnect
<1>3. /\ lastSeen'[s] = -1 /\ outBuffer'[s] = <<>>
      /\ cutoverBuffer'[s] = <<>> /\ got'[s] = {}
  BY DEF IInv, TypeOK, OpenAt, OpenLive, Disconnect
<1>4. phase'[s] \in {"closed", "rejected", "outdated", "registerLive", "backfill"}
  BY DEF IInv, TypeOK, OpenAt, OpenLive, Disconnect
<1>5. ConnInv(s)' /\ NoGapOf(s)'
  BY <1>3, <1>4, FreshConnection
<1>6. QED
  BY <1>1, <1>2, <1>5, OneConnection

LEMMA OutdatedStep ==
  ASSUME IInv, NEW s \in Subs, OpenOutdated(s)
  PROVE  StreamInv' /\ NoGap'
<1>1. UNCHANGED <<table, seqr>>
  BY DEF OpenOutdated
<1>2. \A t \in Subs \ {s} : Same(t)
  BY DEF IInv, TypeOK, Same, OpenOutdated, Goto
<1>3. lastSeen[s] = -1 /\ outBuffer[s] = <<>> /\ cutoverBuffer[s] = <<>>
  BY DEF IInv, StreamInv, ConnInv, IdleInv, OpenOutdated
<1>4. got[s] = {}
  <2>1. \A g \in got[s] : g <= -1 /\ g \in Nat
    BY <1>3, ConnTypes DEF IInv, StreamInv, ConnInv, GotInv
  <2>2. QED
    BY <2>1
<1>5. phase'[s] \in {"registerLive", "backfill"}
  BY DEF IInv, TypeOK, OpenOutdated, Goto
<1>6. ConnInv(s)' /\ NoGapOf(s)'
  BY <1>3, <1>4, <1>5, FreshConnection DEF OpenOutdated
<1>7. QED
  BY <1>1, <1>2, <1>6, OneConnection

LEMMA BackfillRequestStep ==
  ASSUME IInv, NEW s \in Subs, BackfillRequest(s)
  PROVE  StreamInv' /\ NoGap'
<1>1. UNCHANGED <<table, seqr>>
  BY DEF BackfillRequest
<1>2. \A t \in Subs \ {s} : Same(t)
  BY DEF IInv, TypeOK, Same, BackfillRequest, Goto
<1>3. PICK r : /\ Answers(r, From(s), PageSize)
               /\ rows' = [rows EXCEPT ![s] = r]
               /\ Goto(s, IF r = <<>> THEN "register" ELSE "page")
  BY DEF BackfillRequest
<1>4. /\ rows'[s] = r
      /\ phase'[s] \in {"page", "register"}
      /\ gone' = gone /\ lastSeen' = lastSeen /\ cursor' = cursor /\ got' = got
      /\ outBuffer' = outBuffer /\ cutoverBuffer' = cutoverBuffer
      /\ From(s)' = From(s)
  BY <1>3 DEF IInv, TypeOK, Goto, BackfillRequest, table, From
<1>5. Continues(gone, r, From(s)) /\ Above(r, From(s)) /\ Ascending(r)
  BY <1>3, ConnTypes, AnswersContinue DEF IInv
<1>6. PageInv(s)'
  BY <1>4, <1>5 DEF PageInv
<1>7. BackfillInv(s)'
  BY <1>4 DEF IInv, StreamInv, ConnInv, BackfillInv, BackfillRequest
<1>8. IdleInv(s)' /\ CutoverInv(s)' /\ StreamingInv(s)'
  BY <1>4 DEF IdleInv, CutoverInv, StreamingInv
<1>9. GotInv(s)' /\ NoGapOf(s)'
  BY <1>4 DEF IInv, StreamInv, ConnInv, GotInv, NoGap, NoGapOf
<1>10. QED
  BY <1>1, <1>2, <1>6, <1>7, <1>8, <1>9, OneConnection DEF ConnInv

(***************************************************************************)
(* Whatever the source of row q, if all that lies between where the stream *)
(* stood and q is deleted then receiving q leaves no gap.  p is where the  *)
(* stream stood: lastSeen, or before the first row at most the cursor, and *)
(* then anything before q if q itself is not past the cursor.              *)
(***************************************************************************)
LEMMA ReceiveLeavesNoGap ==
  ASSUME IInv, NEW s \in Subs, NEW q \in 1..Len(log), NEW p \in Int,
         Receive(s, q), cursor' = cursor, gone' = gone,
         (p + 1)..(q - 1) \subseteq gone,
         q > lastSeen[s],
         IF lastSeen[s] > -1 THEN p = lastSeen[s] ELSE p <= cursor[s] \/ q <= cursor[s]
  PROVE  GotInv(s)' /\ NoGapOf(s)'
<1>1. lastSeen'[s] = q /\ got'[s] = got[s] \cup {q}
  BY DEF IInv, TypeOK, Receive
<1>2. /\ lastSeen[s] \in Int /\ cursor[s] \in Nat /\ got[s] \subseteq Nat \ {0}
      /\ q \in Nat \ {0}
      /\ \A g \in got[s] : g <= lastSeen[s]
  BY ConnTypes DEF IInv, StreamInv, ConnInv, GotInv
<1>3. GotInv(s)'
  BY <1>1, <1>2 DEF GotInv
<1>4. NoGapOf(s)'
  <2>1. SUFFICES ASSUME NEW x \in 1..q, x # q,
                        x > cursor[s] \/ \E g \in got[s] \cup {q} : g < x
                 PROVE  x \in got[s] \cup gone
    BY <1>1 DEF NoGapOf
  <2>2. x < q /\ (x > cursor[s] \/ \E g \in got[s] : g < x)
    BY <1>2, <2>1
  <2>3. CASE lastSeen[s] > -1 /\ x <= lastSeen[s]
    <3>1. x \in 1..lastSeen[s]
      BY <1>2, <2>3
    <3>2. QED
      BY <2>2, <3>1 DEF IInv, NoGap, NoGapOf
  <2>4. CASE lastSeen[s] > -1 /\ x > lastSeen[s]
    <3>1. x \in (p + 1)..(q - 1)
      BY <1>2, <2>2, <2>4
    <3>2. QED
      BY <3>1
  <2>5. CASE ~(lastSeen[s] > -1)
    <3>1. x > cursor[s]
      BY <1>2, <2>2, <2>5
    <3>2. x \in (p + 1)..(q - 1)
      BY <1>2, <2>2, <2>5, <3>1
    <3>3. QED
      BY <3>2
  <2>6. QED
    BY <1>2, <2>3, <2>4, <2>5
<1>5. QED
  BY <1>3, <1>4

LEMMA BackfillYieldStep ==
  ASSUME IInv, NEW s \in Subs, BackfillYield(s)
  PROVE  StreamInv' /\ NoGap'
<1> DEFINE b == rows[s]
           h == Head(b)
<1>1. UNCHANGED <<table, seqr>>
  BY DEF BackfillYield
<1>2. \A t \in Subs \ {s} : Same(t)
  BY DEF IInv, TypeOK, Same, BackfillYield, Receive
<1>3. /\ b \in Seq(Nat) /\ b # <<>> /\ h \in 1..Len(log) /\ From(s) \in Nat
      /\ Len(b) \in Nat \ {0} /\ h = b[1]
      /\ Len(Tail(b)) = Len(b) - 1
      /\ \A i \in 1..Len(Tail(b)) : Tail(b)[i] = b[i + 1]
  BY ConnTypes, HeadTailProperties, EmptySeq DEF IInv, BackfillYield
<1>4. /\ Continues(gone, b, From(s))
      /\ \A i \in 1..Len(b) : b[i] > From(s)
      /\ \A i, j \in 1..Len(b) : i < j => b[i] < b[j]
  BY DEF IInv, StreamInv, ConnInv, PageInv, BackfillYield, Above, Ascending
<1>5. h > From(s)
  BY <1>3, <1>4
<1>6. (From(s) + 1)..(h - 1) \subseteq gone /\ Continues(gone, Tail(b), h)
  <2>1. /\ b \in Seq(Nat) /\ b # <<>> /\ From(s) \in Int
        /\ Continues(gone, b, From(s)) /\ Head(b) > From(s)
    BY <1>3, <1>4, <1>5
  <2>2. QED
    BY <2>1, PopNext, Zenon
<1>7. /\ rows'[s] = Tail(b) /\ lastSeen'[s] = h /\ phase'[s] = "page"
      /\ gone' = gone /\ cursor' = cursor /\ outBuffer' = outBuffer
      /\ cutoverBuffer' = cutoverBuffer
      /\ Receive(s, h)
  BY DEF IInv, TypeOK, BackfillYield, Receive, table
<1>8. From(s)' = h
  BY <1>3, <1>7 DEF From
<1>9. Above(Tail(b), h) /\ Ascending(Tail(b))
  <2>1. \A i \in 1..Len(Tail(b)) : i + 1 \in 1..Len(b) /\ 1 < i + 1
    BY <1>3
  <2>2. 1 \in 1..Len(b)
    BY <1>3
  <2>3. Above(Tail(b), h)
    BY <1>3, <1>4, <2>1, <2>2, ElementOfSeq DEF Above
  <2>4. Ascending(Tail(b))
    BY <1>3, <1>4, <2>1 DEF Ascending
  <2>5. QED
    BY <2>3, <2>4
<1>10. PageInv(s)'
  BY <1>6, <1>7, <1>8, <1>9 DEF PageInv
<1>11. BackfillInv(s)'
  BY <1>7 DEF IInv, StreamInv, ConnInv, BackfillInv, BackfillYield
<1>12. IdleInv(s)' /\ CutoverInv(s)' /\ StreamingInv(s)'
  BY <1>7 DEF IdleInv, CutoverInv, StreamingInv
<1>13. GotInv(s)' /\ NoGapOf(s)'
  <2>1. /\ h > lastSeen[s]
        /\ IF lastSeen[s] > -1 THEN From(s) = lastSeen[s]
                               ELSE From(s) <= cursor[s] \/ h <= cursor[s]
    BY <1>3, <1>5, ConnTypes DEF From, IInv
  <2>2. From(s) \in Int
    BY <1>3
  <2>3. QED
    BY <1>3, <1>6, <1>7, <2>1, <2>2, ReceiveLeavesNoGap
<1>14. QED
  BY <1>1, <1>2, <1>10, <1>11, <1>12, <1>13, OneConnection DEF ConnInv

LEMMA BackfillPageEndStep ==
  ASSUME IInv, NEW s \in Subs, BackfillPageEnd(s)
  PROVE  StreamInv' /\ NoGap'
<1>1. UNCHANGED <<table, seqr>>
  BY DEF BackfillPageEnd
<1>2. \A t \in Subs \ {s} : Same(t)
  BY DEF IInv, TypeOK, Same, BackfillPageEnd, Goto
<1>3. /\ phase'[s] \in {"register", "backfill"}
      /\ UNCHANGED <<gone, cursor, lastSeen, outBuffer, cutoverBuffer, got>>
  BY DEF IInv, TypeOK, Goto, BackfillPageEnd, table
<1>4. BackfillInv(s)'
  BY <1>3 DEF IInv, StreamInv, ConnInv, BackfillInv, BackfillPageEnd
<1>5. IdleInv(s)' /\ PageInv(s)' /\ CutoverInv(s)' /\ StreamingInv(s)'
  BY <1>3 DEF IdleInv, PageInv, CutoverInv, StreamingInv
<1>6. GotInv(s)' /\ NoGapOf(s)'
  BY <1>3 DEF IInv, StreamInv, ConnInv, GotInv, NoGap, NoGapOf
<1>7. QED
  BY <1>1, <1>2, <1>4, <1>5, <1>6, OneConnection DEF ConnInv

LEMMA RegisterStep ==
  ASSUME IInv, NEW s \in Subs, Register(s)
  PROVE  StreamInv' /\ NoGap'
<1>1. UNCHANGED <<table, seqr>>
  BY DEF Register
<1>2. \A t \in Subs \ {s} : Same(t)
  <2>1. CASE phase[s] = "register"
    BY <2>1 DEF IInv, TypeOK, Same, Register, Goto
  <2>2. CASE phase[s] = "registerLive"
    BY <2>2 DEF IInv, TypeOK, Same, Register, Goto
  <2>3. QED
    BY <2>1, <2>2 DEF Register
<1>3. /\ gone' = gone /\ seqLastSeen' = seqLastSeen /\ seqLastSeen \in Nat
      /\ UNCHANGED <<lastSeen, outBuffer, cutoverBuffer, got>>
  <2>1. UNCHANGED <<gone, seqLastSeen>>
    BY <1>1 DEF table, seqr
  <2>2. UNCHANGED <<lastSeen, outBuffer, cutoverBuffer, got>>
    BY DEF Register
  <2>3. QED
    BY <2>1, <2>2, ConnTypes DEF IInv
<1>4. /\ Continues(gone, <<>>, seqLastSeen)
      /\ Above(<<>>, seqLastSeen)
      /\ Reaches(gone, <<>>, seqLastSeen, seqLastSeen)
  BY <1>3, EmptyBuffer
<1>5. GotInv(s)'
  BY <1>3 DEF IInv, StreamInv, ConnInv, GotInv
<1>6. CASE phase[s] = "register"
  <2>1. phase'[s] = "cutover" /\ cursor' = cursor
    BY <1>6 DEF IInv, TypeOK, Register, Goto
  <2>2. outBuffer[s] = <<>> /\ cutoverBuffer[s] = <<>>
    BY <1>6 DEF IInv, StreamInv, ConnInv, BackfillInv
  <2>3. CutoverInv(s)'
    <3>1. seqLastSeen \in 0..seqLastSeen
      BY <1>3
    <3>2. QED
      BY <1>3, <1>4, <2>1, <2>2, <3>1 DEF CutoverInv
  <2>4. IdleInv(s)' /\ BackfillInv(s)' /\ PageInv(s)' /\ StreamingInv(s)'
    BY <2>1 DEF IdleInv, BackfillInv, PageInv, StreamingInv
  <2>5. NoGapOf(s)'
    BY <1>3, <2>1 DEF IInv, NoGap, NoGapOf
  <2>6. QED
    BY <1>1, <1>2, <1>5, <2>3, <2>4, <2>5, OneConnection DEF ConnInv
<1>7. CASE phase[s] = "registerLive"
  <2>1. phase'[s] = "streaming" /\ cursor'[s] = seqLastSeen
    BY <1>7 DEF IInv, TypeOK, Register, Goto
  <2>2. lastSeen[s] = -1 /\ outBuffer[s] = <<>>
    BY <1>7 DEF IInv, StreamInv, ConnInv, IdleInv
  <2>3. Base(s)' = seqLastSeen
    BY <1>3, <2>1, <2>2 DEF Base
  <2>4. StreamingInv(s)'
    BY <1>3, <1>4, <2>2, <2>3 DEF StreamingInv
  <2>5. IdleInv(s)' /\ BackfillInv(s)' /\ PageInv(s)' /\ CutoverInv(s)'
    BY <2>1 DEF IdleInv, BackfillInv, PageInv, CutoverInv
  <2>6. NoGapOf(s)'
    BY <1>3, <2>2 DEF NoGapOf
  <2>7. QED
    BY <1>1, <1>2, <1>5, <2>4, <2>5, <2>6, OneConnection DEF ConnInv
<1>8. QED
  BY <1>6, <1>7 DEF Register

LEMMA CutoverRequestStep ==
  ASSUME IInv, NEW s \in Subs, CutoverRequest(s)
  PROVE  StreamInv' /\ NoGap'
<1>1. UNCHANGED <<table, seqr>>
  BY DEF CutoverRequest
<1>2. \A t \in Subs \ {s} : Same(t)
  BY DEF IInv, TypeOK, Same, CutoverRequest, Goto
<1>3. PICK r : Answers(r, From(s), NoLimit) /\ rows' = [rows EXCEPT ![s] = r]
  BY DEF CutoverRequest
<1>4. /\ rows'[s] = r /\ phase'[s] = "merge"
      /\ gone' = gone /\ seqLastSeen' = seqLastSeen
      /\ UNCHANGED <<cursor, lastSeen, outBuffer, cutoverBuffer, got>>
      /\ From(s)' = From(s)
  BY <1>3 DEF IInv, TypeOK, Goto, CutoverRequest, table, seqr, From
<1>5. /\ Continues(gone, r, From(s)) /\ Above(r, From(s)) /\ Ascending(r)
      /\ \A n \in 0..Len(log) : Reaches(gone, r, From(s), n)
  BY <1>3, ConnTypes, AnswersContinue DEF IInv
<1>6. PageInv(s)'
  BY <1>4, <1>5 DEF PageInv
<1>7. CutoverInv(s)'
  <2>1. PICK b \in 0..seqLastSeen :
           /\ Above(cutoverBuffer[s], b)
           /\ Continues(gone, cutoverBuffer[s], b)
           /\ Reaches(gone, cutoverBuffer[s], b, seqLastSeen)
    BY DEF IInv, StreamInv, ConnInv, CutoverInv, CutoverRequest
  <2>2. b \in 0..Len(log)
    BY ConnTypes DEF IInv
  <2>3. outBuffer[s] = <<>>
    BY DEF IInv, StreamInv, ConnInv, CutoverInv, CutoverRequest
  <2>4. QED
    BY <1>4, <1>5, <2>1, <2>2, <2>3 DEF CutoverInv
<1>8. IdleInv(s)' /\ BackfillInv(s)' /\ StreamingInv(s)'
  BY <1>4 DEF IdleInv, BackfillInv, StreamingInv
<1>9. GotInv(s)' /\ NoGapOf(s)'
  BY <1>4 DEF IInv, StreamInv, ConnInv, GotInv, NoGap, NoGapOf
<1>10. QED
  BY <1>1, <1>2, <1>6, <1>7, <1>8, <1>9, OneConnection DEF ConnInv

(***************************************************************************)
(* The rows of the request, then the buffer: together they continue the    *)
(* stream at its cursor.  With no rows, and a buffer that begins before    *)
(* the cursor, they continue it at an earlier point.                       *)
(***************************************************************************)
LEMMA CutoverMergeStep ==
  ASSUME IInv, NEW s \in Subs, CutoverMerge(s)
  PROVE  StreamInv' /\ NoGap'
<1> DEFINE r == rows[s]
           c == cutoverBuffer[s]
           f == From(s)
<1>1. UNCHANGED <<table, seqr>>
  BY DEF CutoverMerge
<1>2. \A t \in Subs \ {s} : Same(t)
  BY DEF IInv, TypeOK, Same, CutoverMerge, Goto
<1>3. /\ r \in Seq(Nat) /\ c \in Seq(Nat) /\ f \in Nat /\ seqLastSeen \in Nat
      /\ lastSeen[s] \in Int /\ cursor[s] \in Nat
  BY ConnTypes DEF IInv
<1>4. /\ outBuffer'[s] = r \o c /\ phase'[s] = "streaming"
      /\ gone' = gone /\ seqLastSeen' = seqLastSeen
      /\ UNCHANGED <<cursor, lastSeen, got>>
  <2>1. outBuffer[s] = <<>>
    BY DEF IInv, StreamInv, ConnInv, CutoverInv, CutoverMerge
  <2>2. outBuffer'[s] = <<>> \o r \o c
    BY <2>1 DEF IInv, TypeOK, CutoverMerge
  <2>3. outBuffer'[s] = r \o c
    BY <1>3, <2>2, ConcatEmptySeq
  <2>4. QED
    BY <2>3 DEF IInv, TypeOK, CutoverMerge, Goto, table, seqr
<1>5. Continues(gone, r, f) /\ Above(r, f)
  BY DEF IInv, StreamInv, ConnInv, PageInv, CutoverMerge
<1>6. PICK b \in 0..seqLastSeen :
         /\ Above(c, b)
         /\ Continues(gone, c, b)
         /\ Reaches(gone, c, b, seqLastSeen)
         /\ Reaches(gone, r, f, b)
  BY DEF IInv, StreamInv, ConnInv, CutoverInv, CutoverMerge
<1>7. b \in Int /\ f \in Int
  BY <1>3
<1>8. Continues(gone, r \o c, f)
  BY <1>3, <1>5, <1>6, <1>7, ContinuesConcat, Zenon
<1>9. Reaches(gone, r \o c, f, seqLastSeen)
  BY <1>3, <1>6, <1>7, ReachesConcat
<1> HIDE DEF r, c, f
<1>10. Continues(gone, r \o c, Base(s)') /\ Reaches(gone, r \o c, Base(s)', seqLastSeen)
  <2>1. CASE lastSeen[s] > -1
    <3>1. Base(s)' = f
      BY <1>4, <2>1 DEF Base, From, f
    <3>2. QED
      BY <1>8, <1>9, <3>1
  <2>2. CASE ~(lastSeen[s] > -1) /\ ~((r \o c) # <<>> /\ (r \o c)[1] <= cursor[s])
    <3>1. Base(s)' = f
      BY <1>4, <2>2 DEF Base, From, f
    <3>2. QED
      BY <1>8, <1>9, <3>1
  <2>3. CASE ~(lastSeen[s] > -1) /\ (r \o c) # <<>> /\ (r \o c)[1] <= cursor[s]
    <3>1. f = cursor[s] /\ Base(s)' = (r \o c)[1] - 1
      BY <1>4, <2>3 DEF Base, From, f
    <3>2. r = <<>>
      <4>1. SUFFICES ASSUME r # <<>> PROVE FALSE
        OBVIOUS
      <4>2. 1 \in 1..Len(r) /\ Len(c) \in Nat
        BY <1>3, <4>1, EmptySeq, LenProperties
      <4>3. (r \o c)[1] = r[1]
        BY <1>3, <4>2, ConcatProperties
      <4>4. r[1] > f /\ r[1] \in Nat
        BY <1>3, <1>5, <4>2, ElementOfSeq DEF Above
      <4>5. QED
        BY <1>3, <2>3, <3>1, <4>3, <4>4
    <3>3. r \o c = c
      BY <1>3, <3>2, ConcatEmptySeq
    <3>4. 1 \in 1..Len(c)
      BY <1>3, <2>3, <3>3, EmptySeq
    <3>5. c[1] > b /\ c[1] \in Nat
      BY <1>3, <1>6, <3>4, ElementOfSeq DEF Above
    <3>6. c[1] - 1 \in Int /\ b <= c[1] - 1
      BY <1>7, <3>5
    <3>7. /\ Continues(gone, c, c[1] - 1)
          /\ Reaches(gone, c, c[1] - 1, seqLastSeen)
      BY <1>6, <1>7, <3>6, Later
    <3>8. QED
      BY <3>1, <3>3, <3>7
  <2>4. QED
    BY <2>1, <2>2, <2>3
<1>11. StreamingInv(s)'
  BY <1>4, <1>10 DEF StreamingInv
<1>12. IdleInv(s)' /\ BackfillInv(s)' /\ PageInv(s)' /\ CutoverInv(s)'
  BY <1>4 DEF IdleInv, BackfillInv, PageInv, CutoverInv
<1>13. GotInv(s)' /\ NoGapOf(s)'
  BY <1>4 DEF IInv, StreamInv, ConnInv, GotInv, NoGap, NoGapOf
<1>14. QED
  BY <1>1, <1>2, <1>11, <1>12, <1>13, OneConnection DEF ConnInv

LEMMA PullStep ==
  ASSUME IInv, NEW s \in Subs, Pull(s)
  PROVE  StreamInv' /\ NoGap'
<1> DEFINE o == outBuffer[s]
           h == Head(o)
<1>1. UNCHANGED <<table, seqr>>
  BY DEF Pull
<1>2. \A t \in Subs \ {s} : Same(t)
  <2>1. CASE Receive(s, h)
    BY <2>1 DEF IInv, TypeOK, Same, Pull, Receive
  <2>2. CASE UNCHANGED <<lastSeen, pos, got>>
    BY <2>2 DEF IInv, TypeOK, Same, Pull
  <2>3. QED
    BY <2>1, <2>2 DEF Pull
<1>3. /\ o \in Seq(Nat) /\ o # <<>> /\ h \in 1..Len(log) /\ h = o[1]
      /\ h \in Nat \ {0} /\ seqLastSeen \in Nat
      /\ lastSeen[s] \in Int /\ lastSeen[s] >= -1 /\ cursor[s] \in Nat
  <2>1. o # <<>> /\ o \in Seq(1..Len(log)) /\ o \in Seq(Nat) /\ Len(log) \in Nat
    BY ConnTypes DEF IInv, Pull
  <2>2. h \in 1..Len(log) /\ h = o[1] /\ h \in Nat \ {0}
    BY <2>1, HeadTailProperties
  <2>3. QED
    BY <2>1, <2>2, ConnTypes DEF IInv
<1>4. /\ outBuffer'[s] = Tail(o) /\ phase'[s] = "streaming"
      /\ gone' = gone /\ seqLastSeen' = seqLastSeen /\ cursor' = cursor
  BY DEF IInv, TypeOK, Pull, table, seqr
<1>5. Continues(gone, o, Base(s)) /\ Reaches(gone, o, Base(s), seqLastSeen)
  BY DEF IInv, StreamInv, ConnInv, StreamingInv, Pull
<1>6. Base(s) \in Int
  BY <1>3 DEF Base
<1>7. IdleInv(s)' /\ BackfillInv(s)' /\ PageInv(s)' /\ CutoverInv(s)'
  BY <1>4 DEF IdleInv, BackfillInv, PageInv, CutoverInv
<1>8. CASE h > lastSeen[s] /\ Receive(s, h)
  <2>1. Base(s) < h /\ (lastSeen[s] > -1 => Base(s) = lastSeen[s])
        /\ (~(lastSeen[s] > -1) => Base(s) <= cursor[s] \/ h <= cursor[s])
    BY <1>3, <1>8 DEF Base
  <2>2. /\ (Base(s) + 1)..(h - 1) \subseteq gone
        /\ Continues(gone, Tail(o), h)
        /\ Reaches(gone, Tail(o), h, seqLastSeen)
    <3>1. /\ o \in Seq(Nat) /\ o # <<>> /\ Base(s) \in Int /\ seqLastSeen \in Int
          /\ Continues(gone, o, Base(s)) /\ Head(o) > Base(s)
          /\ Reaches(gone, o, Base(s), seqLastSeen)
      BY <1>3, <1>5, <1>6, <2>1
    <3>2. QED
      BY <3>1, PopNext, Zenon
  <2>3. lastSeen'[s] = h
    BY <1>8 DEF IInv, TypeOK, Receive
  <2>4. Base(s)' = h
    BY <1>3, <2>3 DEF Base
  <2>5. StreamingInv(s)'
    BY <1>4, <2>2, <2>4 DEF StreamingInv
  <2>6. IF lastSeen[s] > -1 THEN Base(s) = lastSeen[s]
                            ELSE Base(s) <= cursor[s] \/ h <= cursor[s]
    BY <2>1
  <2>7. GotInv(s)' /\ NoGapOf(s)'
    BY <1>3, <1>4, <1>6, <1>8, <2>2, <2>6, ReceiveLeavesNoGap
  <2>8. QED
    BY <1>1, <1>2, <1>7, <2>5, <2>7, OneConnection DEF ConnInv
<1>9. CASE h <= lastSeen[s] /\ UNCHANGED <<lastSeen, pos, got>>
  <2>1. Base(s) = lastSeen[s] /\ Base(s)' = lastSeen[s]
    BY <1>3, <1>9 DEF Base
  <2>2. /\ Continues(gone, Tail(o), lastSeen[s])
        /\ Reaches(gone, Tail(o), lastSeen[s], seqLastSeen)
    <3>1. /\ o \in Seq(Nat) /\ o # <<>> /\ lastSeen[s] \in Int /\ seqLastSeen \in Int
          /\ Continues(gone, o, lastSeen[s]) /\ Head(o) <= lastSeen[s]
          /\ Reaches(gone, o, lastSeen[s], seqLastSeen)
      BY <1>3, <1>5, <1>9, <2>1
    <3>2. QED
      BY <3>1, PopOld, Zenon
  <2>3. StreamingInv(s)'
    BY <1>4, <2>1, <2>2 DEF StreamingInv
  <2>4. GotInv(s)' /\ NoGapOf(s)'
    BY <1>4, <1>9 DEF IInv, StreamInv, ConnInv, GotInv, NoGap, NoGapOf
  <2>5. QED
    BY <1>1, <1>2, <1>7, <2>3, <2>4, OneConnection DEF ConnInv
<1>10. QED
  BY <1>8, <1>9 DEF Pull

LEMMA PullTooSlowStep ==
  ASSUME IInv, NEW s \in Subs, PullTooSlow(s)
  PROVE  StreamInv' /\ NoGap'
<1>1. UNCHANGED <<table, seqr>>
  BY DEF PullTooSlow
<1>2. \A t \in Subs \ {s} : Same(t)
  BY DEF IInv, TypeOK, Same, PullTooSlow, Goto
<1>3. phase'[s] = "tooSlow" /\ UNCHANGED <<gone, cursor, lastSeen, got>>
  BY DEF IInv, TypeOK, Goto, PullTooSlow, table
<1>4. /\ IdleInv(s)' /\ BackfillInv(s)' /\ PageInv(s)' /\ CutoverInv(s)'
      /\ StreamingInv(s)'
  BY <1>3 DEF IdleInv, BackfillInv, PageInv, CutoverInv, StreamingInv
<1>5. GotInv(s)' /\ NoGapOf(s)'
  BY <1>3 DEF IInv, StreamInv, ConnInv, GotInv, NoGap, NoGapOf
<1>6. QED
  BY <1>1, <1>2, <1>4, <1>5, OneConnection DEF ConnInv

-----------------------------------------------------------------------------
(* The steps of the table and of the sequencer                             *)

\* rows are only ever added to gone
LEMMA TableStep ==
  ASSUME IInv, gone \subseteq gone', UNCHANGED <<seqr, conn>>
  PROVE  StreamInv' /\ NoGap'
<1>1. /\ seqLastSeen' = seqLastSeen /\ polled' = polled
      /\ \A s \in Subs : Same(s)
  BY DEF seqr, conn, Same
<1>2. PollInv'
  BY <1>1, MoreGone DEF IInv, StreamInv, PollInv
<1>3. \A s \in Subs : ConnInv(s)' /\ NoGapOf(s)'
  BY <1>1, Frame DEF IInv, StreamInv, NoGap
<1>4. QED
  BY <1>2, <1>3 DEF StreamInv, NoGap

LEMMA PollDbStep ==
  ASSUME IInv, PollDb
  PROVE  StreamInv' /\ NoGap'
<1>1. /\ seqLastSeen' = seqLastSeen /\ gone' = gone /\ seqLastSeen \in Nat
      /\ \A s \in Subs : Same(s)
  BY DEF PollDb, table, conn, Same, IInv, TypeOK
<1>2. PollInv'
  <2>1. PICK r : Answers(r, seqLastSeen, PollLimit) /\ polled' = r
    BY DEF PollDb
  <2>2. Continues(gone, r, seqLastSeen) /\ Above(r, seqLastSeen)
    BY <1>1, <2>1, AnswersContinue DEF IInv
  <2>3. QED
    BY <1>1, <2>1, <2>2 DEF PollInv
<1>3. \A s \in Subs : ConnInv(s)' /\ NoGapOf(s)'
  BY <1>1, Frame DEF IInv, StreamInv, NoGap
<1>4. QED
  BY <1>2, <1>3 DEF StreamInv, NoGap

(***************************************************************************)
(* Emitting a batch: it continues each listening outbox's buffer, because  *)
(* that buffer reached as far as the sequencer stood.                      *)
(***************************************************************************)
LEMMA EmitStep ==
  ASSUME IInv, Emit
  PROVE  StreamInv' /\ NoGap'
<1> DEFINE last == Last(polled)
<1>1. /\ gone' = gone /\ seqLastSeen' = last /\ polled' = <<>> /\ polled # <<>>
      /\ UNCHANGED <<phase, cursor, lastSeen, rows, got>>
  BY DEF Emit, table
<1>2. /\ seqLastSeen \in Nat /\ polled \in Seq(Nat)
      /\ Len(polled) \in Nat \ {0}
      /\ last \in Nat /\ polled[1] \in Nat
      /\ Continues(gone, polled, seqLastSeen) /\ Above(polled, seqLastSeen)
  <2>1. polled \in Seq(1..Len(log)) /\ polled # <<>> /\ 1..Len(log) \subseteq Nat
        /\ seqLastSeen \in Nat
    BY LenProperties DEF IInv, TypeOK, Emit
  <2>2. polled \in Seq(Nat) /\ Len(polled) \in Nat \ {0}
    BY <2>1, SeqMonotonic, EmptySeq
  <2>3. last \in Nat /\ polled[1] \in Nat
    BY <2>2, ElementOfSeq DEF Last
  <2>4. QED
    BY <2>1, <2>2, <2>3 DEF IInv, StreamInv, PollInv
<1>3. seqLastSeen < last /\ seqLastSeen < polled[1]
  <2>1. 1 \in 1..Len(polled) /\ Len(polled) \in 1..Len(polled)
    BY <1>2
  <2>2. QED
    BY <1>2, <2>1 DEF Above, Last
<1>4. Reaches(gone, polled, seqLastSeen, last)
  BY <1>1, <1>2, ReachesLast
<1> HIDE DEF last
<1>5. PollInv'
  BY <1>1, <1>2, EmptyBuffer DEF PollInv
<1>6. ASSUME NEW s \in Subs PROVE ConnInv(s)' /\ NoGapOf(s)'
  <2>1. /\ outBuffer[s] \in Seq(Nat) /\ cutoverBuffer[s] \in Seq(Nat)
        /\ lastSeen[s] \in Int /\ cursor[s] \in Nat /\ From(s) \in Nat
        /\ phase[s] \in Phases /\ From(s)' = From(s)
    BY <1>1, ConnTypes DEF IInv, From
  <2>2. GotInv(s)' /\ NoGapOf(s)' /\ PageInv(s)'
    BY <1>1, <2>1 DEF IInv, StreamInv, ConnInv, GotInv, NoGap, NoGapOf, PageInv
  <2>3. CASE phase[s] \notin Listening
    <3>1. outBuffer'[s] = outBuffer[s] /\ cutoverBuffer'[s] = cutoverBuffer[s]
      BY <2>3 DEF Emit, CaughtUp, Listening
    <3>2. IdleInv(s)' /\ BackfillInv(s)'
      BY <1>1, <3>1 DEF IInv, StreamInv, ConnInv, IdleInv, BackfillInv
    <3>3. CutoverInv(s)' /\ StreamingInv(s)'
      BY <1>1, <2>3 DEF CutoverInv, StreamingInv, Listening
    <3>4. QED
      BY <2>2, <3>2, <3>3 DEF ConnInv
  <2>4. CASE phase[s] \in {"cutover", "merge"}
    <3>1. outBuffer'[s] = outBuffer[s] /\ cutoverBuffer'[s] = cutoverBuffer[s] \o polled
      BY <2>4 DEF Emit, CaughtUp, Listening
    <3>2. PICK b \in 0..seqLastSeen :
             /\ Above(cutoverBuffer[s], b)
             /\ Continues(gone, cutoverBuffer[s], b)
             /\ Reaches(gone, cutoverBuffer[s], b, seqLastSeen)
             /\ phase[s] = "merge" => Reaches(gone, rows[s], From(s), b)
      BY <2>4 DEF IInv, StreamInv, ConnInv, CutoverInv
    <3>3. b \in Int /\ b <= seqLastSeen /\ b \in 0..last /\ seqLastSeen \in Int /\ last \in Int
      BY <1>2, <1>3
    <3>4. Above(cutoverBuffer[s] \o polled, b)
      BY <1>2, <2>1, <3>2, <3>3, AboveConcat
    <3>5. Continues(gone, cutoverBuffer[s] \o polled, b)
      BY <1>2, <2>1, <3>2, <3>3, ContinuesConcat
    <3>6. Reaches(gone, cutoverBuffer[s] \o polled, b, last)
      BY <1>2, <1>4, <2>1, <3>2, <3>3, ReachesConcat
    <3>7. outBuffer[s] = <<>>
      BY <2>4 DEF IInv, StreamInv, ConnInv, CutoverInv
    <3>8. CutoverInv(s)'
      BY <1>1, <2>1, <3>1, <3>2, <3>3, <3>4, <3>5, <3>6, <3>7 DEF CutoverInv
    <3>9. IdleInv(s)' /\ BackfillInv(s)' /\ StreamingInv(s)'
      BY <1>1, <2>4 DEF IdleInv, BackfillInv, StreamingInv
    <3>10. QED
      BY <2>2, <3>8, <3>9 DEF ConnInv
  <2>5. CASE phase[s] = "streaming"
    <3> DEFINE o == outBuffer[s]
    <3>1. outBuffer'[s] = o \o polled
      BY <2>5 DEF Emit, CaughtUp
    <3>2. Continues(gone, o, Base(s)) /\ Reaches(gone, o, Base(s), seqLastSeen)
      BY <2>5 DEF IInv, StreamInv, ConnInv, StreamingInv
    <3>3. /\ Continues(gone, o \o polled, Base(s)')
          /\ Reaches(gone, o \o polled, Base(s)', last)
      <4>1. CASE Base(s)' = Base(s)
        <5>1. Base(s) \in Int
          <6>1. o # <<>> => o[1] \in Nat
            BY <2>1, EmptySeq, ElementOfSeq
          <6>2. QED
            BY <2>1, <6>1 DEF Base
        <5>2. seqLastSeen \in Int /\ last \in Int
          BY <1>2
        <5>3. Continues(gone, o \o polled, Base(s))
          BY <1>2, <2>1, <3>2, <5>1, <5>2, ContinuesConcat
        <5>4. Reaches(gone, o \o polled, Base(s), last)
          BY <1>2, <1>4, <2>1, <3>2, <5>1, <5>2, ReachesConcat
        <5>5. QED
          BY <4>1, <5>3, <5>4
      <4>2. CASE Base(s)' # Base(s)
        <5>1. o = <<>>
          <6>1. SUFFICES ASSUME o # <<>> PROVE FALSE
            OBVIOUS
          <6>2. 1 \in 1..Len(o) /\ Len(polled) \in Nat /\ Len(o) \in Nat
            BY <1>2, <2>1, <6>1, EmptySeq
          <6>3. (o \o polled)[1] = o[1] /\ o \o polled # <<>>
            BY <1>2, <2>1, <6>2, ConcatProperties, ConcatEqualIffEmpty
          <6>4. Base(s)' = Base(s)
            BY <1>1, <3>1, <6>1, <6>3 DEF Base
          <6>5. QED
            BY <4>2, <6>4
        <5>2. o \o polled = polled
          BY <1>2, <5>1, ConcatEmptySeq
        <5>3. Base(s)' = polled[1] - 1
          BY <1>1, <3>1, <4>2, <5>1, <5>2 DEF Base
        <5>4. polled[1] - 1 \in Int /\ seqLastSeen \in Int /\ seqLastSeen <= polled[1] - 1
          BY <1>2, <1>3
        <5>5. /\ Continues(gone, polled, polled[1] - 1)
              /\ Reaches(gone, polled, polled[1] - 1, last)
          BY <1>2, <1>4, <5>4, Later
        <5>6. QED
          BY <5>2, <5>3, <5>5
      <4>3. QED
        BY <4>1, <4>2
    <3>4. StreamingInv(s)'
      BY <1>1, <3>1, <3>3 DEF StreamingInv
    <3>5. IdleInv(s)' /\ BackfillInv(s)' /\ CutoverInv(s)'
      BY <1>1, <2>5 DEF IdleInv, BackfillInv, CutoverInv
    <3>6. QED
      BY <2>2, <3>4, <3>5 DEF ConnInv
  <2>6. CASE phase[s] = "tooSlow"
    BY <1>1, <2>2, <2>6 DEF ConnInv, IdleInv, BackfillInv, CutoverInv, StreamingInv
  <2>7. QED
    BY <2>3, <2>4, <2>5, <2>6 DEF Listening
<1>7. QED
  BY <1>5, <1>6 DEF StreamInv, NoGap

LEMMA RestartStep ==
  ASSUME IInv, Restart
  PROVE  StreamInv' /\ NoGap'
<1>1. PICK c \in 0..Len(log) : seqLastSeen' = c
  BY DEF Restart
<1>2. c \in Int /\ polled' = <<>>
  BY <1>1 DEF Restart
<1>3. PollInv'
  BY <1>1, <1>2, EmptyBuffer DEF PollInv
<1>4. ASSUME NEW s \in Subs PROVE ConnInv(s)' /\ NoGapOf(s)'
  BY <1>4, FreshConnection DEF Restart
<1>5. QED
  BY <1>3, <1>4 DEF StreamInv, NoGap

(***************************************************************************)
(* IInv is inductive.                                                      *)
(***************************************************************************)
LEMMA IInvStep == IInv /\ [Next]_vars => IInv'
<1> SUFFICES ASSUME IInv, [Next]_vars PROVE StreamInv' /\ NoGap'
  BY TypeStep DEF IInv
<1>1. ASSUME NEW d \in Dids, SequenceEvt(d) \/ SequenceDeletion(d)
      PROVE  StreamInv' /\ NoGap'
  BY <1>1, TableStep DEF SequenceEvt, SequenceDeletion
<1>2. ASSUME NEW k \in purges, DeleteAllForUser(k) PROVE StreamInv' /\ NoGap'
  BY <1>2, TableStep DEF DeleteAllForUser
<1>3. CASE Age
  <2>1. gone \subseteq gone' /\ UNCHANGED <<seqr, conn>>
    BY <1>3 DEF Age
  <2>2. QED
    BY <2>1, TableStep
<1>4. ASSUME NEW s \in Subs, Serve(s) PROVE StreamInv' /\ NoGap'
  BY <1>4, OutdatedStep, BackfillRequestStep, BackfillYieldStep, BackfillPageEndStep,
     RegisterStep, CutoverRequestStep, CutoverMergeStep, PullStep, PullTooSlowStep
     DEF Serve
<1>5. ASSUME NEW s \in Subs,
             (\E c \in 0..pos[s] : OpenAt(s, c)) \/ OpenLive(s) \/ Disconnect(s)
      PROVE  StreamInv' /\ NoGap'
  <2>1. 0 \in 0..pos[s]
    BY DEF IInv, TypeOK
  <2>2. QED
    BY <1>5, <2>1, OpenStep
<1>6. CASE UNCHANGED vars
  <2>1. gone \subseteq gone' /\ UNCHANGED <<seqr, conn>>
    BY <1>6 DEF vars, table
  <2>2. QED
    BY <2>1, TableStep
<1>7. CASE PollDb \/ Emit \/ Restart
  BY <1>7, PollDbStep, EmitStep, RestartStep
<1>8. CASE Next
  BY <1>1, <1>2, <1>3, <1>4, <1>5, <1>7, <1>8, Zenon DEF Next
<1>9. QED
  BY <1>6, <1>8

LEMMA IInvAlways == Spec => []IInv
<1>1. Init => IInv
  <2>1. SUFFICES ASSUME Init PROVE IInv
    OBVIOUS
  <2>2. TypeOK
    <3>1. <<>> \in Seq(Row) /\ <<>> \in Seq(1..Len(log)) /\ Len(log) = 0
      BY <2>1, EmptySeq DEF Init
    <3>2. QED
      BY <2>1, <3>1 DEF Init, TypeOK, Phases
  <2>3. PollInv
    BY <2>1, EmptyBuffer DEF Init, PollInv
  <2>4. \A s \in Subs : ConnInv(s) /\ NoGapOf(s)
    BY <2>1 DEF Init, ConnInv, NoGapOf, IdleInv, BackfillInv, PageInv, CutoverInv,
                StreamingInv, GotInv
  <2>5. QED
    BY <2>2, <2>3, <2>4 DEF IInv, StreamInv, NoGap
<1>2. QED
  BY <1>1, IInvStep, PTL DEF Spec

(***************************************************************************)
(* What every connection holds - a page, the answer to the cutover         *)
(* request, the cutover buffer, the out buffer - always continues its      *)
(* stream without a gap, and reaches as far as the sequencer has emitted.  *)
(***************************************************************************)
THEOREM StreamsContinue == Spec => []StreamInv
<1>1. IInv => StreamInv
  BY DEF IInv
<1>2. QED
  BY <1>1, IInvAlways, PTL

(***************************************************************************)
(* subscribeRepos loses no row: between its cursor and the last row it     *)
(* received, a consumer received every row that was not deleted, for any   *)
(* number of consumers, any page, poll and buffer sizes and any            *)
(* interleaving of inserts, deletions, polls and restarts.                 *)
(***************************************************************************)
THEOREM NothingLost == Spec => []NoGap
<1>1. IInv => NoGap
  BY DEF IInv
<1>2. QED
  BY <1>1, IInvAlways, PTL

-----------------------------------------------------------------------------
(* Cursors that were served are accepted                                   *)

(***************************************************************************)
(* What an unfinished deletion will delete behind its own account event    *)
(* was written while it was under way; a row that was not written so goes  *)
(* only with a purge whose account event lies behind it.                   *)
(***************************************************************************)
PurgesLate == \A k \in purges : \A q \in 1..Len(log) :
  q > k /\ log[q].did = log[k].did => log[q].late

GoneLate == \A q \in gone : log[q].late \/ q < Len(log)

PurgeInv == PurgesLate /\ GoneLate

HInv == TypeOK /\ PurgeInv /\ HonestCursorAccepted

\* rows are not changed once they are written, and deleted ones stay deleted
LEMMA RowsStay ==
  ASSUME TypeOK, [Next]_vars
  PROVE  /\ gone \subseteq gone'
         /\ Len(log) \in Nat /\ Len(log') \in Nat /\ Len(log) <= Len(log')
         /\ \A q \in 1..Len(log) : log'[q] = log[q]
<1>1. log \in Seq(Row) /\ Len(log) \in Nat
  BY LenProperties DEF TypeOK
<1>2. UNCHANGED log \/ \E d \in Dids : SequenceEvt(d) \/ SequenceDeletion(d)
  BY Zenon DEF Next, DeleteAllForUser, Age, PollDb, Emit, OpenAt, OpenLive, Serve,
     OpenOutdated, BackfillRequest, BackfillYield, BackfillPageEnd, Register,
     CutoverRequest, CutoverMerge, Pull, PullTooSlow, Disconnect, Restart, table, vars
<1>3. gone \subseteq gone'
  BY DEF Next, SequenceEvt, SequenceDeletion, DeleteAllForUser, Age, PollDb, Emit,
     OpenAt, OpenLive, Serve, OpenOutdated, BackfillRequest, BackfillYield,
     BackfillPageEnd, Register, CutoverRequest, CutoverMerge, Pull, PullTooSlow,
     Disconnect, Restart, table, vars
<1>4. ASSUME NEW d \in Dids, SequenceEvt(d) \/ SequenceDeletion(d)
      PROVE  Len(log') = Len(log) + 1 /\ \A q \in 1..Len(log) : log'[q] = log[q]
  <2>1. PICK e \in Row : log' = Append(log, e)
    BY <1>4, OneMoreRow, Zenon
  <2>2. QED
    BY <1>1, <2>1, AppendProperties
<1>5. QED
  BY <1>1, <1>2, <1>3, <1>4

(***************************************************************************)
(* A row written while a deletion of its account is under way is late.     *)
(***************************************************************************)
LEMMA InsertKeepsPurgeInv ==
  ASSUME TypeOK, PurgeInv, NEW d \in Dids, SequenceEvt(d) \/ SequenceDeletion(d)
  PROVE  PurgeInv'
<1>1. /\ log \in Seq(Row) /\ Len(log) \in Nat
      /\ gone \subseteq 1..Len(log) /\ purges \subseteq 1..Len(log)
  BY LenProperties DEF TypeOK
<1>2. PICK e \in Row : /\ log' = Append(log, e)
                       /\ e.did = d
                       /\ (\E k \in purges : log[k].did = d) => e.late
  BY OneMoreRow, Zenon
<1>3. /\ Len(log') = Len(log) + 1 /\ log'[Len(log) + 1] = e
      /\ \A q \in 1..Len(log) : log'[q] = log[q]
  BY <1>1, <1>2, AppendProperties
<1>4. gone' = gone /\ purges' \subseteq purges \cup {Len(log) + 1}
  BY OneMoreRow, Zenon
<1>5. PurgesLate'
  <2> SUFFICES ASSUME NEW k \in purges', NEW q \in 1..Len(log'), q > k,
                      log'[q].did = log'[k].did
               PROVE  log'[q].late
    BY DEF PurgesLate
  <2>1. k \in purges /\ log'[k] = log[k]
    BY <1>1, <1>3, <1>4
  <2>2. CASE q \in 1..Len(log)
    BY <1>3, <2>1, <2>2 DEF PurgeInv, PurgesLate
  <2>3. CASE q = Len(log) + 1
    BY <1>2, <1>3, <2>1, <2>3
  <2>4. QED
    BY <1>1, <1>3, <2>2, <2>3
<1>6. GoneLate'
  BY <1>1, <1>3, <1>4 DEF PurgeInv, GoneLate
<1>7. QED
  BY <1>5, <1>6 DEF PurgeInv

(***************************************************************************)
(* A purge takes rows in front of its account event, which are not the     *)
(* last one, and late rows behind it.                                      *)
(***************************************************************************)
LEMMA PurgeKeepsPurgeInv ==
  ASSUME TypeOK, PurgeInv, NEW k \in purges, DeleteAllForUser(k)
  PROVE  PurgeInv'
<1>1. Len(log) \in Nat /\ k \in 1..Len(log)
  BY LenProperties DEF TypeOK
<1>2. /\ log' = log /\ purges' = purges \ {k}
      /\ gone' = gone \cup {q \in Alive : log[q].did = log[k].did /\ q # k}
  BY DEF DeleteAllForUser
<1>3. PurgesLate'
  BY <1>2 DEF PurgeInv, PurgesLate
<1>4. ASSUME NEW q \in gone' PROVE log[q].late \/ q < Len(log)
  <2>1. CASE q \in gone
    BY <2>1 DEF PurgeInv, GoneLate
  <2>2. CASE q \in 1..Len(log) /\ log[q].did = log[k].did /\ q # k
    BY <1>1, <2>2 DEF PurgeInv, PurgesLate
  <2>3. QED
    BY <1>2, <1>4, <2>1, <2>2 DEF Alive
<1>5. QED
  BY <1>2, <1>3, <1>4 DEF PurgeInv, GoneLate

LEMMA PurgeStep == TypeOK /\ PurgeInv /\ [Next]_vars => PurgeInv'
<1> SUFFICES ASSUME TypeOK, PurgeInv, [Next]_vars PROVE PurgeInv'
  OBVIOUS
<1>1. ASSUME log' = log, gone' = gone, purges' \subseteq purges PROVE PurgeInv'
  BY <1>1 DEF PurgeInv, PurgesLate, GoneLate
<1>2. ASSUME UNCHANGED <<log, gone, purges>> PROVE PurgeInv'
  BY <1>1, <1>2
<1>3. ASSUME NEW s \in Subs,
             \/ \E c \in 0..pos[s] : OpenAt(s, c)
             \/ OpenLive(s) \/ Serve(s) \/ Disconnect(s)
      PROVE  PurgeInv'
  BY <1>2, <1>3 DEF OpenAt, OpenLive, Disconnect, Serve, OpenOutdated, BackfillRequest,
     BackfillYield, BackfillPageEnd, Register, CutoverRequest, CutoverMerge, Pull,
     PullTooSlow, table
<1>4. CASE Age \/ PollDb \/ Emit
  BY <1>2, <1>4 DEF Age, PollDb, Emit, table
<1>5. CASE Restart
  BY <1>1, <1>5 DEF Restart
<1>6. CASE UNCHANGED vars
  BY <1>2, <1>6 DEF vars, table
<1>7. CASE Next
  BY <1>3, <1>4, <1>5, <1>7, InsertKeepsPurgeInv, PurgeKeepsPurgeInv, Zenon DEF Next
<1>8. QED
  BY <1>6, <1>7

(***************************************************************************)
(* A cursor beyond the newest surviving row: the last row ever written was *)
(* deleted, so it was late, and it lies at or behind the cursor.           *)
(***************************************************************************)
LEMMA RejectedStep ==
  ASSUME TypeOK, PurgeInv, NEW s \in Subs, NEW c \in 0..pos[s], NEW curr \in 0..Len(log),
         IsCurr(curr), c > curr
  PROVE  \E q \in gone : q >= c /\ log[q].late
<1> DEFINE n == Len(log)
<1>1. /\ n \in Nat /\ c \in Nat /\ curr \in Nat
      /\ c <= n
      /\ gone \subseteq 1..n
  BY LenProperties DEF TypeOK
<1>2. \A r \in Alive : r <= curr
  BY <1>1 DEF IsCurr
<1>3. n \in 1..n /\ n \in gone
  BY <1>1, <1>2 DEF Alive
<1>4. log[n].late
  BY <1>1, <1>3 DEF PurgeInv, GoneLate
<1>5. QED
  BY <1>1, <1>3, <1>4

(***************************************************************************)
(* Only an open with a cursor rejects anyone, and the cursor it set stays  *)
(* as long as the consumer is rejected.                                    *)
(***************************************************************************)
LEMMA Rejected ==
  ASSUME TypeOK, [Next]_vars, NEW s \in Subs, phase'[s] = "rejected"
  PROVE  \/ phase[s] = "rejected" /\ cursor'[s] = cursor[s]
         \/ /\ cursor'[s] \in 0..pos[s]
            /\ \E curr \in 0..Len(log) : IsCurr(curr) /\ cursor'[s] > curr
<1> USE DEF TypeOK
<1> DEFINE Stays == phase[s] = "rejected" /\ cursor'[s] = cursor[s]
           New == /\ cursor'[s] \in 0..pos[s]
                  /\ \E curr \in 0..Len(log) : IsCurr(curr) /\ cursor'[s] > curr
<1>1. ASSUME NEW t \in Subs, NEW c \in 0..pos[t], OpenAt(t, c) PROVE Stays \/ New
  <2>1. cursor' = [cursor EXCEPT ![t] = c]
    BY <1>1 DEF OpenAt
  <2>2. PICK curr \in 0..Len(log) :
          /\ IsCurr(curr)
          /\ c > curr \/ Goto(t, "outdated") \/ Goto(t, "backfill")
    BY <1>1 DEF OpenAt
  <2>3. \E p \in {"rejected", "outdated", "backfill"} : Goto(t, p)
    BY <1>1 DEF OpenAt
  <2>4. CASE t # s
    BY <2>1, <2>3, <2>4 DEF Goto
  <2>5. CASE t = s
    <3>1. c > curr /\ cursor'[s] = c
      BY <2>1, <2>2, <2>5 DEF Goto
    <3>2. QED
      BY <2>2, <2>5, <3>1
  <2>6. QED
    BY <2>4, <2>5
<1>2. ASSUME NEW t \in Subs, OpenLive(t) \/ Disconnect(t) \/ Serve(t) PROVE Stays
  <2>1. \/ phase' = phase
        \/ \E p \in Phases \ {"rejected"} : Goto(t, p)
    BY <1>2 DEF OpenLive, Disconnect, Serve, OpenOutdated, BackfillRequest, BackfillYield,
       BackfillPageEnd, Register, CutoverRequest, CutoverMerge, Pull, PullTooSlow, Phases,
       Listening
  <2>2. phase[s] = "rejected"
    BY <2>1 DEF Goto
  <2>3. \/ UNCHANGED cursor
        \/ /\ phase[t] \in {"outdated", "registerLive"}
           /\ \E c : cursor' = [cursor EXCEPT ![t] = c]
    BY <1>2, Zenon DEF OpenLive, Disconnect, Serve, OpenOutdated, BackfillRequest,
       BackfillYield, BackfillPageEnd, Register, CutoverRequest, CutoverMerge, Pull,
       PullTooSlow
  <2>4. ASSUME NEW c, t # s, cursor' = [cursor EXCEPT ![t] = c] PROVE cursor'[s] = cursor[s]
    BY <2>4
  <2>5. phase[t] \in {"outdated", "registerLive"} => t # s
    BY <2>2
  <2>6. cursor'[s] = cursor[s]
    BY <2>3, <2>4, <2>5, Zenon
  <2>7. QED
    BY <2>2, <2>6
<1>3. ASSUME UNCHANGED <<phase, cursor>> PROVE Stays
  BY <1>3
<1>4. ASSUME Restart PROVE Stays
  BY <1>4 DEF Restart
<1>5. ASSUME \/ \E d \in Dids : SequenceEvt(d) \/ SequenceDeletion(d)
             \/ \E k \in purges : DeleteAllForUser(k)
             \/ Age \/ PollDb \/ Emit
             \/ UNCHANGED vars
      PROVE  Stays
  BY <1>3, <1>5 DEF SequenceEvt, SequenceDeletion, DeleteAllForUser, Age, PollDb, Emit,
     vars, conn
<1> HIDE DEF Stays, New
<1>6. ASSUME Next PROVE Stays \/ New
  BY <1>1, <1>2, <1>4, <1>5, <1>6, Zenon DEF Next
<1>7. Stays \/ New
  BY <1>5, <1>6
<1>8. QED
  BY <1>7 DEF Stays, New

LEMMA HInvStep == HInv /\ [Next]_vars => HInv'
<1> SUFFICES ASSUME HInv, [Next]_vars PROVE HonestCursorAccepted'
  BY TypeStep, PurgeStep DEF HInv
<1>1. SUFFICES ASSUME NEW s \in Subs, phase'[s] = "rejected"
               PROVE  \E q \in gone' : q >= cursor'[s] /\ log'[q].late
  BY DEF HonestCursorAccepted
<1>2. \E q \in gone : q >= cursor'[s] /\ log[q].late
  <2>1. CASE phase[s] = "rejected" /\ cursor'[s] = cursor[s]
    BY <2>1 DEF HInv, HonestCursorAccepted
  <2>2. ASSUME cursor'[s] \in 0..pos[s], NEW curr \in 0..Len(log),
               IsCurr(curr), cursor'[s] > curr
        PROVE  \E q \in gone : q >= cursor'[s] /\ log[q].late
    BY <2>2, RejectedStep DEF HInv
  <2>3. QED
    BY <1>1, <2>1, <2>2, Rejected DEF HInv
<1>3. gone \subseteq gone' /\ \A q \in gone : log'[q] = log[q]
  BY RowsStay DEF HInv, TypeOK
<1>4. QED
  BY <1>2, <1>3

(***************************************************************************)
(* Whoever resumes from a row he was sent is refused as FutureCursor only  *)
(* if a row at or behind his cursor was written while a deletion of its    *)
(* account was between its two calls, and was purged: a purge spares the   *)
(* account event of its own deletion, though of no other that overlaps it  *)
(* (subscribeRepos.ts:29, deleteAccount.ts:59-63).                         *)
(***************************************************************************)
THEOREM HonestCursorsAccepted == Spec => []HonestCursorAccepted
<1>1. Init => HInv
  <2>1. SUFFICES ASSUME Init PROVE HInv
    OBVIOUS
  <2>2. TypeOK
    <3>1. <<>> \in Seq(Row) /\ <<>> \in Seq(1..Len(log)) /\ Len(log) = 0
      BY <2>1, EmptySeq DEF Init
    <3>2. QED
      BY <2>1, <3>1 DEF Init, TypeOK, Phases
  <2>3. PurgeInv
    BY <2>1 DEF Init, PurgeInv, PurgesLate, GoneLate
  <2>4. HonestCursorAccepted
    BY <2>1 DEF Init, HonestCursorAccepted
  <2>5. QED
    BY <2>2, <2>3, <2>4 DEF HInv
<1>2. HInv => HonestCursorAccepted
  BY DEF HInv
<1>3. QED
  BY <1>1, <1>2, HInvStep, PTL DEF Spec

-----------------------------------------------------------------------------
(* The stream implements EventStream                                       *)

\* A connection that is served has brought its consumer to where it goes on
PosInv == \A s \in Subs : phase[s] \in Served => pos[s] = From(s)

LEMMA ServedPhases ==
  /\ Served \subseteq Phases
  /\ \A p \in {"closed", "rejected", "outdated", "registerLive", "tooSlow"} : p \notin Served
BY DEF Served, Phases, Listening

\* What a step leaves alone
Untouched(s) == /\ phase'[s] = phase[s] /\ cursor'[s] = cursor[s]
                /\ lastSeen'[s] = lastSeen[s] /\ pos'[s] = pos[s]

LEMMA PosKept ==
  ASSUME PosInv, \A t \in Subs : Untouched(t) \/ (phase'[t] \in Served => pos'[t] = From(t)')
  PROVE  PosInv'
BY DEF PosInv, Untouched, From

LEMMA PosStep == IInv /\ PosInv /\ [Next]_vars => PosInv'
<1> SUFFICES ASSUME IInv, PosInv, [Next]_vars PROVE PosInv'
  OBVIOUS
<1> USE DEF IInv, TypeOK
<1>1. ASSUME NEW s \in Subs, NEW c \in 0..pos[s], OpenAt(s, c) PROVE PosInv'
  <2>1. \A t \in Subs \ {s} : Untouched(t)
    BY <1>1 DEF OpenAt, NewOutbox, Goto, Untouched
  <2>2. phase'[s] \in Served => pos'[s] = From(s)'
    <3>1. lastSeen'[s] = -1 /\ cursor'[s] = c
      BY <1>1 DEF OpenAt, NewOutbox
    <3>2. phase'[s] \in Served => pos'[s] = c
      BY <1>1, ServedPhases DEF OpenAt, Goto
    <3>3. QED
      BY <3>1, <3>2 DEF From
  <2>3. QED
    BY <2>1, <2>2, PosKept
<1>2. ASSUME NEW s \in Subs, OpenLive(s) \/ Disconnect(s) PROVE PosInv'
  <2>1. \A t \in Subs \ {s} : Untouched(t)
    BY <1>2 DEF OpenLive, Disconnect, NewOutbox, Goto, Untouched
  <2>2. phase'[s] \notin Served
    BY <1>2, ServedPhases DEF OpenLive, Disconnect, Goto
  <2>3. QED
    BY <2>1, <2>2, PosKept
<1>3. ASSUME NEW s \in Subs, OpenOutdated(s) PROVE PosInv'
  <2>1. \A t \in Subs \ {s} : Untouched(t)
    BY <1>3 DEF OpenOutdated, Goto, Untouched
  <2>2. lastSeen'[s] = -1
    BY <1>3 DEF OpenOutdated, StreamInv, ConnInv, IdleInv
  <2>3. phase'[s] \in Served => pos'[s] = cursor'[s]
    BY <1>3, ServedPhases DEF OpenOutdated, Goto
  <2>4. QED
    BY <2>1, <2>2, <2>3, PosKept DEF From
<1>4. ASSUME NEW s \in Subs, BackfillRequest(s) \/ BackfillPageEnd(s) \/ CutoverRequest(s)
                             \/ CutoverMerge(s) \/ PullTooSlow(s)
      PROVE PosInv'
  <2>1. \A t \in Subs \ {s} : Untouched(t)
    BY <1>4 DEF BackfillRequest, BackfillPageEnd, CutoverRequest, CutoverMerge, PullTooSlow, Goto, Untouched
  <2>2. phase[s] \in Served /\ UNCHANGED <<cursor, lastSeen, pos>>
    BY <1>4 DEF BackfillRequest, BackfillPageEnd, CutoverRequest, CutoverMerge, PullTooSlow, Served
  <2>3. QED
    BY <2>1, <2>2, PosKept DEF PosInv, From
<1>5. ASSUME NEW s \in Subs, Register(s) PROVE PosInv'
  <2>1. \A t \in Subs \ {s} : Untouched(t)
    BY <1>5 DEF Register, Goto, Untouched
  <2>2. pos'[s] = From(s)'
    <3>1. CASE phase[s] = "register"
      BY <1>5, <3>1 DEF Register, PosInv, From, Served
    <3>2. CASE phase[s] = "registerLive"
      BY <1>5, <3>2 DEF Register, From, StreamInv, ConnInv, IdleInv
    <3>3. QED
      BY <1>5, <3>1, <3>2 DEF Register
  <2>3. QED
    BY <2>1, <2>2, PosKept
<1>6. ASSUME NEW s \in Subs, BackfillYield(s) \/ Pull(s) PROVE PosInv'
  <2>1. CASE UNCHANGED <<phase, cursor, lastSeen, pos>>
    BY <2>1 DEF PosInv, From
  <2>2. ASSUME NEW q \in Nat, Receive(s, q), UNCHANGED <<phase, cursor>> PROVE PosInv'
    <3>1. \A t \in Subs \ {s} : Untouched(t)
      BY <2>2 DEF Receive, Untouched
    <3>2. lastSeen'[s] = q /\ pos'[s] = q
      BY <2>2 DEF Receive
    <3>3. QED
      BY <3>1, <3>2, PosKept DEF From
  <2>3. rows[s] # <<>> => Head(rows[s]) \in Nat
    BY ConnTypes, HeadTailProperties
  <2>4. outBuffer[s] # <<>> => Head(outBuffer[s]) \in Nat
    BY ConnTypes, HeadTailProperties
  <2>5. QED
    BY <1>6, <2>1, <2>2, <2>3, <2>4 DEF BackfillYield, Pull
<1>7. CASE \/ \E d \in Dids : SequenceEvt(d) \/ SequenceDeletion(d)
           \/ \E k \in purges : DeleteAllForUser(k)
           \/ Age \/ PollDb \/ Emit
           \/ UNCHANGED vars
  <2>1. UNCHANGED <<phase, cursor, lastSeen, pos>>
    BY <1>7 DEF SequenceEvt, SequenceDeletion, DeleteAllForUser, Age, PollDb, Emit, vars, conn
  <2>2. QED
    BY <2>1 DEF PosInv, From
<1>8. CASE Restart
  BY <1>8, ServedPhases DEF Restart, PosInv
<1>9. CASE Next
  BY <1>1, <1>2, <1>3, <1>4, <1>5, <1>6, <1>7, <1>8, <1>9, Zenon DEF Next, Serve
<1>10. QED
  BY <1>7, <1>9

\* The next row of the stream, or one that is sent again
LEMMA NextRow ==
  ASSUME NEW g, NEW b \in Seq(Nat), b # <<>>, NEW p \in Int, Continues(g, b, p)
  PROVE  (p + 1)..(Head(b) - 1) \subseteq g
<1>1. 1 \in 1..Len(b) /\ Head(b) = b[1] /\ Head(b) \in Nat
  BY EmptySeq, HeadTailProperties, LenProperties
<1>2. ASSUME NEW q \in (p + 1)..(Head(b) - 1) PROVE q \in g
  <2>1. q \in (p + 1)..b[1] /\ b[1] # q
    BY <1>1
  <2>2. q \in g \/ \E j \in 1..1 : b[j] = q
    BY <1>1, <2>1 DEF Continues
  <2>3. QED
    BY <2>1, <2>2
<1>3. QED
  BY <1>2

LEMMA SameFlags ==
  ASSUME NEW f \in [Subs -> BOOLEAN], NEW g \in [Subs -> BOOLEAN], \A t \in Subs : f[t] <=> g[t]
  PROVE  f = g
<1>1. \A t \in Subs : f[t] = g[t]
  OBVIOUS
<1>2. QED
  BY <1>1

LEMMA Flags ==
  /\ Opened \in [Subs -> BOOLEAN] /\ Unsent \in [Subs -> BOOLEAN]
  /\ Opened' \in [Subs -> BOOLEAN] /\ Unsent' \in [Subs -> BOOLEAN]
  /\ \A t \in Subs : /\ Opened[t] <=> phase[t] \in Served
                     /\ Unsent[t] <=> (phase[t] \in Served => lastSeen[t] = -1)
                     /\ Opened'[t] <=> phase'[t] \in Served
                     /\ Unsent'[t] <=> (phase'[t] \in Served => lastSeen'[t] = -1)
<1>1. Opened \in [Subs -> BOOLEAN] /\ Opened' \in [Subs -> BOOLEAN]
  BY DEF Opened
<1>2. Unsent \in [Subs -> BOOLEAN] /\ Unsent' \in [Subs -> BOOLEAN]
  BY DEF Unsent
<1>3. \A t \in Subs : (Opened[t] <=> phase[t] \in Served) /\ (Opened'[t] <=> phase'[t] \in Served)
  BY DEF Opened
<1>4. ASSUME NEW t \in Subs
      PROVE  /\ Unsent[t] <=> (phase[t] \in Served => lastSeen[t] = -1)
             /\ Unsent'[t] <=> (phase'[t] \in Served => lastSeen'[t] = -1)
  <2>1. Unsent[t] = (phase[t] \in Served => lastSeen[t] = -1)
    BY Zenon DEF Unsent
  <2>2. Unsent'[t] = (phase'[t] \in Served => lastSeen'[t] = -1)
    BY Zenon DEF Unsent
  <2>3. QED
    BY <2>1, <2>2, Zenon
<1>5. QED
  BY <1>1, <1>2, <1>3, <1>4

LEMMA SetFlag ==
  ASSUME NEW f \in [Subs -> BOOLEAN], NEW g \in [Subs -> BOOLEAN], NEW s \in Subs, NEW b \in BOOLEAN,
         \A t \in Subs \ {s} : f[t] <=> g[t], g[s] <=> b
  PROVE  g = [f EXCEPT ![s] = b]
<1> DEFINE h == [f EXCEPT ![s] = b]
<1>1. h \in [Subs -> BOOLEAN] /\ h[s] = b /\ \A t \in Subs \ {s} : h[t] = f[t]
  OBVIOUS
<1> HIDE DEF h
<1>2. \A t \in Subs : g[t] <=> h[t]
  BY <1>1
<1>3. g = h
  BY <1>1, <1>2, SameFlags
<1>4. QED
  BY <1>3 DEF h

\* What the abstract stream sees of a step of one connection
LEMMA Seen ==
  ASSUME NEW s \in Subs, \A t \in Subs \ {s} : Untouched(t)
  PROVE  /\ phase'[s] \in Served /\ lastSeen'[s] = -1 =>
              Opened' = [Opened EXCEPT ![s] = TRUE] /\ Unsent' = [Unsent EXCEPT ![s] = TRUE]
         /\ phase'[s] \in Served /\ phase[s] \in Served =>
              /\ Opened' = Opened
              /\ lastSeen'[s] # -1 => Unsent' = [Unsent EXCEPT ![s] = FALSE]
              /\ lastSeen'[s] = lastSeen[s] => Unsent' = Unsent
         /\ phase'[s] \notin Served =>
              /\ Opened' = [t \in Subs |-> Opened[t] /\ t \notin {s}]
              /\ Unsent' = [t \in Subs |-> Unsent[t] \/ t \in {s}]
              /\ phase[s] \notin Served => Opened' = Opened /\ Unsent' = Unsent
<1>1. \A t \in Subs \ {s} : /\ phase'[t] \in Served <=> phase[t] \in Served
                            /\ lastSeen'[t] = lastSeen[t]
  BY DEF Untouched
<1>2. \A t \in Subs \ {s} : (Opened[t] <=> Opened'[t]) /\ (Unsent[t] <=> Unsent'[t])
  BY <1>1, Flags
<1>3. ASSUME phase'[s] \in Served, lastSeen'[s] = -1
      PROVE  Opened' = [Opened EXCEPT ![s] = TRUE] /\ Unsent' = [Unsent EXCEPT ![s] = TRUE]
  <2>1. (Opened'[s] <=> TRUE) /\ (Unsent'[s] <=> TRUE)
    BY <1>3, Flags
  <2>2. QED
    BY <1>2, <2>1, Flags, SetFlag
<1>4. ASSUME phase'[s] \in Served, phase[s] \in Served
      PROVE  /\ Opened' = Opened
             /\ lastSeen'[s] # -1 => Unsent' = [Unsent EXCEPT ![s] = FALSE]
             /\ lastSeen'[s] = lastSeen[s] => Unsent' = Unsent
  <2>1. Opened' = Opened
    <3>1. Opened'[s] <=> Opened[s]
      BY <1>4, Flags
    <3>2. QED
      BY <1>2, <3>1, Flags, SameFlags
  <2>2. ASSUME lastSeen'[s] # -1 PROVE Unsent' = [Unsent EXCEPT ![s] = FALSE]
    <3>1. Unsent'[s] <=> FALSE
      BY <1>4, <2>2, Flags
    <3>2. QED
      BY <1>2, <3>1, Flags, SetFlag
  <2>3. ASSUME lastSeen'[s] = lastSeen[s] PROVE Unsent' = Unsent
    <3>1. Unsent'[s] <=> Unsent[s]
      BY <1>4, <2>3, Flags
    <3>2. QED
      BY <1>2, <3>1, Flags, SameFlags
  <2>4. QED
    BY <2>1, <2>2, <2>3
<1>5. ASSUME phase'[s] \notin Served
      PROVE  /\ Opened' = [t \in Subs |-> Opened[t] /\ t \notin {s}]
             /\ Unsent' = [t \in Subs |-> Unsent[t] \/ t \in {s}]
             /\ phase[s] \notin Served => Opened' = Opened /\ Unsent' = Unsent
  <2>1. (Opened'[s] <=> FALSE) /\ (Unsent'[s] <=> TRUE)
    BY <1>5, Flags
  <2>2. \A t \in Subs : /\ Opened'[t] <=> (Opened[t] /\ t \notin {s})
                        /\ Unsent'[t] <=> (Unsent[t] \/ t \in {s})
    BY <1>2, <2>1
  <2>3. Opened' = [t \in Subs |-> Opened[t] /\ t \notin {s}]
    <3> DEFINE g == [t \in Subs |-> Opened[t] /\ t \notin {s}]
    <3>1. g \in [Subs -> BOOLEAN] /\ \A t \in Subs : g[t] <=> (Opened[t] /\ t \notin {s})
      OBVIOUS
    <3> HIDE DEF g
    <3>2. Opened' = g
      BY <2>2, <3>1, Flags, SameFlags
    <3>3. QED
      BY <3>2 DEF g
  <2>4. Unsent' = [t \in Subs |-> Unsent[t] \/ t \in {s}]
    <3> DEFINE g == [t \in Subs |-> Unsent[t] \/ t \in {s}]
    <3>1. g \in [Subs -> BOOLEAN] /\ \A t \in Subs : g[t] <=> (Unsent[t] \/ t \in {s})
      OBVIOUS
    <3> HIDE DEF g
    <3>2. Unsent' = g
      BY <2>2, <3>1, Flags, SameFlags
    <3>3. QED
      BY <3>2 DEF g
  <2>5. ASSUME phase[s] \notin Served PROVE Opened' = Opened /\ Unsent' = Unsent
    <3>1. (Opened'[s] <=> Opened[s]) /\ (Unsent'[s] <=> Unsent[s])
      BY <1>5, <2>5, Flags
    <3>2. QED
      BY <1>2, <3>1, Flags, SameFlags
  <2>6. QED
    BY <2>3, <2>4, <2>5
<1>6. QED
  BY <1>3, <1>4, <1>5

LEMMA TypesOfStream ==
  ASSUME TypeOK
  PROVE  /\ Len(log) \in Nat /\ gone \subseteq 1..Len(log)
         /\ \A s \in Subs : pos[s] \in 0..Len(log) /\ lastSeen[s] \in -1..Len(log)
BY LenProperties DEF TypeOK

\* Rows come and go
LEMMA TableRefines ==
  ASSUME TypeOK,
         \/ \E d \in Dids : SequenceEvt(d) \/ SequenceDeletion(d)
         \/ \E k \in purges : DeleteAllForUser(k)
  PROVE  ES!Next
<1>1. UNCHANGED <<phase, lastSeen, pos>>
  BY DEF SequenceEvt, SequenceDeletion, DeleteAllForUser, conn
<1>2. UNCHANGED <<Opened, Unsent, pos>>
  BY <1>1 DEF Opened, Unsent
<1>3. ASSUME NEW d \in Dids, SequenceEvt(d) \/ SequenceDeletion(d) PROVE ES!LogRow
  <2>1. gone' = gone /\ \E r \in Row : log' = Append(log, r)
    BY <1>3, OneMoreRow, Zenon
  <2>2. Len(log') = Len(log) + 1
    BY <2>1, AppendProperties DEF TypeOK
  <2>3. QED
    BY <1>2, <2>1, <2>2 DEF ES!LogRow
<1>4. ASSUME NEW k \in purges, DeleteAllForUser(k)
      PROVE  \E S \in SUBSET (1..Len(log)) : ES!PurgeRows(S)
  <2> DEFINE S == {q \in Alive : log[q].did = log[k].did /\ q # k}
  <2>1. S \in SUBSET (1..Len(log)) /\ gone' = gone \cup S /\ log' = log
    BY <1>4 DEF DeleteAllForUser, Alive
  <2>2. ES!PurgeRows(S)
    BY <1>2, <2>1 DEF ES!PurgeRows
  <2>3. QED
    BY <2>1, <2>2
<1>5. QED
  BY <1>3, <1>4 DEF ES!Next

\* Steps that the abstract stream does not see
LEMMA Hidden ==
  ASSUME UNCHANGED <<log, gone, phase, lastSeen, pos>>
  PROVE  UNCHANGED ES!vars
BY DEF ES!vars, Opened, Unsent

LEMMA OpensRefine ==
  ASSUME TypeOK, NEW s \in Subs, \A t \in Subs \ {s} : Untouched(t), UNCHANGED <<log, gone>>,
         phase[s] \notin Served, phase'[s] \in Served, lastSeen'[s] = -1,
         NEW p \in 0..Len(log), pos' = [pos EXCEPT ![s] = p]
  PROVE  ES!Next
<1>1. ~Opened[s]
  BY Flags
<1>2. Opened' = [Opened EXCEPT ![s] = TRUE] /\ Unsent' = [Unsent EXCEPT ![s] = TRUE]
  BY Seen
<1>3. ES!Open(s, p)
  BY <1>1, <1>2 DEF ES!Open
<1>4. QED
  BY <1>3 DEF ES!Next

LEMMA ClosesRefine ==
  ASSUME NEW s \in Subs, \A t \in Subs \ {s} : Untouched(t), UNCHANGED <<log, gone, pos>>,
         phase'[s] \notin Served
  PROVE  ES!Next
<1>1. /\ Opened' = [t \in Subs |-> Opened[t] /\ t \notin {s}]
      /\ Unsent' = [t \in Subs |-> Unsent[t] \/ t \in {s}]
  BY Seen
<1>2. ES!Close({s})
  BY <1>1 DEF ES!Close
<1>3. {s} \in SUBSET Subs
  OBVIOUS
<1>4. QED
  BY <1>2, <1>3 DEF ES!Next

\* A step of a connection that is served and sends nothing
LEMMA ServesOn ==
  ASSUME NEW s \in Subs, \A t \in Subs \ {s} : Untouched(t), UNCHANGED <<log, gone, lastSeen, pos>>,
         phase[s] \in Served, phase'[s] \in Served
  PROVE  UNCHANGED ES!vars
<1>1. Opened' = Opened /\ Unsent' = Unsent
  BY Seen
<1>2. QED
  BY <1>1 DEF ES!vars

\* The head of a buffer that continues the stream is sent
LEMMA SendsRefine ==
  ASSUME TypeOK, NEW s \in Subs, NEW b \in Seq(Nat), b # <<>>, Head(b) \in 1..Len(log),
         Receive(s, Head(b)), UNCHANGED <<log, gone, phase, cursor>>, phase[s] \in Served,
         \/ Head(b) > pos[s] /\ Continues(gone, b, pos[s])
         \/ Head(b) <= pos[s] /\ lastSeen[s] = -1
  PROVE  ES!Next
<1> DEFINE q == Head(b)
<1>1. \A t \in Subs \ {s} : Untouched(t)
  BY DEF TypeOK, Receive, Untouched
<1>2. lastSeen'[s] = q /\ pos' = [pos EXCEPT ![s] = q] /\ q # -1
  BY TypesOfStream DEF TypeOK, Receive
<1>3. Opened' = Opened /\ Unsent' = [Unsent EXCEPT ![s] = FALSE]
  BY <1>1, <1>2, Seen
<1>4. Opened[s] /\ (lastSeen[s] = -1 => Unsent[s])
  BY Flags
<1>5. pos[s] \in Nat
  BY TypesOfStream
<1>6. CASE q > pos[s] /\ Continues(gone, b, pos[s])
  <2>1. (pos[s] + 1)..(q - 1) \subseteq gone
    BY <1>5, <1>6, NextRow
  <2>2. ES!Send(s, q)
    BY <1>2, <1>3, <1>4, <1>6, <2>1 DEF ES!Send
  <2>3. QED
    BY <2>2 DEF ES!Next
<1>7. CASE q <= pos[s] /\ lastSeen[s] = -1
  <2>1. q \in 1..pos[s]
    BY <1>5, <1>7
  <2>2. ES!Resend(s, q)
    BY <1>2, <1>3, <1>4, <1>7, <2>1 DEF ES!Resend
  <2>3. QED
    BY <2>2 DEF ES!Next
<1>8. QED
  BY <1>6, <1>7

LEMMA YieldRefines ==
  ASSUME IInv, PosInv, NEW s \in Subs, BackfillYield(s)
  PROVE  ES!Next
<1> DEFINE b == rows[s]
<1>1. b \in Seq(Nat) /\ b \in Seq(1..Len(log)) /\ b # <<>> /\ TypeOK
  BY ConnTypes DEF BackfillYield, IInv
<1>2. Head(b) \in 1..Len(log) /\ Head(b) = b[1] /\ 1 \in 1..Len(b)
  BY <1>1, HeadTailProperties, EmptySeq, LenProperties
<1>3. phase[s] \in Served /\ UNCHANGED <<log, gone, phase, cursor>> /\ Receive(s, Head(b))
  BY DEF BackfillYield, Served, table
<1>4. pos[s] = From(s) /\ Continues(gone, b, pos[s]) /\ Head(b) > pos[s]
  BY <1>2, <1>3 DEF PosInv, IInv, StreamInv, ConnInv, PageInv, BackfillYield, Above
<1>5. QED
  BY <1>1, <1>2, <1>3, <1>4, SendsRefine

LEMMA PullRefines ==
  ASSUME IInv, PosInv, NEW s \in Subs, Pull(s)
  PROVE  ES!Next \/ UNCHANGED ES!vars
<1> DEFINE b == outBuffer[s]
<1>1. b \in Seq(Nat) /\ b \in Seq(1..Len(log)) /\ b # <<>> /\ TypeOK
  BY ConnTypes DEF Pull, IInv
<1>2. Head(b) \in 1..Len(log) /\ Head(b) = b[1]
  BY <1>1, HeadTailProperties
<1>3. phase[s] \in Served /\ UNCHANGED <<log, gone, phase, cursor>>
  BY DEF Pull, Served, table
<1>4. CASE UNCHANGED <<lastSeen, pos, got>>
  BY <1>3, <1>4, Hidden
<1>5. CASE Head(b) > lastSeen[s] /\ Receive(s, Head(b))
  <2>1. pos[s] = From(s) /\ Continues(gone, b, Base(s))
    BY <1>3 DEF PosInv, IInv, StreamInv, ConnInv, StreamingInv, Pull
  <2>2. lastSeen[s] \in -1..Len(log) /\ cursor[s] \in 0..Len(log) /\ Len(log) \in Nat
    BY ConnTypes DEF IInv
  <2>3. CASE lastSeen[s] > -1
    <3>1. Base(s) = pos[s] /\ Head(b) > pos[s]
      BY <1>5, <2>1, <2>3 DEF Base, From
    <3>2. QED
      BY <1>1, <1>2, <1>3, <1>5, <2>1, <3>1, SendsRefine
  <2>4. CASE lastSeen[s] = -1 /\ Head(b) > cursor[s]
    <3>1. Base(s) = pos[s] /\ Head(b) > pos[s]
      BY <1>1, <1>2, <2>1, <2>2, <2>4 DEF Base, From
    <3>2. QED
      BY <1>1, <1>2, <1>3, <1>5, <2>1, <3>1, SendsRefine
  <2>5. CASE lastSeen[s] = -1 /\ Head(b) <= cursor[s]
    <3>1. Head(b) <= pos[s]
      BY <2>1, <2>5 DEF From
    <3>2. QED
      BY <1>1, <1>2, <1>3, <1>5, <2>5, <3>1, SendsRefine
  <2>6. QED
    BY <1>2, <2>2, <2>3, <2>4, <2>5
<1>6. QED
  BY <1>4, <1>5 DEF Pull

LEMMA ConnRefines ==
  ASSUME IInv, PosInv, NEW s \in Subs,
         (\E c \in 0..pos[s] : OpenAt(s, c)) \/ OpenLive(s) \/ Serve(s) \/ Disconnect(s)
  PROVE  ES!Next \/ UNCHANGED ES!vars
<1> USE DEF IInv, TypeOK
<1>1. ASSUME NEW c \in 0..pos[s], OpenAt(s, c) PROVE ES!Next
  <2>1. \A t \in Subs \ {s} : Untouched(t)
    BY <1>1 DEF OpenAt, NewOutbox, Goto, Untouched
  <2>2. UNCHANGED <<log, gone>> /\ lastSeen'[s] = -1 /\ phase[s] \notin Served /\ c \in 0..Len(log)
    BY <1>1, ServedPhases, TypesOfStream DEF OpenAt, NewOutbox, table
  <2>3. \/ phase'[s] \notin Served /\ UNCHANGED pos
        \/ phase'[s] \in Served /\ pos' = [pos EXCEPT ![s] = c]
    BY <1>1, ServedPhases DEF OpenAt, Goto, Served
  <2>4. QED
    BY <2>1, <2>2, <2>3, OpensRefine, ClosesRefine
<1>2. CASE OpenLive(s) \/ Disconnect(s)
  <2>1. \A t \in Subs \ {s} : Untouched(t)
    BY <1>2 DEF OpenLive, Disconnect, NewOutbox, Goto, Untouched
  <2>2. UNCHANGED <<log, gone, pos>> /\ phase'[s] \notin Served
    BY <1>2, ServedPhases DEF OpenLive, Disconnect, Goto, table
  <2>3. QED
    BY <2>1, <2>2, ClosesRefine
<1>3. CASE OpenOutdated(s)
  <2>1. \A t \in Subs \ {s} : Untouched(t)
    BY <1>3 DEF OpenOutdated, Goto, Untouched
  <2>2. UNCHANGED <<log, gone>> /\ lastSeen'[s] = -1 /\ phase[s] \notin Served
    BY <1>3, ServedPhases DEF OpenOutdated, table, StreamInv, ConnInv, IdleInv
  <2>3. \/ phase'[s] \notin Served /\ UNCHANGED pos
        \/ phase'[s] \in Served /\ \E q \in Alive : pos' = [pos EXCEPT ![s] = q - 1]
    BY <1>3, ServedPhases DEF OpenOutdated, Goto, Served
  <2>4. \A q \in Alive : q - 1 \in 0..Len(log)
    BY TypesOfStream DEF Alive
  <2>5. QED
    BY <2>1, <2>2, <2>3, <2>4, OpensRefine, ClosesRefine
<1>4. CASE BackfillRequest(s) \/ BackfillPageEnd(s) \/ CutoverRequest(s) \/ CutoverMerge(s)
  <2>1. \A t \in Subs \ {s} : Untouched(t)
    BY <1>4 DEF BackfillRequest, BackfillPageEnd, CutoverRequest, CutoverMerge, Goto, Untouched
  <2>2. phase[s] \in Served /\ phase'[s] \in Served /\ UNCHANGED <<log, gone, lastSeen, pos>>
    BY <1>4 DEF BackfillRequest, BackfillPageEnd, CutoverRequest, CutoverMerge, Goto, Served, table
  <2>3. QED
    BY <2>1, <2>2, ServesOn
<1>5. CASE PullTooSlow(s)
  <2>1. \A t \in Subs \ {s} : Untouched(t)
    BY <1>5 DEF PullTooSlow, Goto, Untouched
  <2>2. UNCHANGED <<log, gone, pos>> /\ phase'[s] \notin Served
    BY <1>5, ServedPhases DEF PullTooSlow, Goto, table
  <2>3. QED
    BY <2>1, <2>2, ClosesRefine
<1>6. CASE Register(s)
  <2>1. \A t \in Subs \ {s} : Untouched(t)
    BY <1>6 DEF Register, Goto, Untouched
  <2>2. UNCHANGED <<log, gone, lastSeen>> /\ phase'[s] \in Served
    BY <1>6 DEF Register, Goto, Served, table
  <2>3. CASE phase[s] = "register" /\ UNCHANGED pos
    BY <2>1, <2>2, <2>3, ServesOn DEF Served
  <2>4. CASE phase[s] = "registerLive" /\ pos' = [pos EXCEPT ![s] = seqLastSeen]
    <3>1. lastSeen'[s] = -1 /\ phase[s] \notin Served /\ seqLastSeen \in 0..Len(log)
      BY <2>2, <2>4, ServedPhases DEF StreamInv, ConnInv, IdleInv
    <3>2. QED
      BY <2>1, <2>2, <2>4, <3>1, OpensRefine
  <2>5. QED
    BY <1>6, <2>3, <2>4 DEF Register
<1>7. QED
  BY <1>1, <1>2, <1>3, <1>4, <1>5, <1>6, YieldRefines, PullRefines DEF Serve

\* The process dies: every stream is closed
LEMMA RestartRefines ==
  ASSUME Restart
  PROVE  ES!Next
<1>1. UNCHANGED <<log, gone, pos>> /\ \A s \in Subs : phase'[s] \notin Served
  BY ServedPhases DEF Restart
<1>2. /\ Opened' = [s \in Subs |-> Opened[s] /\ s \notin Subs]
      /\ Unsent' = [s \in Subs |-> Unsent[s] \/ s \in Subs]
  <2> DEFINE f == [s \in Subs |-> Opened[s] /\ s \notin Subs]
             g == [s \in Subs |-> Unsent[s] \/ s \in Subs]
  <2>1. f \in [Subs -> BOOLEAN] /\ \A s \in Subs : ~f[s]
    OBVIOUS
  <2>2. g \in [Subs -> BOOLEAN] /\ \A s \in Subs : g[s]
    OBVIOUS
  <2> HIDE DEF f, g
  <2>3. Opened' = f /\ Unsent' = g
    BY <1>1, <2>1, <2>2, Flags, SameFlags
  <2>4. QED
    BY <2>3 DEF f, g
<1>3. ES!Close(Subs)
  BY <1>1, <1>2 DEF ES!Close
<1>4. Subs \in SUBSET Subs
  OBVIOUS
<1>5. QED
  BY <1>3, <1>4 DEF ES!Next

LEMMA StepRefines == IInv /\ PosInv /\ [Next]_vars => [ES!Next]_(ES!vars)
<1> SUFFICES ASSUME IInv, PosInv, [Next]_vars PROVE ES!Next \/ UNCHANGED ES!vars
  OBVIOUS
<1>1. CASE \/ \E d \in Dids : SequenceEvt(d) \/ SequenceDeletion(d)
           \/ \E k \in purges : DeleteAllForUser(k)
  BY <1>1, TableRefines DEF IInv
<1>2. CASE Age \/ PollDb \/ Emit \/ UNCHANGED vars
  BY <1>2, Hidden DEF Age, PollDb, Emit, vars, table, conn
<1>3. CASE \E s \in Subs : (\E c \in 0..pos[s] : OpenAt(s, c)) \/ OpenLive(s) \/ Serve(s) \/ Disconnect(s)
  BY <1>3, ConnRefines
<1>4. CASE Restart
  BY <1>4, RestartRefines
<1>5. QED
  BY <1>1, <1>2, <1>3, <1>4 DEF Next

(***************************************************************************)
(* Sequencer, outboxes and handler provide what subscribeRepos promises: a *)
(* log whose rows each connection is sent in order, stepping over purged   *)
(* ones only, and which starts again behind its cursor at most once; each  *)
(* step is one of EventStream or changes nothing it knows of.              *)
(***************************************************************************)
THEOREM Refinement == Spec => ImplementsEventStream
<1>1. Init => ES!Init /\ PosInv
  <2>1. SUFFICES ASSUME Init PROVE ES!Init /\ PosInv
    OBVIOUS
  <2>2. Len(log) = 0 /\ gone = {} /\ pos = [s \in Subs |-> 0] /\ \A s \in Subs : phase[s] \notin Served
    BY <2>1, EmptySeq, ServedPhases DEF Init
  <2>3. Opened = [s \in Subs |-> FALSE] /\ Unsent = [s \in Subs |-> TRUE]
    <3>1. \A s \in Subs : (Opened[s] <=> FALSE) /\ (Unsent[s] <=> TRUE)
      BY <2>2, Flags
    <3>2. [s \in Subs |-> FALSE] \in [Subs -> BOOLEAN] /\ [s \in Subs |-> TRUE] \in [Subs -> BOOLEAN]
      OBVIOUS
    <3>3. QED
      BY <3>1, <3>2, Flags, SameFlags
  <2>4. QED
    BY <2>2, <2>3 DEF ES!Init, PosInv
<1>2. QED
  BY <1>1, IInvAlways, PosStep, StepRefines, PTL DEF Spec, ImplementsEventStream, ES!Spec
=============================================================================
