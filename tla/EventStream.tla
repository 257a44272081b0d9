---------------------------- MODULE EventStream ----------------------------
(***************************************************************************)
(* What com.atproto.sync.subscribeRepos promises, without the machinery    *)
(* that provides it: an append-only log of rows numbered 1, 2, 3, ...,     *)
(* rows that may be purged but whose number is never given out again, and  *)
(* subscribers that walk along the log.                                    *)
(*                                                                         *)
(* A connected subscriber only moves forward, and it steps over a row only *)
(* if that row is purged: nothing is lost, reordered or repeated.  Where   *)
(* it starts is settled when the stream opens: at a cursor of its own, or, *)
(* without one (or with one the server no longer serves), where the server *)
(* puts it.                                                                *)
(***************************************************************************)
EXTENDS Integers

CONSTANTS Subs    \* the subscribers

VARIABLES len,    \* number of the last row ever logged
          gone,   \* rows purged from the log
          open,   \* open[s]: s is being served
          fresh,  \* fresh[s]: nothing has been sent on this connection yet
          pos     \* pos[s]: the row s has reached

vars == <<len, gone, open, fresh, pos>>

Init == /\ len = 0
        /\ gone = {}
        /\ open = [s \in Subs |-> FALSE]
        /\ fresh = [s \in Subs |-> TRUE]
        /\ pos = [s \in Subs |-> 0]

LogRow == /\ len' = len + 1
          /\ UNCHANGED <<gone, open, fresh, pos>>

PurgeRows(S) == /\ S \subseteq 1..len
                /\ gone' = gone \cup S
                /\ UNCHANGED <<len, open, fresh, pos>>

Open(s, p) == /\ ~open[s]
              /\ open' = [open EXCEPT ![s] = TRUE]
              /\ fresh' = [fresh EXCEPT ![s] = TRUE]
              /\ pos' = [pos EXCEPT ![s] = p]
              /\ UNCHANGED <<len, gone>>

(***************************************************************************)
(* The next row for s: everything between where s stands and q is purged.  *)
(***************************************************************************)
Send(s, q) == /\ open[s]
              /\ q > pos[s]
              /\ (pos[s] + 1)..(q - 1) \subseteq gone
              /\ pos' = [pos EXCEPT ![s] = q]
              /\ fresh' = [fresh EXCEPT ![s] = FALSE]
              /\ UNCHANGED <<len, gone, open>>

(***************************************************************************)
(* The one liberty the implementation takes: the first row of a connection *)
(* may be one at or before the cursor.  From there on the stream is        *)
(* continuous again, so rows are repeated but none is missed.              *)
(***************************************************************************)
Resend(s, q) == /\ open[s]
                /\ fresh[s]
                /\ q \in 1..pos[s]
                /\ pos' = [pos EXCEPT ![s] = q]
                /\ fresh' = [fresh EXCEPT ![s] = FALSE]
                /\ UNCHANGED <<len, gone, open>>

Close(S) == /\ open' = [s \in Subs |-> open[s] /\ s \notin S]
            /\ fresh' = [s \in Subs |-> fresh[s] \/ s \in S]
            /\ UNCHANGED <<len, gone, pos>>

Next == \/ LogRow
        \/ \E S \in SUBSET (1..len) : PurgeRows(S)
        \/ \E S \in SUBSET Subs : Close(S)
        \/ \E s \in Subs :
              \/ \E p \in 0..len : Open(s, p)
              \/ \E q \in 1..len : Send(s, q) \/ Resend(s, q)

Spec == Init /\ [][Next]_vars
=============================================================================
