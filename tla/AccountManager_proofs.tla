----------------------- MODULE AccountManager_proofs -----------------------
(***************************************************************************)
(* Proofs about AccountManager: types, that sessions stay chains, that     *)
(* tokens do not come back and grace periods are not renewed, and that the *)
(* announced status is current.                                            *)
(***************************************************************************)
EXTENDS AccountManager, TLAPS

-----------------------------------------------------------------------------
(* Types                                                                   *)

Accounts == [exists : BOOLEAN, takedown : BOOLEAN, deactivated : BOOLEAN]

LEMMA StatusTyped ==
  ASSUME NEW a \in Accounts
  PROVE  formatAccountStatus(a) \in Statuses
BY DEF Accounts, formatAccountStatus, Statuses

LEMMA TypesGrow ==
  ASSUME ids \in Nat, ids' \in Nat, ids <= ids'
  PROVE  Ids \subseteq Ids' /\ Row \subseteq Row' /\ Requests \subseteq Requests'
<1>1. Ids \subseteq Ids'
  BY DEF Ids
<1>2. Row \subseteq Row'
  BY <1>1 DEF Row
<1>3. Requests \subseteq Requests'
  BY <1>1 DEF Requests
<1>4. QED
  BY <1>1, <1>2, <1>3

LEMMA TypesKept ==
  ASSUME TypeOK, ids' \in 0..MaxIds, ids <= ids', clock' \in 0..MaxClock,
         DOMAIN rows' \subseteq Ids', \A t \in DOMAIN rows' : rows'[t] \in Row',
         closed' \subseteq Ids',
         account' \in Accounts, announced' \in Statuses, raced' \in BOOLEAN,
         req' = req \/ \E r \in Slots, next \in Requests' : req' = [req EXCEPT ![r] = next]
  PROVE  TypeOK'
<1>1. ids \in Nat /\ ids' \in Nat
  BY BoundsAssumption DEF TypeOK
<1>2. Requests \subseteq Requests'
  BY <1>1, TypesGrow
<1>3. req' \in [Slots -> Requests']
  BY <1>2 DEF TypeOK
<1>4. QED
  BY <1>3 DEF TypeOK, Accounts

\* Steps that store no token
LEMMA SameIds ==
  ASSUME TypeOK, UNCHANGED ids
  PROVE  /\ ids' \in 0..MaxIds /\ ids <= ids' /\ ids \in Nat /\ Ids' = Ids
         /\ Row' = Row /\ Requests' = Requests
         /\ UNCHANGED rows => DOMAIN rows' \subseteq Ids' /\ \A t \in DOMAIN rows' : rows'[t] \in Row'
         /\ UNCHANGED closed => closed' \subseteq Ids'
<1>1. ids' \in 0..MaxIds /\ ids <= ids' /\ ids \in Nat
  BY BoundsAssumption DEF TypeOK
<1>2. Ids' = Ids /\ Row' = Row /\ Requests' = Requests
  BY DEF Ids, Row, Requests
<1>3. QED
  BY <1>1, <1>2 DEF TypeOK

\* Steps that change nothing but the request
LEMMA RequestTyped ==
  ASSUME TypeOK, UNCHANGED <<setting, tokens, status>>,
         NEW r \in Slots, NEW next \in Requests, Goto(r, next)
  PROVE  TypeOK'
<1>1. UNCHANGED <<clock, ids, rows, closed, account, announced, raced>>
  BY DEF setting, tokens, status
<1>2. req' = [req EXCEPT ![r] = next] /\ next \in Requests'
  BY <1>1, SameIds DEF Goto
<1>3. QED
  BY <1>1, <1>2, SameIds, TypesKept DEF TypeOK, Accounts

LEMMA RequestShape ==
  ASSUME TypeOK, NEW r \in Slots
  PROVE  /\ req[r] \in Requests
         /\ At(r, "read") => req[r].tok \in Ids
         /\ At(r, "tidy") => /\ req[r].tok \in Ids /\ req[r].next \in Ids \cup {Null}
                             /\ req[r].now \in Nat /\ req[r].exp \in Nat
         /\ At(r, "rotate") => /\ req[r].tok \in Ids /\ req[r].next \in Ids \cup {Null}
                               /\ req[r].exp \in Nat
         /\ At(r, "takedown") => req[r].takedown \in Changes /\ req[r].deactivated \in Changes
         /\ At(r, "flag") => req[r].deactivated \in Changes
         /\ At(r, "sequence") => req[r].status \in Statuses
BY DEF TypeOK, Requests, At, Idle

\* the request that ends, or begins anew
LEMMA StagesTyped ==
  /\ Idle \in Requests
  /\ \A stage \in {"store", "status", "tokens", "actor"} : [at |-> stage] \in Requests
  /\ \A t \in Ids : [at |-> "read", tok |-> t] \in Requests
  /\ \A d \in Changes : [at |-> "flag", deactivated |-> d] \in Requests
  /\ \A s \in Statuses : [at |-> "sequence", status |-> s] \in Requests
BY DEF Requests

\* The row of the account changes
LEMMA UpdateTyped ==
  ASSUME TypeOK, NEW r \in Slots, NEW new \in Accounts, Update(r, new)
  PROVE  account' \in Accounts /\ announced' \in Statuses /\ raced' \in BOOLEAN
BY DEF TypeOK, Accounts, Update

LEMMA AccountTyped ==
  ASSUME TypeOK, NEW flag \in BOOLEAN
  PROVE  /\ [account EXCEPT !.takedown = flag] \in Accounts
         /\ [account EXCEPT !.deactivated = flag] \in Accounts
         /\ [account EXCEPT !.exists = flag] \in Accounts
BY DEF TypeOK, Accounts

LEMMA CreateTyped ==
  ASSUME TypeOK, NEW r \in Slots, CreateSession(r)
  PROVE  TypeOK'
<1>1. /\ ids \in Nat /\ ids' = ids + 1 /\ ids' \in 0..MaxIds /\ clock \in Nat
  BY BoundsAssumption DEF CreateSession, TypeOK
<1>2. Ids \subseteq Ids' /\ Row \subseteq Row' /\ ids + 1 \in Ids'
  BY <1>1, TypesGrow DEF Ids
<1>3. Token(clock + Life, ids + 1) \in Row'
  BY <1>1, <1>2, TimesAssumption DEF Token, Row
<1>4. DOMAIN rows' \subseteq Ids' /\ \A t \in DOMAIN rows' : rows'[t] \in Row'
  BY <1>2, <1>3 DEF CreateSession, With, TypeOK
<1>5. req' = [req EXCEPT ![r] = Idle] /\ Idle \in Requests'
  BY DEF CreateSession, Answer, Goto, Requests
<1>6. UNCHANGED <<clock, closed, account, announced, raced>> /\ closed' \subseteq Ids'
  BY <1>2 DEF CreateSession, setting, status, TypeOK
<1>7. \E s \in Slots, next \in Requests' : req' = [req EXCEPT ![s] = next]
  BY <1>5
<1>8. clock' \in 0..MaxClock /\ account' \in Accounts /\ announced' \in Statuses /\ raced' \in BOOLEAN
  BY <1>6 DEF TypeOK, Accounts
<1>9. ids <= ids'
  BY <1>1
<1>10. QED
  BY <1>1, <1>4, <1>6, <1>7, <1>8, <1>9, TypesKept

LEMMA GetRefreshTyped ==
  ASSUME TypeOK, NEW r \in Slots, GetRefreshToken(r)
  PROVE  TypeOK'
<1>1. CASE req[r].tok \notin DOMAIN rows /\ Answer(r)
  BY <1>1, StagesTyped, RequestTyped DEF GetRefreshToken, Answer
<1>2. CASE req[r].tok \in DOMAIN rows
  <2> DEFINE t == req[r].tok
             next == [at |-> "tidy", tok |-> t, now |-> clock,
                      exp |-> rows[t].exp, next |-> rows[t].next]
  <2>1. rows[t].exp \in Nat /\ rows[t].next \in Ids \cup {Null} /\ t \in Ids /\ clock \in Nat
    BY <1>2, RequestShape, BoundsAssumption DEF GetRefreshToken, TypeOK, Row
  <2>2. next \in Requests
    BY <2>1 DEF Requests
  <2>3. QED
    BY <1>2, <2>2, RequestTyped DEF GetRefreshToken
<1>3. QED
  BY <1>1, <1>2 DEF GetRefreshToken

LEMMA TidyTyped ==
  ASSUME TypeOK, NEW r \in Slots, DeleteExpired(r)
  PROVE  TypeOK'
<1> DEFINE e == Earlier(req[r].now + Grace, req[r].exp)
<1>1. /\ req[r].tok \in Ids /\ req[r].next \in Ids \cup {Null} /\ req[r].now \in Nat
      /\ req[r].exp \in Nat /\ e \in Nat
  BY RequestShape, TimesAssumption DEF DeleteExpired, DeleteExpiredWith, Earlier
<1>2. \E next \in Requests : req' = [req EXCEPT ![r] = next]
  BY <1>1 DEF DeleteExpired, DeleteExpiredWith, Answer, Goto, Requests
<1>3. UNCHANGED <<clock, ids, closed, account, announced, raced>>
  BY DEF DeleteExpired, DeleteExpiredWith, setting, status
<1>4. DOMAIN rows' \subseteq Ids /\ \A t \in DOMAIN rows' : rows'[t] \in Row
  BY DEF DeleteExpired, DeleteExpiredWith, Only, TypeOK
<1>5. QED
  BY <1>2, <1>3, <1>4, SameIds, TypesKept DEF TypeOK, Accounts

(***************************************************************************)
(* What a rotation does: token t gets its end and its successor n, which   *)
(* is stored unless it is there.                                           *)
(***************************************************************************)
LEMMA RotateEffect ==
  ASSUME TypeOK, NEW r \in Slots, Rotate(r), Unrotated(r)
  PROVE  \E n \in Ids' :
           LET t == req[r].tok IN
           /\ t \in DOMAIN rows /\ t \in Ids
           /\ \/ req[r].next = Null /\ n = ids + 1 /\ ids' = ids + 1 /\ ids < MaxIds
              \/ req[r].next # Null /\ n = req[r].next /\ ids' = ids
           /\ DOMAIN rows' = DOMAIN rows \cup {n}
           /\ rows'[t] = [exp |-> req[r].exp, next |-> n, sess |-> rows[t].sess]
           /\ n \notin DOMAIN rows => rows'[n] = Token(clock + Life, rows[t].sess)
           /\ \A u \in DOMAIN rows \ {t} : rows'[u] = rows[u]
<1> DEFINE t == req[r].tok
<1>1. /\ t \in DOMAIN rows /\ t \in Ids /\ rows[t] \in Row /\ req[r].next \in Ids \cup {Null}
      /\ req[r].exp \in Nat /\ ids \in Nat
  BY RequestShape, BoundsAssumption DEF Rotate, Unrotated, TypeOK
<1>2. Rotated(r, rows[t].sess)
  BY DEF Rotate
<1>3. PICK n : /\ rows' = Granted(r, n, rows[t].sess)
               /\ \/ req[r].next = Null /\ n = ids + 1 /\ ids' = ids + 1 /\ ids < MaxIds
                  \/ req[r].next # Null /\ n = req[r].next /\ ids' = ids
  BY <1>2 DEF Rotated
<1>4. n \in Ids' /\ ids + 1 \notin Ids
  BY <1>1, <1>3 DEF Ids, Null
<1>5. QED
  BY <1>1, <1>3, <1>4 DEF Granted, With

LEMMA RotateTyped ==
  ASSUME TypeOK, NEW r \in Slots, Rotate(r)
  PROVE  TypeOK'
<1>1. UNCHANGED <<clock, closed, account, announced, raced>>
  BY DEF Rotate, setting, status
<1>2. CASE Unrotated(r)
  <2> DEFINE t == req[r].tok
  <2>1. PICK n \in Ids' :
           /\ t \in DOMAIN rows /\ t \in Ids
           /\ (ids' = ids + 1 /\ ids < MaxIds) \/ ids' = ids
           /\ DOMAIN rows' = DOMAIN rows \cup {n}
           /\ rows'[t] = [exp |-> req[r].exp, next |-> n, sess |-> rows[t].sess]
           /\ n \notin DOMAIN rows => rows'[n] = Token(clock + Life, rows[t].sess)
           /\ \A u \in DOMAIN rows \ {t} : rows'[u] = rows[u]
    BY <1>2, RotateEffect
  <2>2. ids \in Nat /\ ids' \in 0..MaxIds /\ ids <= ids' /\ clock \in Nat /\ req[r].exp \in Nat
    BY <2>1, RequestShape, BoundsAssumption DEF TypeOK, Rotate
  <2>3. Ids \subseteq Ids' /\ Row \subseteq Row'
    BY <2>2, TypesGrow
  <2>4. rows[t].sess \in Ids /\ rows'[t] \in Row' /\ Token(clock + Life, rows[t].sess) \in Row'
    BY <2>1, <2>2, <2>3, TimesAssumption DEF TypeOK, Row, Token
  <2>5. DOMAIN rows' \subseteq Ids' /\ \A u \in DOMAIN rows' : rows'[u] \in Row'
    BY <2>1, <2>3, <2>4 DEF TypeOK
  <2>6. req' = [req EXCEPT ![r] = Idle] /\ Idle \in Requests'
    BY <1>2 DEF Rotate, Rotated, Answer, Goto, Requests
  <2>7. QED
    BY <1>1, <2>2, <2>3, <2>5, <2>6, TypesKept DEF TypeOK, Accounts
<1>3. CASE ~Unrotated(r)
  BY <1>1, <1>3, RequestShape, StagesTyped, RequestTyped DEF Rotate, setting, tokens, status
<1>4. QED
  BY <1>2, <1>3

\* Steps that revoke all tokens, or leave them, and may change the account
LEMMA StatusStepTyped ==
  ASSUME TypeOK, UNCHANGED setting,
         RevokeAll \/ UNCHANGED tokens,
         account' \in Accounts /\ announced' \in Statuses /\ raced' \in BOOLEAN,
         req' = req \/ \E r \in Slots, next \in Requests : req' = [req EXCEPT ![r] = next]
  PROVE  TypeOK'
<1>1. UNCHANGED <<clock, ids>>
  BY DEF setting, RevokeAll, tokens
<1>2. DOMAIN rows' \subseteq Ids' /\ (\A t \in DOMAIN rows' : rows'[t] \in Row') /\ closed' \subseteq Ids'
  <2>1. CASE RevokeAll
    BY <2>1 DEF RevokeAll
  <2>2. CASE UNCHANGED tokens
    BY <1>1, <2>2, SameIds DEF tokens
  <2>3. QED
    BY <2>1, <2>2
<1>3. QED
  BY <1>1, <1>2, SameIds, TypesKept DEF TypeOK

LEMMA TakedownTyped ==
  ASSUME TypeOK, NEW r \in Slots, TakedownAccount(r)
  PROVE  TypeOK'
<1>1. req[r].takedown \in Changes /\ req[r].deactivated \in Changes
  BY RequestShape DEF TakedownAccount
<1>2. \E next \in Requests : req' = [req EXCEPT ![r] = next]
  BY <1>1, StagesTyped DEF TakedownAccount, Goto
<1>3. account' \in Accounts /\ announced' \in Statuses /\ raced' \in BOOLEAN
  <2>1. CASE Update(r, [account EXCEPT !.takedown = (req[r].takedown = "apply")])
    <3>1. (req[r].takedown = "apply") \in BOOLEAN
      OBVIOUS
    <3>2. QED
      BY <2>1, <3>1, AccountTyped, UpdateTyped
  <2>2. CASE UNCHANGED status
    BY <2>2 DEF status, TypeOK, Accounts
  <2>3. QED
    BY <2>1, <2>2 DEF TakedownAccount
<1>4. UNCHANGED setting /\ (RevokeAll \/ UNCHANGED tokens)
  BY DEF TakedownAccount
<1>5. QED
  BY <1>2, <1>3, <1>4, StatusStepTyped

LEMMA FlagTyped ==
  ASSUME TypeOK, NEW r \in Slots, SetDeactivated(r)
  PROVE  TypeOK'
<1>1. (req[r].deactivated = "apply") \in BOOLEAN
  OBVIOUS
<1>2. \E next \in Requests : req' = [req EXCEPT ![r] = next]
  BY StagesTyped DEF SetDeactivated, Goto
<1>3. account' \in Accounts /\ announced' \in Statuses /\ raced' \in BOOLEAN
  <2>1. CASE Update(r, [account EXCEPT !.deactivated = (req[r].deactivated = "apply")])
    BY <1>1, <2>1, AccountTyped, UpdateTyped
  <2>2. CASE UNCHANGED status
    BY <2>2 DEF status, TypeOK, Accounts
  <2>3. QED
    BY <2>1, <2>2 DEF SetDeactivated
<1>4. UNCHANGED setting /\ UNCHANGED tokens
  BY DEF SetDeactivated
<1>5. QED
  BY <1>2, <1>3, <1>4, StatusStepTyped

LEMMA ActorTyped ==
  ASSUME TypeOK, NEW r \in Slots, DeleteActor(r)
  PROVE  TypeOK'
<1>1. \E next \in Requests : req' = [req EXCEPT ![r] = next]
  BY StagesTyped DEF DeleteActor, Goto, Statuses
<1>2. account' \in Accounts /\ announced' \in Statuses /\ raced' \in BOOLEAN
  <2>1. Update(r, [account EXCEPT !.exists = FALSE]) /\ [account EXCEPT !.exists = FALSE] \in Accounts
    BY AccountTyped DEF DeleteActor
  <2>2. QED
    BY <2>1, UpdateTyped
<1>3. UNCHANGED setting /\ UNCHANGED tokens
  BY DEF DeleteActor
<1>4. QED
  BY <1>1, <1>2, <1>3, StatusStepTyped

LEMMA TypeInit == Init => TypeOK
<1> SUFFICES ASSUME Init PROVE TypeOK
  OBVIOUS
<1>1. req \in [Slots -> Requests]
  BY StagesTyped DEF Init
<1>2. DOMAIN rows = {} /\ closed = {} /\ announced \in Statuses /\ raced \in BOOLEAN
  <2>1. rows = <<>> /\ closed = {} /\ announced = "active" /\ raced = FALSE
    BY DEF Init
  <2>2. DOMAIN rows = {}
    BY <2>1
  <2>3. raced \in BOOLEAN
    BY <2>1
  <2>4. QED
    BY <2>1, <2>2, <2>3 DEF Statuses
<1>3. account \in [exists : BOOLEAN, takedown : BOOLEAN, deactivated : BOOLEAN]
  BY DEF Init
<1>4. clock \in 0..MaxClock /\ ids \in 0..MaxIds
  BY BoundsAssumption DEF Init
<1>5. QED
  BY <1>1, <1>2, <1>3, <1>4 DEF TypeOK

LEMMA TypeStep == TypeOK /\ [Next]_vars => TypeOK'
<1> SUFFICES ASSUME TypeOK, [Next]_vars PROVE TypeOK'
  OBVIOUS
<1>1. CASE Tick
  <2>1. clock' \in 0..MaxClock /\ UNCHANGED <<ids, rows, closed, account, announced, raced, req>>
    BY <1>1, BoundsAssumption DEF Tick, TypeOK, tokens, status
  <2>2. QED
    BY <2>1, SameIds, TypesKept DEF TypeOK, Accounts
<1>2. CASE UpdateAccountPassword
  BY <1>2, StatusStepTyped DEF UpdateAccountPassword, status, TypeOK, Accounts
<1>3. ASSUME NEW t \in 1..ids, DeleteSession(t) PROVE TypeOK'
  <2>1. UNCHANGED <<clock, ids, account, announced, raced, req>>
    BY <1>3 DEF DeleteSession, setting, status
  <2>2. /\ DOMAIN rows' \subseteq Ids /\ \A u \in DOMAIN rows' : rows'[u] \in Row
        /\ closed' \subseteq Ids
    BY <1>3 DEF DeleteSession, Only, TypeOK, Row
  <2>3. QED
    BY <2>1, <2>2, SameIds, TypesKept DEF TypeOK, Accounts
<1>4. ASSUME NEW r \in Slots, Login(r) \/ DeleteAccount(r) PROVE TypeOK'
  BY <1>4, StagesTyped, RequestTyped DEF Login, DeleteAccount
<1>5. ASSUME NEW r \in Slots, Refresh(r) PROVE TypeOK'
  BY <1>5, StagesTyped, RequestTyped DEF Refresh, Ids
<1>6. ASSUME NEW r \in Slots, UpdateSubjectStatus(r) PROVE TypeOK'
  <2>1. \A takedown, deactivated \in Changes :
           [at |-> "takedown", takedown |-> takedown, deactivated |-> deactivated] \in Requests
    BY DEF Requests
  <2>2. QED
    BY <1>6, <2>1, RequestTyped DEF UpdateSubjectStatus
<1>7. ASSUME NEW r \in Slots, DeactivateAccount(r) \/ ActivateAccount(r) PROVE TypeOK'
  BY <1>7, StagesTyped, RequestTyped DEF DeactivateAccount, ActivateAccount, Changes
<1>8. ASSUME NEW r \in Slots, GetAccountStatus(r) PROVE TypeOK'
  <2>1. formatAccountStatus(account) \in Statuses
    BY StatusTyped DEF TypeOK, Accounts
  <2>2. QED
    BY <1>8, <2>1, StagesTyped, RequestTyped DEF GetAccountStatus
<1>9. ASSUME NEW r \in Slots, SequenceAccountEvt(r) PROVE TypeOK'
  <2>1. announced' \in Statuses /\ UNCHANGED <<account, raced>>
    BY <1>9, RequestShape DEF SequenceAccountEvt
  <2>2. QED
    BY <1>9, <2>1, StagesTyped, StatusStepTyped DEF SequenceAccountEvt, Answer, Goto, TypeOK, Accounts
<1>10. ASSUME NEW r \in Slots, DeleteTokens(r) PROVE TypeOK'
  BY <1>10, StagesTyped, StatusStepTyped DEF DeleteTokens, Goto, status, TypeOK, Accounts
<1>11. ASSUME NEW r \in Slots, Fail(r) PROVE TypeOK'
  <2>1. raced' \in BOOLEAN
    BY <1>11 DEF Fail
  <2>2. QED
    BY <1>11, <2>1, StagesTyped, StatusStepTyped DEF Fail, Answer, Goto, TypeOK, Accounts
<1>12. CASE UNCHANGED vars
  BY <1>12, StatusStepTyped DEF vars, status, TypeOK, Accounts
<1>13. QED
  BY <1>1, <1>2, <1>3, <1>4, <1>5, <1>6, <1>7, <1>8, <1>9, <1>10, <1>11, <1>12,
     CreateTyped, GetRefreshTyped, TidyTyped, RotateTyped, TakedownTyped, FlagTyped, ActorTyped
     DEF Next, Step

(***************************************************************************)
(* Every variable keeps its type; requests, successors and sessions are of *)
(* tokens that were stored, for any number of requests under way, tokens   *)
(* and moments, and any grace period and life of a token.                  *)
(***************************************************************************)
THEOREM TypeCorrect == Spec => []TypeOK
BY TypeInit, TypeStep, PTL DEF Spec

-----------------------------------------------------------------------------
(* Sessions: the invariant                                                 *)

\* Requests that have read a token and may rotate it
Holding(r) == req[r].at \in {"tidy", "rotate"}

\* the end of its grace period, as this request will set it
End(r) == IF At(r, "tidy") THEN Earlier(req[r].now + Grace, req[r].exp) ELSE req[r].exp

(***************************************************************************)
(* A token that was rotated has at most a grace period left, and its       *)
(* successor is younger.  No two tokens that have the same successor end   *)
(* at different times.                                                     *)
(***************************************************************************)
RowsInv == \A t \in DOMAIN rows : rows[t].next # Null =>
  /\ rows[t].next > t
  /\ rows[t].exp <= clock + Grace
  /\ \A u \in DOMAIN rows : rows[u].next = rows[t].next => rows[u].exp = rows[t].exp

(***************************************************************************)
(* What a request has in its hands of a token is what the table has of it, *)
(* or may become, unless the token was deleted and came back: its          *)
(* successor is that of the table, its end is no later than that of a      *)
(* token that was not rotated, and no earlier than that of a predecessor.  *)
(***************************************************************************)
HandInv(r) == LET t == req[r].tok n == req[r].next IN
  /\ End(r) <= clock + Grace
  /\ n # Null => n > t
  /\ t \in DOMAIN rows =>
       /\ n # Null => rows[t].next = n \/ rows[t].sess \in closed
       /\ rows[t].next = Null => End(r) <= rows[t].exp
  /\ \A u \in DOMAIN rows :
       /\ rows[u].next = t => End(r) >= rows[u].exp \/ rows[u].sess \in closed
       /\ n # Null /\ rows[u].next = n => rows[u].exp = End(r)
  /\ \A s \in Slots : Holding(s) /\ n # Null /\ req[s].next = n => End(s) = End(r)

HandsInv == \A r \in Slots : Holding(r) => HandInv(r)

SessInv == SessionIsChain /\ RowsInv /\ HandsInv

LEMMA Numbers ==
  ASSUME TypeOK
  PROVE  /\ clock \in Nat /\ ids \in Nat /\ Grace \in Nat \ {0} /\ Life \in Nat /\ Grace <= Life
         /\ \A t \in DOMAIN rows : /\ t \in 1..ids /\ rows[t].exp \in Nat
                                   /\ rows[t].next \in 0..ids /\ rows[t].sess \in 1..ids
         /\ closed \subseteq 1..ids
BY TimesAssumption, BoundsAssumption DEF TypeOK, Ids, Row, Null

LEMMA HandTyped ==
  ASSUME TypeOK, NEW r \in Slots, Holding(r)
  PROVE  End(r) \in Nat /\ req[r].tok \in 1..ids /\ req[r].next \in 0..ids
BY RequestShape, TimesAssumption, BoundsAssumption DEF Holding, End, At, Earlier, Ids, Null, TypeOK

\* A request that goes on with what it had, or gives it up
SameHand(r) == Holding(r)' => /\ Holding(r) /\ End(r)' = End(r)
                              /\ req'[r].tok = req[r].tok /\ req'[r].next = req[r].next

\* Rows are deleted, requests and time go on
LEMMA ShrinkKept ==
  ASSUME TypeOK, TypeOK', SessInv, clock <= clock',
         DOMAIN rows' \subseteq DOMAIN rows, \A t \in DOMAIN rows' : rows'[t] = rows[t],
         \A t \in DOMAIN rows' : rows[t].sess \in closed => rows[t].sess \in closed',
         \A t \in DOMAIN rows' :
            rows[t].next \in DOMAIN rows \ DOMAIN rows' => rows[t].sess \in closed',
         \A r \in Slots : SameHand(r)
  PROVE  SessInv'
<1>1. clock \in Nat /\ clock' \in Nat /\ Grace \in Nat /\ clock + Grace <= clock' + Grace
  BY Numbers DEF TypeOK
<1>2. OneLeaf'
  BY DEF SessInv, SessionIsChain, OneLeaf
<1>3. SuccessorOutlives'
  BY DEF SessInv, SessionIsChain, SuccessorOutlives
<1>4. RowsInv'
  BY <1>1, Numbers DEF SessInv, RowsInv
<1>5. ASSUME NEW r \in Slots, Holding(r)' PROVE HandInv(r)'
  <2>1. HandInv(r) /\ End(r)' = End(r) /\ req'[r].tok = req[r].tok /\ req'[r].next = req[r].next
    BY <1>5 DEF SessInv, HandsInv, SameHand
  <2>2. End(r) \in Nat /\ End(r) <= clock' + Grace
    BY <1>1, <1>5, <2>1, HandTyped DEF SameHand, HandInv
  <2>3. \A s \in Slots : Holding(s)' /\ req[r].next # Null /\ req'[s].next = req[r].next
                            => End(s)' = End(r)
    BY <2>1 DEF SameHand, HandInv
  <2>4. QED
    BY <2>1, <2>2, <2>3 DEF HandInv
<1>6. QED
  BY <1>2, <1>3, <1>4, <1>5 DEF SessInv, SessionIsChain, HandsInv

\* All tokens are revoked
LEMMA RevokeKept ==
  ASSUME TypeOK, TypeOK', SessInv, RevokeAll, UNCHANGED setting, \A r \in Slots : SameHand(r)
  PROVE  SessInv'
<1>1. DOMAIN rows' = {}
  BY DEF RevokeAll
<1>2. clock <= clock'
  BY Numbers DEF setting
<1>3. QED
  BY <1>1, <1>2, ShrinkKept

\* A token is stored for a new session
LEMMA CreateKept ==
  ASSUME TypeOK, TypeOK', SessInv, NEW r \in Slots, CreateSession(r)
  PROVE  SessInv'
<1> DEFINE n == ids + 1
<1>1. /\ DOMAIN rows' = DOMAIN rows \cup {n} /\ n \notin DOMAIN rows
      /\ rows'[n] = [exp |-> clock + Life, next |-> Null, sess |-> n]
      /\ \A u \in DOMAIN rows : rows'[u] = rows[u]
      /\ UNCHANGED <<clock, closed>>
  BY Numbers DEF CreateSession, With, Token, setting
<1>2. \A u \in DOMAIN rows : rows[u].sess # n /\ rows[u].next # n
  BY Numbers
<1>3. \A s \in Slots : SameHand(s) /\ (Holding(s)' => s # r)
  BY DEF CreateSession, Answer, Goto, SameHand, Holding, End, At, Idle, TypeOK
<1>4. OneLeaf' /\ SuccessorOutlives'
  BY <1>1, <1>2 DEF SessInv, SessionIsChain, OneLeaf, SuccessorOutlives
<1>5. RowsInv'
  BY <1>1 DEF SessInv, RowsInv
<1>6. ASSUME NEW s \in Slots, Holding(s)' PROVE HandInv(s)'
  <2>1. HandInv(s) /\ End(s)' = End(s) /\ req'[s].tok = req[s].tok /\ req'[s].next = req[s].next
    BY <1>3, <1>6 DEF SessInv, HandsInv, SameHand
  <2>2. req[s].tok # n /\ req[s].next # n /\ req[s].tok # Null
    BY <1>3, <1>6, HandTyped, Numbers DEF SameHand, Null
  <2>3. \A q \in Slots : Holding(q)' /\ req[s].next # Null /\ req'[q].next = req[s].next
                            => End(q)' = End(s)
    BY <1>3, <2>1 DEF SameHand, HandInv
  <2>4. QED
    BY <1>1, <2>1, <2>2, <2>3 DEF HandInv
<1>7. QED
  BY <1>4, <1>5, <1>6 DEF SessInv, SessionIsChain, HandsInv

\* A request reads a token
LEMMA ReadKept ==
  ASSUME TypeOK, TypeOK', SessInv, NEW r \in Slots, GetRefreshToken(r)
  PROVE  SessInv'
<1> DEFINE t == req[r].tok
<1>1. UNCHANGED <<clock, ids, rows, closed>>
  BY DEF GetRefreshToken, setting, tokens
<1>2. CASE t \notin DOMAIN rows /\ Answer(r)
  <2>1. \A s \in Slots : SameHand(s)
    BY <1>1, <1>2 DEF Answer, Goto, SameHand, Holding, End, At, Idle, TypeOK
  <2>2. clock <= clock'
    BY <1>1, Numbers
  <2>3. QED
    BY <1>1, <2>1, <2>2, ShrinkKept
<1>3. CASE t \in DOMAIN rows
  <2>1. req' = [req EXCEPT ![r] = [at |-> "tidy", tok |-> t, now |-> clock,
                                   exp |-> rows[t].exp, next |-> rows[t].next]]
    BY <1>3 DEF GetRefreshToken, Goto
  <2>2. /\ req'[r].at = "tidy" /\ req'[r].tok = t /\ req'[r].now = clock
        /\ req'[r].exp = rows[t].exp /\ req'[r].next = rows[t].next
    BY <2>1 DEF TypeOK
  <2>3. \A s \in Slots \ {r} : SameHand(s) /\ req'[s] = req[s]
    BY <2>1 DEF SameHand, Holding, End, At, TypeOK
  <2>4. /\ End(r)' = Earlier(clock + Grace, rows[t].exp) /\ Holding(r)'
        /\ rows[t].exp \in Nat /\ clock \in Nat /\ Grace \in Nat
    BY <1>1, <1>3, <2>2, Numbers DEF End, At, Holding
  <2>5. /\ End(r)' <= clock + Grace /\ End(r)' <= rows[t].exp
        /\ rows[t].exp <= clock + Grace => End(r)' = rows[t].exp
        /\ End(r)' \in {clock + Grace, rows[t].exp}
    BY <2>4 DEF Earlier
  <2>6. HandInv(r)'
    <3> DEFINE n == rows[t].next
    <3>1. n # Null => n > t /\ End(r)' = rows[t].exp
      BY <1>3, <2>5 DEF SessInv, RowsInv
    <3>2. ASSUME NEW u \in DOMAIN rows, rows[u].next = t
          PROVE  End(r)' >= rows[u].exp \/ rows[u].sess \in closed
      <4>1. t # Null /\ rows[u].exp \in Nat
        BY <1>3, Numbers DEF Null
      <4>2. rows[u].exp <= clock + Grace
        BY <3>2, <4>1 DEF SessInv, RowsInv
      <4>3. rows[u].exp <= rows[t].exp \/ rows[u].sess \in closed
        BY <3>2, <4>1, Numbers DEF SessInv, SessionIsChain, SuccessorOutlives
      <4>4. QED
        BY <2>4, <2>5, <4>1, <4>2, <4>3
    <3>3. \A u \in DOMAIN rows : n # Null /\ rows[u].next = n => rows[u].exp = End(r)'
      BY <1>3, <3>1 DEF SessInv, RowsInv
    <3>4. ASSUME NEW s \in Slots, Holding(s)', n # Null, req'[s].next = n
          PROVE  End(s)' = End(r)'
      <4>1. CASE s = r
        BY <4>1
      <4>2. CASE s # r
        BY <1>3, <2>3, <3>1, <3>4, <4>2 DEF SameHand, SessInv, HandsInv, HandInv
      <4>3. QED
        BY <4>1, <4>2
    <3>5. QED
      BY <1>1, <2>2, <2>5, <3>1, <3>2, <3>3, <3>4 DEF HandInv
  <2>7. ASSUME NEW s \in Slots \ {r}, Holding(s)' PROVE HandInv(s)'
    <3>1. HandInv(s) /\ End(s)' = End(s) /\ req'[s] = req[s]
      BY <2>3, <2>7 DEF SessInv, HandsInv, SameHand
    <3>2. req[s].next # Null /\ rows[t].next = req[s].next => End(r)' = End(s)
      <4>1. req[s].next # Null /\ rows[t].next = req[s].next => rows[t].exp = End(s)
        BY <1>3, <3>1 DEF HandInv
      <4>2. rows[t].next # Null => End(r)' = rows[t].exp
        BY <1>3, <2>5 DEF SessInv, RowsInv
      <4>3. QED
        BY <4>1, <4>2
    <3>3. \A q \in Slots : Holding(q)' /\ req[s].next # Null /\ req'[q].next = req[s].next
                              => End(q)' = End(s)
      <4> SUFFICES ASSUME NEW q \in Slots, Holding(q)', req[s].next # Null, req'[q].next = req[s].next
                   PROVE  End(q)' = End(s)
        OBVIOUS
      <4>1. CASE q = r
        BY <2>2, <3>2, <4>1
      <4>2. CASE q # r
        BY <2>3, <3>1, <4>2 DEF SameHand, HandInv
      <4>3. QED
        BY <4>1, <4>2
    <3>4. QED
      BY <1>1, <3>1, <3>3 DEF HandInv
  <2>8. OneLeaf' /\ SuccessorOutlives' /\ RowsInv'
    BY <1>1 DEF SessInv, SessionIsChain, OneLeaf, SuccessorOutlives, RowsInv
  <2>9. QED
    BY <2>6, <2>7, <2>8 DEF SessInv, SessionIsChain, HandsInv
<1>4. QED
  BY <1>2, <1>3 DEF GetRefreshToken

\* Expired tokens are deleted: none whose predecessor stays
LEMMA TidyKept ==
  ASSUME TypeOK, TypeOK', SessInv, NEW r \in Slots, DeleteExpired(r)
  PROVE  SessInv'
<1> DEFINE now == req[r].now
<1>1. UNCHANGED <<clock, closed>> /\ At(r, "tidy") /\ now \in Nat
  BY RequestShape DEF DeleteExpired, DeleteExpiredWith, setting
<1>2. /\ DOMAIN rows' = {t \in DOMAIN rows : rows[t].exp > now}
      /\ \A t \in DOMAIN rows' : rows'[t] = rows[t]
  BY DEF DeleteExpired, DeleteExpiredWith, Only
<1>3. ASSUME NEW s \in Slots PROVE SameHand(s)
  <2>1. CASE s = r
    <3>1. CASE req'[r] = Idle
      BY <2>1, <3>1 DEF SameHand, Holding, Idle
    <3>2. CASE req'[r] = [at |-> "rotate", tok |-> req[r].tok,
                          exp |-> Earlier(now + Grace, req[r].exp), next |-> req[r].next]
      BY <1>1, <2>1, <3>2 DEF SameHand, Holding, End, At
    <3>3. QED
      BY <3>1, <3>2 DEF DeleteExpired, DeleteExpiredWith, Answer, Goto, TypeOK
  <2>2. CASE s # r
    <3>1. req'[s] = req[s]
      BY <2>2 DEF DeleteExpired, DeleteExpiredWith, Answer, Goto, TypeOK
    <3>2. QED
      BY <3>1 DEF SameHand, Holding, End, At
  <2>3. QED
    BY <2>1, <2>2
<1>4. ASSUME NEW t \in DOMAIN rows', rows[t].next \in DOMAIN rows \ DOMAIN rows'
      PROVE  rows[t].sess \in closed'
  <2>1. rows[t].next # Null /\ rows[t].exp \in Nat /\ rows[rows[t].next].exp \in Nat
    BY <1>2, <1>4, Numbers DEF Null
  <2>2. rows[t].sess \in closed \/ rows[rows[t].next].exp >= rows[t].exp
    BY <1>2, <1>4, <2>1 DEF SessInv, SessionIsChain, SuccessorOutlives
  <2>3. QED
    BY <1>1, <1>2, <1>4, <2>1, <2>2
<1>5. clock <= clock' /\ DOMAIN rows' \subseteq DOMAIN rows
  BY <1>1, <1>2, Numbers
<1>6. QED
  BY <1>1, <1>2, <1>3, <1>4, <1>5, ShrinkKept

\* The token read gets its successor, in a chain that nobody else has extended
LEMMA RotateKept ==
  ASSUME TypeOK, TypeOK', SessInv, NEW r \in Slots, Rotate(r), Unrotated(r)
  PROVE  SessInv'
<1> DEFINE t == req[r].tok
           e == req[r].exp
           S == rows[t].sess
<1>1. UNCHANGED <<clock, closed>> /\ req' = [req EXCEPT ![r] = Idle] /\ At(r, "rotate")
  BY DEF Rotate, Rotated, Answer, Goto, setting
<1>2. PICK n \in Ids' :
        /\ t \in DOMAIN rows /\ t \in Ids
        /\ \/ req[r].next = Null /\ n = ids + 1 /\ ids' = ids + 1 /\ ids < MaxIds
           \/ req[r].next # Null /\ n = req[r].next /\ ids' = ids
        /\ DOMAIN rows' = DOMAIN rows \cup {n}
        /\ rows'[t] = [exp |-> e, next |-> n, sess |-> S]
        /\ n \notin DOMAIN rows => rows'[n] = Token(clock + Life, S)
        /\ \A u \in DOMAIN rows \ {t} : rows'[u] = rows[u]
  BY RotateEffect
<1>3. HandInv(r) /\ End(r) = e /\ Holding(r)
  BY <1>1 DEF SessInv, HandsInv, Holding, End, At
<1>4. /\ clock \in Nat /\ e \in Nat /\ Grace \in Nat /\ Life \in Nat /\ ids \in Nat
      /\ e <= clock + Grace /\ e <= clock + Life /\ t \in 1..ids
  BY <1>2, <1>3, HandTyped, Numbers DEF HandInv
<1>5. n > t /\ n # Null /\ n \in Nat
  BY <1>2, <1>3, <1>4, HandTyped DEF HandInv, Null
<1>6. rows[t].next \in {Null, n}
  BY <1>2 DEF Unrotated
<1>7. \A u \in DOMAIN rows : rows[u].next = n => rows[u].exp = e
  BY <1>2, <1>3, Numbers DEF HandInv
<1>8. /\ \/ S \in closed
         \/ n \in DOMAIN rows /\ rows[t].next = n /\ rows[n].sess = S /\ rows[n].exp >= e
         \/ n \notin DOMAIN rows /\ rows[t].next = Null
      /\ req[r].next = n => S \in closed \/ rows[t].next = n
  <2>1. CASE req[r].next = Null /\ n = ids + 1
    BY <1>2, <1>4, <1>5, <1>6, <2>1, Numbers DEF Null
  <2>2. CASE n = req[r].next
    <3>1. S \in closed \/ rows[t].next = n
      BY <1>2, <1>3, <1>5, <2>2 DEF HandInv
    <3>2. rows[t].next = n /\ S \notin closed
             => n \in DOMAIN rows /\ rows[n].sess = S /\ rows[n].exp >= rows[t].exp
      BY <1>2, <1>5 DEF SessInv, SessionIsChain, SuccessorOutlives
    <3>3. QED
      BY <1>2, <1>7, <3>1, <3>2
  <2>3. QED
    BY <1>2, <2>1, <2>2
<1>9. \A s \in Slots : Holding(s) /\ req[s].next = n => End(s) = e
  BY <1>2, <1>3, <1>4, <1>5, HandTyped DEF HandInv
<1>10. ASSUME NEW s \in Slots, Holding(s), req[s].tok = n PROVE S \in closed \/ rows[t].next = n
  BY <1>2, <1>4, <1>8, <1>10, HandTyped
<1>11. n \notin DOMAIN rows => /\ rows'[n].exp = clock + Life /\ rows'[n].next = Null
                               /\ rows'[n].sess = S
  BY <1>2 DEF Token
<1>12. rows'[t].exp = e /\ rows'[t].next = n /\ rows'[t].sess = S
  BY <1>2
<1>13. OneLeaf'
  <2> SUFFICES ASSUME NEW x \in DOMAIN rows', NEW y \in DOMAIN rows',
                      rows'[x].sess = rows'[y].sess, rows'[x].sess \notin closed,
                      rows'[x].next = Null, rows'[y].next = Null
               PROVE  x = y
    BY <1>1 DEF OneLeaf
  <2>1. x # t /\ y # t
    BY <1>5, <1>12
  <2>2. \A z \in DOMAIN rows' \ {t} :
           rows'[z].sess = S /\ S \notin closed /\ rows'[z].next = Null /\ n \notin DOMAIN rows
           => z = n
    <3>1. OneLeaf
      BY DEF SessInv, SessionIsChain
    <3>2. QED
      BY <1>2, <1>5, <1>8, <3>1 DEF OneLeaf
  <2>3. CASE x = n /\ n \notin DOMAIN rows
    BY <1>11, <2>1, <2>2, <2>3
  <2>4. CASE y = n /\ n \notin DOMAIN rows
    BY <1>11, <2>1, <2>2, <2>4
  <2>5. CASE x \in DOMAIN rows /\ y \in DOMAIN rows
    BY <1>2, <2>1, <2>5 DEF SessInv, SessionIsChain, OneLeaf
  <2>6. QED
    BY <1>2, <2>3, <2>4, <2>5
<1>14. SuccessorOutlives'
  <2> SUFFICES ASSUME NEW x \in DOMAIN rows', rows'[x].next # Null, rows'[x].sess \notin closed
               PROVE  LET m == rows'[x].next IN
                      m \in DOMAIN rows' /\ rows'[m].sess = rows'[x].sess
                                         /\ rows'[m].exp >= rows'[x].exp
    BY <1>1 DEF SuccessorOutlives
  <2>1. CASE x = t
    BY <1>2, <1>4, <1>5, <1>8, <1>11, <1>12, <2>1
  <2>2. CASE x # t
    <3> DEFINE m == rows[x].next
    <3>1. x \in DOMAIN rows /\ rows'[x] = rows[x]
      BY <1>2, <1>11, <2>2
    <3>2. m \in DOMAIN rows /\ rows[m].sess = rows[x].sess /\ rows[m].exp >= rows[x].exp
      BY <3>1 DEF SessInv, SessionIsChain, SuccessorOutlives
    <3>3. m = t => e >= rows[x].exp
      BY <1>3, <3>1 DEF HandInv
    <3>4. QED
      BY <1>2, <1>12, <3>1, <3>2, <3>3
  <2>3. QED
    BY <2>1, <2>2
<1>15. RowsInv'
  <2> SUFFICES ASSUME NEW x \in DOMAIN rows', rows'[x].next # Null
               PROVE  /\ rows'[x].next > x
                      /\ rows'[x].exp <= clock + Grace
                      /\ \A u \in DOMAIN rows' :
                           rows'[u].next = rows'[x].next => rows'[u].exp = rows'[x].exp
    BY <1>1 DEF RowsInv
  <2>1. CASE x = t
    BY <1>2, <1>4, <1>5, <1>7, <1>11, <1>12, <2>1
  <2>2. CASE x # t
    <3>1. x \in DOMAIN rows /\ rows'[x] = rows[x]
      BY <1>2, <1>11, <2>2
    <3>2. /\ rows[x].next > x /\ rows[x].exp <= clock + Grace
          /\ \A u \in DOMAIN rows : rows[u].next = rows[x].next => rows[u].exp = rows[x].exp
      BY <3>1 DEF SessInv, RowsInv
    <3>3. QED
      BY <1>2, <1>7, <1>11, <1>12, <3>1, <3>2
  <2>3. QED
    BY <2>1, <2>2
<1>16. ASSUME NEW s \in Slots, Holding(s)' PROVE HandInv(s)'
  <2> DEFINE ts == req[s].tok
             ns == req[s].next
  <2>1. \A q \in Slots : Holding(q)' => q # r /\ Holding(q) /\ End(q)' = End(q) /\ req'[q] = req[q]
    BY <1>1 DEF Holding, End, At, Idle, TypeOK
  <2>2. /\ HandInv(s) /\ End(s)' = End(s) /\ req'[s] = req[s] /\ Holding(s)
        /\ End(s) \in Nat /\ ts \in 1..ids
    BY <1>16, <2>1, HandTyped DEF SessInv, HandsInv
  <2>3. /\ End(s) <= clock + Grace /\ End(s) <= clock + Life
        /\ ns # Null => ns > ts
    BY <1>4, <2>2, Numbers DEF HandInv
  <2>4. ASSUME ts \in DOMAIN rows'
        PROVE  /\ ns # Null => rows'[ts].next = ns \/ rows'[ts].sess \in closed
               /\ rows'[ts].next = Null => End(s) <= rows'[ts].exp
    <3>1. CASE ts = t
      BY <1>2, <1>5, <1>6, <1>12, <2>2, <3>1 DEF HandInv
    <3>2. CASE ts = n /\ n \notin DOMAIN rows
      <4>1. S \in closed
        BY <1>8, <1>10, <2>2, <3>2, <1>5
      <4>2. QED
        BY <1>11, <2>3, <3>2, <4>1
    <3>3. CASE ts # t /\ ts \in DOMAIN rows
      BY <1>2, <2>2, <3>3 DEF HandInv
    <3>4. QED
      BY <1>2, <2>4, <3>1, <3>2, <3>3
  <2>5. ASSUME NEW u \in DOMAIN rows'
        PROVE  /\ rows'[u].next = ts => End(s) >= rows'[u].exp \/ rows'[u].sess \in closed
               /\ ns # Null /\ rows'[u].next = ns => rows'[u].exp = End(s)
    <3>1. CASE u = t
      <4>1. n = ts => S \in closed \/ (rows[t].next = ts /\ rows[t].exp = e)
        <5>1. n = ts => S \in closed \/ rows[t].next = n
          BY <1>10, <2>2
        <5>2. rows[t].next = n => rows[t].exp = e
          <6>1. t \in DOMAIN rows
            BY <1>2
          <6>2. QED
            BY <1>7, <6>1
        <5>3. QED
          BY <5>1, <5>2
      <4>2. rows[t].next = ts => End(s) >= rows[t].exp \/ S \in closed
        BY <1>2, <2>2 DEF HandInv
      <4>3. n = ns => End(s) = e
        BY <1>9, <2>2
      <4>4. QED
        BY <1>12, <3>1, <4>1, <4>2, <4>3
    <3>2. CASE u = n /\ n \notin DOMAIN rows
      BY <1>11, <2>2, <3>2 DEF Null
    <3>3. CASE u # t /\ u \in DOMAIN rows
      BY <1>2, <2>2, <3>3 DEF HandInv
    <3>4. QED
      BY <1>2, <3>1, <3>2, <3>3
  <2>6. \A q \in Slots : Holding(q)' /\ ns # Null /\ req'[q].next = ns => End(q)' = End(s)
    BY <2>1, <2>2 DEF HandInv
  <2>7. QED
    BY <1>1, <2>2, <2>3, <2>4, <2>5, <2>6 DEF HandInv
<1>17. QED
  BY <1>13, <1>14, <1>15, <1>16 DEF SessInv, SessionIsChain, HandsInv

\* Steps that leave the table as it is, or empty it
LEMMA TableKept ==
  ASSUME TypeOK, TypeOK', SessInv, clock <= clock', RevokeAll \/ UNCHANGED tokens,
         \A r \in Slots : SameHand(r)
  PROVE  SessInv'
<1>1. DOMAIN rows' \subseteq DOMAIN rows /\ (\A t \in DOMAIN rows' : rows'[t] = rows[t])
  BY DEF RevokeAll, tokens
<1>2. \A t \in DOMAIN rows' : rows[t].sess \in closed => rows[t].sess \in closed'
  BY DEF RevokeAll, tokens
<1>3. \A t \in DOMAIN rows' : rows[t].next \notin DOMAIN rows \ DOMAIN rows'
  BY DEF RevokeAll, tokens
<1>4. QED
  BY <1>1, <1>2, <1>3, ShrinkKept

LEMMA SameRequests ==
  ASSUME TypeOK, UNCHANGED req \/ \E r \in Slots : \E next :
                             Goto(r, next) /\ next.at \notin {"tidy", "rotate"}
  PROVE  \A r \in Slots : SameHand(r)
BY DEF SameHand, Holding, End, At, Goto, TypeOK

\* A token is deleted on its own: its predecessors, if any, are of the same session
LEMMA DeleteKept ==
  ASSUME TypeOK, TypeOK', SessInv, NEW d \in 1..ids, DeleteSession(d)
  PROVE  SessInv'
<1>1. /\ d \in DOMAIN rows /\ DOMAIN rows' = DOMAIN rows \ {d}
      /\ \A t \in DOMAIN rows' : rows'[t] = rows[t]
      /\ closed' = closed \cup {rows[d].sess} /\ clock <= clock' /\ UNCHANGED req
  BY Numbers DEF DeleteSession, Only, setting
<1>2. \A t \in DOMAIN rows' : rows[t].next \in DOMAIN rows \ DOMAIN rows' => rows[t].sess \in closed'
  <2>1. ASSUME NEW t \in DOMAIN rows, rows[t].next = d PROVE rows[t].sess \in closed'
    <3>1. d # Null
      BY <1>1, Numbers DEF Null
    <3>2. rows[t].sess \in closed \/ rows[d].sess = rows[t].sess
      BY <2>1, <3>1 DEF SessInv, SessionIsChain, SuccessorOutlives
    <3>3. QED
      BY <1>1, <3>2
  <2>2. QED
    BY <1>1, <2>1
<1>3. QED
  BY <1>1, <1>2, SameRequests, ShrinkKept

LEMMA SessInit == Init => SessInv
BY DEF Init, SessInv, SessionIsChain, OneLeaf, SuccessorOutlives, RowsInv, HandsInv, Holding, Idle

LEMMA SessStep == TypeOK /\ TypeOK' /\ SessInv /\ [Next]_vars => SessInv'
<1> SUFFICES ASSUME TypeOK, TypeOK', SessInv, [Next]_vars PROVE SessInv'
  OBVIOUS
<1>0. UNCHANGED setting => clock <= clock'
  BY Numbers DEF setting
<1>1. CASE Tick
  BY <1>1, Numbers, SameRequests, TableKept DEF Tick
<1>2. CASE UpdateAccountPassword
  BY <1>0, <1>2, SameRequests, TableKept DEF UpdateAccountPassword
<1>3. ASSUME NEW t \in 1..ids, DeleteSession(t) PROVE SessInv'
  BY <1>3, DeleteKept
<1>4. ASSUME NEW r \in Slots, Login(r) \/ Refresh(r) \/ DeleteAccount(r) PROVE SessInv'
  <2>1. \E next : Goto(r, next) /\ next.at \notin {"tidy", "rotate"}
    <3>1. CASE Login(r) \/ DeleteAccount(r)
      BY <3>1 DEF Login, DeleteAccount
    <3>2. CASE Refresh(r)
      <4>1. PICK t \in 1..ids : Goto(r, [at |-> "read", tok |-> t])
        BY <3>2 DEF Refresh
      <4>2. QED
        BY <4>1
    <3>3. QED
      BY <1>4, <3>1, <3>2
  <2>2. UNCHANGED <<setting, tokens>>
    BY <1>4 DEF Login, Refresh, DeleteAccount
  <2>3. QED
    BY <1>0, <2>1, <2>2, SameRequests, TableKept
<1>5. ASSUME NEW r \in Slots,
             UpdateSubjectStatus(r) \/ DeactivateAccount(r) \/ ActivateAccount(r)
      PROVE SessInv'
  <2>1. \E next : Goto(r, next) /\ next.at \notin {"tidy", "rotate"}
    <3>1. CASE DeactivateAccount(r) \/ ActivateAccount(r)
      BY <3>1 DEF DeactivateAccount, ActivateAccount
    <3>2. CASE UpdateSubjectStatus(r)
      <4>1. PICK takedown \in Changes, deactivated \in Changes :
               Goto(r, [at |-> "takedown", takedown |-> takedown, deactivated |-> deactivated])
        BY <3>2 DEF UpdateSubjectStatus
      <4>2. QED
        BY <4>1
    <3>3. QED
      BY <1>5, <3>1, <3>2
  <2>2. UNCHANGED <<setting, tokens>>
    BY <1>5 DEF UpdateSubjectStatus, DeactivateAccount, ActivateAccount
  <2>3. QED
    BY <1>0, <2>1, <2>2, SameRequests, TableKept
<1>6. ASSUME NEW r \in Slots, TakedownAccount(r) PROVE SessInv'
  <2>1. \E next : Goto(r, next) /\ next.at \notin {"tidy", "rotate"}
    BY <1>6 DEF TakedownAccount
  <2>2. QED
    BY <1>0, <1>6, <2>1, SameRequests, TableKept DEF TakedownAccount
<1>7. ASSUME NEW r \in Slots, SetDeactivated(r) \/ GetAccountStatus(r) \/ DeleteActor(r)
      PROVE SessInv'
  <2>1. \E next : Goto(r, next) /\ next.at \notin {"tidy", "rotate"}
    BY <1>7 DEF SetDeactivated, GetAccountStatus, DeleteActor
  <2>2. UNCHANGED <<setting, tokens>>
    BY <1>7 DEF SetDeactivated, GetAccountStatus, DeleteActor
  <2>3. QED
    BY <1>0, <2>1, <2>2, SameRequests, TableKept
<1>8. ASSUME NEW r \in Slots, SequenceAccountEvt(r) \/ Fail(r) PROVE SessInv'
  <2>1. \E next : Goto(r, next) /\ next.at \notin {"tidy", "rotate"}
    BY <1>8 DEF SequenceAccountEvt, Fail, Answer, Idle
  <2>2. UNCHANGED <<setting, tokens>>
    BY <1>8 DEF SequenceAccountEvt, Fail
  <2>3. QED
    BY <1>0, <2>1, <2>2, SameRequests, TableKept
<1>9. ASSUME NEW r \in Slots, DeleteTokens(r) PROVE SessInv'
  <2>1. \E next : Goto(r, next) /\ next.at \notin {"tidy", "rotate"}
    BY <1>9 DEF DeleteTokens
  <2>2. QED
    BY <1>0, <1>9, <2>1, SameRequests, TableKept DEF DeleteTokens
<1>10. ASSUME NEW r \in Slots, Rotate(r) PROVE SessInv'
  <2>1. CASE Unrotated(r)
    BY <1>10, <2>1, RotateKept
  <2>2. CASE ~Unrotated(r)
    <3>1. Goto(r, [at |-> "read", tok |-> req[r].tok]) /\ UNCHANGED <<setting, tokens>>
      BY <1>10, <2>2 DEF Rotate, tokens
    <3>2. QED
      BY <1>0, <3>1, SameRequests, TableKept
  <2>3. QED
    BY <2>1, <2>2
<1>11. CASE UNCHANGED vars
  BY <1>0, <1>11, SameRequests, TableKept DEF vars
<1>12. QED
  BY <1>1, <1>2, <1>3, <1>4, <1>5, <1>6, <1>7, <1>8, <1>9, <1>10, <1>11,
     CreateKept, ReadKept, TidyKept DEF Next, Step

(***************************************************************************)
(* However many refreshes of however many tokens race with each other and  *)
(* with tidying, logouts, takedowns and deletions: no session forks, and a *)
(* stored token's successor is stored and outlives it.                     *)
(***************************************************************************)
THEOREM SessionsAreChains == Spec => []SessionIsChain
<1>1. SessInv => SessionIsChain
  BY DEF SessInv
<1>2. QED
  BY <1>1, TypeInit, TypeStep, SessInit, SessStep, PTL DEF Spec

\* What a step does to the table when it does not rotate a token
LEMMA OtherSteps ==
  ASSUME TypeOK, [Next]_vars
  PROVE  \/ \E r \in Slots : Rotate(r) /\ Unrotated(r)
         \/ /\ DOMAIN rows' \subseteq DOMAIN rows \cup {ids + 1}
            /\ \A t \in DOMAIN rows \cap DOMAIN rows' : rows'[t] = rows[t]
<1>1. RevokeAll \/ UNCHANGED rows =>
        /\ DOMAIN rows' \subseteq DOMAIN rows
        /\ \A t \in DOMAIN rows \cap DOMAIN rows' : rows'[t] = rows[t]
  BY DEF RevokeAll
<1>2. CASE Tick \/ UpdateAccountPassword \/ UNCHANGED vars
  BY <1>1, <1>2 DEF Tick, UpdateAccountPassword, vars, tokens
<1>3. ASSUME NEW t \in 1..ids, DeleteSession(t)
      PROVE  /\ DOMAIN rows' \subseteq DOMAIN rows
             /\ \A u \in DOMAIN rows \cap DOMAIN rows' : rows'[u] = rows[u]
  BY <1>3 DEF DeleteSession, Only
<1>4. ASSUME NEW r \in Slots, Login(r) \/ Refresh(r) \/ DeleteAccount(r) PROVE UNCHANGED rows
  BY <1>4 DEF Login, Refresh, DeleteAccount, tokens
<1>5. ASSUME NEW r \in Slots,
             UpdateSubjectStatus(r) \/ DeactivateAccount(r) \/ ActivateAccount(r)
      PROVE  UNCHANGED rows
  BY <1>5 DEF UpdateSubjectStatus, DeactivateAccount, ActivateAccount, tokens
<1>6. ASSUME NEW r \in Slots, TakedownAccount(r) PROVE RevokeAll \/ UNCHANGED rows
  BY <1>6 DEF TakedownAccount, tokens
<1>7. ASSUME NEW r \in Slots, SetDeactivated(r) \/ GetAccountStatus(r) \/ DeleteActor(r)
      PROVE  UNCHANGED rows
  BY <1>7 DEF SetDeactivated, GetAccountStatus, DeleteActor, tokens
<1>8. ASSUME NEW r \in Slots, SequenceAccountEvt(r) \/ Fail(r) PROVE UNCHANGED rows
  BY <1>8 DEF SequenceAccountEvt, Fail, tokens
<1>9. ASSUME NEW r \in Slots, DeleteTokens(r) PROVE RevokeAll
  BY <1>9 DEF DeleteTokens
<1>10. ASSUME NEW r \in Slots, Rotate(r), ~Unrotated(r) PROVE UNCHANGED rows
  BY <1>10 DEF Rotate
<1>11. ASSUME NEW r \in Slots, CreateSession(r)
       PROVE  /\ DOMAIN rows' \subseteq DOMAIN rows \cup {ids + 1}
              /\ \A t \in DOMAIN rows \cap DOMAIN rows' : rows'[t] = rows[t]
  BY <1>11, Numbers DEF CreateSession, With
<1>12. ASSUME NEW r \in Slots, GetRefreshToken(r) PROVE UNCHANGED rows
  BY <1>12 DEF GetRefreshToken, tokens
<1>13. ASSUME NEW r \in Slots, DeleteExpired(r)
       PROVE  /\ DOMAIN rows' \subseteq DOMAIN rows
              /\ \A t \in DOMAIN rows \cap DOMAIN rows' : rows'[t] = rows[t]
  BY <1>13 DEF DeleteExpired, DeleteExpiredWith, Only
<1>14. QED
  BY <1>1, <1>2, <1>3, <1>4, <1>5, <1>6, <1>7, <1>8, <1>9, <1>10, <1>11, <1>12, <1>13
     DEF Next, Step

LEMMA RotationAllowed ==
  ASSUME TypeOK, SessInv, NEW r \in Slots, Rotate(r), Unrotated(r)
  PROVE  /\ \A t \in DOMAIN rows' \ DOMAIN rows : t = ids + 1 \/ rows'[t].sess \in closed
         /\ \A t \in DOMAIN rows \cap DOMAIN rows' :
              /\ rows'[t].exp <= rows[t].exp
              /\ rows[t].next # Null => rows'[t].next = rows[t].next
<1> DEFINE t == req[r].tok
           e == req[r].exp
           S == rows[t].sess
<1>1. HandInv(r) /\ End(r) = e /\ Holding(r)
  BY DEF Rotate, SessInv, HandsInv, Holding, End, At
<1>2. PICK n \in Ids' :
        /\ t \in DOMAIN rows
        /\ \/ req[r].next = Null /\ n = ids + 1
           \/ req[r].next # Null /\ n = req[r].next
        /\ DOMAIN rows' = DOMAIN rows \cup {n}
        /\ rows'[t] = [exp |-> e, next |-> n, sess |-> S]
        /\ n \notin DOMAIN rows => rows'[n] = Token(clock + Life, S)
        /\ \A u \in DOMAIN rows \ {t} : rows'[u] = rows[u]
  BY RotateEffect
<1>3. n \notin DOMAIN rows => n = ids + 1 \/ rows'[n].sess \in closed
  <2>1. CASE n = req[r].next /\ n # Null /\ n \notin DOMAIN rows
    <3>1. rows[t].next = n \/ S \in closed
      BY <1>1, <1>2, <2>1 DEF HandInv
    <3>2. rows[t].next = n => S \in closed
      BY <1>2, <2>1 DEF SessInv, SessionIsChain, SuccessorOutlives
    <3>3. QED
      BY <1>2, <2>1, <3>1, <3>2 DEF Token
  <2>2. QED
    BY <1>2, <2>1
<1>4. rows[t].next \in {Null, n}
  BY <1>2 DEF Unrotated
<1>5. rows'[t].exp <= rows[t].exp
  <2>1. rows[t].exp \in Nat /\ e \in Nat
    BY <1>1, <1>2, HandTyped, Numbers
  <2>2. CASE rows[t].next = Null
    BY <1>1, <1>2, <2>1, <2>2 DEF HandInv
  <2>3. CASE rows[t].next # Null
    <3>1. rows[t].next = n /\ n = req[r].next /\ n # Null
      BY <1>2, <1>4, <2>3 DEF Unrotated
    <3>2. rows[t].exp = e
      BY <1>1, <1>2, <3>1 DEF HandInv
    <3>3. QED
      BY <1>2, <2>1, <3>2
  <2>4. QED
    BY <2>2, <2>3
<1>6. \A u \in DOMAIN rows : rows[u].exp \in Nat
  BY Numbers
<1>7. QED
  BY <1>2, <1>3, <1>4, <1>5, <1>6

LEMMA OtherStepsAllowed ==
  ASSUME TypeOK, DOMAIN rows' \subseteq DOMAIN rows \cup {ids + 1},
         \A t \in DOMAIN rows \cap DOMAIN rows' : rows'[t] = rows[t]
  PROVE  /\ \A t \in DOMAIN rows' \ DOMAIN rows : t = ids + 1 \/ rows'[t].sess \in closed
         /\ \A t \in DOMAIN rows \cap DOMAIN rows' :
              /\ rows'[t].exp <= rows[t].exp
              /\ rows[t].next # Null => rows'[t].next = rows[t].next
BY Numbers

\* Only new tokens enter the table, but for sessions with a token deleted on its own
THEOREM NoTokenComesBack == Spec => NoComeback
<1>1. TypeOK /\ SessInv /\ [Next]_vars =>
        [\A t \in DOMAIN rows' \ DOMAIN rows : t = ids + 1 \/ rows'[t].sess \in closed]_vars
  BY OtherSteps, RotationAllowed, OtherStepsAllowed
<1>2. QED
  BY <1>1, TypeInit, TypeStep, SessInit, SessStep, PTL DEF Spec, NoComeback

\* However stale the request: no token's life gets longer, no successor is exchanged
THEOREM GraceIsNotRenewed == Spec => GraceNotRenewed
<1>1. TypeOK /\ SessInv /\ [Next]_vars =>
        [\A t \in DOMAIN rows \cap DOMAIN rows' :
            /\ rows'[t].exp <= rows[t].exp
            /\ rows[t].next # Null => rows'[t].next = rows[t].next]_vars
  BY OtherSteps, RotationAllowed, OtherStepsAllowed
<1>2. QED
  BY <1>1, TypeInit, TypeStep, SessInit, SessStep, PTL DEF Spec, GraceNotRenewed

-----------------------------------------------------------------------------
(* Status: the invariant                                                   *)

\* What is about to be announced is the status, unless somebody changed it
StatusInv == ~raced => \A r \in Slots :
  At(r, "sequence") => req[r].status = formatAccountStatus(account)

AnnounceInv == StatusInv /\ AnnouncedIsCurrent

\* The status stays as it is and so does who is at work on it, or one more is
LEMMA QuietKept ==
  ASSUME TypeOK, AnnounceInv, UNCHANGED status, NEW r \in Slots, NEW next, Goto(r, next),
         next.at # "sequence",
         Announcing(r) => next.at \in {"takedown", "flag", "status", "tokens", "actor"}
  PROVE  AnnounceInv'
<1>1. UNCHANGED <<account, announced, raced>> /\ req' = [req EXCEPT ![r] = next]
  BY DEF status, Goto
<1>2. req'[r] = next /\ \A s \in Slots \ {r} : req'[s] = req[s]
  BY <1>1 DEF TypeOK
<1>3. StatusInv'
  BY <1>1, <1>2 DEF AnnounceInv, StatusInv, At
<1>4. (\A s \in Slots : ~Announcing(s))' => \A s \in Slots : ~Announcing(s)
  BY <1>2 DEF Announcing
<1>5. AnnouncedIsCurrent'
  BY <1>1, <1>4 DEF AnnounceInv, AnnouncedIsCurrent
<1>6. QED
  BY <1>3, <1>5 DEF AnnounceInv

\* A handler changes the row and goes on, with nothing read or the new status
LEMMA ChangeKept ==
  ASSUME TypeOK, AnnounceInv, NEW r \in Slots, NEW new, Update(r, new), NEW next, Goto(r, next),
         next.at \in {"flag", "status", "sequence"},
         next.at = "sequence" => next.status = formatAccountStatus(account)'
  PROVE  AnnounceInv'
<1>1. req' = [req EXCEPT ![r] = next] /\ UNCHANGED announced
  BY DEF Goto, Update
<1>2. req'[r] = next /\ \A s \in Slots \ {r} : req'[s] = req[s]
  BY <1>1 DEF TypeOK
<1>3. ~raced' => \A s \in Slots \ {r} :
                    At(s, "sequence") => req[s].status = formatAccountStatus(account)'
  BY DEF Update
<1>4. StatusInv'
  BY <1>2, <1>3 DEF StatusInv, At
<1>5. Announcing(r)'
  BY <1>2 DEF Announcing
<1>6. AnnouncedIsCurrent'
  BY <1>5 DEF AnnouncedIsCurrent
<1>7. QED
  BY <1>4, <1>6 DEF AnnounceInv

\* A handler announces what it has read, or fails
LEMMA EndKept ==
  ASSUME TypeOK, AnnounceInv, NEW r \in Slots, SequenceAccountEvt(r) \/ Fail(r)
  PROVE  AnnounceInv'
<1>1. req' = [req EXCEPT ![r] = Idle] /\ UNCHANGED account
  BY DEF SequenceAccountEvt, Fail, Answer, Goto
<1>2. req'[r] = Idle /\ \A s \in Slots \ {r} : req'[s] = req[s]
  BY <1>1 DEF TypeOK
<1>3. ~raced' => ~raced /\ announced' = formatAccountStatus(account)
  <2>1. CASE SequenceAccountEvt(r)
    <3>1. raced' = raced /\ announced' = req[r].status /\ At(r, "sequence")
      BY <2>1 DEF SequenceAccountEvt
    <3>2. QED
      BY <3>1 DEF AnnounceInv, StatusInv
  <2>2. CASE Fail(r)
    <3>1. raced' = (raced \/ announced # formatAccountStatus(account)) /\ announced' = announced
      BY <2>2 DEF Fail
    <3>2. QED
      BY <3>1
  <2>3. QED
    BY <2>1, <2>2
<1>4. StatusInv'
  BY <1>1, <1>2, <1>3 DEF AnnounceInv, StatusInv, At, Idle
<1>5. AnnouncedIsCurrent'
  BY <1>1, <1>3 DEF AnnouncedIsCurrent
<1>6. QED
  BY <1>4, <1>5 DEF AnnounceInv

\* Steps of no request
LEMMA OthersKept ==
  ASSUME AnnounceInv, UNCHANGED <<status, req>>
  PROVE  AnnounceInv'
BY DEF AnnounceInv, StatusInv, AnnouncedIsCurrent, Announcing, At, status

LEMMA AnnounceInit == Init => AnnounceInv
BY DEF Init, AnnounceInv, StatusInv, AnnouncedIsCurrent, At, Idle, formatAccountStatus

LEMMA AnnounceStep == TypeOK /\ AnnounceInv /\ [Next]_vars => AnnounceInv'
<1> SUFFICES ASSUME TypeOK, AnnounceInv, [Next]_vars PROVE AnnounceInv'
  OBVIOUS
<1>1. CASE Tick \/ UpdateAccountPassword \/ UNCHANGED vars
  BY <1>1, OthersKept DEF Tick, UpdateAccountPassword, vars
<1>2. ASSUME NEW t \in 1..ids, DeleteSession(t) PROVE AnnounceInv'
  BY <1>2, OthersKept DEF DeleteSession
<1>3. ASSUME NEW r \in Slots, Login(r) \/ DeleteAccount(r) PROVE AnnounceInv'
  BY <1>3, QuietKept DEF Login, DeleteAccount, Begin, At, Announcing
<1>4. ASSUME NEW r \in Slots, Refresh(r) PROVE AnnounceInv'
  <2>1. PICK t \in 1..ids : Goto(r, [at |-> "read", tok |-> t])
    BY <1>4 DEF Refresh
  <2>2. ~Announcing(r) /\ UNCHANGED status
    BY <1>4 DEF Refresh, Begin, At, Announcing
  <2>3. QED
    BY <2>1, <2>2, QuietKept
<1>5. ASSUME NEW r \in Slots, UpdateSubjectStatus(r) PROVE AnnounceInv'
  <2>1. PICK takedown \in Changes, deactivated \in Changes :
           Goto(r, [at |-> "takedown", takedown |-> takedown, deactivated |-> deactivated])
    BY <1>5 DEF UpdateSubjectStatus
  <2>2. UNCHANGED status
    BY <1>5 DEF UpdateSubjectStatus
  <2>3. QED
    BY <2>1, <2>2, QuietKept
<1>6. ASSUME NEW r \in Slots, DeactivateAccount(r) \/ ActivateAccount(r) PROVE AnnounceInv'
  BY <1>6, QuietKept DEF DeactivateAccount, ActivateAccount
<1>7. ASSUME NEW r \in Slots, CreateSession(r) PROVE AnnounceInv'
  BY <1>7, QuietKept DEF CreateSession, Answer, At, Announcing, Idle
<1>8. ASSUME NEW r \in Slots, GetRefreshToken(r) PROVE AnnounceInv'
  <2>1. \E next : Goto(r, next) /\ next.at \in {"idle", "tidy"}
    BY <1>8 DEF GetRefreshToken, Answer, Idle
  <2>2. ~Announcing(r) /\ UNCHANGED status
    BY <1>8 DEF GetRefreshToken, At, Announcing
  <2>3. QED
    BY <2>1, <2>2, QuietKept
<1>9. ASSUME NEW r \in Slots, DeleteExpired(r) PROVE AnnounceInv'
  <2>1. \E next : Goto(r, next) /\ next.at \in {"idle", "rotate"}
    BY <1>9 DEF DeleteExpired, DeleteExpiredWith, Answer, Idle
  <2>2. ~Announcing(r) /\ UNCHANGED status
    BY <1>9 DEF DeleteExpired, DeleteExpiredWith, At, Announcing
  <2>3. QED
    BY <2>1, <2>2, QuietKept
<1>10. ASSUME NEW r \in Slots, Rotate(r) PROVE AnnounceInv'
  <2>1. \E next : Goto(r, next) /\ next.at \in {"idle", "read"}
    BY <1>10 DEF Rotate, Rotated, Answer, Idle
  <2>2. ~Announcing(r) /\ UNCHANGED status
    BY <1>10 DEF Rotate, At, Announcing
  <2>3. QED
    BY <2>1, <2>2, QuietKept
<1>11. ASSUME NEW r \in Slots, TakedownAccount(r) PROVE AnnounceInv'
  <2> DEFINE next == [at |-> "flag", deactivated |-> req[r].deactivated]
  <2>1. Goto(r, next) /\ next.at = "flag"
    BY <1>11 DEF TakedownAccount
  <2>2. CASE Update(r, [account EXCEPT !.takedown = (req[r].takedown = "apply")])
    <3> HIDE DEF next
    <3>1. QED
      BY <2>1, <2>2, ChangeKept
  <2>3. CASE UNCHANGED status
    BY <2>1, <2>3, QuietKept
  <2>4. QED
    BY <1>11, <2>2, <2>3 DEF TakedownAccount
<1>12. ASSUME NEW r \in Slots, SetDeactivated(r) PROVE AnnounceInv'
  <2> DEFINE next == [at |-> "status"]
  <2>1. Goto(r, next) /\ next.at = "status"
    BY <1>12 DEF SetDeactivated
  <2>2. CASE Update(r, [account EXCEPT !.deactivated = (req[r].deactivated = "apply")])
    <3> HIDE DEF next
    <3>1. QED
      BY <2>1, <2>2, ChangeKept
  <2>3. CASE UNCHANGED status
    BY <2>1, <2>3, QuietKept
  <2>4. QED
    BY <1>12, <2>2, <2>3 DEF SetDeactivated
<1>13. ASSUME NEW r \in Slots, GetAccountStatus(r) PROVE AnnounceInv'
  <2>1. req' = [req EXCEPT ![r] = [at |-> "sequence", status |-> formatAccountStatus(account)]]
    BY <1>13 DEF GetAccountStatus, Goto
  <2>2. UNCHANGED <<account, announced, raced>>
    BY <1>13 DEF GetAccountStatus, status
  <2>3. /\ req'[r].at = "sequence" /\ req'[r].status = formatAccountStatus(account)
        /\ \A s \in Slots \ {r} : req'[s] = req[s]
    BY <2>1 DEF TypeOK
  <2>4. StatusInv'
    BY <2>2, <2>3 DEF AnnounceInv, StatusInv, At
  <2>5. AnnouncedIsCurrent'
    BY <2>3 DEF AnnouncedIsCurrent, Announcing
  <2>6. QED
    BY <2>4, <2>5 DEF AnnounceInv
<1>14. ASSUME NEW r \in Slots, DeleteTokens(r) PROVE AnnounceInv'
  BY <1>14, QuietKept DEF DeleteTokens
<1>15. ASSUME NEW r \in Slots, DeleteActor(r) PROVE AnnounceInv'
  <2> DEFINE next == [at |-> "sequence", status |-> "deleted"]
  <2>1. /\ Goto(r, next) /\ next.at = "sequence" /\ next.status = "deleted"
        /\ Update(r, [account EXCEPT !.exists = FALSE])
    BY <1>15 DEF DeleteActor
  <2>2. ~account'.exists
    BY <2>1 DEF Update, TypeOK
  <2>3. formatAccountStatus(account)' = "deleted"
    BY <2>2 DEF formatAccountStatus
  <2> HIDE DEF next
  <2>4. QED
    BY <2>1, <2>3, ChangeKept
<1>16. QED
  BY <1>1, <1>2, <1>3, <1>4, <1>5, <1>6, <1>7, <1>8, <1>9, <1>10, <1>11, <1>12, <1>13, <1>14,
     <1>15, EndKept DEF Next, Step

(***************************************************************************)
(* For any number of handlers: once none of them is at work on the status, *)
(* the last #account event tells it, unless the history variable says that *)
(* an announcement was overtaken by a change, or lost.                     *)
(***************************************************************************)
THEOREM AnnouncedStatusIsCurrent == Spec => []AnnouncedIsCurrent
<1>1. AnnounceInv => AnnouncedIsCurrent
  BY DEF AnnounceInv
<1>2. QED
  BY <1>1, TypeInit, TypeStep, AnnounceInit, AnnounceStep, PTL DEF Spec
=============================================================================
