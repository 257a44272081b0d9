--------------------------- MODULE AccountManager ---------------------------
(***************************************************************************)
(* Sessions and status of one account of a PDS.                            *)
(*                                                                         *)
(* A session is a chain of refresh tokens.  Refreshing one gives it a      *)
(* successor and a short grace period, in which refreshing it again gives  *)
(* the same successor.  Requests interleave between their database calls   *)
(* with other refreshes, logouts, password changes, takedowns and the      *)
(* deletion of the account; handlers that change the status of the account *)
(* then read it and announce it in the event stream, in separate steps.    *)
(*                                                                         *)
(* A token stands for the JWTs with its jti; that these also expire, later *)
(* than their row, is left out, and so are app passwords.                  *)
(***************************************************************************)
EXTENDS Integers

CONSTANTS Slots,     \* requests under way at once
          Grace,     \* REFRESH_GRACE_MS
          Life,      \* of a fresh refresh token, '90days'
          Workloads, \* bound: the operations clients use in one behaviour
          MaxClock,  \* bound: time
          MaxIds     \* bound: tokens ever stored

ASSUME TimesAssumption == Grace \in Nat \ {0} /\ Life \in Nat /\ Grace <= Life
ASSUME BoundsAssumption == MaxClock \in Nat /\ MaxIds \in Nat
ASSUME WorkloadsAssumption == Workloads \subseteq SUBSET
  {"createSession", "refreshSession", "deleteSession", "updatePassword",
   "updateSubjectStatus", "deactivateAccount", "deleteAccount"}

VARIABLES
  clock,
  ids,       \* token ids stored so far: 1..ids
  rows,      \* the table refresh_token: id -> [exp, next, sess]
  account,   \* the row of the account in the table actor
  announced, \* the status in the last #account event
  req,       \* the request in each slot, see Requests
  closed,    \* sessions with a token revoked on its own (history)
  workload,  \* the operations in use
  raced      \* an announcement was overtaken or lost (history)

tokens == <<ids, rows, closed>>
status == <<account, announced, raced>>
setting == <<clock, workload>>
vars == <<setting, tokens, status, req>>

Null == 0   \* nextId of a token that was not refreshed

Idle == [at |-> "idle"]

Init ==
  /\ clock = 0
  /\ ids = 0
  /\ rows = <<>>
  /\ account = [exists |-> TRUE, takedown |-> FALSE, deactivated |-> FALSE]
  /\ announced = "active"
  /\ req = [r \in Slots |-> Idle]
  /\ closed = {}
  /\ raced = FALSE
  /\ workload \in Workloads

Tick == /\ clock < MaxClock
        /\ clock' = clock + 1
        /\ UNCHANGED <<tokens, status, req, workload>>

At(r, stage) == req[r].at = stage

Goto(r, next) == req' = [req EXCEPT ![r] = next]

Answer(r) == Goto(r, Idle)

Begin(r, operation) == At(r, "idle") /\ operation \in workload

-----------------------------------------------------------------------------
(* Login                                                                   *)

softDeleted == account.takedown

\* login() has checked the password; it answers after at least 350 ms.  A
\* session of a soft-deleted account is not stored and of no concern here.
Login(r) == /\ Begin(r, "createSession")
            /\ account.exists /\ ~softDeleted
            /\ Goto(r, [at |-> "store"])
            /\ UNCHANGED <<setting, tokens, status>>

Token(exp, sess) == [exp |-> exp, next |-> Null, sess |-> sess]

With(table, t, row) == [u \in DOMAIN table \cup {t} |-> IF u = t THEN row ELSE table[u]]

\* createSession: sign the tokens, storeRefreshToken
CreateSession(r) == LET t == ids + 1 IN
  /\ At(r, "store")
  /\ ids < MaxIds
  /\ ids' = t
  /\ rows' = With(rows, t, Token(clock + Life, t))
  /\ Answer(r)
  /\ UNCHANGED <<setting, closed, status>>

-----------------------------------------------------------------------------
(* Refresh                                                                 *)

\* refreshSession reads the account and calls rotateRefreshToken
Refresh(r) == /\ Begin(r, "refreshSession")
              /\ account.exists /\ ~softDeleted
              /\ \E t \in 1..ids : Goto(r, [at |-> "read", tok |-> t])
              /\ UNCHANGED <<setting, tokens, status>>

GetRefreshToken(r) == LET t == req[r].tok IN
  /\ At(r, "read")
  /\ \/ t \notin DOMAIN rows /\ Answer(r)
     \/ t \in DOMAIN rows
        /\ Goto(r, [at |-> "tidy", tok |-> t, now |-> clock,
                    exp |-> rows[t].exp, next |-> rows[t].next])
  /\ UNCHANGED <<setting, tokens, status>>

Only(ts) == [t \in ts |-> rows[t]]

Earlier(x, y) == IF x < y THEN x ELSE y

\* deleteExpiredRefreshTokens, then the token gets its grace period, or null
\* is returned for one that has just been deleted
DeleteExpiredWith(r, expiresAt) ==
  /\ At(r, "tidy")
  /\ rows' = Only({t \in DOMAIN rows : rows[t].exp > req[r].now})
  /\ \/ expiresAt <= req[r].now /\ Answer(r)
     \/ expiresAt > req[r].now
        /\ Goto(r, [at |-> "rotate", tok |-> req[r].tok, exp |-> expiresAt,
                    next |-> req[r].next])
  /\ UNCHANGED <<setting, ids, closed, status>>

DeleteExpiredExtending(r) == DeleteExpiredWith(r, req[r].now + Grace)

DeleteExpired(r) == DeleteExpiredWith(r, Earlier(req[r].now + Grace, req[r].exp))

(***************************************************************************)
(* The transaction of rotateRefreshToken.  A token that had no successor   *)
(* when it was read is given a random id: a number no other request has,   *)
(* which is chosen here, where it is stored.                               *)
(***************************************************************************)
Granted(r, next, sess) ==
  LET t == req[r].tok
      graced == [u \in DOMAIN rows |->
                   IF u = t THEN [exp |-> req[r].exp, next |-> next, sess |-> rows[u].sess]
                   ELSE rows[u]]
  IN  \* storeRefreshToken does nothing if the successor is there
      IF next \in DOMAIN rows THEN graced ELSE With(graced, next, Token(clock + Life, sess))

Rotated(r, sess) ==
  /\ \/ /\ req[r].next = Null
        /\ ids < MaxIds
        /\ ids' = ids + 1
        /\ rows' = Granted(r, ids + 1, sess)
     \/ /\ req[r].next # Null
        /\ rows' = Granted(r, req[r].next, sess)
        /\ UNCHANGED ids
  /\ Answer(r)

RotateUnchecked(r) == LET t == req[r].tok IN
  /\ At(r, "rotate")
  /\ Rotated(r, IF t \in DOMAIN rows THEN rows[t].sess ELSE t)
  /\ UNCHANGED <<setting, closed, status>>

\* what addRefreshGracePeriod's where clause finds
Unrotated(r) == LET t == req[r].tok IN
  t \in DOMAIN rows /\ rows[t].next \in {Null, req[r].next}

RotateInsisting(r) ==
  /\ At(r, "rotate")
  /\ \/ Unrotated(r) /\ Rotated(r, rows[req[r].tok].sess)
     \/ ~Unrotated(r) /\ UNCHANGED <<ids, rows, req>>
  /\ UNCHANGED <<setting, closed, status>>

\* ConcurrentRefreshError: again from the start
Rotate(r) ==
  /\ At(r, "rotate")
  /\ \/ Unrotated(r) /\ Rotated(r, rows[req[r].tok].sess)
     \/ /\ ~Unrotated(r)
        /\ Goto(r, [at |-> "read", tok |-> req[r].tok])
        /\ UNCHANGED <<ids, rows>>
  /\ UNCHANGED <<setting, closed, status>>

-----------------------------------------------------------------------------
(* Revocation                                                              *)

\* deleteSession: revokeRefreshToken
DeleteSession(t) == /\ "deleteSession" \in workload
                    /\ t \in DOMAIN rows
                    /\ rows' = Only(DOMAIN rows \ {t})
                    /\ closed' = closed \cup {rows[t].sess}
                    /\ UNCHANGED <<setting, ids, status, req>>

\* revokeRefreshTokensByDid
RevokeAll == rows' = <<>> /\ closed' = {} /\ UNCHANGED ids

UpdateAccountPassword == /\ "updatePassword" \in workload
                         /\ account.exists
                         /\ RevokeAll
                         /\ UNCHANGED <<setting, status, req>>

-----------------------------------------------------------------------------
(* Status                                                                  *)

Statuses == {"active", "deactivated", "takendown", "deleted"}

formatAccountStatus(a) ==
  CASE ~a.exists     -> "deleted"
    [] a.exists /\ a.takedown -> "takendown"
    [] a.exists /\ ~a.takedown /\ a.deactivated -> "deactivated"
    [] a.exists /\ ~a.takedown /\ ~a.deactivated -> "active"

Changes == {"apply", "lift", "none"}

\* updateSubjectStatus for a repository
UpdateSubjectStatus(r) ==
  /\ Begin(r, "updateSubjectStatus")
  /\ \E takedown, deactivated \in Changes :
        /\ deactivated # "none" => "deactivateAccount" \in workload
        /\ Goto(r, [at |-> "takedown", takedown |-> takedown, deactivated |-> deactivated])
  /\ UNCHANGED <<setting, tokens, status>>

\* deactivateAccount
DeactivateAccount(r) == /\ Begin(r, "deactivateAccount")
                        /\ account.exists
                        /\ Goto(r, [at |-> "flag", deactivated |-> "apply"])
                        /\ UNCHANGED <<setting, tokens, status>>

\* activateAccount: not for an account that is taken down
ActivateAccount(r) == /\ Begin(r, "deactivateAccount")
                      /\ account.exists /\ ~account.takedown
                      /\ Goto(r, [at |-> "flag", deactivated |-> "lift"])
                      /\ UNCHANGED <<setting, tokens, status>>

(***************************************************************************)
(* The row changes (if it is there).  A handler that has read another      *)
(* status and not announced it yet will announce it after this.            *)
(***************************************************************************)
Update(r, new) ==
  /\ account' = IF account.exists THEN new ELSE account
  /\ raced' = (raced \/ \E s \in Slots \ {r} :
                           /\ At(s, "sequence")
                           /\ req[s].status # formatAccountStatus(account'))
  /\ UNCHANGED announced

TakedownReadingFirst(r) ==
  /\ At(r, "takedown")
  /\ req[r].takedown # "none"
  /\ Update(r, [account EXCEPT !.takedown = (req[r].takedown = "apply")])
  /\ RevokeAll
  /\ Goto(r, [at |-> "sequence", status |-> formatAccountStatus(account)])
  /\ UNCHANGED setting

\* takedownAccount, one transaction: also the reversal of a takedown revokes
TakedownAccount(r) ==
  /\ At(r, "takedown")
  /\ \/ /\ req[r].takedown # "none"
        /\ Update(r, [account EXCEPT !.takedown = (req[r].takedown = "apply")])
        /\ RevokeAll
     \/ req[r].takedown = "none" /\ UNCHANGED <<status, tokens>>
  /\ Goto(r, [at |-> "flag", deactivated |-> req[r].deactivated])
  /\ UNCHANGED setting

SetDeactivated(r) ==
  /\ At(r, "flag")
  /\ \/ /\ req[r].deactivated # "none"
        /\ Update(r, [account EXCEPT !.deactivated = (req[r].deactivated = "apply")])
     \/ req[r].deactivated = "none" /\ UNCHANGED status
  /\ Goto(r, [at |-> "status"])
  /\ UNCHANGED <<setting, tokens>>

GetAccountStatusRaw(r) ==
  /\ At(r, "status")
  /\ Goto(r, [at |-> "sequence",
              status |-> IF formatAccountStatus(account) = "active" THEN "undefined"
                         ELSE formatAccountStatus(account)])
  /\ UNCHANGED <<setting, tokens, status>>

GetAccountStatus(r) ==
  /\ At(r, "status")
  /\ Goto(r, [at |-> "sequence", status |-> formatAccountStatus(account)])
  /\ UNCHANGED <<setting, tokens, status>>

SequenceAccountEvt(r) == /\ At(r, "sequence")
                         /\ announced' = req[r].status
                         /\ Answer(r)
                         /\ UNCHANGED <<setting, tokens, account, raced>>

-----------------------------------------------------------------------------
(* Deletion: one call after the other, in no transaction                   *)

DeleteAccount(r) == /\ Begin(r, "deleteAccount")
                    /\ account.exists
                    /\ Goto(r, [at |-> "tokens"])
                    /\ UNCHANGED <<setting, tokens, status>>

DeleteTokens(r) == /\ At(r, "tokens")
                   /\ RevokeAll
                   /\ Goto(r, [at |-> "actor"])
                   /\ UNCHANGED <<setting, status>>

DeleteActor(r) == /\ At(r, "actor")
                  /\ Update(r, [account EXCEPT !.exists = FALSE])
                  /\ Goto(r, [at |-> "sequence", status |-> "deleted"])
                  /\ UNCHANGED <<setting, tokens>>

-----------------------------------------------------------------------------
\* A database call throws, or the process ends: what was done stays done
Fail(r) == /\ ~At(r, "idle")
           /\ raced' = (raced \/ announced # formatAccountStatus(account))
           /\ Answer(r)
           /\ UNCHANGED <<setting, tokens, account, announced>>

Step(r) == \/ CreateSession(r)
           \/ GetRefreshToken(r) \/ DeleteExpired(r) \/ Rotate(r)
           \/ TakedownAccount(r) \/ SetDeactivated(r)
           \/ GetAccountStatus(r) \/ SequenceAccountEvt(r)
           \/ DeleteTokens(r) \/ DeleteActor(r)

Next == \/ Tick
        \/ UpdateAccountPassword
        \/ \E t \in 1..ids : DeleteSession(t)
        \/ \E r \in Slots : \/ Login(r) \/ Refresh(r)
                            \/ UpdateSubjectStatus(r) \/ DeactivateAccount(r)
                            \/ ActivateAccount(r) \/ DeleteAccount(r)
                            \/ Step(r) \/ Fail(r)

Spec == Init /\ [][Next]_vars

(***************************************************************************)
(* The calls of a request answer.  Nothing obliges anyone to make one.     *)
(***************************************************************************)
Fairness == \A r \in Slots : WF_vars(Step(r))

FairSpec == Spec /\ Fairness

-----------------------------------------------------------------------------
(* Properties                                                              *)

Ids == 1..ids

Row == [exp : Nat, next : Ids \cup {Null}, sess : Ids]

Requests ==
  {Idle} \cup [at : {"store", "status", "tokens", "actor"}]
         \cup [at : {"read"}, tok : Ids]
         \cup [at : {"tidy"}, tok : Ids, now : Nat, exp : Nat, next : Ids \cup {Null}]
         \cup [at : {"rotate"}, tok : Ids, exp : Nat, next : Ids \cup {Null}]
         \cup [at : {"takedown"}, takedown : Changes, deactivated : Changes]
         \cup [at : {"flag"}, deactivated : Changes]
         \cup [at : {"sequence"}, status : Statuses]

TypeOK ==
  /\ clock \in 0..MaxClock
  /\ ids \in 0..MaxIds
  /\ DOMAIN rows \subseteq Ids /\ \A t \in DOMAIN rows : rows[t] \in Row
  /\ account \in [exists : BOOLEAN, takedown : BOOLEAN, deactivated : BOOLEAN]
  /\ announced \in Statuses
  /\ req \in [Slots -> Requests]
  /\ closed \subseteq Ids
  /\ raced \in BOOLEAN

(***************************************************************************)
(* "Upon refresh token reuse you always receive a refresh token with the   *)
(* same id": a session is one chain.  However refreshes of one token race  *)
(* with each other and with the tidying of expired ones, no two of its     *)
(* tokens are unrotated, and the successor of a stored token is stored and *)
(* valid for at least as long - unless somebody deleted a token of the     *)
(* session on its own.                                                     *)
(***************************************************************************)
OneLeaf == \A t, u \in DOMAIN rows :
  /\ rows[t].sess = rows[u].sess /\ rows[t].sess \notin closed
  /\ rows[t].next = Null /\ rows[u].next = Null
  => t = u

SuccessorOutlives == \A t \in DOMAIN rows : LET n == rows[t].next IN
  n # Null /\ rows[t].sess \notin closed =>
     n \in DOMAIN rows /\ rows[n].sess = rows[t].sess /\ rows[n].exp >= rows[t].exp

SessionIsChain == OneLeaf /\ SuccessorOutlives

(***************************************************************************)
(* A token that was tidied away or revoked together with all others - by a *)
(* takedown or its reversal, a change of password, a deletion - never      *)
(* comes back, whatever refresh was under way: only new tokens enter the   *)
(* table.  The exception is a session with a token deleted on its own,     *)
(* which its predecessor in the grace period brings back.                  *)
(***************************************************************************)
NoComeback == [][\A t \in DOMAIN rows' \ DOMAIN rows :
                    t = ids + 1 \/ rows'[t].sess \in closed]_vars

(***************************************************************************)
(* While a token is stored its lifetime only shrinks and its successor     *)
(* never changes, however stale the request that writes it: reuse does not *)
(* renew the grace period.                                                 *)
(***************************************************************************)
GraceNotRenewed == [][\A t \in DOMAIN rows \cap DOMAIN rows' :
                         /\ rows'[t].exp <= rows[t].exp
                         /\ rows[t].next # Null => rows'[t].next = rows[t].next]_vars

(***************************************************************************)
(* When no handler is at work on the status, the last #account event has   *)
(* the status the account has - unless the status changed between another  *)
(* handler's reading it and announcing it, or a handler failed on its way. *)
(***************************************************************************)
Announcing(r) == req[r].at \in {"takedown", "flag", "status", "sequence", "tokens", "actor"}

AnnouncedIsCurrent ==
  (\A r \in Slots : ~Announcing(r)) /\ ~raced => announced = formatAccountStatus(account)

(***************************************************************************)
(* Every request is answered: a refresh that loses the race for a token    *)
(* tries again, and only somebody deleting that token for ever, each time  *)
(* it was brought back, can keep it trying.  (MaxIds stops some requests.) *)
(***************************************************************************)
OutOfIds(r) == ids = MaxIds /\ \/ At(r, "store")
                               \/ At(r, "rotate") /\ req[r].next = Null /\ Unrotated(r)

EveryRequestAnswered ==
  \/ \A r \in Slots : []<>(req[r] = Idle \/ OutOfIds(r))
  \/ []<><<\E t \in 1..ids : DeleteSession(t)>>_vars
=============================================================================
