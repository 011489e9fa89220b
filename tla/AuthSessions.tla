---------------------------- MODULE AuthSessions ----------------------------
(***************************************************************************)
(* Refresh sessions of apps/api: login, POST /auth/refresh, logout and     *)
(* logout-all, and the deactivation of accounts that they look at.         *)
(*                                                                         *)
(* A refresh token is rotated: a session row is created for the new token, *)
(* then the old row is marked revoked.  The two are separate statements,   *)
(* and so is every read before them, so requests may overtake each other,  *)
(* a request may die between two of its statements, and its answer may be  *)
(* lost.  A token stands for its row: rows are found by the token's hash.  *)
(***************************************************************************)
EXTENDS Integers, FiniteSets

CONSTANTS
  Tokens,      \* refresh tokens; a rotation family is named by its first one
  Users,       \* the accounts
  Requests,    \* slots for requests in flight
  Serialized,  \* TRUE: a request starts only when none is in flight
  None         \* no token, no user

ASSUME ConstantsAssumption ==
  /\ Serialized \in BOOLEAN
  /\ None \notin Tokens
  /\ None \notin Users

VARIABLES
  sess,     \* the refresh_sessions row of each token
  active,   \* the accounts whose status is ACTIVE
  req,      \* each request in flight: where it is and what it has read
  held,     \* history: the tokens that have been sent to a client
  parent,   \* history: the token each token was exchanged for
  ended,    \* history: the families that existed at a logout-all of their user
  killed,   \* history: the families revoked because a token was used again
  barred    \* history: the requests that began after their user was deactivated

history == <<held, parent, ended, killed, barred>>
vars == <<sess, active, req, history>>

NoRow == [status |-> "none", family |-> None, user |-> None]
IdleRequest == [pc |-> "idle", user |-> None, token |-> None, new |-> None]

Row == [status : {"none", "live", "revoked", "deleted"},
        family : Tokens \cup {None}, user : Users \cup {None}]
Request == [pc : {"idle", "create", "kill", "user", "issue", "revoke", "reply", "delete"},
            user : Users \cup {None}, token : Tokens \cup {None}, new : Tokens \cup {None}]

\* The table, and what each request has read by the point it has reached.
TypeOK ==
  /\ sess \in [Tokens -> Row]
  /\ \A t \in Tokens : sess[t].status # "none" => sess[t].family \in Tokens /\ sess[t].user \in Users
  /\ active \subseteq Users
  /\ req \in [Requests -> Request]
  /\ \A q \in Requests :
       /\ req[q].pc \in {"create", "user", "issue", "revoke", "reply"} => req[q].user \in Users
       /\ req[q].pc \in {"kill", "user", "issue", "revoke", "delete"} => req[q].token \in Tokens
       /\ req[q].pc \in {"revoke", "reply"} => req[q].new \in Tokens
  /\ held \subseteq Tokens
  /\ parent \in [Tokens -> Tokens \cup {None}]
  /\ ended \subseteq Tokens
  /\ killed \subseteq Tokens
  /\ barred \subseteq Requests

Init ==
  /\ sess = [t \in Tokens |-> NoRow]
  /\ active = Users
  /\ req = [q \in Requests |-> IdleRequest]
  /\ held = {}
  /\ parent = [t \in Tokens |-> None]
  /\ ended = {}
  /\ killed = {}
  /\ barred = {}

-----------------------------------------------------------------------------
Exists(t) == sess[t].status \in {"live", "revoked"}
Family(t) == sess[t].family

MayStart(q) == /\ req[q] = IdleRequest
               /\ Serialized => \A p \in Requests : req[p] = IdleRequest

Start(q, pc, user, token) ==
  /\ MayStart(q)
  /\ req' = [req EXCEPT ![q] = [pc |-> pc, user |-> user, token |-> token, new |-> None]]
  /\ barred' = IF user \in active THEN barred \ {q} ELSE barred \cup {q}

Goto(q, pc) == req' = [req EXCEPT ![q].pc = pc]
End(q) == req' = [req EXCEPT ![q] = IdleRequest]

\* 64 random bytes: a token that no row has or ever had.
Fresh(t) == sess[t] = NoRow

Insert(t, family, user) ==
  /\ Fresh(t)
  /\ sess' = [sess EXCEPT ![t] = [status |-> "live", family |-> family, user |-> user]]

-----------------------------------------------------------------------------
(* POST /auth/login *)

\* The password is right; the account is read with it.
Login(q, u) ==
  /\ u \in active
  /\ Start(q, "create", u, None)
  /\ UNCHANGED <<sess, active, held, parent, ended, killed>>

CreateSession(q, t) ==
  /\ req[q].pc = "create"
  /\ Insert(t, t, req[q].user)
  /\ req' = [req EXCEPT ![q].pc = "reply", ![q].new = t]
  /\ UNCHANGED <<active, history>>

-----------------------------------------------------------------------------
(* POST /auth/refresh *)

\* An unknown or an expired token is refused at once and changes nothing; a
\* live one may turn out to be expired at any time.
ReadToken_Again(q, t) ==  \* mutant
  /\ t \in held
  /\ Exists(t)
  /\ Start(q, "user", sess[t].user, t)
  /\ UNCHANGED <<sess, active, held, parent, ended, killed>>
ReadToken(q, t) ==
  /\ t \in held
  /\ Exists(t)
  /\ Start(q, IF sess[t].status = "revoked" THEN "kill" ELSE "user", sess[t].user, t)
  /\ UNCHANGED <<sess, active, held, parent, ended, killed>>

\* The token has been exchanged before: every live token of its family dies.
KillFamily_TokenOnly(q) ==  \* mutant
  /\ req[q].pc = "kill"
  /\ killed' = killed \cup {Family(req[q].token)}
  /\ End(q)
  /\ UNCHANGED <<sess, active, held, parent, ended, barred>>
KillFamily(q) ==
  LET family == Family(req[q].token) IN
  /\ req[q].pc = "kill"
  /\ sess' = [t \in Tokens |->
                IF Family(t) = family /\ sess[t].status = "live"
                  THEN [sess[t] EXCEPT !.status = "revoked"] ELSE sess[t]]
  /\ killed' = killed \cup {family}
  /\ End(q)
  /\ UNCHANGED <<active, held, parent, ended, barred>>

CheckUser_AnyStatus(q) ==  \* mutant
  /\ req[q].pc = "user"
  /\ Goto(q, "issue")
  /\ UNCHANGED <<sess, active, history>>
CheckUser(q) ==
  /\ req[q].pc = "user"
  /\ IF req[q].user \in active THEN Goto(q, "issue") ELSE End(q)
  /\ UNCHANGED <<sess, active, history>>

IssueSession(q, t) ==
  /\ req[q].pc = "issue"
  /\ Insert(t, Family(req[q].token), req[q].user)
  /\ req' = [req EXCEPT ![q].pc = "revoke", ![q].new = t]
  /\ UNCHANGED <<active, history>>

\* The old row is updated by id.  When it has been deleted meanwhile the update
\* throws: the request fails and the new token is never sent.
RevokeOld_UpdateMany(q) ==  \* mutant
  /\ req[q].pc = "revoke"
  /\ sess' = [sess EXCEPT ![req[q].token].status = IF @ = "live" THEN "revoked" ELSE @]
  /\ parent' = [parent EXCEPT ![req[q].new] = req[q].token]
  /\ Goto(q, "reply")
  /\ UNCHANGED <<active, held, ended, killed, barred>>
RevokeOld(q) ==
  /\ req[q].pc = "revoke"
  /\ \/ /\ Exists(req[q].token)
        /\ sess' = [sess EXCEPT ![req[q].token].status = "revoked"]
        /\ parent' = [parent EXCEPT ![req[q].new] = req[q].token]
        /\ Goto(q, "reply")
     \/ /\ ~Exists(req[q].token)
        /\ End(q)
        /\ UNCHANGED <<sess, parent>>
  /\ UNCHANGED <<active, held, ended, killed, barred>>

Reply(q) ==
  /\ req[q].pc = "reply"
  /\ held' = held \cup {req[q].new}
  /\ End(q)
  /\ UNCHANGED <<sess, active, parent, ended, killed, barred>>

-----------------------------------------------------------------------------
(* POST /auth/logout and /auth/logout-all *)

ReadLogout(q, t) ==
  /\ t \in held
  /\ Exists(t)
  /\ Start(q, "delete", sess[t].user, t)
  /\ UNCHANGED <<sess, active, held, parent, ended, killed>>

\* Deleting a row that is already gone throws, and changes nothing.
DeleteSession(q) ==
  /\ req[q].pc = "delete"
  /\ sess' = [sess EXCEPT ![req[q].token].status = "deleted"]
  /\ End(q)
  /\ UNCHANGED <<active, history>>

Deletable(t, u) == Exists(t) /\ sess[t].user = u

\* One statement; the caller is known from the access token.
LogoutAll(u) ==
  /\ Serialized => \A q \in Requests : req[q] = IdleRequest
  /\ sess' = [t \in Tokens |-> IF Deletable(t, u) THEN [sess[t] EXCEPT !.status = "deleted"]
                                                  ELSE sess[t]]
  /\ ended' = ended \cup {Family(t) : t \in {s \in Tokens : sess[s].user = u}}
  /\ UNCHANGED <<active, req, held, parent, killed, barred>>

\* PATCH /users/:id/status: the sessions of the account are left alone.
ChangeStatus(u) ==
  /\ IF u \in active
       THEN active' = active \ {u} /\ UNCHANGED barred
       ELSE /\ active' = active \cup {u}
            /\ barred' = {q \in barred : req[q].user # u}
  /\ UNCHANGED <<sess, req, held, parent, ended, killed>>

\* The process exits, a statement throws, or the answer is lost.
Abort(q) ==
  /\ req[q] # IdleRequest
  /\ End(q)
  /\ UNCHANGED <<sess, active, history>>

-----------------------------------------------------------------------------
Next ==
  \/ \E q \in Requests :
       \/ \E u \in Users : Login(q, u)
       \/ \E t \in Tokens : \/ CreateSession(q, t) \/ IssueSession(q, t)
                            \/ ReadToken(q, t) \/ ReadLogout(q, t)
       \/ KillFamily(q) \/ CheckUser(q) \/ RevokeOld(q) \/ Reply(q)
       \/ DeleteSession(q)
       \/ Abort(q)
  \/ \E u \in Users : LogoutAll(u) \/ ChangeStatus(u)

Spec == Init /\ [][Next]_vars

-----------------------------------------------------------------------------
(* What holds whatever overtakes what *)

Usable(t) == t \in held /\ sess[t].status = "live"

\* Logout-all is final: once it has answered, no token of a family that existed
\* then can be exchanged any more, although a refresh that had already read its
\* row may still create a session: its second statement fails, and the new
\* token is never sent.
LogoutAllIsFinal == \A t \in Tokens : Usable(t) => Family(t) \notin ended

\* Deactivation bites: a request that began while its account was inactive, and
\* has been so since, creates no session, at whatever statement the account was
\* looked at.
InactiveGetsNothing == \A q \in barred : req[q].pc \notin {"create", "issue", "revoke", "reply"}

-----------------------------------------------------------------------------
(* What holds when requests do not overlap, even if they die half-way *)

\* Rotation: of the tokens of one login that a client has been sent, at most one
\* can be exchanged; two refreshes of one token do not both succeed.
OneUsablePerFamily ==
  \A t, u \in Tokens : Usable(t) /\ Usable(u) /\ Family(t) = Family(u) => t = u

\* Reuse detection is final: when a used token has come back, no token of its
\* family can be exchanged again.
ReuseIsFinal == \A t \in Tokens : Usable(t) => Family(t) \notin killed
=============================================================================
