------------------------- MODULE AuthSessionsProofs -------------------------
(***************************************************************************)
(* Proofs about AuthSessions, for any tokens, users and number of requests *)
(* in flight, however they overlap and die.                                *)
(***************************************************************************)
EXTENDS MCAuthSessions, TLAPS

\* The part of TypeOK that speaks of one request.
RequestOK(q) ==
  /\ req[q].pc \in {"create", "user", "issue", "revoke", "reply"} => req[q].user \in Users
  /\ req[q].pc \in {"kill", "user", "issue", "revoke", "delete"} => req[q].token \in Tokens
  /\ req[q].pc \in {"revoke", "reply"} => req[q].new \in Tokens

\* The part of TypeOK that speaks of requests.
RequestsOK == req \in [Requests -> Request] /\ \A q \in Requests : RequestOK(q)

\* The part of TypeOK that speaks of the table.
RowsOK ==
  /\ sess \in [Tokens -> Row]
  /\ \A t \in Tokens : sess[t].status # "none" => sess[t].family \in Tokens /\ sess[t].user \in Users

LEMMA IdleType == IdleRequest \in Request
  BY DEF IdleRequest, Request

LEMMA EndType ==
  ASSUME RequestsOK, NEW q \in Requests, End(q) PROVE RequestsOK'
  <1>1. req' \in [Requests -> Request]
    BY IdleType DEF RequestsOK, End
  <1>2. ASSUME NEW p \in Requests PROVE RequestOK(p)'
    <2>1. CASE p = q
      BY <2>1 DEF RequestsOK, RequestOK, End, IdleRequest
    <2>2. CASE p # q
      BY <2>2 DEF RequestsOK, RequestOK, End
    <2>. QED BY <2>1, <2>2
  <1>. QED BY <1>1, <1>2 DEF RequestsOK

\* A request is given a new record that is in order.
LEMMA SetType ==
  ASSUME RequestsOK, NEW q \in Requests, NEW r \in Request, req' = [req EXCEPT ![q] = r],
         /\ r.pc \in {"create", "user", "issue", "revoke", "reply"} => r.user \in Users
         /\ r.pc \in {"kill", "user", "issue", "revoke", "delete"} => r.token \in Tokens
         /\ r.pc \in {"revoke", "reply"} => r.new \in Tokens
  PROVE  RequestsOK'
  BY DEF RequestsOK, RequestOK

LEMMA InsertType ==
  ASSUME RowsOK, NEW t \in Tokens, NEW f \in Tokens, NEW u \in Users, Insert(t, f, u)
  PROVE  RowsOK'
  BY DEF RowsOK, Insert, Fresh, Row

\* A statement that only ever changes the status of existing rows.
StatusOnly ==
  \A t \in Tokens : /\ sess'[t].status \in {"none", "live", "revoked", "deleted"}
                    /\ sess'[t].family = sess[t].family /\ sess'[t].user = sess[t].user
                    /\ sess'[t].status = "none" <=> sess[t].status = "none"
                    /\ sess'[t].status = "live" => sess[t].status = "live"
                    /\ sess[t].status = "deleted" => sess'[t].status = "deleted"

LEMMA KillStatus ==
  ASSUME RowsOK, NEW q \in Requests, KillFamily(q)
  PROVE  sess' \in [Tokens -> Row] /\ StatusOnly
  <1>1. \A t \in Tokens : sess[t] \in Row
    BY DEF RowsOK
  <1>2. \A t \in Tokens : \/ sess'[t] = sess[t]
                          \/ /\ sess'[t] = [sess[t] EXCEPT !.status = "revoked"]
                             /\ sess[t].status = "live"
    BY DEF KillFamily
  <1>3. \A t \in Tokens : sess'[t] \in Row
    BY <1>1, <1>2 DEF Row
  <1>4. sess' = [t \in Tokens |-> sess'[t]]
    BY DEF KillFamily
  <1>5. StatusOnly
    BY <1>1, <1>2 DEF StatusOnly, Row
  <1>. QED BY <1>3, <1>4, <1>5

LEMMA LogoutAllStatus ==
  ASSUME RowsOK, NEW u \in Users, LogoutAll(u)
  PROVE  sess' \in [Tokens -> Row] /\ StatusOnly
  <1>1. \A t \in Tokens : sess[t] \in Row
    BY DEF RowsOK
  <1>2. \A t \in Tokens : \/ sess'[t] = sess[t]
                          \/ /\ sess'[t] = [sess[t] EXCEPT !.status = "deleted"]
                             /\ sess[t].status \in {"live", "revoked"}
    BY DEF LogoutAll, Deletable, Exists
  <1>3. \A t \in Tokens : sess'[t] \in Row
    BY <1>1, <1>2 DEF Row
  <1>4. sess' = [t \in Tokens |-> sess'[t]]
    BY DEF LogoutAll
  <1>5. StatusOnly
    BY <1>1, <1>2 DEF StatusOnly, Row
  <1>. QED BY <1>3, <1>4, <1>5

-----------------------------------------------------------------------------
(* What requests know, and what it takes to prove the properties *)

\* A family belongs to one user, and a token that a client holds has a row.
FamilyInv ==
  \A t \in Tokens :
    /\ sess[t].status = "none" => sess[t].user = None /\ t \notin held
    /\ sess[t].status # "none" => /\ sess[Family(t)].status # "none"
                                  /\ sess[Family(t)].user = sess[t].user

\* A refresh knows whose token it has read, and that the row is gone if the
\* family has been ended by a logout-all.
Knows(q) ==
  /\ req[q].pc \in {"kill", "user", "issue", "revoke", "delete"} => sess[req[q].token].status # "none"
  /\ req[q].pc \in {"user", "issue", "revoke"} =>
       /\ sess[req[q].token].user = req[q].user
       /\ Family(req[q].token) \in ended => ~Exists(req[q].token)
  /\ req[q].pc \in {"revoke", "reply"} => sess[req[q].new].status # "none"
  /\ req[q].pc = "revoke" => Family(req[q].new) = Family(req[q].token)

\* A live token of an ended family is an orphan: no client has it, none will.
Orphan(t) ==
  /\ t \notin held
  /\ \A q \in Requests :
       /\ req[q].pc = "reply" => req[q].new # t
       /\ req[q].pc = "revoke" /\ req[q].new = t => ~Exists(req[q].token)

EndedInv ==
  /\ \A f \in ended : sess[f].status # "none"
  /\ \A t \in Tokens : sess[t].status = "live" /\ Family(t) \in ended => Orphan(t)

\* A request that began after a deactivation has not passed the status check,
\* and its account is still inactive where that check comes next.
BarredInv ==
  \A q \in barred : /\ req[q].pc \notin {"create", "issue", "revoke", "reply"}
                    /\ req[q].pc = "user" => req[q].user \notin active

\* The inductive invariant.
Inv ==
  /\ TypeOK
  /\ FamilyInv
  /\ \A q \in Requests : Knows(q)
  /\ EndedInv
  /\ BarredInv

\* What a step has to keep besides the types.
Rest == FamilyInv /\ (\A q \in Requests : Knows(q)) /\ EndedInv /\ BarredInv

LEMMA TypeParts == TypeOK <=> /\ RowsOK /\ RequestsOK
                              /\ active \subseteq Users /\ held \subseteq Tokens
                              /\ parent \in [Tokens -> Tokens \cup {None}]
                              /\ ended \subseteq Tokens /\ killed \subseteq Tokens
                              /\ barred \subseteq Requests
  BY DEF TypeOK, RowsOK, RequestsOK, RequestOK

\* A step that keeps the table's and the requests' types keeps the rest.
LEMMA TypeStep ==
  ASSUME RowsOK', RequestsOK', active' \subseteq Users, held' \subseteq Tokens,
         parent' \in [Tokens -> Tokens \cup {None}], ended' \subseteq Tokens,
         killed' \subseteq Tokens, barred' \subseteq Requests
  PROVE  TypeOK'
  BY DEF TypeOK, RowsOK, RequestsOK, RequestOK

\* A change of status keeps the table's types.
LEMMA StatusType ==
  ASSUME RowsOK, StatusOnly, sess' \in [Tokens -> Row] PROVE RowsOK'
  BY DEF RowsOK, StatusOnly

LEMMA InitInv == ASSUME ConstantsAssumption, Init PROVE Inv
  <1>1. NoRow \in Row
    BY DEF NoRow, Row
  <1>2. TypeOK
    BY <1>1, IdleType DEF Init, TypeOK, NoRow, IdleRequest
  <1>. QED BY <1>2 DEF Init, Inv, FamilyInv, Knows, EndedInv, BarredInv, NoRow, IdleRequest

\* A row that was deleted, or never was, is not revived.
LEMMA NoRevival ==
  ASSUME Inv, StatusOnly, NEW t \in Tokens, sess'[t].status \in {"live", "revoked"}
  PROVE  sess[t].status \in {"live", "revoked"}
  <1>1. sess[t].status \in {"none", "live", "revoked", "deleted"}
    BY DEF Inv, TypeOK, Row
  <1>. QED BY <1>1 DEF StatusOnly

\* Unless families end, what a request knows survives every change of status.
LEMMA KnowsFrame ==
  ASSUME Inv, StatusOnly, ended' = ended, NEW p \in Requests, req'[p] = req[p]
  PROVE  Knows(p)'
  <1>1. \A t \in Tokens : /\ sess'[t].family = sess[t].family /\ sess'[t].user = sess[t].user
                          /\ sess'[t].status = "none" <=> sess[t].status = "none"
    BY DEF StatusOnly
  <1>2. \A t \in Tokens : sess'[t].status \in {"live", "revoked"}
                            => sess[t].status \in {"live", "revoked"}
    BY NoRevival
  <1>3. /\ req[p].pc \in {"kill", "user", "issue", "revoke", "delete"} => req[p].token \in Tokens
        /\ req[p].pc \in {"revoke", "reply"} => req[p].new \in Tokens
    BY DEF Inv, TypeOK
  <1>4. Knows(p)
    BY DEF Inv
  <1>. QED BY <1>1, <1>2, <1>3, <1>4 DEF Knows, Family, Exists

LEMMA FamilyFrame ==
  ASSUME Inv, StatusOnly, held' = held PROVE FamilyInv'
  <1>1. \A t \in Tokens : sess[t].status # "none" => Family(t) \in Tokens
    BY DEF Inv, TypeOK, Family
  <1>. QED BY <1>1 DEF Inv, FamilyInv, StatusOnly, Family

\* An orphan stays one when requests do not come closer to an answer.
LEMMA OrphanFrame ==
  ASSUME Inv, StatusOnly, NEW t \in Tokens, Orphan(t), held' = held,
         \A p \in Requests : req'[p] = req[p] \/ req'[p].pc \notin {"revoke", "reply"}
  PROVE  Orphan(t)'
  <1>1. ASSUME NEW p \in Requests
        PROVE  /\ req'[p].pc = "reply" => req'[p].new # t
               /\ (req'[p].pc = "revoke" /\ req'[p].new = t)
                    => sess'[req'[p].token].status \notin {"live", "revoked"}
    <2>1. CASE req'[p] = req[p]
      <3>1. req[p].pc = "revoke" => req[p].token \in Tokens
        BY DEF Inv, TypeOK
      <3>. QED BY <2>1, <3>1, NoRevival DEF Orphan, Exists
    <2>2. CASE req'[p].pc \notin {"revoke", "reply"}
      BY <2>2
    <2>. QED BY <2>1, <2>2
  <1>. QED BY <1>1 DEF Orphan, Exists

\* One request moves and promises nothing new to an orphan.
LEMMA MoveInv ==
  ASSUME Inv, StatusOnly, held' = held, ended' = ended, NEW q \in Requests, Knows(q)',
         req'[q].pc \notin {"revoke", "reply"},
         \A p \in Requests \ {q} : req'[p] = req[p]
  PROVE  FamilyInv' /\ (\A p \in Requests : Knows(p)') /\ EndedInv'
  <1>1. FamilyInv'
    BY FamilyFrame
  <1>2. \A p \in Requests : Knows(p)'
    BY KnowsFrame
  <1>3. \A t \in Tokens : Orphan(t) => Orphan(t)'
    BY OrphanFrame
  <1>4. EndedInv'
    BY <1>3 DEF Inv, TypeOK, EndedInv, StatusOnly, Family
  <1>. QED BY <1>1, <1>2, <1>4

\* A request that ends promises nothing.
LEMMA EndKnows ==
  ASSUME Inv, NEW q \in Requests, End(q)
  PROVE  /\ Knows(q)' /\ req'[q].pc = "idle"
         /\ \A p \in Requests \ {q} : req'[p] = req[p]
  BY DEF Inv, TypeOK, End, Knows, IdleRequest

LEMMA EndBarred ==
  ASSUME Inv, NEW q \in Requests, End(q), active' = active, barred' = barred
  PROVE  BarredInv'
  BY DEF Inv, TypeOK, End, BarredInv, IdleRequest

LEMMA SameRows == ASSUME Inv, sess' = sess PROVE StatusOnly
  BY DEF Inv, TypeOK, StatusOnly, Row

\* A request that ends without touching anything else.
LEMMA EndStep ==
  ASSUME Inv, NEW q \in Requests, End(q),
         UNCHANGED <<sess, active, held, parent, ended, killed, barred>>
  PROVE  TypeOK' /\ Rest'
  <1>1. StatusOnly
    BY SameRows
  <1>2. RowsOK'
    BY TypeParts DEF Inv, RowsOK
  <1>3. TypeOK'
    BY <1>2, EndType, TypeParts, TypeStep DEF Inv
  <1>. QED BY <1>1, <1>3, EndKnows, EndBarred, MoveInv DEF Rest

-----------------------------------------------------------------------------
(* One lemma per operation *)

LEMMA StartStep ==
  ASSUME ConstantsAssumption, Inv, NEW q \in Requests,
         \/ \E u \in Users : Login(q, u)
         \/ \E t \in Tokens : ReadToken(q, t) \/ ReadLogout(q, t)
  PROVE  TypeOK' /\ Rest'
  <1>1. PICK pc \in {"create", "kill", "user", "delete"}, v \in Users, k \in Tokens \cup {None} :
          /\ Start(q, pc, v, k)
          /\ pc # "create" => k \in held /\ Exists(k) /\ v = sess[k].user
          /\ pc = "user" => sess[k].status = "live"
          /\ pc = "create" => v \in active
    <2>1. CASE \E u \in Users : Login(q, u)
      BY <2>1 DEF Login
    <2>2. CASE \E t \in Tokens : ReadToken(q, t)
      <3>1. PICK t \in Tokens : ReadToken(q, t)
        BY <2>2
      <3>2. sess[t].user \in Users
        BY <3>1 DEF Inv, TypeOK, ReadToken, Exists
      <3>. QED BY <3>1, <3>2 DEF ReadToken, Exists
    <2>3. CASE \E t \in Tokens : ReadLogout(q, t)
      <3>1. PICK t \in Tokens : ReadLogout(q, t)
        BY <2>3
      <3>2. sess[t].user \in Users
        BY <3>1 DEF Inv, TypeOK, ReadLogout, Exists
      <3>. QED BY <3>1, <3>2 DEF ReadLogout
    <2>. QED BY <2>1, <2>2, <2>3
  <1>. DEFINE r == [pc |-> pc, user |-> v, token |-> k, new |-> None]
  <1>2. UNCHANGED <<sess, active, held, parent, ended, killed>>
    BY DEF Login, ReadToken, ReadLogout
  <1>3. req' = [req EXCEPT ![q] = r] /\ r \in Request
    BY <1>1 DEF Start, Request
  <1>4. pc # "create" => k \in Tokens
    BY <1>1 DEF Inv, TypeOK
  <1>5. req'[q] = r /\ \A p \in Requests \ {q} : req'[p] = req[p]
    BY <1>3 DEF Inv, TypeOK
  <1>6. TypeOK'
    <2>1. RequestsOK
      BY TypeParts DEF Inv
    <2>2. /\ r.pc \in {"create", "user", "issue", "revoke", "reply"} => r.user \in Users
          /\ r.pc \in {"kill", "user", "issue", "revoke", "delete"} => r.token \in Tokens
          /\ r.pc \in {"revoke", "reply"} => r.new \in Tokens
      BY <1>4
    <2>3. RequestsOK'
      BY <1>3, <2>1, <2>2, SetType
    <2>4. barred' \subseteq Requests
      BY <1>1 DEF Start, Inv, TypeOK
    <2>. QED BY <1>2, <2>3, <2>4 DEF Inv, TypeOK, RequestsOK, RequestOK
  <1>7. Knows(q)'
    <2>1. pc = "user" => Family(k) \notin ended
      BY <1>1, <1>4 DEF Inv, EndedInv, Orphan
    <2>. QED BY <1>1, <1>2, <1>4, <1>5, <2>1 DEF Knows, Family, Exists
  <1>8. BarredInv'
    BY <1>1, <1>2, <1>5 DEF Inv, TypeOK, BarredInv, Start
  <1>9. StatusOnly
    BY <1>2, SameRows
  <1>. QED BY <1>2, <1>5, <1>6, <1>7, <1>8, <1>9, MoveInv DEF Rest

\* A new row, for a family that was not ended or for a request that is doomed.
LEMMA InsertStep ==
  ASSUME ConstantsAssumption, Inv, NEW q \in Requests, NEW t \in Tokens,
         CreateSession(q, t) \/ IssueSession(q, t)
  PROVE  TypeOK' /\ Rest'
  <1>1. PICK f \in Tokens :
          /\ Insert(t, f, req[q].user)
          /\ req[q].user \in Users
          /\ \/ f = t /\ req[q].pc = "create" /\ req' = [req EXCEPT ![q].pc = "reply", ![q].new = t]
             \/ /\ req[q].pc = "issue" /\ req' = [req EXCEPT ![q].pc = "revoke", ![q].new = t]
                /\ f = Family(req[q].token) /\ req[q].token \in Tokens
    <2>1. CASE CreateSession(q, t)
      BY <2>1 DEF Inv, TypeOK, CreateSession
    <2>2. CASE IssueSession(q, t)
      <3>1. req[q].token \in Tokens /\ sess[req[q].token].status # "none" /\ req[q].user \in Users
        BY <2>2 DEF Inv, TypeOK, Knows, IssueSession
      <3>2. Family(req[q].token) \in Tokens
        BY <3>1 DEF Inv, TypeOK, Family
      <3>. QED BY <2>2, <3>1, <3>2 DEF IssueSession
    <2>. QED BY <2>1, <2>2
  <1>2. UNCHANGED <<active, held, parent, ended, killed, barred>>
    BY DEF CreateSession, IssueSession, history
  <1>3. /\ sess[t].status = "none"
        /\ sess' = [sess EXCEPT ![t] = [status |-> "live", family |-> f, user |-> req[q].user]]
    BY <1>1 DEF Insert, Fresh, NoRow
  <1>4. /\ sess'[t] = [status |-> "live", family |-> f, user |-> req[q].user]
        /\ \A s \in Tokens \ {t} : sess'[s] = sess[s]
    BY <1>3 DEF Inv, TypeOK
  <1>. DEFINE pc == IF req[q].pc = "create" THEN "reply" ELSE "revoke"
              r == [pc |-> pc, user |-> req[q].user, token |-> req[q].token, new |-> t]
  <1>5. req' = [req EXCEPT ![q] = r] /\ r \in Request
    BY <1>1 DEF Inv, TypeOK, Request
  <1>6. req'[q] = r /\ \A p \in Requests \ {q} : req'[p] = req[p]
    BY <1>5 DEF Inv, TypeOK
  <1>7. TypeOK'
    <2>1. RowsOK' /\ RequestsOK
      BY <1>1, InsertType, TypeParts DEF Inv
    <2>2. RequestsOK'
      BY <1>1, <1>5, <2>1, SetType
    <2>. QED BY <1>2, <2>1, <2>2 DEF Inv, TypeOK, RowsOK, RequestsOK, RequestOK
  <1>8. FamilyInv'
    <2>1. ASSUME NEW s \in Tokens \ {t}, sess[s].status # "none"
          PROVE  /\ sess'[sess'[s].family].status # "none"
                 /\ sess'[sess'[s].family].user = sess'[s].user
      <3>1. sess[s].family \in Tokens \ {t}
        BY <1>3, <2>1 DEF Inv, TypeOK, FamilyInv, Family
      <3>. QED BY <1>4, <2>1, <3>1 DEF Inv, FamilyInv, Family
    <2>2. sess'[f].status # "none" /\ sess'[f].user = req[q].user
      <3>1. CASE f = t
        BY <1>4, <3>1
      <3>2. CASE f # t
        <4>1. /\ f = Family(req[q].token) /\ req[q].token \in Tokens
              /\ sess[req[q].token].status # "none" /\ sess[req[q].token].user = req[q].user
          BY <1>1, <3>2 DEF Inv, Knows
        <4>. QED BY <1>4, <3>2, <4>1 DEF Inv, FamilyInv
      <3>. QED BY <3>1, <3>2
    <2>3. t \notin held => t \notin held'
      BY <1>2
    <2>. QED BY <1>2, <1>4, <2>1, <2>2 DEF Inv, FamilyInv, Family
  <1>9. ASSUME NEW p \in Requests PROVE Knows(p)'
    <2>1. CASE p = q
      <3>1. CASE f = t /\ req[q].pc = "create"
        BY <1>4, <1>6, <2>1, <3>1 DEF Knows
      <3>2. CASE req[q].pc = "issue" /\ f = Family(req[q].token) /\ req[q].token \in Tokens
        <4>1. req[q].token # t
          BY <1>3, <3>2 DEF Inv, Knows
        <4>. QED BY <1>2, <1>4, <1>6, <2>1, <3>2, <4>1 DEF Inv, Knows, Family, Exists
      <3>. QED BY <1>1, <3>1, <3>2
    <2>2. CASE p # q
      <3>1. req'[p] = req[p]
        BY <1>6, <2>2
      <3>2. req[p].pc \in {"kill", "user", "issue", "revoke", "delete"}
                => req[p].token \in Tokens \ {t}
        BY <1>3 DEF Inv, TypeOK, Knows
      <3>3. req[p].pc \in {"revoke", "reply"} => req[p].new \in Tokens \ {t}
        BY <1>3 DEF Inv, TypeOK, Knows
      <3>. QED BY <1>2, <1>4, <3>1, <3>2, <3>3 DEF Inv, Knows, Family, Exists
    <2>. QED BY <2>1, <2>2
  <1>10. EndedInv'
    <2>1. \A e \in ended' : sess'[e].status # "none"
      BY <1>2, <1>4 DEF Inv, TypeOK, EndedInv
    <2>2. ASSUME NEW s \in Tokens, sess'[s].status = "live", sess'[s].family \in ended
          PROVE  /\ s \notin held'
                 /\ \A p \in Requests :
                      /\ req'[p].pc = "reply" => req'[p].new # s
                      /\ (req'[p].pc = "revoke" /\ req'[p].new = s)
                           => sess'[req'[p].token].status \notin {"live", "revoked"}
      <3>1. CASE s = t
        <4>1. f # t /\ f \in ended
          BY <1>3, <1>4, <2>2, <3>1 DEF Inv, EndedInv
        <4>2. /\ req[q].pc = "issue" /\ f = Family(req[q].token) /\ req[q].token \in Tokens
              /\ req[q].token # t
          BY <1>1, <1>3, <4>1 DEF Inv, Knows
        <4>3. sess'[req[q].token].status \notin {"live", "revoked"}
          BY <1>4, <4>1, <4>2 DEF Inv, Knows, Exists
        <4>4. \A p \in Requests \ {q} : req[p].pc \in {"revoke", "reply"} => req[p].new # t
          BY <1>3 DEF Inv, Knows
        <4>5. t \notin held'
          BY <1>2, <1>3 DEF Inv, FamilyInv
        <4>. QED BY <1>6, <3>1, <4>2, <4>3, <4>4, <4>5
      <3>2. CASE s # t
        <4>1. Orphan(s)
          BY <1>4, <2>2, <3>2 DEF Inv, EndedInv, Family
        <4>2. \A p \in Requests \ {q} : req[p].pc = "revoke" => req[p].token \in Tokens \ {t}
          BY <1>3 DEF Inv, TypeOK, Knows
        <4>. QED BY <1>2, <1>4, <1>6, <3>2, <4>1, <4>2 DEF Orphan, Exists
      <3>. QED BY <3>1, <3>2
    <2>. QED BY <1>2, <2>1, <2>2 DEF EndedInv, Orphan, Family, Exists
  <1>11. BarredInv'
    BY <1>1, <1>2, <1>6 DEF Inv, TypeOK, BarredInv
  <1>. QED BY <1>7, <1>8, <1>9, <1>10, <1>11 DEF Rest

LEMMA KillStep ==
  ASSUME ConstantsAssumption, Inv, NEW q \in Requests, KillFamily(q)
  PROVE  TypeOK' /\ Rest'
  <1>1. sess' \in [Tokens -> Row] /\ StatusOnly
    BY KillStatus, TypeParts DEF Inv
  <1>2. End(q) /\ UNCHANGED <<active, held, parent, ended, barred>>
    BY DEF KillFamily
  <1>3. killed' \subseteq Tokens
    <2>1. Family(req[q].token) \in Tokens \cup {None} /\ req[q].token \in Tokens
      BY DEF Inv, TypeOK, KillFamily, Family, Row
    <2>2. sess[req[q].token].status # "none" => Family(req[q].token) \in Tokens
      BY <2>1 DEF Inv, TypeOK, Family
    <2>. QED BY <2>1, <2>2 DEF Inv, TypeOK, KillFamily, Knows
  <1>4. TypeOK'
    BY <1>1, <1>2, <1>3, EndType, StatusType, TypeParts, TypeStep DEF Inv
  <1>. QED BY <1>1, <1>2, <1>4, EndKnows, EndBarred, MoveInv DEF Rest

\* The status check, and everything that ends a request without touching a row.
LEMMA CheckStep ==
  ASSUME ConstantsAssumption, Inv, NEW q \in Requests, CheckUser(q)
  PROVE  TypeOK' /\ Rest'
  <1>1. StatusOnly /\ UNCHANGED <<sess, active, history>>
    BY SameRows DEF CheckUser
  <1>2. CASE End(q)
    BY <1>1, <1>2, EndStep DEF history
  <1>3. CASE req[q].user \in active /\ Goto(q, "issue")
    <2>. DEFINE r == [req[q] EXCEPT !.pc = "issue"]
    <2>1. req[q].pc = "user" /\ req[q] \in Request
      BY DEF CheckUser, Inv, TypeOK
    <2>2. r \in Request /\ r.pc = "issue" /\ r.user = req[q].user /\ r.token = req[q].token
      BY <2>1 DEF Request
    <2>3. req' = [req EXCEPT ![q] = r] /\ req'[q] = r /\ \A p \in Requests \ {q} : req'[p] = req[p]
      BY <1>3 DEF Goto, Inv, TypeOK
    <2>4. RequestsOK'
      BY <2>1, <2>2, <2>3, SetType, TypeParts DEF Inv, TypeOK
    <2>5. Knows(q)'
      BY <1>1, <2>1, <2>2, <2>3 DEF Inv, Knows, Family, Exists, history
    <2>6. q \notin barred
      BY <1>3, <2>1 DEF Inv, BarredInv
    <2>7. BarredInv'
      BY <1>1, <2>3, <2>6 DEF Inv, TypeOK, BarredInv, history
    <2>8. TypeOK'
      BY <1>1, <2>4, TypeParts, TypeStep DEF Inv, RowsOK, history
    <2>. QED BY <1>1, <2>2, <2>3, <2>5, <2>7, <2>8, MoveInv DEF Rest, history
  <1>. QED BY <1>2, <1>3 DEF CheckUser

\* The second statement of a rotation: it finds the old row, or fails.
LEMMA RevokeStep ==
  ASSUME ConstantsAssumption, Inv, NEW q \in Requests, RevokeOld(q)
  PROVE  TypeOK' /\ Rest'
  <1>1. CASE ~Exists(req[q].token) /\ End(q) /\ UNCHANGED <<sess, parent>>
    BY <1>1, EndStep DEF RevokeOld
  <1>2. CASE /\ Exists(req[q].token)
             /\ sess' = [sess EXCEPT ![req[q].token].status = "revoked"]
             /\ parent' = [parent EXCEPT ![req[q].new] = req[q].token]
             /\ Goto(q, "reply")
    <2>. DEFINE old == req[q].token
                new == req[q].new
                r == [req[q] EXCEPT !.pc = "reply"]
    <2>1. /\ req[q].pc = "revoke" /\ req[q] \in Request /\ old \in Tokens /\ new \in Tokens
          /\ req[q].user \in Users
      BY DEF RevokeOld, Inv, TypeOK
    <2>2. r \in Request /\ r.pc = "reply" /\ r.user = req[q].user /\ r.new = new
      BY <2>1 DEF Request
    <2>3. req' = [req EXCEPT ![q] = r] /\ req'[q] = r /\ \A p \in Requests \ {q} : req'[p] = req[p]
      BY <1>2 DEF Goto, Inv, TypeOK
    <2>4. UNCHANGED <<active, held, ended, killed, barred>>
      BY DEF RevokeOld
    <2>5. StatusOnly /\ sess' \in [Tokens -> Row]
      <3>1. \A t \in Tokens : sess[t] \in Row
        BY DEF Inv, TypeOK
      <3>2. [sess[old] EXCEPT !.status = "revoked"] \in Row
        BY <2>1, <3>1 DEF Row
      <3>3. sess' = [sess EXCEPT ![old] = [sess[old] EXCEPT !.status = "revoked"]]
        BY <1>2 DEF Inv, TypeOK
      <3>4. /\ sess'[old] = [sess[old] EXCEPT !.status = "revoked"]
            /\ \A t \in Tokens \ {old} : sess'[t] = sess[t]
            /\ sess' \in [Tokens -> Row]
        BY <2>1, <3>2, <3>3 DEF Inv, TypeOK
      <3>. QED BY <1>2, <2>1, <3>1, <3>4 DEF StatusOnly, Exists, Row
    <2>6. TypeOK'
      <3>1. RequestsOK'
        BY <2>1, <2>2, <2>3, SetType, TypeParts DEF Inv
      <3>2. parent' \in [Tokens -> Tokens \cup {None}]
        BY <1>2, <2>1 DEF Inv, TypeOK
      <3>. QED BY <2>4, <2>5, <3>1, <3>2, StatusType, TypeParts, TypeStep DEF Inv
    <2>7. FamilyInv'
      BY <2>4, <2>5, FamilyFrame
    <2>8. ASSUME NEW p \in Requests PROVE Knows(p)'
      <3>1. CASE p = q
        <4>1. sess'[new].status # "none"
          BY <2>1, <2>5 DEF Inv, Knows, StatusOnly
        <4>. QED BY <2>2, <2>3, <3>1, <4>1 DEF Knows
      <3>2. CASE p # q
        BY <2>3, <2>4, <2>5, <3>2, KnowsFrame
      <3>. QED BY <3>1, <3>2
    <2>9. EndedInv'
      <3>1. ASSUME NEW t \in Tokens, Orphan(t)
            PROVE  Orphan(t)'
        <4>1. new # t
          BY <1>2, <2>1, <3>1 DEF Orphan
        <4>2. ASSUME NEW p \in Requests \ {q}, req[p].pc = "revoke"
              PROVE  sess'[req[p].token].status \in {"live", "revoked"} => Exists(req[p].token)
          <5>1. req[p].token \in Tokens
            BY <4>2 DEF Inv, TypeOK
          <5>. QED BY <2>5, <5>1, NoRevival DEF Exists
        <4>. QED BY <2>2, <2>3, <2>4, <3>1, <4>1, <4>2 DEF Orphan, Exists
      <3>. QED BY <2>4, <2>5, <3>1 DEF Inv, TypeOK, EndedInv, StatusOnly, Family
    <2>10. BarredInv'
      BY <2>1, <2>3, <2>4 DEF Inv, TypeOK, BarredInv
    <2>. QED BY <2>6, <2>7, <2>8, <2>9, <2>10 DEF Rest
  <1>. QED BY <1>1, <1>2 DEF RevokeOld

\* The answer: the token it carries is no orphan.
LEMMA ReplyStep ==
  ASSUME ConstantsAssumption, Inv, NEW q \in Requests, Reply(q)
  PROVE  TypeOK' /\ Rest'
  <1>. DEFINE new == req[q].new
  <1>1. /\ new \in Tokens /\ sess[new].status # "none" /\ ~Orphan(new)
    BY DEF Reply, Inv, TypeOK, Knows, Orphan
  <1>2. End(q) /\ held' = held \cup {new}
        /\ UNCHANGED <<sess, active, parent, ended, killed, barred>>
    BY DEF Reply
  <1>3. StatusOnly
    BY <1>2, SameRows
  <1>4. TypeOK'
    <2>1. RowsOK'
      BY <1>2, TypeParts DEF Inv, RowsOK
    <2>. QED BY <1>1, <1>2, <2>1, EndType, TypeParts, TypeStep DEF Inv
  <1>5. req'[q].pc = "idle" /\ Knows(q)' /\ \A p \in Requests \ {q} : req'[p] = req[p]
    BY <1>2, EndKnows
  <1>6. \A p \in Requests : Knows(p)'
    BY <1>2, <1>3, <1>5, KnowsFrame
  <1>7. FamilyInv'
    BY <1>1, <1>2 DEF Inv, FamilyInv, Family
  <1>8. EndedInv'
    <2>1. \A t \in Tokens \ {new} : Orphan(t) => Orphan(t)'
      BY <1>2, <1>5 DEF Orphan, Exists
    <2>. QED BY <1>1, <1>2, <2>1 DEF Inv, EndedInv, Family
  <1>. QED BY <1>2, <1>4, <1>6, <1>7, <1>8, EndBarred DEF Rest

LEMMA DeleteStep ==
  ASSUME ConstantsAssumption, Inv, NEW q \in Requests, DeleteSession(q)
  PROVE  TypeOK' /\ Rest'
  <1>. DEFINE old == req[q].token
  <1>1. End(q) /\ UNCHANGED <<active, held, parent, ended, killed, barred>>
    BY DEF DeleteSession, history
  <1>2. old \in Tokens /\ sess[old].status # "none"
    BY DEF DeleteSession, Inv, TypeOK, Knows
  <1>3. StatusOnly /\ sess' \in [Tokens -> Row]
    <2>1. \A t \in Tokens : sess[t] \in Row
      BY DEF Inv, TypeOK
    <2>2. [sess[old] EXCEPT !.status = "deleted"] \in Row
      BY <1>2, <2>1 DEF Row
    <2>3. /\ sess'[old] = [sess[old] EXCEPT !.status = "deleted"]
          /\ \A t \in Tokens \ {old} : sess'[t] = sess[t]
          /\ sess' \in [Tokens -> Row]
      BY <1>2, <2>2 DEF Inv, TypeOK, DeleteSession
    <2>. QED BY <1>2, <2>1, <2>3 DEF StatusOnly, Row
  <1>4. TypeOK'
    BY <1>1, <1>3, EndType, StatusType, TypeParts, TypeStep DEF Inv
  <1>. QED BY <1>1, <1>3, <1>4, EndKnows, EndBarred, MoveInv DEF Rest

\* Logout-all ends the user's families and deletes every row of theirs.
LEMMA LogoutAllStep ==
  ASSUME ConstantsAssumption, Inv, NEW u \in Users, LogoutAll(u)
  PROVE  TypeOK' /\ Rest'
  <1>1. StatusOnly /\ sess' \in [Tokens -> Row]
    BY LogoutAllStatus, TypeParts DEF Inv
  <1>2. UNCHANGED <<active, req, held, parent, killed, barred>>
    BY DEF LogoutAll
  <1>3. \A t \in Tokens : sess[t].user = u => sess[t].status # "none" /\ Family(t) \in Tokens
    BY DEF ConstantsAssumption, Inv, TypeOK, FamilyInv, Family
  <1>4. ASSUME NEW f \in ended'
        PROVE  f \in Tokens /\ sess[f].status # "none" /\ (f \in ended \/ sess[f].user = u)
    <2>1. CASE f \in ended
      BY <2>1 DEF Inv, TypeOK, EndedInv
    <2>2. CASE f \notin ended
      <3>1. PICK s \in Tokens : sess[s].user = u /\ Family(s) = f
        BY <1>4, <2>2 DEF LogoutAll
      <3>. QED BY <1>3, <3>1 DEF Inv, FamilyInv
    <2>. QED BY <2>1, <2>2
  <1>5. ASSUME NEW t \in Tokens, sess[t].user = u
        PROVE  sess'[t].status \notin {"live", "revoked"}
    BY <1>5 DEF LogoutAll, Deletable, Exists, Inv, TypeOK, Row
  <1>6. ASSUME NEW t \in Tokens, sess[t].status # "none", Family(t) \in ended', Family(t) \notin ended
        PROVE  sess'[t].status \notin {"live", "revoked"}
    BY <1>4, <1>5, <1>6 DEF Inv, FamilyInv
  <1>7. TypeOK'
    <2>1. RequestsOK'
      BY <1>2, TypeParts DEF Inv, RequestsOK, RequestOK
    <2>. QED BY <1>1, <1>2, <1>4, <2>1, StatusType, TypeParts, TypeStep DEF Inv
  <1>8. FamilyInv'
    BY <1>1, <1>2, FamilyFrame
  <1>9. ASSUME NEW p \in Requests PROVE Knows(p)'
    <2>1. /\ req[p].pc \in {"kill", "user", "issue", "revoke", "delete"} => req[p].token \in Tokens
          /\ req[p].pc \in {"revoke", "reply"} => req[p].new \in Tokens
      BY DEF Inv, TypeOK
    <2>2. \A t \in Tokens : /\ sess'[t].family = sess[t].family /\ sess'[t].user = sess[t].user
                            /\ sess'[t].status = "none" <=> sess[t].status = "none"
      BY <1>1 DEF StatusOnly
    <2>3. Knows(p)
      BY DEF Inv
    <2>4. ASSUME req[p].pc \in {"user", "issue", "revoke"}, Family(req[p].token) \in ended'
          PROVE  sess'[req[p].token].status \notin {"live", "revoked"}
      <3>1. CASE Family(req[p].token) \in ended
        BY <1>1, <2>1, <2>3, <2>4, <3>1, NoRevival DEF Knows, Exists
      <3>2. CASE Family(req[p].token) \notin ended
        BY <1>6, <2>1, <2>3, <2>4, <3>2 DEF Knows
      <3>. QED BY <3>1, <3>2
    <2>. QED BY <1>2, <2>1, <2>2, <2>3, <2>4 DEF Knows, Family, Exists
  <1>10. EndedInv'
    <2>1. \A f \in ended' : sess'[f].status # "none"
      BY <1>1, <1>4 DEF StatusOnly
    <2>2. ASSUME NEW t \in Tokens, sess'[t].status = "live", sess'[t].family \in ended'
          PROVE  Orphan(t)'
      <3>1. sess[t].status = "live" /\ Family(t) \in ended'
        BY <1>1, <2>2 DEF StatusOnly, Family
      <3>2. Orphan(t)
        BY <1>6, <2>2, <3>1 DEF Inv, EndedInv
      <3>. QED BY <1>1, <1>2, <3>2, OrphanFrame
    <2>. QED BY <2>1, <2>2 DEF EndedInv, Family
  <1>11. BarredInv'
    BY <1>2 DEF Inv, BarredInv
  <1>. QED BY <1>7, <1>8, <1>9, <1>10, <1>11 DEF Rest

LEMMA StatusStep ==
  ASSUME ConstantsAssumption, Inv, NEW u \in Users, ChangeStatus(u)
  PROVE  TypeOK' /\ Rest'
  <1>1. UNCHANGED <<sess, req, held, parent, ended, killed>>
    BY DEF ChangeStatus
  <1>2. TypeOK'
    BY <1>1 DEF Inv, TypeOK, ChangeStatus
  <1>3. BarredInv'
    BY <1>1 DEF Inv, BarredInv, ChangeStatus
  <1>4. FamilyInv' /\ (\A p \in Requests : Knows(p)') /\ EndedInv'
    BY <1>1 DEF Inv, FamilyInv, Knows, EndedInv, Orphan, Family, Exists
  <1>. QED BY <1>2, <1>3, <1>4 DEF Rest

LEMMA AbortStep ==
  ASSUME ConstantsAssumption, Inv, NEW q \in Requests, Abort(q)
  PROVE  TypeOK' /\ Rest'
  BY EndStep DEF Abort, history

LEMMA NextInv ==
  ASSUME ConstantsAssumption, Inv, [Next]_vars PROVE Inv'
  <1>1. CASE UNCHANGED vars
    BY <1>1 DEF Inv, TypeOK, FamilyInv, Knows, EndedInv, BarredInv, Orphan, Family, Exists, vars, history
  <1>2. CASE Next
    <2>1. CASE \E u \in Users : LogoutAll(u) \/ ChangeStatus(u)
      BY <2>1, LogoutAllStep, StatusStep DEF Inv, Rest
    <2>2. ASSUME NEW q \in Requests,
                 \/ \E u \in Users : Login(q, u)
                 \/ \E t \in Tokens : \/ CreateSession(q, t) \/ IssueSession(q, t)
                                      \/ ReadToken(q, t) \/ ReadLogout(q, t)
                 \/ KillFamily(q) \/ CheckUser(q) \/ RevokeOld(q) \/ Reply(q)
                 \/ DeleteSession(q)
                 \/ Abort(q)
          PROVE  Inv'
      <3>1. CASE \E u \in Users : Login(q, u)
        BY <3>1, StartStep DEF Inv, Rest
      <3>2. CASE \E t \in Tokens : CreateSession(q, t) \/ IssueSession(q, t)
        BY <3>2, InsertStep DEF Inv, Rest
      <3>3. CASE \E t \in Tokens : ReadToken(q, t) \/ ReadLogout(q, t)
        BY <3>3, StartStep DEF Inv, Rest
      <3>4. CASE KillFamily(q) \/ CheckUser(q) \/ RevokeOld(q)
        BY <3>4, KillStep, CheckStep, RevokeStep DEF Inv, Rest
      <3>5. CASE Reply(q) \/ DeleteSession(q) \/ Abort(q)
        BY <3>5, ReplyStep, DeleteStep, AbortStep DEF Inv, Rest
      <3>. QED BY <2>2, <3>1, <3>2, <3>3, <3>4, <3>5
    <2>. QED BY <1>2, <2>1, <2>2 DEF Next
  <1>. QED BY <1>1, <1>2

\* The inductive invariant holds throughout.
THEOREM InvCorrect == Spec => []Inv
  <1>1. Init => Inv
    BY InitInv, ConstantsAssumption
  <1>2. Inv /\ [Next]_vars => Inv'
    BY NextInv, ConstantsAssumption
  <1>. QED BY <1>1, <1>2, PTL DEF Spec

\* The table and every request in flight keep their types.
THEOREM TypeCorrect == Spec => []TypeOK
  <1>1. Inv => TypeOK
    BY DEF Inv
  <1>. QED BY <1>1, InvCorrect, PTL

\* No token of a family that a logout-all has ended can ever be exchanged.
THEOREM LogoutAllIsFinalCorrect == Spec => []LogoutAllIsFinal
  <1>1. Inv => LogoutAllIsFinal
    BY DEF Inv, EndedInv, Orphan, LogoutAllIsFinal, Usable
  <1>. QED BY <1>1, InvCorrect, PTL

\* A request that began after its account was deactivated creates no session.
THEOREM InactiveGetsNothingCorrect == Spec => []InactiveGetsNothing
  <1>1. Inv => InactiveGetsNothing
    BY DEF Inv, BarredInv, InactiveGetsNothing
  <1>. QED BY <1>1, InvCorrect, PTL
-----------------------------------------------------------------------------
(* Requests that do not overlap, even if they die half-way *)

Alone == \A q \in Requests : req[q] = IdleRequest

\* What a serialized step is, besides a step.
LEMMA SerialStart ==
  ASSUME NEW q \in Requests, NEW pc, NEW u, NEW t, Serial!Start(q, pc, u, t)
  PROVE  Start(q, pc, u, t) /\ Alone
  BY DEF Serial!Start, Serial!MayStart, Serial!IdleRequest, Start, MayStart, IdleRequest, Alone

LEMMA SerialLogin ==
  ASSUME NEW q \in Requests, NEW u \in Users, Serial!Login(q, u) PROVE Login(q, u) /\ Alone
  BY SerialStart DEF Serial!Login, Login

LEMMA SerialReadToken ==
  ASSUME NEW q \in Requests, NEW t \in Tokens, Serial!ReadToken(q, t) PROVE ReadToken(q, t) /\ Alone
  BY SerialStart DEF Serial!ReadToken, Serial!Exists, ReadToken, Exists

LEMMA SerialReadLogout ==
  ASSUME NEW q \in Requests, NEW t \in Tokens, Serial!ReadLogout(q, t) PROVE ReadLogout(q, t) /\ Alone
  BY SerialStart DEF Serial!ReadLogout, Serial!Exists, ReadLogout, Exists

LEMMA SerialLogoutAll ==
  ASSUME NEW u \in Users, Serial!LogoutAll(u) PROVE LogoutAll(u) /\ Alone
  BY DEF Serial!LogoutAll, Serial!IdleRequest, Serial!Deletable, Serial!Exists, Serial!Family,
         LogoutAll, IdleRequest, Deletable, Exists, Family, Alone

\* The operations that only go on with a request are the same.
LEMMA SerialRest ==
  ASSUME NEW q \in Requests
  PROVE  /\ \A t \in Tokens : /\ Serial!CreateSession(q, t) <=> CreateSession(q, t)
                              /\ Serial!IssueSession(q, t) <=> IssueSession(q, t)
         /\ Serial!KillFamily(q) <=> KillFamily(q)
         /\ Serial!CheckUser(q) <=> CheckUser(q)
         /\ Serial!RevokeOld(q) <=> RevokeOld(q)
         /\ Serial!Reply(q) <=> Reply(q)
         /\ Serial!DeleteSession(q) <=> DeleteSession(q)
         /\ Serial!Abort(q) <=> Abort(q)
  <1>. USE DEF Serial!Family, Family, Serial!Exists, Exists, Serial!history, history,
               Serial!End, End, Serial!IdleRequest, IdleRequest, Serial!Goto, Goto
  <1>1. \A t \in Tokens : Serial!CreateSession(q, t) <=> CreateSession(q, t)
    BY DEF Serial!CreateSession, CreateSession, Serial!Insert, Insert, Serial!Fresh, Fresh, Serial!NoRow, NoRow
  <1>2. \A t \in Tokens : Serial!IssueSession(q, t) <=> IssueSession(q, t)
    BY DEF Serial!IssueSession, IssueSession, Serial!Insert, Insert, Serial!Fresh, Fresh, Serial!NoRow, NoRow
  <1>3. Serial!KillFamily(q) <=> KillFamily(q)
    BY DEF Serial!KillFamily, KillFamily
  <1>4. Serial!CheckUser(q) <=> CheckUser(q)
    BY DEF Serial!CheckUser, CheckUser
  <1>5. Serial!RevokeOld(q) <=> RevokeOld(q)
    BY DEF Serial!RevokeOld, RevokeOld
  <1>6. Serial!Reply(q) <=> Reply(q)
    BY DEF Serial!Reply, Reply
  <1>7. (Serial!DeleteSession(q) <=> DeleteSession(q)) /\ (Serial!Abort(q) <=> Abort(q))
    BY DEF Serial!DeleteSession, DeleteSession, Serial!Abort, Abort
  <1>. QED BY <1>1, <1>2, <1>3, <1>4, <1>5, <1>6, <1>7

LEMMA SerialStatus == ASSUME NEW u \in Users PROVE Serial!ChangeStatus(u) <=> ChangeStatus(u)
  BY DEF Serial!ChangeStatus, ChangeStatus

\* A serialized step is a step.
LEMMA SerialIsStep == Serial!Next => Next
  BY SerialLogin, SerialReadToken, SerialReadLogout, SerialLogoutAll, SerialRest, SerialStatus
     DEF Serial!Next, Next

\* Where requests are serialized, a step is a serialized step.
LEMMA StepIsSerial == ASSUME Serialized PROVE Next => Serial!Next
  <1>1. ASSUME NEW q \in Requests, NEW pc, NEW u, NEW t, Start(q, pc, u, t)
        PROVE  Serial!Start(q, pc, u, t)
    BY <1>1 DEF Serial!Start, Serial!MayStart, Serial!IdleRequest, Start, MayStart, IdleRequest
  <1>2. ASSUME NEW q \in Requests, NEW u \in Users, Login(q, u) PROVE Serial!Login(q, u)
    BY <1>1, <1>2 DEF Serial!Login, Login
  <1>3. ASSUME NEW q \in Requests, NEW t \in Tokens, ReadToken(q, t) PROVE Serial!ReadToken(q, t)
    BY <1>1, <1>3 DEF Serial!ReadToken, Serial!Exists, ReadToken, Exists
  <1>4. ASSUME NEW q \in Requests, NEW t \in Tokens, ReadLogout(q, t) PROVE Serial!ReadLogout(q, t)
    BY <1>1, <1>4 DEF Serial!ReadLogout, Serial!Exists, ReadLogout, Exists
  <1>5. ASSUME NEW u \in Users, LogoutAll(u) PROVE Serial!LogoutAll(u)
    BY <1>5 DEF Serial!LogoutAll, Serial!IdleRequest, Serial!Deletable, Serial!Exists, Serial!Family,
                LogoutAll, IdleRequest, Deletable, Exists, Family
  <1>. QED BY <1>2, <1>3, <1>4, <1>5, SerialRest, SerialStatus DEF Serial!Next, Next

-----------------------------------------------------------------------------
\* A rotation has read a token that a client can use, and it stays usable until
\* it is revoked; the token that is to replace it has not been sent before.
Rotates(q) ==
  /\ req[q].pc \in {"user", "issue", "revoke"} => Usable(req[q].token)
  /\ req[q].pc = "revoke" => req[q].new \notin held
  /\ req[q].pc = "reply" => \A t \in Tokens : Usable(t) => Family(t) # Family(req[q].new)

\* A family that was revoked for reuse has no live token, sent or not.
KilledInv ==
  /\ \A f \in killed : sess[f].status # "none"
  /\ \A t \in Tokens : sess[t].status = "live" => Family(t) \notin killed

AtMostOne == \A p, q \in Requests : req[p] # IdleRequest /\ req[q] # IdleRequest => p = q

\* What serialized requests keep besides Inv.
SerialInv ==
  /\ AtMostOne
  /\ OneUsablePerFamily
  /\ \A q \in Requests : Rotates(q)
  /\ KilledInv

\* An idle request promises nothing.
LEMMA IdleRotates ==
  ASSUME NEW q \in Requests, req[q] = IdleRequest PROVE Rotates(q)
  BY DEF Rotates, IdleRequest

\* When one request is under way the others are idle, before and after its step.
LEMMA OthersIdle ==
  ASSUME AtMostOne, NEW q \in Requests, req[q] # IdleRequest, NEW p \in Requests \ {q}
  PROVE  req[p] = IdleRequest
  BY DEF AtMostOne

\* A step of the only request under way.
LEMMA OneMoves ==
  ASSUME NEW q \in Requests, \A p \in Requests \ {q} : req'[p] = IdleRequest,
         OneUsablePerFamily', Rotates(q)', KilledInv'
  PROVE  SerialInv'
  <1>1. \A p \in Requests \ {q} : Rotates(p)'
    BY DEF Rotates, IdleRequest
  <1>2. AtMostOne'
    BY DEF AtMostOne, IdleRequest
  <1>. QED BY <1>1, <1>2 DEF SerialInv

\* Rows that are only revoked or deleted leave less to use.
LEMMA LessUsable ==
  ASSUME Inv, SerialInv, StatusOnly, held' = held
  PROVE  /\ OneUsablePerFamily'
         /\ killed' = killed => KilledInv'
         /\ \A t \in Tokens : Usable(t)' => Usable(t)
         /\ \A t \in Tokens : Family(t)' = Family(t)
  BY DEF Inv, TypeOK, SerialInv, OneUsablePerFamily, KilledInv, StatusOnly, Usable, Family

\* The last statement of a request, whatever it was, that sends no token.
LEMMA LastStep ==
  ASSUME Inv, SerialInv, StatusOnly, held' = held, KilledInv',
         \A p \in Requests : req'[p] = IdleRequest
  PROVE  SerialInv'
  <1>1. \A p \in Requests : Rotates(p)'
    BY DEF Rotates, IdleRequest
  <1>2. AtMostOne'
    BY DEF AtMostOne, IdleRequest
  <1>. QED BY <1>1, <1>2, LessUsable DEF SerialInv

LEMMA EndAlone ==
  ASSUME Inv, AtMostOne, NEW q \in Requests, req[q] # IdleRequest, End(q)
  PROVE  \A p \in Requests : req'[p] = IdleRequest
  BY OthersIdle DEF Inv, TypeOK, End

-----------------------------------------------------------------------------
LEMMA SerialStartStep ==
  ASSUME Inv, SerialInv, Alone, NEW q \in Requests,
         \/ \E u \in Users : Login(q, u)
         \/ \E t \in Tokens : ReadToken(q, t) \/ ReadLogout(q, t)
  PROVE  SerialInv'
  <1>1. UNCHANGED <<sess, held, killed>>
    BY DEF Login, ReadToken, ReadLogout
  <1>2. \A p \in Requests \ {q} : req'[p] = IdleRequest
    BY DEF Inv, TypeOK, Alone, Login, ReadToken, ReadLogout, Start
  <1>3. OneUsablePerFamily' /\ KilledInv'
    BY <1>1 DEF SerialInv, OneUsablePerFamily, KilledInv, Usable, Family
  <1>4. Rotates(q)'
    <2>1. CASE \E u \in Users : Login(q, u)
      BY <2>1 DEF Inv, TypeOK, Login, Start, Rotates
    <2>2. CASE \E t \in Tokens : ReadToken(q, t)
      <3>1. PICK t \in Tokens : ReadToken(q, t)
        BY <2>2
      <3>2. /\ req'[q].pc = IF sess[t].status = "revoked" THEN "kill" ELSE "user"
            /\ req'[q].token = t
        BY <3>1 DEF Inv, TypeOK, ReadToken, Start
      <3>3. sess[t].status \in {"live", "revoked"} /\ t \in held
        BY <3>1 DEF ReadToken, Exists
      <3>. QED BY <1>1, <3>2, <3>3 DEF Rotates, Usable
    <2>3. CASE \E t \in Tokens : ReadLogout(q, t)
      BY <2>3 DEF Inv, TypeOK, ReadLogout, Start, Rotates
    <2>. QED BY <2>1, <2>2, <2>3
  <1>. QED BY <1>2, <1>3, <1>4, OneMoves

\* A new row is in nobody's hands yet; its family was not revoked for reuse.
LEMMA SerialInsertStep ==
  ASSUME Inv, SerialInv, NEW q \in Requests, NEW t \in Tokens,
         CreateSession(q, t) \/ IssueSession(q, t)
  PROVE  SerialInv'
  <1>. DEFINE old == req[q].token
  <1>1. /\ req[q].pc \in {"create", "issue"} /\ UNCHANGED <<held, killed>>
        /\ sess[t].status = "none" /\ sess[t] = NoRow
    BY DEF CreateSession, IssueSession, Insert, Fresh, NoRow, history
  <1>2. t \notin held /\ t \notin killed
    BY <1>1 DEF Inv, FamilyInv, SerialInv, KilledInv
  <1>3. \A s \in Tokens : sess[s].status # "none" => s # t /\ Family(s) \in Tokens \ {t}
    BY <1>1 DEF Inv, TypeOK, FamilyInv, Family
  <1>4. /\ \A s \in Tokens \ {t} : sess'[s] = sess[s]
        /\ sess'[t].status = "live"
    BY DEF Inv, TypeOK, CreateSession, IssueSession, Insert
  <1>. killed \subseteq Tokens
    BY DEF Inv, TypeOK
  <1>5. \A s \in Tokens : Usable(s)' <=> Usable(s)
    BY <1>1, <1>2, <1>4 DEF Usable
  <1>6. \A s \in Tokens : Usable(s) => s # t /\ Family(s)' = Family(s)
    BY <1>1, <1>4 DEF Usable, Family
  <1>7. OneUsablePerFamily'
    BY <1>5, <1>6 DEF SerialInv, OneUsablePerFamily
  <1>8. \A p \in Requests \ {q} : req'[p] = IdleRequest
    <2>1. req[q] # IdleRequest
      BY <1>1 DEF IdleRequest
    <2>. QED BY <2>1, OthersIdle DEF SerialInv, Inv, TypeOK, CreateSession, IssueSession
  <1>9. CASE CreateSession(q, t)
    <2>1. /\ req'[q].pc = "reply" /\ req'[q].new = t
          /\ sess'[t].family = t
      BY <1>9 DEF Inv, TypeOK, Request, CreateSession, Insert
    <2>2. Rotates(q)'
      BY <1>3, <1>5, <1>6, <2>1 DEF Rotates, Usable, Family
    <2>3. KilledInv'
      BY <1>1, <1>2, <1>3, <1>4, <2>1 DEF SerialInv, KilledInv, Family
    <2>. QED BY <1>7, <1>8, <2>2, <2>3, OneMoves
  <1>10. CASE IssueSession(q, t)
    <2>1. /\ req'[q].pc = "revoke" /\ req'[q].new = t /\ req'[q].token = old
          /\ sess'[t].family = Family(old)
          /\ req[q].pc = "issue" /\ old \in Tokens
      BY <1>10 DEF Inv, TypeOK, Request, IssueSession, Insert
    <2>2. Usable(old)
      BY <2>1 DEF SerialInv, Rotates
    <2>3. Rotates(q)'
      BY <1>1, <1>2, <1>5, <2>1, <2>2 DEF Rotates, Usable
    <2>4. Family(old) \notin killed
      BY <2>1, <2>2 DEF SerialInv, KilledInv, Usable
    <2>5. KilledInv'
      BY <1>1, <1>3, <1>4, <2>1, <2>4 DEF SerialInv, KilledInv, Family
    <2>. QED BY <1>7, <1>8, <2>3, <2>5, OneMoves
  <1>. QED BY <1>9, <1>10

LEMMA SerialKillStep ==
  ASSUME Inv, SerialInv, NEW q \in Requests, KillFamily(q) PROVE SerialInv'
  <1>. DEFINE family == Family(req[q].token)
  <1>1. StatusOnly /\ held' = held /\ End(q) /\ req[q].pc = "kill" /\ killed' = killed \cup {family}
    BY KillStatus, TypeParts DEF Inv, KillFamily
  <1>2. req[q].token \in Tokens /\ sess[req[q].token].status # "none"
    BY <1>1 DEF Inv, TypeOK, Knows
  <1>3. \A t \in Tokens : Family(t) = family => sess'[t].status # "live"
    BY DEF Inv, TypeOK, Row, KillFamily
  <1>4. family \in Tokens /\ sess[family].status # "none"
    BY <1>2 DEF Inv, TypeOK, FamilyInv, Family
  <1>5. KilledInv'
    BY <1>1, <1>3, <1>4 DEF Inv, TypeOK, SerialInv, KilledInv, StatusOnly, Family
  <1>6. \A p \in Requests : req'[p] = IdleRequest
    BY <1>1, EndAlone DEF SerialInv, IdleRequest
  <1>. QED BY <1>1, <1>5, <1>6, LastStep

LEMMA SerialCheckStep ==
  ASSUME Inv, SerialInv, NEW q \in Requests, CheckUser(q) PROVE SerialInv'
  <1>1. UNCHANGED <<sess, held, killed>> /\ req[q].pc = "user" /\ req[q] # IdleRequest
    BY DEF CheckUser, history, IdleRequest
  <1>2. StatusOnly /\ KilledInv' /\ OneUsablePerFamily'
    BY <1>1, SameRows, LessUsable
  <1>3. CASE End(q)
    BY <1>1, <1>2, <1>3, EndAlone, LastStep DEF SerialInv
  <1>4. CASE Goto(q, "issue")
    <2>1. /\ req'[q].pc = "issue" /\ req'[q].token = req[q].token
          /\ \A p \in Requests \ {q} : req'[p] = req[p]
      BY <1>4 DEF Inv, TypeOK, Request, Goto
    <2>2. Rotates(q)'
      BY <1>1, <2>1 DEF SerialInv, Rotates, Usable
    <2>. QED BY <1>1, <1>2, <2>1, <2>2, OthersIdle, OneMoves DEF SerialInv
  <1>. QED BY <1>3, <1>4 DEF CheckUser

\* The old token is no longer usable when the new one is about to be sent.
LEMMA SerialRevokeStep ==
  ASSUME Inv, SerialInv, NEW q \in Requests, RevokeOld(q) PROVE SerialInv'
  <1>. DEFINE old == req[q].token
              new == req[q].new
  <1>1. /\ req[q].pc = "revoke" /\ old \in Tokens /\ new \in Tokens /\ req[q] # IdleRequest
        /\ held' = held /\ killed' = killed
    BY DEF Inv, TypeOK, RevokeOld, IdleRequest
  <1>2. Usable(old) /\ new \notin held /\ Family(new) = Family(old)
    BY <1>1 DEF Inv, Knows, SerialInv, Rotates
  <1>3. sess' = [sess EXCEPT ![old].status = "revoked"] /\ Goto(q, "reply")
    BY <1>2 DEF RevokeOld, Usable, Exists
  <1>4. StatusOnly /\ sess'[old].status = "revoked"
    <2>1. /\ sess'[old] = [sess[old] EXCEPT !.status = "revoked"]
          /\ \A t \in Tokens \ {old} : sess'[t] = sess[t]
      BY <1>1, <1>3 DEF Inv, TypeOK
    <2>2. \A t \in Tokens : sess[t] \in Row
      BY DEF Inv, TypeOK
    <2>. QED BY <1>1, <1>2, <2>1, <2>2 DEF StatusOnly, Usable, Row
  <1>5. /\ req'[q].pc = "reply" /\ req'[q].new = new
        /\ \A p \in Requests \ {q} : req'[p] = req[p]
    BY <1>3 DEF Inv, TypeOK, Request, Goto
  <1>6. Rotates(q)'
    <2>1. ASSUME NEW t \in Tokens, Usable(t)' PROVE sess'[t].family # sess'[new].family
      <3>1. Usable(t) /\ t # old
        BY <1>1, <1>4, <2>1, LessUsable DEF Usable
      <3>2. Family(t) # Family(old)
        BY <1>1, <1>2, <3>1 DEF SerialInv, OneUsablePerFamily
      <3>. QED BY <1>1, <1>2, <1>4, <3>2, LessUsable DEF Family
    <2>. QED BY <1>1, <1>5, <2>1 DEF Rotates, Family
  <1>. QED BY <1>1, <1>4, <1>5, <1>6, LessUsable, OthersIdle, OneMoves DEF SerialInv

\* The client gets the token, the only one of its family that it can use.
LEMMA SerialReplyStep ==
  ASSUME Inv, SerialInv, NEW q \in Requests, Reply(q) PROVE SerialInv'
  <1>. DEFINE new == req[q].new
  <1>1. /\ req[q].pc = "reply" /\ End(q) /\ held' = held \cup {new}
        /\ sess' = sess /\ killed' = killed /\ new \in Tokens
    BY DEF Reply, Inv, TypeOK
  <1>2. \A t \in Tokens : Usable(t) => Family(t) # Family(new)
    BY <1>1 DEF SerialInv, Rotates
  <1>3. OneUsablePerFamily'
    BY <1>1, <1>2 DEF SerialInv, OneUsablePerFamily, Usable, Family
  <1>4. KilledInv'
    BY <1>1 DEF SerialInv, KilledInv, Family
  <1>5. \A p \in Requests : req'[p] = IdleRequest
    BY <1>1, EndAlone DEF SerialInv, IdleRequest
  <1>6. Rotates(q)'
    BY <1>5 DEF Rotates, IdleRequest
  <1>. QED BY <1>3, <1>4, <1>5, <1>6, OneMoves

LEMMA SerialDeleteStep ==
  ASSUME Inv, SerialInv, NEW q \in Requests, DeleteSession(q) PROVE SerialInv'
  <1>. DEFINE old == req[q].token
  <1>1. /\ End(q) /\ req[q] # IdleRequest /\ UNCHANGED <<held, killed>>
        /\ old \in Tokens /\ sess[old].status # "none"
    BY DEF DeleteSession, history, IdleRequest, Inv, TypeOK, Knows
  <1>2. StatusOnly
    <2>1. /\ sess'[old] = [sess[old] EXCEPT !.status = "deleted"]
          /\ \A t \in Tokens \ {old} : sess'[t] = sess[t]
      BY <1>1 DEF Inv, TypeOK, DeleteSession
    <2>2. \A t \in Tokens : sess[t] \in Row
      BY DEF Inv, TypeOK
    <2>. QED BY <1>1, <2>1, <2>2 DEF StatusOnly, Row
  <1>. QED BY <1>1, <1>2, LessUsable, EndAlone, LastStep DEF SerialInv

LEMMA SerialLogoutAllStep ==
  ASSUME Inv, SerialInv, Alone, NEW u \in Users, LogoutAll(u) PROVE SerialInv'
  <1>1. StatusOnly
    BY LogoutAllStatus, TypeParts DEF Inv
  <1>2. UNCHANGED <<req, held, killed>>
    BY DEF LogoutAll
  <1>. QED BY <1>1, <1>2, LessUsable, LastStep DEF Alone

LEMMA SerialNextInv ==
  ASSUME ConstantsAssumption, Inv, SerialInv, Serial!Next PROVE SerialInv'
  <1>1. CASE \E u \in Users : Serial!LogoutAll(u)
    BY <1>1, SerialLogoutAll, SerialLogoutAllStep
  <1>2. CASE \E u \in Users : Serial!ChangeStatus(u)
    <2>1. UNCHANGED <<sess, req, held, killed>>
      BY <1>2 DEF Serial!ChangeStatus
    <2>. QED BY <2>1 DEF SerialInv, AtMostOne, OneUsablePerFamily, Rotates, KilledInv, Usable, Family
  <1>3. CASE \E q \in Requests : \/ \E u \in Users : Serial!Login(q, u)
                                 \/ \E t \in Tokens : Serial!ReadToken(q, t) \/ Serial!ReadLogout(q, t)
    BY <1>3, SerialLogin, SerialReadToken, SerialReadLogout, SerialStartStep
  <1>4. CASE \E q \in Requests, t \in Tokens : Serial!CreateSession(q, t) \/ Serial!IssueSession(q, t)
    BY <1>4, SerialRest, SerialInsertStep
  <1>5. CASE \E q \in Requests : Serial!KillFamily(q) \/ Serial!CheckUser(q) \/ Serial!RevokeOld(q)
    BY <1>5, SerialRest, SerialKillStep, SerialCheckStep, SerialRevokeStep
  <1>6. CASE \E q \in Requests : Serial!Reply(q) \/ Serial!DeleteSession(q)
    BY <1>6, SerialRest, SerialReplyStep, SerialDeleteStep
  <1>7. CASE \E q \in Requests : Serial!Abort(q)
    <2>1. PICK q \in Requests : Abort(q)
      BY <1>7, SerialRest
    <2>2. End(q) /\ req[q] # IdleRequest /\ UNCHANGED <<sess, held, killed>>
      BY <2>1 DEF Abort, history
    <2>. QED BY <2>2, SameRows, LessUsable, EndAlone, LastStep DEF SerialInv
  <1>. QED BY <1>1, <1>2, <1>3, <1>4, <1>5, <1>6, <1>7 DEF Serial!Next

LEMMA SerialInit == Init => SerialInv
  BY DEF Init, SerialInv, AtMostOne, OneUsablePerFamily, Rotates, KilledInv, Usable, IdleRequest, NoRow

LEMMA SerialStutter == ASSUME SerialInv, UNCHANGED vars PROVE SerialInv'
  BY DEF SerialInv, AtMostOne, OneUsablePerFamily, Rotates, KilledInv, Usable, Family, vars, history

LEMMA SerialPromises == SerialInv => OneUsablePerFamily /\ ReuseIsFinal
  BY DEF SerialInv, KilledInv, ReuseIsFinal, Usable

\* The inductive invariant of serialized requests.
THEOREM SerialInvCorrect == ASSUME Serialized PROVE Spec => [](Inv /\ SerialInv)
  <1>1. Init => Inv /\ SerialInv
    BY InitInv, SerialInit, ConstantsAssumption
  <1>2. Inv /\ SerialInv /\ [Next]_vars => (Inv /\ SerialInv)'
    BY NextInv, StepIsSerial, SerialNextInv, SerialStutter, ConstantsAssumption
  <1>. QED BY <1>1, <1>2, PTL DEF Spec

\* Rotation: where requests do not overlap, of the tokens of one login that a
\* client has been sent at most one can be exchanged, however requests die.
THEOREM OneUsablePerFamilyCorrect == ASSUME Serialized PROVE Spec => []OneUsablePerFamily
  BY SerialInvCorrect, SerialPromises, PTL

\* Where requests do not overlap, no token of a family that was revoked for the
\* reuse of one of its tokens can be exchanged again.
THEOREM ReuseIsFinalCorrect == ASSUME Serialized PROVE Spec => []ReuseIsFinal
  BY SerialInvCorrect, SerialPromises, PTL

-----------------------------------------------------------------------------
(* The two parts of the instance that TLC runs *)

PartsInv == Inv /\ (part = "serial" => SerialInv)

LEMMA PartsInvCorrect == PartsSpec => []PartsInv
  <1>1. PartsInit => PartsInv
    BY InitInv, SerialInit, ConstantsAssumption DEF PartsInit, PartsInv
  <1>2. PartsInv /\ [PartsNext]_<<vars, part>> => PartsInv'
    <2>1. ASSUME PartsInv, PartsNext PROVE PartsInv'
      <3>1. Next /\ part' = part /\ (part = "serial" => Serial!Next)
        BY <2>1, SerialIsStep DEF PartsNext
      <3>. QED BY <2>1, <3>1, NextInv, SerialNextInv, ConstantsAssumption DEF PartsInv
    <2>2. ASSUME PartsInv, UNCHANGED <<vars, part>> PROVE PartsInv'
      <3>1. UNCHANGED vars /\ part' = part
        BY <2>2
      <3>. QED BY <2>2, <3>1, NextInv, SerialStutter, ConstantsAssumption DEF PartsInv
    <2>. QED BY <2>1, <2>2
  <1>. QED BY <1>1, <1>2, PTL DEF PartsSpec

\* At most one usable token in each family, in the part where requests do not overlap.
THEOREM OneUsableSeriallyCorrect == PartsSpec => []OneUsableSerially
  <1>1. PartsInv => OneUsableSerially
    BY SerialPromises DEF PartsInv, OneUsableSerially
  <1>. QED BY <1>1, PartsInvCorrect, PTL

\* Reuse detection is final, in the part where requests do not overlap.
THEOREM ReuseIsFinalSeriallyCorrect == PartsSpec => []ReuseIsFinalSerially
  <1>1. PartsInv => ReuseIsFinalSerially
    BY SerialPromises DEF PartsInv, ReuseIsFinalSerially
  <1>. QED BY <1>1, PartsInvCorrect, PTL
=============================================================================
