--------------------------- MODULE BrowsersProofs ---------------------------
(***************************************************************************)
(* Proofs about what runs in a browser: the guards of the web client, the  *)
(* interceptor of the legacy client, and the lists that pages show, for    *)
(* any people, calls, reservations and filters.                            *)
(***************************************************************************)
EXTENDS MCBrowsers, TLAPS

-----------------------------------------------------------------------------
(* The session of the web client *)

\* Somebody is signed in exactly when the context says so; requests are about
\* the people at this browser.
SessionInv ==
  /\ scookie \in People \cup {None}
  /\ me = None \/ me.who \in People \cup {None}
  /\ form \in People \cup {None}
  /\ user \in People \cup {None}
  /\ status \in {"loading", "unauthenticated", "authenticated"}
  /\ status = "authenticated" => user # None
  /\ path \in Session!Paths

\* A role is admitted to its own home, which does not redirect.
LEMMA HomeAdmits ==
  ASSUME NEW role \in Session!AdminRoles \cup {"FACULTY", "STUDENT"}
  PROVE  /\ Session!Admits(Session!Home(role), role)
         /\ Session!Home(role) \notin Session!Indexes
         /\ Session!Home(role) \in Session!Portals
  BY DEF Session!Admits, Session!Home, Session!Indexes, Session!Portals, Session!Student,
         Session!Faculty, Session!Admin, Session!AdminRoles

\* A page that does not redirect has been admitted.
LEMMA SessionGuards ==
  ASSUME SessionInv
  PROVE  Session!PortalMatchesRole
  <1>. SUFFICES ASSUME path \in Session!Portals, Session!Settled, status # "loading"
                PROVE  user # None /\ Session!Admits(path, PeopleRole[user])
    BY DEF Session!PortalMatchesRole
  <1>1. path # "/login" /\ Session!Target = path
    BY DEF Session!Settled, Session!Portals, Session!Student, Session!Faculty, Session!Admin
  <1>2. status = "authenticated"
    BY <1>1 DEF SessionInv, Session!Target
  <1>3. user \in People /\ user # None
    BY <1>2 DEF SessionInv
  <1>4. Session!Target = IF path \in Session!Indexes \/ ~Session!Admits(path, PeopleRole[user])
                         THEN Session!Home(PeopleRole[user]) ELSE path
    BY <1>1, <1>2, <1>3 DEF Session!Target
  <1>5. PeopleRole[user] \in Session!AdminRoles \cup {"FACULTY", "STUDENT"}
    BY <1>3, InstancesAssumption
  <1>. QED BY <1>1, <1>3, <1>4, <1>5, HomeAdmits

\* Wherever the guards send a tab, there is a page.
LEMMA TargetIsPath ==
  ASSUME SessionInv, from = None \/ from \in Session!Paths
  PROVE  Session!Target \in Session!Paths
  <1>1. ASSUME user # None
        PROVE  Session!Home(PeopleRole[user]) \in Session!Paths
    BY <1>1, InstancesAssumption, HomeAdmits DEF SessionInv, Session!Paths
  <1>2. "/login" \in Session!Paths /\ path \in Session!Paths
    BY DEF SessionInv, Session!Paths
  <1>3. Session!FromLogin \in Session!Paths
    BY <1>1, <1>2 DEF Session!FromLogin
  <1>. QED BY <1>1, <1>2, <1>3 DEF SessionInv, Session!Target

FromOK == from = None \/ from \in Session!Paths

LEMMA SessionStep ==
  ASSUME SessionInv, FromOK, [Session!Next]_people
  PROVE  SessionInv' /\ FromOK'
  <1>. USE InstancesAssumption DEF SessionInv, FromOK
  <1>1. CASE Session!Redirect
    BY <1>1, TargetIsPath DEF Session!Redirect, Session!context
  <1>2. ASSUME NEW p \in Session!Paths, Session!Go(p) \/ Session!Load(p)
        PROVE  SessionInv' /\ FromOK'
    BY <1>2 DEF Session!Go, Session!Load, Session!context
  <1>3. CASE Session!MeAnswered \/ Session!MeDenied
    BY <1>3 DEF Session!MeAnswered, Session!MeDenied, Session!SignedIn, Session!SignedOut
  <1>4. CASE (\E u \in People : Session!Submit(u)) \/ Session!LoginFailed \/ Session!LogOut
    BY <1>4 DEF Session!Submit, Session!LoginFailed, Session!LogOut, Session!context
  <1>5. CASE Session!LoginDone
    <2>1. Session!Home(PeopleRole[form]) \in Session!Paths
      BY <1>5, HomeAdmits DEF Session!LoginDone, Session!Paths
    <2>. QED BY <1>5, <2>1 DEF Session!LoginDone, Session!SignedIn
  <1>6. CASE Session!LoggedOut \/ Session!CookieChanges
    BY <1>6 DEF Session!LoggedOut, Session!CookieChanges, Session!SignedOut, Session!context,
                Session!Somebody
  <1>7. CASE UNCHANGED people
    BY <1>7 DEF people
  <1>. QED BY <1>1, <1>2, <1>3, <1>4, <1>5, <1>6, <1>7 DEF Session!Next

\* No page of a portal is shown to anyone but a signed-in user with its role, for
\* any people, whatever expires, reloads, signs in or out meanwhile.
THEOREM PortalMatchesRoleCorrect == Session!Spec => []Session!PortalMatchesRole
  <1>1. Session!Init => SessionInv /\ FromOK
    BY DEF Session!Init, Session!Somebody, SessionInv, FromOK
  <1>2. SessionInv /\ FromOK /\ [Session!Next]_people => SessionInv' /\ FromOK'
    BY SessionStep
  <1>3. SessionInv => Session!PortalMatchesRole
    BY SessionGuards
  <1>. QED BY <1>1, <1>2, <1>3, PTL DEF Session!Spec, Session!vars, Session!context, people

-----------------------------------------------------------------------------
(* The interceptor of the legacy client *)

Refreshing == {"refreshing", "refreshed", "denied"}

TabCall == [pc : {"idle", "sent", "done", "refused", "queued", "failed"} \cup Refreshing,
            token : Nat, cookie : Nat, retry : BOOLEAN]

\* One refresh is under way when isRefreshing says so, calls wait only then, and
\* the token it brings is one.
LegacyInv ==
  /\ issued \in Nat /\ logins \in Nat
  /\ storage \in Nat /\ lcookie \in Nat
  /\ tokens \subseteq Nat \ {0}
  /\ login \in [pc : {"idle", "sent", "answered"}, token : Nat, cookie : Nat]
  /\ lcalls \in [TabCalls -> TabCall]
  /\ \A q \in TabCalls : lcalls[q].pc = "refreshed" => lcalls[q].token # 0
  /\ \A p, q \in TabCalls : lcalls[p].pc \in Refreshing /\ lcalls[q].pc \in Refreshing => p = q
  /\ isRefreshing \in BOOLEAN
  /\ isRefreshing <=> \E q \in TabCalls : lcalls[q].pc \in Refreshing
  /\ \A q \in TabCalls : lcalls[q].pc = "queued" => isRefreshing
  /\ ctx # 0 => storage # 0

LEMMA LegacyInit ==
  ASSUME LegacyTab!Init
  PROVE  LegacyInv
  BY DEF LegacyTab!Init, LegacyTab!NoCall, LegacyTab!NoLogin, LegacyInv, TabCall, Refreshing

LEMMA LegacyAgrees ==
  ASSUME LegacyInv
  PROVE  LegacyTab!SignedInHasToken /\ LegacyTab!NobodyStranded
  <1>. DEFINE R == {q \in TabCalls : lcalls[q].pc \in {"refreshing", "refreshed", "denied"}}
  <1>1. \A p, q \in R : p = q
    BY DEF LegacyInv, Refreshing
  <1>2. isRefreshing <=> R # {}
    BY DEF LegacyInv, Refreshing
  <1>3. (\E q \in TabCalls : lcalls[q].pc = "queued") => R # {}
    BY <1>2 DEF LegacyInv
  <1>4. LegacyTab!NobodyStranded
    BY <1>1, <1>2, <1>3 DEF LegacyTab!NobodyStranded
  <1>. QED BY <1>4 DEF LegacyTab!SignedInHasToken, LegacyInv

\* A step that moves one call, and neither ends nor begins a refresh.
LEMMA OneMoves ==
  ASSUME LegacyInv, NEW q \in TabCalls, NEW c \in TabCall, lcalls' = [lcalls EXCEPT ![q] = c],
         lcalls[q].pc \in Refreshing <=> c.pc \in Refreshing,
         c.pc = "refreshed" => c.token # 0,
         c.pc = "queued" => isRefreshing,
         UNCHANGED isRefreshing
  PROVE  /\ lcalls' \in [TabCalls -> TabCall]
         /\ \A p \in TabCalls : lcalls'[p].pc = "refreshed" => lcalls'[p].token # 0
         /\ \A o, p \in TabCalls : lcalls'[o].pc \in Refreshing /\ lcalls'[p].pc \in Refreshing => o = p
         /\ isRefreshing' <=> \E p \in TabCalls : lcalls'[p].pc \in Refreshing
         /\ \A p \in TabCalls : lcalls'[p].pc = "queued" => isRefreshing'
  <1>1. lcalls' \in [TabCalls -> TabCall] /\ \A p \in TabCalls : lcalls'[p] = IF p = q THEN c ELSE lcalls[p]
    BY DEF LegacyInv
  <1>2. \A p \in TabCalls : lcalls'[p].pc \in Refreshing <=> lcalls[p].pc \in Refreshing
    BY <1>1
  <1>. QED BY <1>1, <1>2 DEF LegacyInv

LEMMA LegacyStep ==
  ASSUME LegacyInv, [LegacyTab!Next]_legacy
  PROVE  LegacyInv'
  <1>. DEFINE same == UNCHANGED <<isRefreshing, lcalls>>
  <1>1. CASE \/ LegacyTab!Expire \/ LegacyTab!RefreshExpires \/ LegacyTab!Persist \/ LegacyTab!logout
             \/ LegacyTab!SubmitLogin \/ LegacyTab!LoginRefused \/ LegacyTab!SignOut
    BY <1>1
    DEF LegacyInv, LegacyTab!Expire, LegacyTab!RefreshExpires, LegacyTab!Persist, LegacyTab!logout,
        LegacyTab!SubmitLogin, LegacyTab!LoginRefused, LegacyTab!SignOut, LegacyTab!NoLogin,
        LegacyTab!server, LegacyTab!browser
  <1>2. CASE LegacyTab!sendTokens \/ LegacyTab!LoginAnswered
    <2>1. CASE LegacyTab!sendTokens
      <3>1. issued + 1 \in Nat \ {0} /\ logins + 1 \in Nat
        BY DEF LegacyInv
      <3>. QED BY <2>1, <3>1 DEF LegacyInv, LegacyTab!sendTokens
    <2>2. CASE LegacyTab!LoginAnswered
      <3>1. LegacyTab!NoLogin \in [pc : {"idle", "sent", "answered"}, token : Nat, cookie : Nat]
        BY DEF LegacyTab!NoLogin
      <3>2. login.cookie \in Nat /\ LegacyTab!Applied(login.token) \in Nat
        BY DEF LegacyInv, LegacyTab!Applied
      <3>. QED BY <2>2, <3>1, <3>2 DEF LegacyInv, LegacyTab!LoginAnswered, LegacyTab!server
    <2>. QED BY <1>2, <2>1, <2>2
  <1>3. CASE LegacyTab!Reload
    BY <1>3 DEF LegacyInv, LegacyTab!Reload, LegacyTab!Applied, LegacyTab!NoCall, LegacyTab!NoLogin,
                TabCall, Refreshing, LegacyTab!server
  <1>4. ASSUME NEW q \in TabCalls, LegacyTab!Send(q)
        PROVE  LegacyInv'
    <2>. DEFINE c == [LegacyTab!NoCall EXCEPT !.pc = "sent", !.token = storage]
    <2>1. lcalls' = [lcalls EXCEPT ![q] = c]
      BY <1>4 DEF LegacyTab!Send
    <2>2. c \in TabCall /\ c.pc = "sent"
      <3>1. LegacyTab!NoCall \in TabCall
        BY DEF LegacyTab!NoCall, TabCall
      <3>. QED BY <3>1 DEF TabCall, LegacyInv
    <2>3. lcalls[q].pc \notin Refreshing /\ "sent" \notin Refreshing /\ UNCHANGED isRefreshing
      BY <1>4 DEF LegacyTab!Send, LegacyTab!Settled, Refreshing
    <2>. HIDE DEF c
    <2>4. UNCHANGED <<issued, logins, storage, lcookie, tokens, login, ctx>>
      BY <1>4 DEF LegacyTab!Send, LegacyTab!server
    <2>. QED BY <2>1, <2>2, <2>3, <2>4, OneMoves DEF LegacyInv
  <1>5. ASSUME NEW q \in TabCalls, NEW pc \in {"done", "refused", "failed", "queued"},
               LegacyTab!Move(q, pc), UNCHANGED <<LegacyTab!server, lcookie, storage, ctx, isRefreshing, login>>,
               lcalls[q].pc \notin Refreshing, pc = "queued" => isRefreshing
        PROVE  LegacyInv'
    <2>. DEFINE c == [lcalls[q] EXCEPT !.pc = pc]
    <2>1. lcalls' = [lcalls EXCEPT ![q] = c] /\ UNCHANGED isRefreshing
      BY <1>5 DEF LegacyTab!Move
    <2>2. c \in TabCall /\ c.pc = pc
      BY <1>5 DEF TabCall, LegacyInv
    <2>3. pc \notin Refreshing /\ pc # "refreshed"
      BY DEF Refreshing
    <2>. HIDE DEF c
    <2>4. UNCHANGED <<issued, logins, storage, lcookie, tokens, login, ctx>>
      BY <1>5 DEF LegacyTab!server
    <2>. QED BY <1>5, <2>1, <2>2, <2>3, <2>4, OneMoves DEF LegacyInv
  <1>6. ASSUME NEW q \in TabCalls, LegacyTab!Serve(q)
        PROVE  LegacyInv'
    <2>1. /\ lcalls[q].pc \notin Refreshing
          /\ \E pc \in {"done", "refused", "failed"} : LegacyTab!Move(q, pc)
          /\ UNCHANGED <<LegacyTab!server, lcookie, storage, ctx, isRefreshing, login>>
      BY <1>6 DEF LegacyTab!Serve, Refreshing
    <2>. QED BY <1>5, <2>1
  <1>7. ASSUME NEW q \in TabCalls, LegacyTab!Intercept(q)
        PROVE  LegacyInv'
    <2>1. lcalls[q].pc = "refused" /\ "refused" \notin Refreshing
          /\ UNCHANGED <<LegacyTab!server, lcookie, storage, ctx, login>>
      BY <1>7 DEF LegacyTab!Intercept, Refreshing
    <2>2. CASE lcalls[q].retry \/ isRefreshing
      BY <1>5, <1>7, <2>1, <2>2 DEF LegacyTab!Intercept
    <2>3. CASE ~lcalls[q].retry /\ ~isRefreshing
      <3>. DEFINE c == [lcalls[q] EXCEPT !.pc = "refreshing", !.retry = TRUE, !.cookie = lcookie]
      <3>1. isRefreshing' = TRUE /\ lcalls' = [lcalls EXCEPT ![q] = c]
        BY <1>7, <2>3 DEF LegacyTab!Intercept
      <3>2. c \in TabCall /\ c.pc = "refreshing"
        BY DEF TabCall, LegacyInv, Refreshing
      <3>. HIDE DEF c
      <3>3. lcalls' \in [TabCalls -> TabCall] /\ \A p \in TabCalls : lcalls'[p] = IF p = q THEN c ELSE lcalls[p]
        BY <3>1, <3>2 DEF LegacyInv
      <3>4. UNCHANGED <<issued, logins, storage, lcookie, tokens, login, ctx>>
        BY <2>1 DEF LegacyTab!server
      <3>. QED BY <2>3, <3>1, <3>2, <3>3, <3>4 DEF LegacyInv, Refreshing
    <2>. QED BY <2>2, <2>3 DEF LegacyInv, TabCall
  <1>8. ASSUME NEW q \in TabCalls, LegacyTab!refresh(q)
        PROVE  LegacyInv'
    <2>. DEFINE granted == [lcalls[q] EXCEPT !.pc = "refreshed", !.token = issued + 1]
                denied == [lcalls[q] EXCEPT !.pc = "denied"]
    <2>1. /\ lcalls[q].pc = "refreshing"
          /\ \/ /\ lcalls' = [lcalls EXCEPT ![q] = granted]
                /\ issued' = issued + 1 /\ tokens' = tokens \union {issued + 1}
             \/ lcalls' = [lcalls EXCEPT ![q] = denied] /\ UNCHANGED <<issued, tokens>>
          /\ UNCHANGED <<logins, storage, lcookie, login, ctx, isRefreshing>>
      BY <1>8 DEF LegacyTab!refresh
    <2>2. lcalls[q] \in TabCall /\ issued + 1 \in Nat /\ issued + 1 # 0
      BY DEF LegacyInv
    <2>3. /\ granted \in TabCall /\ granted.pc = "refreshed" /\ granted.token # 0
          /\ denied \in TabCall /\ denied.pc = "denied"
      BY <2>2 DEF TabCall, Refreshing
    <2>. HIDE DEF granted, denied
    <2>4. {"refreshing", "refreshed", "denied"} \subseteq Refreshing
      BY DEF Refreshing
    <2>5. issued' \in Nat /\ tokens' \subseteq Nat \ {0}
      BY <2>1, <2>2 DEF LegacyInv
    <2>. QED BY <2>1, <2>3, <2>4, <2>5, OneMoves DEF LegacyInv
  <1>9. ASSUME NEW q \in TabCalls, LegacyTab!Refreshed(q) \/ LegacyTab!Denied(q)
        PROVE  LegacyInv'
    <2>1. /\ isRefreshing' = FALSE /\ lcalls[q].pc \in Refreshing
          /\ UNCHANGED <<issued, logins, lcookie, tokens, login>>
      BY <1>9 DEF LegacyTab!Refreshed, LegacyTab!Denied, LegacyTab!server, Refreshing
    <2>2. storage' \in Nat /\ (ctx' # 0 => storage' # 0)
      BY <1>9 DEF LegacyTab!Refreshed, LegacyTab!Denied, LegacyInv, TabCall
    <2>3. \A p \in TabCalls : /\ lcalls'[p] \in TabCall
                              /\ lcalls'[p].pc \notin Refreshing /\ lcalls'[p].pc # "queued"
      <3>. SUFFICES ASSUME NEW p \in TabCalls
                    PROVE  /\ lcalls'[p] \in TabCall
                           /\ lcalls'[p].pc \notin Refreshing /\ lcalls'[p].pc # "queued"
        OBVIOUS
      <3>1. lcalls[p] \in TabCall /\ lcalls[q].token \in Nat
        BY DEF LegacyInv, TabCall
      <3>2. CASE p \in LegacyTab!processQueue(q)
        <4>1. lcalls'[p] = [lcalls[p] EXCEPT !.pc = "sent", !.token = lcalls[q].token]
              \/ lcalls'[p] = [lcalls[p] EXCEPT !.pc = "failed"]
          BY <1>9, <3>2 DEF LegacyTab!Refreshed, LegacyTab!Denied, LegacyTab!Resolved,
                            LegacyTab!Rejected, LegacyTab!Sending
        <4>. QED BY <3>1, <4>1 DEF TabCall, Refreshing
      <3>3. CASE p \notin LegacyTab!processQueue(q)
        <4>1. lcalls'[p] = lcalls[p] /\ p # q /\ lcalls[p].pc # "queued"
          BY <1>9, <3>3 DEF LegacyTab!Refreshed, LegacyTab!Denied, LegacyTab!Resolved,
                            LegacyTab!Rejected, LegacyTab!processQueue
        <4>. QED BY <2>1, <3>1, <4>1 DEF LegacyInv
      <3>. QED BY <3>2, <3>3
    <2>4. lcalls' \in [TabCalls -> TabCall]
      BY <1>9, <2>3 DEF LegacyTab!Refreshed, LegacyTab!Denied, LegacyTab!Resolved, LegacyTab!Rejected
    <2>5. "refreshed" \in Refreshing
      BY DEF Refreshing
    <2>. QED BY <2>1, <2>2, <2>3, <2>4, <2>5 DEF LegacyInv
  <1>10. CASE UNCHANGED legacy
    BY <1>10 DEF legacy, LegacyInv
  <1>. QED BY <1>1, <1>2, <1>3, <1>4, <1>6, <1>7, <1>8, <1>9, <1>10 DEF LegacyTab!Next, LegacyTab!Progress

\* A page that shows a signed-in user has a token to send, and no call waits for
\* a refresh that is not under way, for any number of calls, tokens and logins.
THEOREM LegacyTabCorrect ==
  LegacyTab!Spec => [](LegacyTab!SignedInHasToken /\ LegacyTab!NobodyStranded)
  <1>1. LegacyTab!Init => LegacyInv
    BY LegacyInit
  <1>2. LegacyInv /\ [LegacyTab!Next]_(LegacyTab!vars) => LegacyInv'
    BY LegacyStep DEF legacy, LegacyTab!vars, LegacyTab!server, LegacyTab!browser
  <1>3. LegacyInv => LegacyTab!SignedInHasToken /\ LegacyTab!NobodyStranded
    BY LegacyAgrees
  <1>. QED BY <1>1, <1>2, <1>3, PTL DEF LegacyTab!Spec

\* The checked instances of both clients agree with themselves.
THEOREM SessionsAgreeCorrect == PartsSpec => []SessionsAgree
  <1>. DEFINE Inv == /\ part = "session" => SessionInv /\ FromOK
                     /\ part = "legacy" => LegacyInv
  <1>1. PartsInit => Inv
    BY LegacyInit DEF PartsInit, Session!Init, Session!Somebody, SessionInv, FromOK
  <1>2. Inv /\ [PartsNext]_<<part, vars, people, legacy>> => Inv'
    BY SessionStep, LegacyStep DEF PartsNext
  <1>3. Inv => SessionsAgree
    BY SessionGuards, LegacyAgrees DEF SessionsAgree
  <1>. QED BY <1>1, <1>2, <1>3, PTL DEF PartsSpec

-----------------------------------------------------------------------------
(* The lists of the web client *)

Shaped(c) == c = [n |-> c.n, of |-> c.of, got |-> c.got]

\* The hook waits for the last request, which asks for what the page is asked
\* for, unless that has just changed; what is shown is its answer.
HistoryInv ==
  /\ sent \in Nat /\ live = sent
  /\ \A c \in calls : /\ Shaped(c) /\ c.n \in Nat /\ c.n <= sent
                      /\ c.got # None => c.got.of = c.of
                      /\ effect /\ c.n = live => c.of = filter
  /\ ShownIsAsked

LEMMA HistoryStep ==
  ASSUME HistoryInv, [Next]_vars
  PROVE  HistoryInv'
  <1>1. ASSUME UNCHANGED <<sent, live, calls, filter, shown, loading, error>>, effect' = effect \/ ~effect'
        PROVE  HistoryInv'
    BY <1>1 DEF HistoryInv, Shaped, ShownIsAsked, Rendered
  <1>2. ASSUME NEW f \in Filters, Change(f)
        PROVE  HistoryInv'
    BY <1>2 DEF HistoryInv, Shaped, ShownIsAsked, Rendered, Change
  <1>3. CASE Effect
    <2>. DEFINE c == [n |-> sent + 1, of |-> filter, got |-> None]
    <2>1. /\ sent' = sent + 1 /\ live' = sent + 1 /\ calls' = calls \cup {c}
          /\ loading' = TRUE /\ filter' = filter
      BY <1>3 DEF Effect
    <2>2. Shaped(c) /\ c.n = sent + 1 /\ c.of = filter /\ c.got = None
      BY DEF Shaped
    <2>. HIDE DEF c
    <2>. QED BY <2>1, <2>2 DEF HistoryInv, Shaped, ShownIsAsked, Rendered
  <1>4. ASSUME NEW c \in calls, Serve(c)
        PROVE  HistoryInv'
    <2>. DEFINE d == [c EXCEPT !.got = Listed(c.of)]
    <2>1. /\ calls' = (calls \ {c}) \cup {d}
          /\ UNCHANGED <<filter, effect, live, sent, shown, loading, error>>
      BY <1>4 DEF Serve
    <2>2. Shaped(d) /\ d.n = c.n /\ d.of = c.of /\ d.got.of = c.of
      BY DEF HistoryInv, Shaped, Listed
    <2>. HIDE DEF d
    <2>. QED BY <2>1, <2>2 DEF HistoryInv, Shaped, ShownIsAsked, Rendered
  <1>5. ASSUME NEW c \in calls, Arrive(c)
        PROVE  HistoryInv'
    <2>1. calls' \subseteq calls /\ UNCHANGED <<filter, effect, live, sent, error>> /\ c.got # None
      BY <1>5 DEF Arrive
    <2>2. CASE c.n = live
      BY <1>5, <2>1, <2>2 DEF Arrive, Waiting, HistoryInv, Shaped, ShownIsAsked, Rendered
    <2>3. CASE c.n # live
      BY <1>5, <2>1, <2>3 DEF Arrive, Waiting, HistoryInv, Shaped, ShownIsAsked, Rendered
    <2>. QED BY <2>2, <2>3
  <1>6. ASSUME NEW c \in calls, Fail(c)
        PROVE  HistoryInv'
    BY <1>6 DEF Fail, Failed, Waiting, HistoryInv, Shaped, ShownIsAsked, Rendered
  <1>. QED
    BY <1>1, <1>2, <1>3, <1>4, <1>5, <1>6
    DEF Next, vars, hook, Unsent, Answers, Ends, OthersMove, Retry, Toggle, ToggleAll, Confirm, Close,
        Submit, ServeBatch, BatchDone, HandleDone, BatchFailed

\* What a page renders as the answer is one to what it is asked for, for any
\* filters and number of requests, in whatever order answers arrive.
THEOREM ShownIsAskedCorrect == Spec => []ShownIsAsked
  <1>1. Init => HistoryInv
    BY DEF Init, HistoryInv, ShownIsAsked
  <1>2. HistoryInv /\ [Next]_vars => HistoryInv'
    BY HistoryStep
  <1>3. HistoryInv => ShownIsAsked
    BY DEF HistoryInv
  <1>. QED BY <1>1, <1>2, <1>3, PTL DEF Spec

\* What the approvals page waits for, shows and selects.  A reservation the tab
\* knows it has decided is not pending any more; the last request was sent after
\* the tab knew; and boxes are ticked only on a page that waits for nothing.
ServerInv ==
  /\ row \in [ApprovalRids -> Statuses]
  /\ mine \subseteq ApprovalRids /\ \A r \in mine : row[r] # "PENDING"
  /\ \A b \in batches :
       /\ b = [n |-> b.n, to |-> b.to, ids |-> b.ids, done |-> b.done]
       /\ b.to \in Decisions /\ b.ids \subseteq ApprovalRids
       /\ b.done = TRUE => \A r \in b.ids : row[r] # "PENDING"
  /\ dialog # None => dialog = [to |-> dialog.to, sent |-> dialog.sent] /\ dialog.to \in Decisions

ListInv ==
  /\ filter = "PENDING" /\ sent \in Nat /\ live = sent
  /\ \A c \in calls :
       /\ Shaped(c) /\ c.of = "PENDING" /\ c.n \in Nat /\ c.n <= sent
       /\ c.got # None => c.got.rows \subseteq ApprovalRids
       /\ c.got # None /\ effect /\ c.n = live => c.got.rows \cap mine = {}
       /\ effect /\ c.n = live => loading
  /\ \A c, d \in calls : c.n = d.n => c = d
  /\ Rows \subseteq ApprovalRids
  /\ effect /\ ~loading /\ ~error => Rows \cap mine = {}
  /\ selected # {} => effect /\ ~loading /\ ~error /\ selected \subseteq Rows

ApprovalInv == ServerInv /\ ListInv

LEMMA ApprovalAnswers ==
  ASSUME ApprovalInv
  PROVE  Approvals!OwnDecisionsShown /\ Approvals!SelectionIsListed
  BY DEF ApprovalInv, ListInv, Rows, Approvals!OwnDecisionsShown, Approvals!SelectionIsListed,
         Approvals!Rendered, Approvals!Rows

\* Nothing goes back to PENDING.
LEMMA ServerStep ==
  ASSUME ApprovalInv, [Approvals!Next]_vars
  PROVE  ServerInv'
  <1>. USE NoneAssumption DEF ApprovalInv
  <1>1. ASSUME NEW r \in ApprovalRids, NEW to \in Approvals!Statuses, Approvals!OthersMove(r, to)
        PROVE  ServerInv'
    <2>1. /\ row' = [row EXCEPT ![r] = to] /\ to # "PENDING" /\ to \in Statuses
          /\ UNCHANGED <<mine, batches, dialog>>
      BY <1>1 DEF Approvals!OthersMove, Approvals!Moves, Approvals!Statuses, Statuses, Approvals!approvals
    <2>. QED BY <2>1 DEF ServerInv
  <1>2. CASE UNCHANGED <<row, mine, batches, dialog>>
    BY <1>2 DEF ServerInv
  <1>3. ASSUME NEW to \in Approvals!Decisions, Approvals!Confirm(to)
        PROVE  ServerInv'
    BY <1>3 DEF ServerInv, Approvals!Confirm, Approvals!Unsent, Approvals!Decisions, Decisions
  <1>4. CASE Approvals!Close
    BY <1>4 DEF ServerInv, Approvals!Close, Approvals!Unsent
  <1>5. CASE Approvals!Submit
    <2>. DEFINE b == [n |-> decided + 1, to |-> dialog.to, ids |-> selected \cap Approvals!Rows, done |-> None]
    <2>1. /\ batches' = batches \cup {b} /\ dialog' = [dialog EXCEPT !.sent = decided + 1]
          /\ dialog # None /\ UNCHANGED <<row, mine>>
      BY <1>5 DEF Approvals!Submit, Approvals!Unsent
    <2>2. selected \cap Approvals!Rows \subseteq ApprovalRids
      BY DEF ListInv, Rows, Approvals!Rows
    <2>3. /\ b = [n |-> b.n, to |-> b.to, ids |-> b.ids, done |-> b.done]
          /\ b.to \in Decisions /\ b.ids \subseteq ApprovalRids /\ b.done # TRUE
      BY <2>1, <2>2 DEF ServerInv
    <2>4. dialog' = [to |-> dialog'.to, sent |-> dialog'.sent] /\ dialog'.to \in Decisions
      BY <2>1 DEF ServerInv
    <2>. HIDE DEF b
    <2>. QED BY <2>1, <2>3, <2>4 DEF ServerInv
  <1>6. ASSUME NEW b \in batches, Approvals!ServeBatch(b)
        PROVE  ServerInv'
    <2>. DEFINE ok == b.ids # {} /\ \A r \in b.ids : row[r] = "PENDING"
                d == [b EXCEPT !.done = ok]
    <2>1. /\ row' = IF ok THEN [r \in ApprovalRids |-> IF r \in b.ids THEN b.to ELSE row[r]] ELSE row
          /\ batches' = (batches \ {b}) \cup {d} /\ UNCHANGED <<mine, dialog>>
      BY <1>6 DEF Approvals!ServeBatch
    <2>2. /\ d = [n |-> d.n, to |-> d.to, ids |-> d.ids, done |-> d.done]
          /\ d.to = b.to /\ d.ids = b.ids /\ d.done = ok
      BY DEF ServerInv
    <2>. HIDE DEF d
    <2>3. b.to \in Decisions /\ b.ids \subseteq ApprovalRids /\ b.to # "PENDING" /\ b.to \in Statuses
      BY DEF ServerInv, Decisions, Statuses
    <2>4. row' \in [ApprovalRids -> Statuses] /\ \A r \in ApprovalRids : row[r] # "PENDING" => row'[r] # "PENDING"
      BY <2>1, <2>3 DEF ServerInv
    <2>5. d.done = TRUE => \A r \in b.ids : row'[r] # "PENDING"
      BY <2>1, <2>2, <2>3
    <2>. HIDE DEF ok
    <2>. QED BY <2>1, <2>2, <2>3, <2>4, <2>5 DEF ServerInv
  <1>7. ASSUME NEW b \in batches, Approvals!BatchDone(b)
        PROVE  ServerInv'
    BY <1>7 DEF ServerInv, Approvals!BatchDone, Approvals!HandleDone
  <1>8. ASSUME NEW b \in batches, Approvals!BatchFailed(b)
        PROVE  ServerInv'
    BY <1>8 DEF ServerInv, Approvals!BatchFailed, Approvals!Unsent
  <1>. QED
    BY <1>1, <1>2, <1>3, <1>4, <1>5, <1>6, <1>7, <1>8
    DEF Approvals!Next, Approvals!Answers, Approvals!Ends, Approvals!Change, Approvals!Effect,
        Approvals!Serve, Approvals!Arrive, Approvals!Fail, Approvals!Retry, Approvals!Toggle,
        Approvals!ToggleAll, Approvals!Unsent, Approvals!approvals, vars, approvals

LEMMA ListStep ==
  ASSUME ApprovalInv, [Approvals!Next]_vars
  PROVE  ListInv'
  <1>. USE DEF ApprovalInv
  <1>1. CASE UNCHANGED <<filter, hook, selected, mine>>
    BY <1>1 DEF ListInv, Shaped, Rows, hook
  <1>2. ASSUME NEW f \in {"PENDING"}, Approvals!Change(f)
        PROVE  FALSE
    BY <1>2 DEF Approvals!Change, ListInv
  <1>3. CASE Approvals!Effect
    <2>. DEFINE c == [n |-> sent + 1, of |-> filter, got |-> None]
    <2>1. /\ sent' = sent + 1 /\ live' = sent + 1 /\ calls' = calls \cup {c} /\ ~effect
          /\ loading' = TRUE /\ UNCHANGED <<filter, shown, selected, mine>>
      BY <1>3 DEF Approvals!Effect, Approvals!approvals
    <2>2. Shaped(c) /\ c.n = sent + 1 /\ c.of = filter /\ c.got = None
      BY DEF Shaped
    <2>. HIDE DEF c
    <2>. QED BY <2>1, <2>2 DEF ListInv, Shaped, Rows
  <1>4. ASSUME NEW c \in calls, Approvals!Serve(c)
        PROVE  ListInv'
    <2>. DEFINE d == [c EXCEPT !.got = Approvals!Listed(c.of)]
    <2>1. /\ calls' = (calls \ {c}) \cup {d}
          /\ UNCHANGED <<filter, effect, live, sent, shown, loading, error, selected, mine>>
      BY <1>4 DEF Approvals!Serve, Approvals!approvals
    <2>2. /\ Shaped(d) /\ d.n = c.n /\ d.of = c.of
          /\ d.got.rows = {r \in ApprovalRids : row[r] = c.of} /\ c.of = "PENDING"
      BY DEF ListInv, Shaped, Approvals!Listed
    <2>3. d.got.rows \subseteq ApprovalRids /\ d.got.rows \cap mine = {}
      BY <2>2 DEF ServerInv
    <2>. HIDE DEF d
    <2>. QED BY <2>1, <2>2, <2>3 DEF ListInv, Shaped, Rows
  <1>5. ASSUME NEW c \in calls, Approvals!Arrive(c)
        PROVE  ListInv'
    <2>1. /\ calls' = calls \ {c} /\ UNCHANGED <<filter, effect, live, sent, error, selected, mine>>
          /\ c.got # None
      BY <1>5 DEF Approvals!Arrive, Approvals!approvals
    <2>2. CASE c.n = live
      <3>1. shown' = c.got /\ loading' = FALSE
        BY <1>5, <2>2 DEF Approvals!Arrive, Approvals!Waiting
      <3>2. selected = {} /\ \A d \in calls' : d.n # live
        BY <2>1, <2>2 DEF ListInv
      <3>3. Rows' = c.got.rows
        BY <2>1, <3>1 DEF Rows
      <3>. QED BY <2>1, <2>2, <3>1, <3>2, <3>3 DEF ListInv, Shaped
    <2>3. CASE c.n # live
      BY <1>5, <2>1, <2>3 DEF Approvals!Arrive, Approvals!Waiting, ListInv, Shaped, Rows
    <2>. QED BY <2>2, <2>3
  <1>6. ASSUME NEW c \in calls, Approvals!Fail(c)
        PROVE  ListInv'
    <2>1. calls' = calls \ {c} /\ UNCHANGED <<filter, effect, live, sent, shown, selected, mine>>
      BY <1>6 DEF Approvals!Fail, Approvals!approvals
    <2>2. CASE c.n = live
      <3>1. error' = TRUE /\ selected = {} /\ \A d \in calls' : d.n # live
        BY <1>6, <2>1, <2>2 DEF Approvals!Fail, Approvals!Failed, Approvals!Waiting, ListInv
      <3>. QED BY <2>1, <3>1 DEF ListInv, Shaped, Rows
    <2>3. CASE c.n # live
      BY <1>6, <2>1, <2>3 DEF Approvals!Fail, Approvals!Failed, Approvals!Waiting, ListInv, Shaped, Rows
    <2>. QED BY <2>2, <2>3
  <1>7. CASE Approvals!Retry
    BY <1>7 DEF Approvals!Retry, Approvals!approvals, ListInv, Shaped, Rows
  <1>8. CASE Approvals!ToggleAll \/ \E r \in ApprovalRids : Approvals!Toggle(r)
    <2>1. UNCHANGED <<filter, hook, mine>> /\ effect /\ ~loading /\ ~error
      BY <1>8 DEF Approvals!ToggleAll, Approvals!Toggle, Approvals!UserMay, Approvals!Rendered,
                  Approvals!Unsent, Approvals!hook, hook
    <2>2. selected' \subseteq Rows
      BY <1>8 DEF Approvals!ToggleAll, Approvals!Toggle, Approvals!Rows, Rows, ListInv
    <2>. QED BY <2>1, <2>2 DEF ListInv, Shaped, Rows, hook
  <1>9. ASSUME NEW b \in batches, Approvals!BatchDone(b)
        PROVE  ListInv'
    BY <1>9 DEF Approvals!BatchDone, Approvals!HandleDone, ListInv, Shaped, Rows
  <1>. QED
    BY <1>1, <1>2, <1>3, <1>4, <1>5, <1>6, <1>7, <1>8, <1>9
    DEF Approvals!Next, Approvals!Answers, Approvals!Ends, Approvals!OthersMove, Approvals!Confirm,
        Approvals!Close, Approvals!Submit, Approvals!ServeBatch, Approvals!BatchFailed,
        Approvals!Unsent, Approvals!hook, Approvals!approvals, vars, approvals, hook

LEMMA ApprovalInit ==
  ASSUME Approvals!Init
  PROVE  ApprovalInv
  BY DEF Approvals!Init, ApprovalInv, ServerInv, ListInv, Rows, Statuses

\* Who has decided about reservations does not find them pending on the list that
\* replaces theirs, and every ticked box is on the page: for any reservations,
\* requests and batches, however they overtake each other or fail.
THEOREM ApprovalsCorrect == Approvals!Spec => [](Approvals!OwnDecisionsShown /\ Approvals!SelectionIsListed)
  <1>1. Approvals!Init => ApprovalInv
    BY ApprovalInit
  <1>2. ApprovalInv /\ [Approvals!Next]_vars => ApprovalInv'
    BY ServerStep, ListStep DEF ApprovalInv
  <1>3. ApprovalInv => Approvals!OwnDecisionsShown /\ Approvals!SelectionIsListed
    BY ApprovalAnswers
  <1>. QED BY <1>1, <1>2, <1>3, PTL DEF Approvals!Spec, Approvals!vars, Approvals!hook, Approvals!approvals,
                                        vars, hook, approvals

\* The lists of the checked instances are current.
THEOREM ListsAreCurrentCorrect == PartsSpec => []ListsAreCurrent
  <1>. DEFINE Inv == /\ part = "history" => HistoryInv
                     /\ part = "approvals" => ApprovalInv
  <1>1. PartsInit => Inv
    BY ApprovalInit DEF PartsInit, Init, HistoryInv, ShownIsAsked
  <1>2. Inv /\ [PartsNext]_<<part, vars, people, legacy>> => Inv'
    <2>. USE DEF PartsNext
    <2>1. (part = "history" => HistoryInv) /\ [PartsNext]_<<part, vars, people, legacy>>
            => (part = "history" => HistoryInv)'
      BY HistoryStep
    <2>2. (part = "approvals" => ApprovalInv) /\ [PartsNext]_<<part, vars, people, legacy>>
            => (part = "approvals" => ApprovalInv)'
      BY ServerStep, ListStep DEF ApprovalInv
    <2>. QED BY <2>1, <2>2
  <1>3. Inv => ListsAreCurrent
    BY ApprovalAnswers DEF ListsAreCurrent, HistoryInv
  <1>. QED BY <1>1, <1>2, <1>3, PTL DEF PartsSpec
=============================================================================
