---------------------------- MODULE LegacySession ----------------------------
(***************************************************************************)
(* One account of the legacy system and one browser tab that uses it: the  *)
(* access token in localStorage, the refresh token in a cookie, the single *)
(* refresh token the user document holds, and the axios interceptor that   *)
(* turns the 401 of an expired access token into one silent refresh while  *)
(* the other calls wait in failedQueue.                                    *)
(***************************************************************************)
EXTENDS Naturals

CONSTANTS
  Calls,       \* API calls the pages have in flight
  MaxTokens,   \* bound on the access tokens issued
  MaxLogins,   \* bound on the logins
  MaxSends,    \* bound on the calls sent
  ApiClient,   \* TRUE: somebody posts /auth/logout (no page does)
  Reloads      \* TRUE: the tab is reloaded at any time

VARIABLES
  \* server
  stored,        \* user.refreshToken, 0 for null
  writes,        \* updates of refreshToken sent and not awaited
  live,          \* access tokens that have not expired
  issued, logins,
  \* browser
  cookie,        \* refreshToken cookie, 0 when there is none
  storage,       \* AUTH_TOKEN_STORAGE_KEY in localStorage, 0 when absent
  ctx,           \* the token of AuthContext, 0 when signed out
  isRefreshing,
  calls,         \* the calls and where their promise stands
  login,         \* the call of the Login page
  sent

server  == <<stored, writes, live, issued, logins>>
browser == <<cookie, storage, ctx, isRefreshing, calls, login, sent>>
vars == <<server, browser>>

Settled == {"idle", "done", "failed"}
NoCall  == [pc |-> "idle", token |-> 0, cookie |-> 0, retry |-> FALSE]
NoLogin == [pc |-> "idle", token |-> 0, cookie |-> 0]

Init ==
  /\ stored = 0 /\ writes = {} /\ live = {} /\ issued = 0 /\ logins = 0
  /\ cookie = 0 /\ storage = 0 /\ ctx = 0 /\ isRefreshing = FALSE
  /\ calls = [q \in Calls |-> NoCall] /\ login = NoLogin /\ sent = 0

-----------------------------------------------------------------------------
(* Server *)

\* A token that expires: an access token, or the stored refresh token.
Expire == \E t \in live : live' = live \ {t} /\ UNCHANGED <<stored, writes, issued, logins, browser>>
RefreshExpires == stored # 0 /\ stored' = 0 /\ UNCHANGED <<writes, live, issued, logins, browser>>

\* login (and signup) up to sendTokens: the update of the user document is not
\* awaited before the answer is sent.
sendTokens ==
  /\ login.pc = "sent" /\ issued < MaxTokens /\ logins < MaxLogins
  /\ issued' = issued + 1 /\ live' = live \union {issued + 1}
  /\ logins' = logins + 1 /\ writes' = writes \union {logins + 1}
  /\ login' = [pc |-> "answered", token |-> issued + 1, cookie |-> logins + 1]
  /\ UNCHANGED <<stored, cookie, storage, ctx, isRefreshing, calls, sent>>

\* ... it lands when it does, or fails, which is logged.
Persist ==
  \E w \in writes :
    /\ writes' = writes \ {w}
    /\ stored' \in {w, stored}
    /\ UNCHANGED <<live, issued, logins, browser>>

IsStored(c) == c # 0 /\ c = stored

\* refresh: the presented token must be the stored one; it is not rotated.
refresh(q) ==
  /\ calls[q].pc = "refreshing"
  /\ IF IsStored(calls[q].cookie)
     THEN /\ issued < MaxTokens
          /\ issued' = issued + 1 /\ live' = live \union {issued + 1}
          /\ calls' = [calls EXCEPT ![q].pc = "refreshed", ![q].token = issued + 1]
     ELSE /\ calls' = [calls EXCEPT ![q].pc = "denied"]
          /\ UNCHANGED <<issued, live>>
  /\ UNCHANGED <<stored, writes, logins, cookie, storage, ctx, isRefreshing, login, sent>>

\* logout, behind protect: the error of the update is swallowed.
Cleared == {0, stored}

logout ==
  /\ ApiClient /\ storage \in live
  /\ stored' \in Cleared
  /\ cookie' = 0
  /\ UNCHANGED <<writes, live, issued, logins, storage, ctx, isRefreshing, calls, login, sent>>

-----------------------------------------------------------------------------
(* AuthContext and the pages *)

SubmitLogin ==
  /\ ctx = 0 /\ login.pc = "idle" /\ logins < MaxLogins /\ issued < MaxTokens
  /\ login' = [NoLogin EXCEPT !.pc = "sent"]
  /\ UNCHANGED <<server, cookie, storage, ctx, isRefreshing, calls, sent>>

\* applyAuthToken of the answer's token: nothing is kept of one that has expired.
Applied(token) == IF token \in live THEN token ELSE 0

LoginAnswered ==
  /\ login.pc = "answered"
  /\ cookie' = login.cookie
  /\ storage' = Applied(login.token) /\ ctx' = Applied(login.token)
  /\ login' = NoLogin
  /\ UNCHANGED <<server, isRefreshing, calls, sent>>

\* A wrong password: the interceptor logs the tab out.
LoginRefused ==
  /\ login.pc = "sent"
  /\ login' = NoLogin
  /\ storage' = 0 /\ ctx' = 0
  /\ UNCHANGED <<server, cookie, isRefreshing, calls, sent>>

\* The button of PortalLayout calls the logout of AuthContext and no endpoint.
SignOut ==
  /\ ctx # 0
  /\ storage' = 0 /\ ctx' = 0
  /\ UNCHANGED <<server, cookie, isRefreshing, calls, login, sent>>

\* AuthProvider mounts again; the module state of the interceptor starts afresh.
Reload ==
  /\ Reloads
  /\ storage' = Applied(storage) /\ ctx' = Applied(storage)
  /\ isRefreshing' = FALSE
  /\ calls' = [q \in Calls |-> NoCall] /\ login' = NoLogin
  /\ UNCHANGED <<server, cookie, sent>>

-----------------------------------------------------------------------------
(* Calls and interceptors *)

\* The request interceptor puts the token of localStorage on whatever is sent.
Sending(q, token) == [calls[q] EXCEPT !.pc = "sent", !.token = token]

Send(q) ==
  /\ ctx # 0 /\ calls[q].pc \in Settled /\ sent < MaxSends
  /\ sent' = sent + 1
  /\ calls' = [calls EXCEPT ![q] = [NoCall EXCEPT !.pc = "sent", !.token = storage]]
  /\ UNCHANGED <<server, cookie, storage, ctx, isRefreshing, login>>

Move(q, pc) == calls' = [calls EXCEPT ![q].pc = pc]

\* protect accepts a live access token, or the call gets a 401, or no answer.
Serve(q) ==
  /\ calls[q].pc = "sent"
  /\ \E pc \in {IF calls[q].token \in live THEN "done" ELSE "refused", "failed"} : Move(q, pc)
  /\ UNCHANGED <<server, cookie, storage, ctx, isRefreshing, login, sent>>

\* The response interceptor on a 401.
Intercept(q) ==
  /\ calls[q].pc = "refused"
  /\ IF calls[q].retry
     THEN Move(q, "failed") /\ UNCHANGED isRefreshing
     ELSE IF isRefreshing
     THEN Move(q, "queued") /\ UNCHANGED isRefreshing
     ELSE /\ isRefreshing' = TRUE
          /\ calls' = [calls EXCEPT ![q].pc = "refreshing", ![q].retry = TRUE, ![q].cookie = cookie]
  /\ UNCHANGED <<server, cookie, storage, ctx, login, sent>>

\* processQueue: the call that refreshed, and every promise queued behind it.
processQueue_One(q) ==  \* mutant
  {q} \union {p \in Calls : calls[p].pc = "queued" /\ \A o \in Calls : calls[o].pc = "queued" => o = p}
processQueue(q) == {q} \union {p \in Calls : calls[p].pc = "queued"}

Resolved(q) == [p \in Calls |-> IF p \in processQueue(q) THEN Sending(p, calls[q].token) ELSE calls[p]]
Rejected(q) == [p \in Calls |-> IF p \in processQueue(q) THEN [calls[p] EXCEPT !.pc = "failed"]
                                 ELSE calls[p]]

Refreshed(q) ==
  /\ calls[q].pc = "refreshed"
  /\ storage' = calls[q].token
  /\ calls' = Resolved(q)
  /\ isRefreshing' = FALSE
  /\ UNCHANGED <<server, cookie, ctx, login, sent>>

\* The refresh was refused, or had no answer: the tab is logged out.
Denied(q) ==
  /\ calls[q].pc \in {"refreshing", "denied"}
  /\ storage' = 0 /\ ctx' = 0
  /\ calls' = Rejected(q)
  /\ isRefreshing' = FALSE
  /\ UNCHANGED <<server, cookie, login, sent>>

Progress(q) == Serve(q) \/ Intercept(q) \/ refresh(q) \/ Refreshed(q) \/ Denied(q)

Next ==
  \/ Expire \/ RefreshExpires \/ sendTokens \/ Persist \/ logout
  \/ SubmitLogin \/ LoginAnswered \/ LoginRefused \/ SignOut \/ Reload
  \/ \E q \in Calls : Send(q) \/ Progress(q)

\* Every call gets an answer or a network error, and the event loop runs the
\* continuation of every promise that settles.
Fairness == \A q \in Calls : WF_vars(Progress(q))

Spec == Init /\ [][Next]_vars /\ Fairness

-----------------------------------------------------------------------------
(* Properties *)

\* A call waits in failedQueue only while a refresh is under way whose end
\* releases it, and there is one refresh at a time (isRefreshing).
NobodyStranded ==
  LET refreshers == {q \in Calls : calls[q].pc \in {"refreshing", "refreshed", "denied"}}
  IN /\ (\E q \in Calls : calls[q].pc = "queued") => refreshers # {}
     /\ \A p, q \in refreshers : p = q
     /\ isRefreshing <=> refreshers # {}

\* A page that shows a signed-in user has a token to send (AuthContext and
\* localStorage, which the interceptor also writes).
SignedInHasToken == ctx # 0 => storage # 0
=============================================================================
