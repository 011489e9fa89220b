----------------------------- MODULE MCBrowsers -----------------------------
(* Small instances, for TLC, of the three models of what runs in a browser:  *)
(* a page that lists reservations ("history", which changes its filter, and  *)
(* "approvals", which decides), the session of the web client ("session"),   *)
(* and that of the legacy one ("legacy").  The variables of a part that is   *)
(* not run keep one value.                                                   *)
EXTENDS WebPages, TLC

CONSTANTS
  ada, bob, eve,
  ApprovalRids, ApprovalCalls, ApprovalBatches,  \* the instance of "approvals"
  People, PeopleRole,  \* the people at the browser of "session", and their roles
  TabCalls             \* the calls of "legacy"
VARIABLES
  part,
  scookie, me, form, leaving, user, status, path, from,
  stored, writes, tokens, issued, logins,
  lcookie, storage, ctx, isRefreshing, lcalls, login, lsent

people == <<scookie, me, form, leaving, user, status, path, from>>
legacy == <<stored, writes, tokens, issued, logins, lcookie, storage, ctx, isRefreshing, lcalls, login, lsent>>

Approvals == INSTANCE WebPages WITH
  Rids <- ApprovalRids, Filters <- {"PENDING"}, MaxCalls <- ApprovalCalls, MaxBatches <- ApprovalBatches

Session == INSTANCE WebSession WITH
  Users <- People, RoleOf <- PeopleRole, cookie <- scookie
MCPeopleRole == ada :> "SUPER_ADMIN" @@ bob :> "FACULTY" @@ eve :> "STUDENT"

LegacyTab == INSTANCE LegacySession WITH
  Calls <- TabCalls, MaxTokens <- 3, MaxLogins <- 1, MaxSends <- 3, ApiClient <- TRUE, Reloads <- TRUE,
  live <- tokens, cookie <- lcookie, calls <- lcalls, sent <- lsent

\* What the code takes for granted of who is who.
ASSUME InstancesAssumption ==
  /\ PeopleRole \in [People -> Session!AdminRoles \cup {"FACULTY", "STUDENT"}]
  /\ None \notin People

NoPage ==
  /\ row = None /\ filter = None /\ effect = FALSE /\ live = 0 /\ calls = {} /\ sent = 0
  /\ shown = None /\ loading = FALSE /\ error = FALSE /\ selected = {} /\ dialog = None
  /\ batches = {} /\ decided = 0 /\ mine = {}
NoSession ==
  /\ scookie = None /\ me = None /\ form = None /\ leaving = FALSE /\ user = None
  /\ status = None /\ path = None /\ from = None
NoLegacy ==
  /\ stored = 0 /\ writes = {} /\ tokens = {} /\ issued = 0 /\ logins = 0 /\ lcookie = 0
  /\ storage = 0 /\ ctx = 0 /\ isRefreshing = FALSE /\ lcalls = <<>> /\ login = None /\ lsent = 0

PartsInit ==
  \/ part = "history" /\ Init /\ NoSession /\ NoLegacy
  \/ part = "approvals" /\ Approvals!Init /\ NoSession /\ NoLegacy
  \/ part = "session" /\ Session!Init /\ NoPage /\ NoLegacy
  \/ part = "legacy" /\ LegacyTab!Init /\ NoPage /\ NoSession

PartsNext ==
  /\ \/ part = "history" /\ Next /\ UNCHANGED <<people, legacy>>
     \/ part = "approvals" /\ Approvals!Next /\ UNCHANGED <<people, legacy>>
     \/ part = "session" /\ Session!Next /\ UNCHANGED <<vars, legacy>>
     \/ part = "legacy" /\ LegacyTab!Next /\ UNCHANGED <<vars, people>>
  /\ UNCHANGED part

\* The fairness of the parts whose liveness is checked.
PartsSpec ==
  /\ PartsInit /\ [][PartsNext]_<<part, vars, people, legacy>>
  /\ WF_vars(part = "history" /\ Effect)
  /\ \A n \in 1 .. MaxCalls : WF_vars(part = "history" /\ Ends(n))
  /\ WF_people(part = "session" /\ Session!Redirect)
  /\ \A q \in TabCalls : WF_legacy(part = "legacy" /\ LegacyTab!Progress(q))

-----------------------------------------------------------------------------
\* A page of a portal is shown to nobody but a signed-in user with its role; the
\* legacy tab has a token when it has a user, and no call waits for a refresh
\* that is not under way.
SessionsAgree ==
  /\ part = "session" => Session!PortalMatchesRole
  /\ part = "legacy" => LegacyTab!SignedInHasToken /\ LegacyTab!NobodyStranded

\* A list is of the filter the page is asked for; the approvals page does not
\* show as pending what it has decided, nor selects what it does not show.
ListsAreCurrent ==
  /\ part = "history" => ShownIsAsked
  /\ part = "approvals" => Approvals!OwnDecisionsShown /\ Approvals!SelectionIsListed

\* A page stops loading, the guards stop redirecting, and every call of the
\* legacy tab ends.
BrowsersSettle ==
  /\ []<>(part = "history" => ~loading \/ sent = MaxCalls)
  /\ []<>(part = "session" => Session!Settled)
  /\ \A q \in TabCalls : []<>(part = "legacy" => lcalls[q].pc \in LegacyTab!Settled)
=============================================================================
