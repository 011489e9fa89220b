----------------------------- MODULE WebSession -----------------------------
(***************************************************************************)
(* Who is signed in to the web client (apps/web), and which page a tab     *)
(* shows: AuthContext asks GET /auth/me once per page load, the login form *)
(* and the logout button change its state, and the guards of App.tsx send  *)
(* the tab from page to page.                                              *)
(*                                                                         *)
(* Cookies belong to the browser: they expire, and other tabs sign in and  *)
(* out.  Requests carry the cookie of the moment they are sent; what is    *)
(* on its way may be overtaken.                                            *)
(***************************************************************************)
CONSTANTS
  Users,   \* the people at this browser
  RoleOf,  \* the role of each
  None     \* nobody, nothing

VARIABLES
  cookie,  \* whose access token the browser sends
  me,      \* the request of the page load: whose token it carries
  form,    \* the login on its way: for whom
  leaving, \* a logout is on its way
  user,    \* AuthContext
  status,  \* AuthContext
  path,    \* the location of the tab
  from     \* the location a guard turned away, kept in the state of /login

context == <<user, status>>
vars == <<cookie, me, form, leaving, user, status, path, from>>

Student == {"/dashboard", "/reservations"}
Faculty == {"/faculty", "/faculty/dashboard"}
Admin == {"/admin", "/admin/analytics"}
Portals == Student \cup Faculty \cup Admin
Paths == {"/", "/login"} \cup Portals

AdminRoles == {"SUPER_ADMIN", "DEPARTMENT_ADMIN", "LAB_ADMIN"}
Admits(p, role) ==
  \/ p \in Student /\ role = "STUDENT"
  \/ p \in Faculty /\ role = "FACULTY"
  \/ p \in Admin /\ role \in AdminRoles

Somebody == Users \cup {None}  \* or nobody

-----------------------------------------------------------------------------
(* Routes *)

\* defaultRouteForRole
Home(role) ==
  CASE role = "FACULTY" -> "/faculty/dashboard"
    [] role \in AdminRoles -> "/admin/analytics"
    [] role = "STUDENT" -> "/dashboard"

\* The pages that are a RoleHomeRedirect, inside a guard or not.
Indexes == {"/", "/faculty", "/admin"}

\* LoginPage
FromLogin ==
  IF status = "authenticated" /\ user # None
  THEN IF from # None THEN from ELSE Home(RoleOf[user])
  ELSE "/login"

\* Where what is rendered at the tab's location sends it: there, if nowhere else.
\* A guard lets a signed-in tab pass that has no user to look at.
Target ==
  CASE path = "/login" -> FromLogin
    [] path # "/login" /\ status = "loading" -> path
    [] path # "/login" /\ status = "unauthenticated" -> "/login"
    [] path # "/login" /\ status = "authenticated" ->
         IF user = None THEN (IF path \in Indexes THEN "/login" ELSE path)
         ELSE IF path \in Indexes \/ ~Admits(path, RoleOf[user]) THEN Home(RoleOf[user])
         ELSE path

Settled == Target = path

Redirect ==
  /\ ~Settled
  /\ path' = Target
  /\ from' = IF Target = "/login" /\ path \in Portals THEN path ELSE None
  /\ UNCHANGED <<cookie, me, form, leaving, context>>

\* A link of the portal, or the back button.
Go(p) ==
  /\ Settled
  /\ path' = p
  /\ from' = None
  /\ UNCHANGED <<cookie, me, form, leaving, context>>

-----------------------------------------------------------------------------
(* AuthContext *)

SignedIn(u) == user' = u /\ status' = "authenticated"
SignedOut_KeepsStatus == user' = None /\ UNCHANGED status  \* mutant
SignedOut == user' = None /\ status' = "unauthenticated"

\* A page load, of a typed address or of the one the tab is at, which keeps the
\* state of its history entry.  What the last page had on its way is lost to it.
Load(p) ==
  /\ path' = p
  /\ from' = IF p = path THEN from ELSE None
  /\ me' = [who |-> cookie]
  /\ form' = None
  /\ leaving' = FALSE
  /\ user' = None
  /\ status' = "loading"
  /\ UNCHANGED cookie

MeAnswered ==
  /\ me # None
  /\ me.who # None
  /\ SignedIn(me.who)
  /\ me' = None
  /\ UNCHANGED <<cookie, form, leaving, path, from>>

\* 401, or the network.
MeDenied ==
  /\ me # None
  /\ SignedOut
  /\ me' = None
  /\ UNCHANGED <<cookie, form, leaving, path, from>>

\* The form is there unless the tab is signed in: also while it is loading.
Submit(u) ==
  /\ path = "/login"
  /\ Settled
  /\ form = None
  /\ form' = u
  /\ UNCHANGED <<cookie, me, leaving, context, path, from>>

\* The form leaves for the page of the role before the guard of /login, which
\* would go back to where the tab came from, is rendered.
LoginDone ==
  /\ form # None
  /\ cookie' = form
  /\ SignedIn(form)
  /\ form' = None
  /\ path' = Home(RoleOf[form])
  /\ from' = None
  /\ UNCHANGED <<me, leaving>>

LoginFailed ==
  /\ form # None
  /\ form' = None
  /\ UNCHANGED <<cookie, me, leaving, context, path, from>>

LogOut ==
  /\ path \in Portals
  /\ Settled
  /\ user # None
  /\ leaving' = TRUE
  /\ UNCHANGED <<cookie, me, form, context, path, from>>

\* The local session ends whether or not the server has answered.
LoggedOut ==
  /\ leaving
  /\ cookie' \in {cookie, None}
  /\ SignedOut
  /\ leaving' = FALSE
  /\ UNCHANGED <<me, form, path, from>>

\* Another tab signs in or out, or the access token expires.
CookieChanges ==
  /\ cookie' \in Somebody
  /\ UNCHANGED <<me, form, leaving, context, path, from>>

Init ==
  /\ cookie \in Somebody
  /\ me = [who |-> cookie]
  /\ form = None
  /\ leaving = FALSE
  /\ user = None
  /\ status = "loading"
  /\ path \in Paths
  /\ from = None

Next ==
  \/ Redirect
  \/ \E p \in Paths : Go(p) \/ Load(p)
  \/ MeAnswered \/ MeDenied
  \/ \E u \in Users : Submit(u)
  \/ LoginDone \/ LoginFailed
  \/ LogOut \/ LoggedOut
  \/ CookieChanges

\* React renders what it was told to.
Spec == Init /\ [][Next]_vars /\ WF_vars(Redirect)

-----------------------------------------------------------------------------
(* Properties *)

\* No page of a portal is shown to anyone but a signed-in user with its role,
\* whichever way the tab got there and whatever ended its session.
PortalMatchesRole ==
  path \in Portals /\ Settled /\ status # "loading"
    => user # None /\ Admits(path, RoleOf[user])
=============================================================================
