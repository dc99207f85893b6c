------------------------------ MODULE PortalAccess ------------------------------
(***************************************************************************)
(* Who may use the portal: the user accounts (portal_auth.py), the         *)
(* sessions in memory (portal_sessions.py), the roles of the routes        *)
(* (portal_routes.py) and the requests that sign in, act and edit accounts *)
(* (handle_client in web_portal.py).                                       *)
(*                                                                         *)
(* Every connection runs in a task of its own.  A request looks its        *)
(* session up when its head has been read and keeps what it found while    *)
(* its body comes in and while a password is hashed; between those awaits  *)
(* it runs undisturbed.                                                    *)
(***************************************************************************)
EXTENDS Integers, FiniteSets, FiniteSetsExt, Functions

CONSTANTS
  Name,         \* user names, compared without case
  First,        \* the administrator setup leaves behind
  MaxUsers,     \* MAX_PORTAL_USERS
  MaxSessions,  \* sessions.maximum
  Timeout,      \* portal_session_timeout
  Period,       \* ticks_ms() counts modulo 2^30
  Connection,         \* connections
  MaxRequests,  \* a bound of the model: requests
  PortalExcused       \* the exposures after which nothing is guaranteed

ASSUME AccessAssumption ==
  /\ First \in Name
  /\ MaxUsers \in Nat \ {0} /\ MaxSessions \in Nat \ {0}
  /\ Timeout \in Nat \ {0} /\ Period \in Nat /\ Timeout < Period
  /\ MaxRequests \in Nat

VARIABLES
  users,     \* portal.users of the configuration, by name
  sessions,  \* _sessions, by identifier
  reading,   \* what each connection's request has read so far
  now,       \* monotonic_ms()
  requests,  \* requests so far; a request's number names the session or account it makes
  portalExposed

portalVars == <<users, sessions, reading, now, requests, portalExposed>>

(***************************************************************************)
(* What the code does not cover (README, Exposures):                       *)
(*   kept     an account is disabled or removed while it is signed in      *)
(*   late     an account is edited while a request of it is being read, or *)
(*            its password hashed                                          *)
(*   wrapped  the clock wraps while somebody is signed in                  *)
(***************************************************************************)
PortalExposure == {"kept", "late", "wrapped"}

Role == {"viewer", "operator", "administrator"}
Operation == {"page", "operate", "activate", "administer", "logout", "restart", "reset",
              "password", "add", "edit", "remove"}

\* ROLE_LEVELS
Level == [viewer |-> 10, operator |-> 20, administrator |-> 30]
\* required_role() of the routes of each kind: what is not listed, and what is listed for
\* viewers but is posted, is for administrators.
Required == [k \in Operation |-> CASE k \in {"page", "logout"}      -> "viewer"
                                   [] k \in {"operate", "activate"} -> "operator"
                                   [] OTHER                         -> "administrator"]

\* role_allows()
RoleAllows(role, kind) == Level[role] >= Level[Required[kind]]

Users   == [account : Nat, role : Role, enabled : BOOLEAN, password : Nat]
NoUser  == [account |-> 0, role |-> "viewer", enabled |-> FALSE, password |-> 0]
Exists(n) == users[n].account # 0

\* account, password and idle of a session are history: whose it is, the password it was
\* opened with, and how long it has really been idle.
Sessions == [name : Name, role : Role, seen : 0 .. Period - 1,
             account : Nat, password : Nat, idle : 0 .. Timeout + 1]
Requests == [at : {"body", "login", "password", "reset"}, number : Nat, id : Nat, name : Name,
             role : Role, account : Nat, password : Nat,
             idle : 0 .. Timeout + 1]
Rest     == [at |-> "rest"]

PortalTypeOK ==
  /\ users \in [Name -> Users]
  /\ DOMAIN sessions \subseteq 1 .. requests
  /\ \A s \in DOMAIN sessions : sessions[s] \in Sessions
  /\ \A c \in Connection : reading[c] = Rest \/ reading[c] \in Requests
  /\ DOMAIN reading = Connection
  /\ now \in 0 .. Period - 1
  /\ requests \in 0 .. MaxRequests
  /\ portalExposed \subseteq PortalExposure

\* Any boot: the administrator of setup, and at most one account made since.
PortalInit ==
  /\ \E other \in Name, role \in Role :
       users = [n \in Name |->
         CASE n = First -> [account |-> 1, role |-> "administrator", enabled |-> TRUE,
                            password |-> 0]
           [] n = other /\ n # First -> [account |-> 2, role |-> role, enabled |-> TRUE,
                                         password |-> 0]
           [] OTHER -> NoUser]
  /\ sessions = <<>> /\ reading = [c \in Connection |-> Rest]
  /\ now = 0 /\ requests = 0 /\ portalExposed = {}

-----------------------------------------------------------------------------
(* The table of sessions.                                                  *)

Without(table, ids) == Restrict(table, DOMAIN table \ ids)

\* now - last_seen > timeout, of two ticks, as integers
Stale(s) == now - sessions[s].seen > Timeout

\* expire(), and the eviction of the longest unseen session when the table is still full
SessionRoom ==
  LET live == {s \in DOMAIN sessions : ~Stale(s)} IN
  IF Cardinality(live) < MaxSessions THEN live
  ELSE live \ {CHOOSE s \in live : \A t \in live : sessions[s].seen <= sessions[t].seen}

\* create(): keep are the sessions that stay; the request's number is the new identifier.
Create(keep, number, name, role, account, password) ==
  sessions' = [s \in keep \cup {number} |->
    IF s = number
    THEN [name |-> name, role |-> role, seen |-> now, account |-> account,
          password |-> password, idle |-> 0]
    ELSE sessions[s]]

\* revoke_user()
SessionsOf(name) == {s \in DOMAIN sessions : sessions[s].name = name}

\* Mutant: only the name is brought up to date.
UpdateNameOnly(old, new, role) ==
  sessions' = [s \in DOMAIN sessions |->
    [sessions[s] EXCEPT !.name = IF @ = old THEN new ELSE @]]
\* update_identity()
UpdateIdentity(old, new, role) ==
  sessions' = [s \in DOMAIN sessions |->
    IF sessions[s].name # old THEN sessions[s]
    ELSE [sessions[s] EXCEPT !.name = new, !.role = role]]

-----------------------------------------------------------------------------
(* Requests.                                                               *)

Answered(c) == reading' = [reading EXCEPT ![c] = Rest]
Number == requests + 1
Counts == requests < MaxRequests /\ requests' = Number

\* The head of a request with a session has been read: get() touches the session, or drops
\* it when it has been idle too long.
RequestArrives(c, s) ==
  /\ reading[c] = Rest /\ Counts
  /\ s \in DOMAIN sessions
  /\ IF Stale(s)
     THEN sessions' = Without(sessions, {s}) /\ UNCHANGED reading
     ELSE /\ sessions' = [sessions EXCEPT ![s].seen = now, ![s].idle = 0]
          /\ reading' = [reading EXCEPT ![c] =
               [at |-> "body", number |-> Number, id |-> s, name |-> sessions[s].name,
                role |-> sessions[s].role, account |-> sessions[s].account,
                password |-> sessions[s].password, idle |-> sessions[s].idle]]
  /\ UNCHANGED <<users, now, portalExposed>>

\* The body does not come, or is too long, or its token is not the session's, or the role
\* does not suffice: an answer and nothing else.
RequestRefused(c) ==
  /\ reading[c].at = "body" /\ Answered(c)
  /\ UNCHANGED <<users, sessions, now, requests, portalExposed>>

\* The body has come, and the checks of handle_access_routes() have been passed.
Handles(c, kind) ==
  /\ reading[c].at = "body"
  /\ RoleAllows(reading[c].role, kind)

\* handle_live_routes(): pages and their parts, from snapshots.
ServePage(c) ==
  /\ Handles(c, "page") /\ Answered(c)
  /\ UNCHANGED <<users, sessions, now, requests, portalExposed>>

\* handle_upload_routes(): what it does to a release is in Upload.
ServeUpload(c) ==
  /\ Handles(c, "operate") /\ Answered(c)
  /\ UNCHANGED <<users, sessions, now, requests, portalExposed>>

\* handle_settings_routes(): what it does to the configuration is in Settings.
ServeSettings(c) ==
  /\ Handles(c, "administer") /\ Answered(c)
  /\ UNCHANGED <<users, sessions, now, requests, portalExposed>>

ServeRequest(c) == ServePage(c) \/ ServeUpload(c) \/ ServeSettings(c)

\* Another request of this account is being read, or its password hashed.
Elsewhere(c, account) ==
  \E d \in Connection \ {c} : reading[d] # Rest /\ reading[d].account = account

\* The exposures of a change of an account, after which it can sign in or not.
EditsAccount(c, n, usable) ==
  LET account == users[n].account IN
  portalExposed' = portalExposed
    \cup (IF ~usable /\ (\E s \in DOMAIN sessions : sessions[s].account = account)
          THEN {"kept"} ELSE {})
    \cup (IF Elsewhere(c, account) THEN {"late"} ELSE {})

\* revoke() of the request's own session
RevokeSession(c) ==
  /\ sessions' = Without(sessions, {reading[c].id})
  /\ Answered(c)
  /\ UNCHANGED <<users, now, requests, portalExposed>>

\* POST /logout, and the requests to restart or to shut down.
Leave(c) ==
  /\ \E kind \in {"logout", "restart"} : Handles(c, kind)
  /\ RevokeSession(c)

\* POST /activate-... and /rollback-application: when the restart has been scheduled, the
\* session is revoked; when the handler raises, it stays.
Activate(c) ==
  /\ Handles(c, "activate")
  /\ \/ RevokeSession(c)
     \/ Answered(c) /\ UNCHANGED <<users, sessions, now, requests, portalExposed>>

-----------------------------------------------------------------------------
(* Signing in and changing the own password.                               *)

\* authenticate(): the account is loaded, and its password hashed.
LoginArrives(c, n) ==
  /\ reading[c] = Rest /\ Counts
  /\ Exists(n) /\ users[n].enabled
  /\ reading' = [reading EXCEPT ![c] =
       [at |-> "login", number |-> Number, id |-> 0, name |-> n,
        role |-> users[n].role, account |-> users[n].account,
        password |-> users[n].password, idle |-> 0]]
  /\ UNCHANGED <<users, sessions, now, portalExposed>>

LoginAccepted(c) ==
  /\ reading[c].at = "login"
  /\ LET r == reading[c] IN
       Create(SessionRoom, r.number, r.name, r.role, r.account, r.password)
  /\ Answered(c)
  /\ UNCHANGED <<users, now, requests, portalExposed>>

\* The password is wrong; a delay that grows with the failures comes before the answer.
PasswordRefused(c) ==
  /\ reading[c].at \in {"login", "password", "reset"} /\ Answered(c)
  /\ UNCHANGED <<users, sessions, now, requests, portalExposed>>

\* A request that waits for its password to be hashed
Authenticating(r, kind, account, password) ==
  [at |-> kind, number |-> r.number, id |-> r.id, name |-> r.name, role |-> r.role,
   account |-> account, password |-> password, idle |-> r.idle]

\* The current password of the session's name is hashed: POST /user?action=password, and
\* POST /factory-default.
AuthenticationBegins(c, kind) ==
  /\ Handles(c, kind)
  /\ LET n == reading[c].name IN
     IF Exists(n) /\ users[n].enabled
     THEN reading' = [reading EXCEPT ![c] =
            Authenticating(@, kind, users[n].account, users[n].password)]
     ELSE Answered(c)
  /\ UNCHANGED <<users, sessions, now, requests, portalExposed>>

PasswordChangeBegins(c) == AuthenticationBegins(c, "password")
ResetBegins(c)          == AuthenticationBegins(c, "reset")

\* The reset is requested (Settings), and the session revoked.
ResetAccepted(c) == reading[c].at = "reset" /\ RevokeSession(c)

\* update_user(), revoke_user() and a session for the role the old one had.
PasswordChanged(c) ==
  /\ reading[c].at = "password"
  /\ LET n == reading[c].name
         k == reading[c].number IN
     IF ~Exists(n) THEN UNCHANGED <<users, sessions, portalExposed>>
     ELSE /\ users' = [users EXCEPT ![n].password = k]
          /\ Create(SessionRoom \ SessionsOf(n), k, n, reading[c].role, users[n].account, k)
          /\ EditsAccount(c, n, TRUE)
  /\ Answered(c)
  /\ UNCHANGED <<now, requests>>

-----------------------------------------------------------------------------
(* Accounts.                                                               *)

Administrators == {n \in Name : Exists(n) /\ users[n].enabled
                                  /\ users[n].role = "administrator"}

\* add_user()
AddUser(c, n, role) ==
  /\ Handles(c, "add")
  /\ ~Exists(n) /\ Cardinality({m \in Name : Exists(m)}) < MaxUsers
  /\ users' = [users EXCEPT ![n] = [account |-> reading[c].number + 2, role |-> role,
                                    enabled |-> TRUE, password |-> reading[c].number]]
  /\ Answered(c)
  /\ UNCHANGED <<sessions, now, requests, portalExposed>>

\* Mutant: disabled administrators count as well.
RemovesLastOfRole(n, role, enabled) ==
  /\ {m \in Name : Exists(m) /\ users[m].role = "administrator"} = {n}
  /\ role # "administrator" \/ ~enabled
\* removes_last_administrator
RemovesLastAdministrator(n, role, enabled) ==
  /\ Administrators = {n}
  /\ role # "administrator" \/ ~enabled

\* An account with another role or state
Edited(user, role, enabled) ==
  [account |-> user.account, role |-> role, enabled |-> enabled, password |-> user.password]

\* update_user() of a role, of whether it is enabled and of the name, then
\* update_identity() of its sessions
EditUser(c, n, new, role, enabled) ==
  /\ Handles(c, "edit")
  /\ Exists(n) /\ (new = n \/ ~Exists(new))
  /\ ~RemovesLastAdministrator(n, role, enabled)
  /\ users[n] # Edited(users[n], role, enabled) \/ new # n
  /\ users' = [m \in Name |->
       IF m = new THEN Edited(users[n], role, enabled)
       ELSE IF m = n THEN NoUser ELSE users[m]]
  /\ UpdateIdentity(n, new, role)
  /\ EditsAccount(c, n, enabled)
  /\ Answered(c)
  /\ UNCHANGED <<now, requests>>

\* remove_user(); the sessions stay.
RemoveUser(c, n) ==
  /\ Handles(c, "remove")
  /\ Exists(n) /\ ~RemovesLastAdministrator(n, "viewer", FALSE)
  /\ users' = [users EXCEPT ![n] = NoUser]
  /\ EditsAccount(c, n, FALSE)
  /\ Answered(c)
  /\ UNCHANGED <<sessions, now, requests>>

-----------------------------------------------------------------------------

Tick ==
  /\ now' = (now + 1) % Period
  /\ sessions' = [s \in DOMAIN sessions |->
       [sessions[s] EXCEPT !.idle = IF @ > Timeout THEN @ ELSE @ + 1]]
  /\ portalExposed' =
       portalExposed \cup (IF now' = 0 /\ sessions # <<>> THEN {"wrapped"} ELSE {})
  /\ UNCHANGED <<users, reading, requests>>

\* Sessions and connections are in memory only; the clock starts again.
PortalRestart ==
  /\ sessions' = <<>> /\ reading' = [c \in Connection |-> Rest] /\ now' = 0
  /\ UNCHANGED <<users, requests, portalExposed>>

Answers(c) ==
  \/ \E s \in 1 .. requests : RequestArrives(c, s)
  \/ RequestRefused(c) \/ ServeRequest(c) \/ Leave(c) \/ Activate(c)
  \/ LoginAccepted(c) \/ PasswordRefused(c)
  \/ PasswordChangeBegins(c) \/ PasswordChanged(c) \/ ResetBegins(c) \/ ResetAccepted(c)
  \/ \E n \in Name : \/ LoginArrives(c, n) \/ RemoveUser(c, n)
                     \/ \E role \in Role : AddUser(c, n, role)
                     \/ \E new \in Name, role \in Role, enabled \in BOOLEAN :
                          EditUser(c, n, new, role, enabled)

PortalNext == (\E c \in Connection : Answers(c)) \/ Tick \/ PortalRestart

PortalSpec == PortalInit /\ [][PortalNext]_portalVars

-----------------------------------------------------------------------------
(* Correctness, up to the first excused exposure.                          *)

PortalPromised == portalExposed \cap PortalExcused = {}

\* Somebody can always administer the device: whatever administrators change about each
\* other at the same time, an enabled one remains.
AdminRemains == Administrators # {}

\* A session is that of an account which exists under its name, has its role, and still has
\* the password the session was opened with, after any interleaving of sign-ins, edits,
\* renames and password changes.
SessionsMatchAccounts ==
  PortalPromised => \A s \in DOMAIN sessions :
    LET u == users[sessions[s].name] IN
    /\ u.account = sessions[s].account /\ u.enabled
    /\ u.role = sessions[s].role /\ u.password = sessions[s].password

\* The effects that a request of this kind may have.
Effect(c, kind) ==
  \/ kind = "page" /\ ServePage(c)
  \/ kind = "operate" /\ ServeUpload(c)
  \/ kind = "activate" /\ Activate(c)
  \/ kind = "administer" /\ ServeSettings(c)
  \/ kind = "password" /\ PasswordChanged(c)
  \/ kind = "reset" /\ ResetAccepted(c)
  \/ kind = "remove" /\ \E n \in Name : RemoveUser(c, n)
  \/ kind = "add" /\ \E n \in Name, role \in Role : AddUser(c, n, role)
  \/ kind = "edit" /\ \E n, new \in Name, role \in Role, enabled \in BOOLEAN :
                        EditUser(c, n, new, role, enabled)

\* A request has an effect only for an account whose role allows it when the effect comes,
\* and for a session that had not been idle too long when the request came.
ActsOnlyAllowed ==
  \A c \in Connection, kind \in Operation : (PortalPromised /\ Effect(c, kind)) =>
    /\ reading[c].idle <= Timeout
    /\ LET u == users[reading[c].name] IN
         /\ u.account = reading[c].account /\ u.enabled
         /\ Level[u.role] >= Level[Required[kind]]

\* Who acts is who signed in, and may.
SessionsHold == [][SessionsMatchAccounts' /\ ActsOnlyAllowed]_portalVars
==============================================================================
