----------------------------- MODULE PortalProofs -----------------------------
(***************************************************************************)
(* Theorems about what the portal looks after for its clients: the         *)
(* accounts and the sessions (PortalAccess), for any set of names, any     *)
(* number of accounts, sessions, connections and requests, and any         *)
(* timeout; the uploads (Upload), for any number of clients, sessions,     *)
(* chunks and releases; the clients of the API (DeviceApi), for any set of *)
(* them; and the history they follow (EventHistory), for histories, pages  *)
(* and log queues of any length.                                           *)
(***************************************************************************)
EXTENDS PortalAccess, Upload, DeviceApi, SequenceTheorems, FiniteSetTheorems, TLAPS

\* What a request that is being read has brought along has a number.
Numbered ==
  /\ requests \in Nat
  /\ DOMAIN reading = Connection
  /\ \A c \in Connection : reading[c] # Rest => reading[c].number \in Nat

Accounts == users \in [Name -> Users]

\* The inductive invariant.
IInv == Numbered /\ Accounts /\ AdminRemains

-----------------------------------------------------------------------------
(* Accounts.                                                               *)

\* An account administers whatever else is said of it.
LEMMA AdministratorsFacts ==
  ASSUME NEW n \in Name
  PROVE  n \in Administrators <=> /\ users[n].account # 0 /\ users[n].enabled
                                  /\ users[n].role = "administrator"
BY DEF Administrators, Exists

\* Who is kept with account, role and state stays an administrator.
LEMMA KeepsAdministrator ==
  ASSUME NEW a \in Administrators, users'[a].account = users[a].account,
         users'[a].role = users[a].role, users'[a].enabled = users[a].enabled
  PROVE  AdminRemains'
<1>1. a \in Administrators'
  BY DEF Administrators, Exists
<1> QED
  BY <1>1 DEF AdminRemains

LEMMA SameUsers ==
  ASSUME IInv, users' = users
  PROVE  Accounts' /\ AdminRemains'
BY DEF IInv, Accounts, AdminRemains, Administrators, Exists

\* removes_last_administrator (portal_auth.py): when an edit is not refused and somebody
\* administers the device, either somebody else does, or the edited account goes on doing it.
LEMMA NotTheLast ==
  ASSUME AdminRemains, NEW n, NEW role, NEW enabled \in BOOLEAN,
         ~RemovesLastAdministrator(n, role, enabled)
  PROVE  \/ \E a \in Administrators : a # n
         \/ n \in Administrators /\ role = "administrator" /\ enabled
<1>1. CASE Administrators = {n}
  BY <1>1 DEF RemovesLastAdministrator
<1>2. CASE Administrators # {n}
  BY <1>2 DEF AdminRemains
<1> QED
  BY <1>1, <1>2

LEMMA AddsAccount ==
  ASSUME IInv, NEW c \in Connection, NEW n \in Name, NEW role \in Role, AddUser(c, n, role)
  PROVE  Accounts' /\ AdminRemains'
<1>1. reading[c].number \in Nat
  BY DEF AddUser, Handles, Rest, IInv, Numbered
<1>2. Accounts'
  BY <1>1 DEF AddUser, IInv, Accounts, Users
<1>3. PICK a \in Administrators : TRUE
  BY DEF IInv, AdminRemains
<1>4. a # n /\ a \in Name
  BY <1>3 DEF AddUser, Administrators
<1>5. users'[a] = users[a]
  BY <1>4 DEF AddUser, IInv, Accounts
<1> QED
  BY <1>2, <1>3, <1>5, KeepsAdministrator

LEMMA ChangesPassword ==
  ASSUME IInv, NEW c \in Connection, PasswordChanged(c)
  PROVE  Accounts' /\ AdminRemains'
<1>1. reading[c].number \in Nat
  BY DEF PasswordChanged, Rest, IInv, Numbered
<1>2. CASE users' = users
  BY <1>2, SameUsers
<1>3. CASE users' # users
  <2> DEFINE n == reading[c].name
             k == reading[c].number
  <2>1. users' = [users EXCEPT ![n].password = k]
    BY <1>3 DEF PasswordChanged
  <2> HIDE DEF n, k
  <2>2. n \in Name
    BY <1>3, <2>1 DEF IInv, Accounts
  <2>3. users[n] \in Users
    BY <2>2 DEF IInv, Accounts
  <2>4. k \in Nat
    BY <1>1 DEF k
  <2>5. [users[n] EXCEPT !.password = k] \in Users
    BY <2>3, <2>4 DEF Users
  <2>6. Accounts'
    BY <2>1, <2>2, <2>5 DEF IInv, Accounts
  <2>7. PICK a \in Administrators : TRUE
    BY DEF IInv, AdminRemains
  <2>8. a \in Name
    BY <2>7 DEF Administrators
  <2>9. /\ users'[a].account = users[a].account /\ users'[a].role = users[a].role
        /\ users'[a].enabled = users[a].enabled
    <3>1. CASE a = n
      <4>1. users'[a] = [users[n] EXCEPT !.password = k]
        BY <2>1, <2>2, <3>1 DEF IInv, Accounts
      <4> QED
        BY <2>3, <3>1, <4>1 DEF Users
    <3>2. CASE a # n
      BY <2>1, <2>8, <3>2 DEF IInv, Accounts
    <3> QED
      BY <3>1, <3>2
  <2> QED
    BY <2>6, <2>7, <2>9, KeepsAdministrator
<1> QED
  BY <1>2, <1>3

LEMMA EditsUser ==
  ASSUME IInv, NEW c \in Connection, NEW n \in Name, NEW new \in Name, NEW role \in Role,
         NEW enabled \in BOOLEAN, EditUser(c, n, new, role, enabled)
  PROVE  Accounts' /\ AdminRemains'
<1> DEFINE u == Edited(users[n], role, enabled)
<1>1. users' = [m \in Name |-> IF m = new THEN u ELSE IF m = n THEN NoUser ELSE users[m]]
  BY DEF EditUser
<1>2. users[n] \in Users
  BY DEF IInv, Accounts
<1>3. u \in Users
  BY <1>2 DEF Edited, Users
<1>4. u.account = users[n].account /\ u.role = role /\ u.enabled = enabled
  BY DEF Edited
<1> HIDE DEF u
<1>5. NoUser \in Users
  BY DEF NoUser, Users, Role
<1>6. Accounts'
  BY <1>1, <1>3, <1>5 DEF IInv, Accounts
<1>7. users[n].account # 0 /\ (new = n \/ users[new].account = 0)
  BY DEF EditUser, Exists
<1>8. CASE \E a \in Administrators : a # n
  <2>1. PICK a \in Administrators : a # n
    BY <1>8
  <2>2. a \in Name /\ users[a].account # 0
    BY <2>1 DEF Administrators, Exists
  <2>3. a # new
    BY <1>7, <2>1, <2>2
  <2>4. users'[a] = users[a]
    BY <1>1, <2>1, <2>2, <2>3
  <2> QED
    BY <1>6, <2>1, <2>4, KeepsAdministrator
<1>9. CASE role = "administrator" /\ enabled
  <2>1. users'[new] = u
    BY <1>1
  <2>2. new \in Administrators'
    BY <1>4, <1>7, <1>9, <2>1 DEF Administrators, Exists
  <2> QED
    BY <1>6, <2>2 DEF AdminRemains
<1> QED
  BY <1>8, <1>9, NotTheLast DEF EditUser, IInv

LEMMA RemovesUser ==
  ASSUME IInv, NEW c \in Connection, NEW n \in Name, RemoveUser(c, n)
  PROVE  Accounts' /\ AdminRemains'
<1>1. NoUser \in Users
  BY DEF NoUser, Users, Role
<1>2. users' = [users EXCEPT ![n] = NoUser]
  BY DEF RemoveUser
<1>3. Accounts'
  BY <1>1, <1>2 DEF IInv, Accounts
<1>4. PICK a \in Administrators : a # n
  <2>1. Administrators # {n}
    BY DEF RemoveUser, RemovesLastAdministrator
  <2> QED
    BY <2>1 DEF IInv, AdminRemains
<1>5. users'[a] = users[a]
  BY <1>2, <1>4 DEF IInv, Accounts, Administrators
<1> QED
  BY <1>3, <1>4, <1>5, KeepsAdministrator

-----------------------------------------------------------------------------
(* Requests.                                                               *)

\* The answer takes a request off its connection.
LEMMA AnsweredFacts ==
  ASSUME Numbered, NEW c \in Connection, Answered(c), requests' = requests
  PROVE  Numbered'
BY DEF Numbered, Answered

\* Whatever a connection does, what it reads has a number.
LEMMA AnswersNumbered ==
  ASSUME Numbered, NEW c \in Connection, Answers(c)
  PROVE  Numbered'
<1>1. ASSUME NEW s \in 1 .. requests, RequestArrives(c, s) PROVE Numbered'
  <2>1. requests \in Nat /\ requests' = requests + 1
    BY <1>1 DEF RequestArrives, Counts, Number, Numbered
  <2>2. CASE reading' = reading
    BY <2>1, <2>2 DEF Numbered
  <2>3. CASE reading' # reading
    <3> DEFINE r == [at |-> "body", number |-> Number, id |-> s, name |-> sessions[s].name,
                     role |-> sessions[s].role, account |-> sessions[s].account,
                     password |-> sessions[s].password, idle |-> sessions[s].idle]
    <3>1. reading' = [reading EXCEPT ![c] = r]
      BY <1>1, <2>3 DEF RequestArrives
    <3>2. r.number = requests + 1
      BY DEF Number
    <3> HIDE DEF r
    <3> QED
      BY <2>1, <3>1, <3>2 DEF Numbered
  <2> QED
    BY <2>2, <2>3
<1>2. ASSUME NEW n \in Name, LoginArrives(c, n) PROVE Numbered'
  <2>1. requests \in Nat /\ requests' = requests + 1
    BY <1>2 DEF LoginArrives, Counts, Number, Numbered
  <2> DEFINE r == [at |-> "login", number |-> Number, id |-> 0, name |-> n,
                   role |-> users[n].role, account |-> users[n].account,
                   password |-> users[n].password, idle |-> 0]
  <2>2. reading' = [reading EXCEPT ![c] = r]
    BY <1>2 DEF LoginArrives
  <2>3. r.number = requests + 1
    BY DEF Number
  <2> HIDE DEF r
  <2> QED
    BY <2>1, <2>2, <2>3 DEF Numbered
<1>3. ASSUME NEW kind, AuthenticationBegins(c, kind) PROVE Numbered'
  <2>1. requests' = requests
    BY <1>3 DEF AuthenticationBegins
  <2>2. CASE Answered(c)
    BY <2>1, <2>2, AnsweredFacts
  <2>3. CASE ~Answered(c)
    <3>1. PICK account, password :
            reading' = [reading EXCEPT ![c] =
              Authenticating(reading[c], kind, account, password)]
      BY <1>3, <2>3 DEF AuthenticationBegins
    <3>2. reading[c] # Rest
      BY <1>3 DEF AuthenticationBegins, Handles, Rest
    <3>3. Authenticating(reading[c], kind, account, password).number = reading[c].number
      BY DEF Authenticating
    <3> HIDE DEF Authenticating
    <3> QED
      BY <2>1, <3>1, <3>2, <3>3 DEF Numbered
  <2> QED
    BY <2>2, <2>3
<1>4. CASE RequestRefused(c) \/ ServeRequest(c) \/ Leave(c) \/ Activate(c)
  BY <1>4, AnsweredFacts
  DEF RequestRefused, ServeRequest, ServePage, ServeUpload, ServeSettings, Leave, Activate,
      RevokeSession
<1>5. CASE LoginAccepted(c) \/ PasswordRefused(c) \/ ResetAccepted(c) \/ PasswordChanged(c)
  BY <1>5, AnsweredFacts
  DEF LoginAccepted, PasswordRefused, ResetAccepted, RevokeSession, PasswordChanged
<1>6. ASSUME NEW n \in Name, RemoveUser(c, n) PROVE Numbered'
  BY <1>6, AnsweredFacts DEF RemoveUser
<1>7. ASSUME NEW n \in Name, NEW role \in Role, AddUser(c, n, role) PROVE Numbered'
  BY <1>7, AnsweredFacts DEF AddUser
<1>8. ASSUME NEW n \in Name, NEW new \in Name, NEW role \in Role, NEW enabled \in BOOLEAN,
             EditUser(c, n, new, role, enabled)
      PROVE  Numbered'
  BY <1>8, AnsweredFacts DEF EditUser
<1>9. CASE PasswordChangeBegins(c) \/ ResetBegins(c)
  BY <1>3, <1>9 DEF PasswordChangeBegins, ResetBegins
<1> QED
  BY <1>1, <1>2, <1>4, <1>5, <1>6, <1>7, <1>8, <1>9 DEF Answers

\* Only these change an account.
LEMMA AnswersAccounts ==
  ASSUME IInv, NEW c \in Connection, Answers(c)
  PROVE  Accounts' /\ AdminRemains'
<1>1. CASE PasswordChanged(c)
  BY <1>1, ChangesPassword
<1>2. ASSUME NEW n \in Name, RemoveUser(c, n) PROVE Accounts' /\ AdminRemains'
  BY <1>2, RemovesUser
<1>3. ASSUME NEW n \in Name, NEW role \in Role, AddUser(c, n, role)
      PROVE  Accounts' /\ AdminRemains'
  BY <1>3, AddsAccount
<1>4. ASSUME NEW n \in Name, NEW new \in Name, NEW role \in Role, NEW enabled \in BOOLEAN,
             EditUser(c, n, new, role, enabled)
      PROVE  Accounts' /\ AdminRemains'
  BY <1>4, EditsUser
<1>5. CASE users' = users
  BY <1>5, SameUsers
<1>6. CASE RequestRefused(c) \/ ServeRequest(c) \/ Leave(c) \/ Activate(c)
  BY <1>5, <1>6
  DEF RequestRefused, ServeRequest, ServePage, ServeUpload, ServeSettings, Leave, Activate,
      RevokeSession
<1>7. CASE LoginAccepted(c) \/ PasswordRefused(c) \/ ResetAccepted(c)
  BY <1>5, <1>7 DEF LoginAccepted, PasswordRefused, ResetAccepted, RevokeSession
<1>8. CASE PasswordChangeBegins(c) \/ ResetBegins(c)
  BY <1>5, <1>8 DEF PasswordChangeBegins, ResetBegins, AuthenticationBegins
<1>9. ASSUME NEW s \in 1 .. requests, RequestArrives(c, s) PROVE Accounts' /\ AdminRemains'
  BY <1>5, <1>9 DEF RequestArrives
<1>10. ASSUME NEW n \in Name, LoginArrives(c, n) PROVE Accounts' /\ AdminRemains'
  BY <1>5, <1>10 DEF LoginArrives
<1> QED
  BY <1>1, <1>2, <1>3, <1>4, <1>6, <1>7, <1>8, <1>9, <1>10 DEF Answers

-----------------------------------------------------------------------------

LEMMA InitHolds == PortalInit => IInv
<1> SUFFICES ASSUME PortalInit PROVE IInv
  OBVIOUS
<1>1. Numbered
  BY DEF PortalInit, Numbered
<1>2. PICK other \in Name, role \in Role :
        users = [n \in Name |->
          CASE n = First -> [account |-> 1, role |-> "administrator", enabled |-> TRUE,
                             password |-> 0]
            [] n = other /\ n # First -> [account |-> 2, role |-> role, enabled |-> TRUE,
                                          password |-> 0]
            [] OTHER -> NoUser]
  BY DEF PortalInit
<1>3. Accounts
  BY <1>2 DEF Accounts, Users, NoUser, Role
<1>4. users[First] = [account |-> 1, role |-> "administrator", enabled |-> TRUE, password |-> 0]
  BY <1>2, AccessAssumption
<1>5. First \in Administrators
  BY <1>4, AccessAssumption DEF Administrators, Exists
<1> QED
  BY <1>1, <1>3, <1>5 DEF IInv, AdminRemains

LEMMA NextHolds ==
  ASSUME IInv, [PortalNext]_portalVars
  PROVE  IInv'
<1>1. ASSUME NEW c \in Connection, Answers(c) PROVE IInv'
  BY <1>1, AnswersNumbered, AnswersAccounts DEF IInv
<1>2. CASE Tick
  <2>1. Numbered'
    BY <1>2 DEF Tick, IInv, Numbered
  <2> QED
    BY <1>2, <2>1, SameUsers DEF Tick, IInv
<1>3. CASE PortalRestart
  <2>1. Numbered'
    BY <1>3 DEF PortalRestart, IInv, Numbered
  <2> QED
    BY <1>3, <2>1, SameUsers DEF PortalRestart, IInv
<1>4. CASE UNCHANGED portalVars
  <2>1. Numbered'
    BY <1>4 DEF portalVars, IInv, Numbered
  <2> QED
    BY <1>4, <2>1, SameUsers DEF portalVars, IInv
<1> QED
  BY <1>1, <1>2, <1>3, <1>4 DEF PortalNext

\* Somebody can always administer the device (portal_auth.py:68-79): however many
\* administrators edit, rename, disable and remove each other's accounts at the same time,
\* over any number of connections, sign-ins and restarts.
THEOREM AdminRemainsHolds == PortalSpec => []AdminRemains
<1>1. PortalInit => IInv
  BY InitHolds
<1>2. IInv /\ [PortalNext]_portalVars => IInv'
  BY NextHolds
<1>3. IInv => AdminRemains
  BY DEF IInv
<1> QED
  BY <1>1, <1>2, <1>3, PTL DEF PortalSpec

-----------------------------------------------------------------------------
(* Sessions.                                                               *)

\* What a session, or a request that is being read, says of its account is so.
Fits(x) ==
  LET u == users[x.name] IN
  /\ x.account # 0 /\ u.account = x.account /\ u.enabled
  /\ u.role = x.role /\ u.password = x.password

\* The types of the sessions and of what is being read.
Tables ==
  /\ now \in 0 .. Period - 1
  /\ portalExposed \subseteq PortalExposure
  /\ \A s \in DOMAIN sessions : sessions[s] \in Sessions
  /\ \A c \in Connection : reading[c] # Rest => reading[c] \in Requests

\* A session has not been idle for longer than the clock says.
Fresh(x) == x.seen <= now /\ x.idle <= now - x.seen

\* A request is read for somebody who signed in in time, and may do what it waits for.
Admitted(r) ==
  /\ r.idle <= Timeout
  /\ r.at \in {"password", "reset"} => RoleAllows(r.role, r.at)

Signed ==
  portalExposed = {} =>
    /\ \A s \in DOMAIN sessions : Fits(sessions[s]) /\ Fresh(sessions[s])
    /\ \A c \in Connection : reading[c] # Rest => Fits(reading[c]) /\ Admitted(reading[c])

SessionInv == IInv /\ Tables /\ Signed

\* Nothing of it is about the accounts but what they say.
LEMMA FitsFacts ==
  ASSUME users' = users
  PROVE  \A x : /\ x.account # 0 /\ users'[x.name].account = x.account /\ users'[x.name].enabled
                /\ users'[x.name].role = x.role /\ users'[x.name].password = x.password
                <=> Fits(x)
BY DEF Fits

\* Sessions that stay or go, and requests that wait on or are answered.
LEMMA KeptFacts ==
  ASSUME Tables, Signed, DOMAIN reading = Connection, users' = users, now' = now,
         portalExposed' = portalExposed,
         \A s \in DOMAIN sessions' : s \in DOMAIN sessions /\ sessions'[s] = sessions[s],
         \A c \in Connection : reading'[c] = reading[c] \/ reading'[c] = Rest
  PROVE  Tables' /\ Signed'
<1>1. Tables'
  BY DEF Tables
<1>2. Signed'
  BY DEF Signed, Fits, Fresh, Admitted
<1> QED
  BY <1>1, <1>2

\* Restrict() of the sessions.
LEMMA WithoutFacts ==
  ASSUME NEW ids
  PROVE  /\ DOMAIN Without(sessions, ids) = DOMAIN sessions \ ids
         /\ \A s \in DOMAIN sessions \ ids : Without(sessions, ids)[s] = sessions[s]
BY DEF Without, Restrict

LEMMA AnsweredReading ==
  ASSUME DOMAIN reading = Connection, NEW c \in Connection, Answered(c)
  PROVE  /\ reading'[c] = Rest
         /\ \A d \in Connection : reading'[d] = reading[d] \/ reading'[d] = Rest
         /\ \A d \in Connection \ {c} : reading'[d] = reading[d]
BY DEF Answered

LEMMA RevokeKeeps ==
  ASSUME SessionInv, NEW c \in Connection, RevokeSession(c)
  PROVE  Tables' /\ Signed'
<1>1. DOMAIN reading = Connection
  BY DEF SessionInv, IInv, Numbered
<1>2. \A s \in DOMAIN sessions' : s \in DOMAIN sessions /\ sessions'[s] = sessions[s]
  BY WithoutFacts DEF RevokeSession
<1>3. Answered(c) /\ users' = users /\ now' = now /\ portalExposed' = portalExposed
  BY DEF RevokeSession
<1> QED
  BY <1>1, <1>2, <1>3, AnsweredReading, KeptFacts DEF SessionInv

\* The head of a request: its session is touched, and what the request keeps of it fits.
LEMMA RequestKeeps ==
  ASSUME SessionInv, NEW c \in Connection, NEW s \in 1 .. requests, RequestArrives(c, s)
  PROVE  Tables' /\ Signed'
<1>1. DOMAIN reading = Connection /\ requests \in Nat
  BY DEF SessionInv, IInv, Numbered
<1>2. /\ s \in DOMAIN sessions /\ users' = users /\ now' = now
      /\ portalExposed' = portalExposed /\ sessions[s] \in Sessions /\ now \in 0 .. Period - 1
  BY DEF RequestArrives, SessionInv, Tables
<1>3. CASE Stale(s)
  <2>1. \A t \in DOMAIN sessions' : t \in DOMAIN sessions /\ sessions'[t] = sessions[t]
    <3>1. sessions' = Without(sessions, {s})
      BY <1>3 DEF RequestArrives
    <3> QED
      BY <3>1, WithoutFacts
  <2>2. reading' = reading
    BY <1>3 DEF RequestArrives
  <2> QED
    BY <1>1, <1>2, <2>1, <2>2, KeptFacts DEF SessionInv
<1>4. CASE ~Stale(s)
  <2> DEFINE x == sessions[s]
             y == [x EXCEPT !.seen = now, !.idle = 0]
             r == [at |-> "body", number |-> Number, id |-> s, name |-> sessions[s].name,
                   role |-> sessions[s].role, account |-> sessions[s].account,
                   password |-> sessions[s].password, idle |-> sessions[s].idle]
  <2>1. reading' = [reading EXCEPT ![c] = r]
    BY <1>4 DEF RequestArrives
  <2>2. r \in Requests /\ r.name = x.name /\ r.role = x.role /\ r.account = x.account
        /\ r.password = x.password /\ r.idle = x.idle /\ r.at = "body"
    BY <1>1, <1>2 DEF Requests, Sessions, Number
  <2>3. /\ y \in Sessions /\ y.name = x.name /\ y.role = x.role /\ y.account = x.account
        /\ y.password = x.password /\ y.seen = now /\ y.idle = 0
    <3>1. x.name \in Name /\ x.role \in Role /\ x.account \in Nat /\ x.password \in Nat
          /\ x \in [name : Name, role : Role, seen : 0 .. Period - 1, account : Nat,
                    password : Nat, idle : 0 .. Timeout + 1]
      BY <1>2 DEF Sessions
    <3>2. 0 \in 0 .. Timeout + 1
      BY AccessAssumption
    <3>3. y \in [name : Name, role : Role, seen : 0 .. Period - 1, account : Nat,
                 password : Nat, idle : 0 .. Timeout + 1]
      BY <1>2, <3>1, <3>2
    <3>4. y.name = x.name /\ y.role = x.role /\ y.account = x.account
          /\ y.password = x.password
      BY <3>1
    <3>5. y.seen = now /\ y.idle = 0
      BY <3>1
    <3> QED
      BY <3>3, <3>4, <3>5 DEF Sessions
  <2>4. /\ DOMAIN sessions' = DOMAIN sessions
        /\ sessions'[s] = y
        /\ \A t \in DOMAIN sessions : t # s => sessions'[t] = sessions[t]
    BY <1>2, <1>4 DEF RequestArrives, Sessions
  <2> HIDE DEF y, r
  <2>5. Tables'
    BY <1>1, <1>2, <2>1, <2>2, <2>3, <2>4 DEF SessionInv, Tables
  <2>6. ASSUME portalExposed = {}
        PROVE  /\ \A t \in DOMAIN sessions' : Fits(sessions[t])' /\ Fresh(sessions[t])'
               /\ \A d \in Connection : reading'[d] # Rest =>
                    Fits(reading[d])' /\ Admitted(reading[d])'
    <3>1. Fits(x) /\ Fresh(x)
      BY <1>2, <2>6 DEF SessionInv, Signed
    <3>2. x.idle <= Timeout
      BY <1>2, <1>4, <3>1, AccessAssumption DEF Stale, Fresh, Sessions
    <3>3. ASSUME NEW t \in DOMAIN sessions' PROVE Fits(sessions[t])' /\ Fresh(sessions[t])'
      <4>1. CASE t = s
        <5>1. Fits(sessions[t])'
          BY <1>2, <2>3, <2>4, <3>1, <4>1 DEF Fits
        <5>2. Fresh(sessions[t])'
          BY <1>2, <2>3, <2>4, <4>1 DEF Fresh
        <5> QED
          BY <5>1, <5>2
      <4>2. CASE t # s
        <5>1. Fits(sessions[t]) /\ Fresh(sessions[t])
          BY <2>4, <2>6, <3>3 DEF SessionInv, Signed
        <5> QED
          BY <1>2, <2>4, <3>3, <4>2, <5>1 DEF Fits, Fresh
      <4> QED
        BY <4>1, <4>2
    <3>4. ASSUME NEW d \in Connection, reading'[d] # Rest
          PROVE  Fits(reading[d])' /\ Admitted(reading[d])'
      <4>1. CASE d = c
        <5>1. reading'[d] = r
          BY <1>1, <2>1, <4>1
        <5> QED
          BY <1>2, <2>2, <3>1, <3>2, <5>1 DEF Fits, Admitted
      <4>2. CASE d # c
        <5>1. reading'[d] = reading[d]
          BY <1>1, <2>1, <4>2
        <5> QED
          BY <1>2, <2>6, <3>4, <5>1 DEF SessionInv, Signed, Fits, Admitted
      <4> QED
        BY <4>1, <4>2
    <3> QED
      BY <3>3, <3>4
  <2> QED
    BY <1>2, <2>5, <2>6 DEF Signed
<1> QED
  BY <1>3, <1>4

\* A new thing to read that fits, beside what was read before.
LEMMA ReadsOn ==
  ASSUME SessionInv, NEW c \in Connection, NEW r \in Requests, reading' = [reading EXCEPT ![c] = r],
         users' = users, sessions' = sessions, now' = now, portalExposed' = portalExposed,
         portalExposed = {} => Fits(r) /\ Admitted(r)
  PROVE  Tables' /\ Signed'
<1>1. DOMAIN reading = Connection
  BY DEF SessionInv, IInv, Numbered
<1>2. Tables'
  BY <1>1 DEF SessionInv, Tables
<1>3. ASSUME portalExposed = {}, NEW d \in Connection, reading'[d] # Rest
      PROVE  Fits(reading[d])' /\ Admitted(reading[d])'
  <2>1. CASE d = c
    BY <1>1, <1>3, <2>1 DEF Fits, Admitted
  <2>2. CASE d # c
    BY <1>1, <1>3, <2>2 DEF SessionInv, Signed, Fits, Admitted
  <2> QED
    BY <2>1, <2>2
<1>4. ASSUME portalExposed = {}, NEW s \in DOMAIN sessions
      PROVE  Fits(sessions[s])' /\ Fresh(sessions[s])'
  BY <1>4 DEF SessionInv, Signed, Fits, Fresh
<1>5. Signed'
  BY <1>3, <1>4 DEF Signed
<1> QED
  BY <1>2, <1>5

LEMMA LoginKeeps ==
  ASSUME SessionInv, NEW c \in Connection, NEW n \in Name, LoginArrives(c, n)
  PROVE  Tables' /\ Signed'
<1> DEFINE r == [at |-> "login", number |-> Number, id |-> 0, name |-> n,
                 role |-> users[n].role, account |-> users[n].account,
                 password |-> users[n].password, idle |-> 0]
<1>1. reading' = [reading EXCEPT ![c] = r]
  BY DEF LoginArrives
<1>2. users[n] \in Users /\ requests \in Nat
  BY DEF SessionInv, IInv, Accounts, Numbered
<1>3. r \in Requests /\ r.name = n /\ r.role = users[n].role /\ r.account = users[n].account
      /\ r.password = users[n].password /\ r.idle = 0 /\ r.at = "login"
  BY <1>2, AccessAssumption DEF Requests, Users, Number
<1> HIDE DEF r
<1>4. Fits(r) /\ Admitted(r)
  BY <1>3, AccessAssumption DEF LoginArrives, Exists, Fits, Admitted
<1> QED
  BY <1>1, <1>3, <1>4, ReadsOn DEF LoginArrives

LEMMA AuthenticationKeeps ==
  ASSUME SessionInv, NEW c \in Connection, NEW kind \in {"password", "reset"},
         AuthenticationBegins(c, kind)
  PROVE  Tables' /\ Signed'
<1>1. DOMAIN reading = Connection
  BY DEF SessionInv, IInv, Numbered
<1>2. reading[c] # Rest /\ reading[c] \in Requests /\ RoleAllows(reading[c].role, kind)
  BY DEF AuthenticationBegins, Handles, Rest, SessionInv, Tables
<1> DEFINE n == reading[c].name
           r == Authenticating(reading[c], kind, users[n].account, users[n].password)
<1>3. CASE Exists(n) /\ users[n].enabled
  <2>1. reading' = [reading EXCEPT ![c] = r]
    BY <1>3 DEF AuthenticationBegins
  <2>2. n \in Name /\ users[n] \in Users
    BY <1>2 DEF Requests, SessionInv, IInv, Accounts
  <2>3. r \in Requests /\ r.name = n /\ r.role = reading[c].role
        /\ r.account = users[n].account /\ r.password = users[n].password
        /\ r.idle = reading[c].idle /\ r.at = kind
    BY <1>2, <2>2 DEF Authenticating, Requests, Users
  <2>4. portalExposed = {} => Fits(reading[c]) /\ Admitted(reading[c])
    BY <1>2 DEF SessionInv, Signed
  <2> HIDE DEF r
  <2>5. portalExposed = {} => Fits(r) /\ Admitted(r)
    BY <1>2, <1>3, <2>3, <2>4 DEF Exists, Fits, Admitted
  <2> QED
    BY <2>1, <2>3, <2>5, ReadsOn DEF AuthenticationBegins
<1>4. CASE ~(Exists(n) /\ users[n].enabled)
  <2>1. Answered(c)
    BY <1>4 DEF AuthenticationBegins
  <2> QED
    BY <1>1, <2>1, AnsweredReading, KeptFacts DEF AuthenticationBegins, SessionInv
<1> QED
  BY <1>3, <1>4

\* Those that create() keeps were there.
LEMMA RoomFacts == SessionRoom \subseteq DOMAIN sessions
BY DEF SessionRoom

LEMMA AcceptedKeeps ==
  ASSUME SessionInv, NEW c \in Connection, LoginAccepted(c)
  PROVE  Tables' /\ Signed'
<1> DEFINE r == reading[c]
           x == [name |-> r.name, role |-> r.role, seen |-> now, account |-> r.account,
                 password |-> r.password, idle |-> 0]
<1>1. /\ DOMAIN reading = Connection /\ r # Rest /\ r \in Requests /\ now \in 0 .. Period - 1
      /\ users' = users /\ now' = now /\ portalExposed' = portalExposed /\ Answered(c)
  BY DEF SessionInv, IInv, Numbered, LoginAccepted, Rest, Tables
<1>2. sessions' = [s \in SessionRoom \cup {r.number} |->
                     IF s = r.number THEN x ELSE sessions[s]]
  BY DEF LoginAccepted, Create
<1>3. x \in Sessions /\ x.name = r.name /\ x.role = r.role /\ x.account = r.account
      /\ x.password = r.password /\ x.seen = now /\ x.idle = 0
  BY <1>1, AccessAssumption DEF Sessions, Requests
<1> HIDE DEF x
<1>4. \A s \in DOMAIN sessions' :
        sessions'[s] = x \/ (s \in DOMAIN sessions /\ sessions'[s] = sessions[s])
  BY <1>2, RoomFacts
<1>5. Tables'
  BY <1>1, <1>3, <1>4, AnsweredReading DEF SessionInv, Tables
<1>6. ASSUME portalExposed = {}, NEW s \in DOMAIN sessions'
      PROVE  Fits(sessions[s])' /\ Fresh(sessions[s])'
  <2>1. Fits(r)
    BY <1>1, <1>6 DEF SessionInv, Signed
  <2>2. CASE sessions'[s] = x
    BY <1>1, <1>3, <2>1, <2>2 DEF Fits, Fresh
  <2>3. CASE s \in DOMAIN sessions /\ sessions'[s] = sessions[s]
    BY <1>1, <1>6, <2>3 DEF SessionInv, Signed, Fits, Fresh
  <2> QED
    BY <1>4, <2>2, <2>3
<1>7. ASSUME portalExposed = {}, NEW d \in Connection, reading'[d] # Rest
      PROVE  Fits(reading[d])' /\ Admitted(reading[d])'
  BY <1>1, <1>7, AnsweredReading DEF SessionInv, Signed, Fits, Admitted
<1>8. Signed'
  BY <1>1, <1>6, <1>7 DEF Signed
<1> QED
  BY <1>5, <1>8

-----------------------------------------------------------------------------
(* Changes of accounts.                                                    *)

\* The exposures of a change: without one, it concerns no request of another connection,
\* and no session when the account can no longer sign in.
LEMMA EditExposes ==
  ASSUME SessionInv, NEW c \in Connection, NEW n \in Name, NEW usable \in BOOLEAN,
         EditsAccount(c, n, usable)
  PROVE  /\ portalExposed' \subseteq PortalExposure
         /\ portalExposed' = {} =>
              /\ portalExposed = {}
              /\ \A d \in Connection \ {c} :
                   reading[d] # Rest => reading[d].account # users[n].account
              /\ ~usable => \A s \in DOMAIN sessions : sessions[s].account # users[n].account
BY DEF EditsAccount, Elsewhere, SessionInv, Tables, PortalExposure

\* Nobody is signed in, or signs in, under a name without an account.
LEMMA NoAccountNoSession ==
  ASSUME SessionInv, portalExposed = {}, NEW n, ~Exists(n)
  PROVE  /\ \A s \in DOMAIN sessions : sessions[s].name # n
         /\ \A d \in Connection : reading[d] # Rest => reading[d].name # n
BY DEF SessionInv, Signed, Fits, Exists

LEMMA AddKeeps ==
  ASSUME SessionInv, NEW c \in Connection, NEW n \in Name, NEW role \in Role, AddUser(c, n, role)
  PROVE  Tables' /\ Signed'
<1>1. /\ DOMAIN reading = Connection /\ sessions' = sessions /\ now' = now
      /\ portalExposed' = portalExposed /\ Answered(c) /\ ~Exists(n)
  BY DEF SessionInv, IInv, Numbered, AddUser
<1>2. \A m : m # n => users'[m] = users[m]
  BY DEF AddUser, SessionInv, IInv, Accounts
<1>3. Tables'
  BY <1>1, AnsweredReading DEF SessionInv, Tables
<1>4. ASSUME portalExposed = {}, NEW s \in DOMAIN sessions
      PROVE  Fits(sessions[s])' /\ Fresh(sessions[s])'
  BY <1>1, <1>2, <1>4, NoAccountNoSession DEF SessionInv, Signed, Fits, Fresh
<1>5. ASSUME portalExposed = {}, NEW d \in Connection, reading'[d] # Rest
      PROVE  Fits(reading[d])' /\ Admitted(reading[d])'
  <2>1. reading'[d] = reading[d]
    BY <1>1, <1>5, AnsweredReading
  <2> QED
    BY <1>1, <1>2, <1>5, <2>1, NoAccountNoSession DEF SessionInv, Signed, Fits, Admitted
<1>6. Signed'
  BY <1>1, <1>4, <1>5 DEF Signed
<1> QED
  BY <1>3, <1>6

\* The accounts of another name than n stay what they are; the requests that are left are of
\* such accounts.
LEMMA OthersFit ==
  ASSUME SessionInv, NEW c \in Connection, NEW n \in Name, Answered(c),
         portalExposed = {},
         \A d \in Connection \ {c} : reading[d] # Rest => reading[d].account # users[n].account,
         NEW d \in Connection, reading'[d] # Rest
  PROVE  /\ reading'[d] = reading[d] /\ Fits(reading[d]) /\ Admitted(reading[d])
         /\ reading[d].name # n /\ reading[d].name \in Name
<1>1. DOMAIN reading = Connection
  BY DEF SessionInv, IInv, Numbered
<1>2. d # c /\ reading'[d] = reading[d]
  BY <1>1, AnsweredReading
<1>3. Fits(reading[d]) /\ Admitted(reading[d]) /\ reading[d] \in Requests
  BY <1>2 DEF SessionInv, Signed, Tables
<1>4. reading[d].account # users[n].account
  BY <1>2
<1> QED
  BY <1>2, <1>3, <1>4 DEF Fits, Requests

LEMMA RemoveKeeps ==
  ASSUME SessionInv, NEW c \in Connection, NEW n \in Name, RemoveUser(c, n)
  PROVE  Tables' /\ Signed'
<1>1. /\ DOMAIN reading = Connection /\ sessions' = sessions /\ now' = now
      /\ Answered(c) /\ EditsAccount(c, n, FALSE)
  BY DEF SessionInv, IInv, Numbered, RemoveUser
<1>2. \A m : m # n => users'[m] = users[m]
  BY DEF RemoveUser, SessionInv, IInv, Accounts
<1>3. /\ portalExposed' \subseteq PortalExposure
      /\ portalExposed' = {} =>
              /\ portalExposed = {}
              /\ \A d \in Connection \ {c} :
                   reading[d] # Rest => reading[d].account # users[n].account
              /\ \A s \in DOMAIN sessions : sessions[s].account # users[n].account
  BY <1>1, EditExposes
<1>4. Tables'
  BY <1>1, <1>3, AnsweredReading DEF SessionInv, Tables
<1>5. ASSUME portalExposed' = {}, NEW s \in DOMAIN sessions
      PROVE  Fits(sessions[s])' /\ Fresh(sessions[s])'
  <2>1. Fits(sessions[s]) /\ Fresh(sessions[s])
    BY <1>3, <1>5 DEF SessionInv, Signed
  <2>2. sessions[s].name # n
    BY <1>3, <1>5, <2>1 DEF Fits
  <2> QED
    BY <1>1, <1>2, <2>1, <2>2 DEF Fits, Fresh
<1>6. ASSUME portalExposed' = {}, NEW d \in Connection, reading'[d] # Rest
      PROVE  Fits(reading[d])' /\ Admitted(reading[d])'
  <2>1. /\ reading'[d] = reading[d] /\ Fits(reading[d]) /\ Admitted(reading[d])
        /\ reading[d].name # n
    BY <1>1, <1>3, <1>6, OthersFit
  <2> QED
    BY <1>2, <2>1 DEF Fits, Admitted
<1>7. Signed'
  BY <1>1, <1>5, <1>6 DEF Signed
<1> QED
  BY <1>4, <1>7

\* An edit carries the sessions of the account along.
LEMMA EditKeeps ==
  ASSUME SessionInv, NEW c \in Connection, NEW n \in Name, NEW new \in Name, NEW role \in Role,
         NEW enabled \in BOOLEAN, EditUser(c, n, new, role, enabled)
  PROVE  Tables' /\ Signed'
<1>1. /\ DOMAIN reading = Connection /\ now' = now
      /\ Answered(c) /\ EditsAccount(c, n, enabled) /\ Exists(n) /\ (new = n \/ ~Exists(new))
  BY DEF SessionInv, IInv, Numbered, EditUser
<1> DEFINE u == Edited(users[n], role, enabled)
<1>2. users' = [m \in Name |-> IF m = new THEN u ELSE IF m = n THEN NoUser ELSE users[m]]
  BY DEF EditUser
<1>3. u.account = users[n].account /\ u.role = role /\ u.enabled = enabled
      /\ u.password = users[n].password
  BY DEF Edited
<1> HIDE DEF u
<1>4. /\ portalExposed' \subseteq PortalExposure
      /\ portalExposed' = {} =>
              /\ portalExposed = {}
              /\ \A d \in Connection \ {c} :
                   reading[d] # Rest => reading[d].account # users[n].account
              /\ ~enabled => \A s \in DOMAIN sessions : sessions[s].account # users[n].account
  BY <1>1, EditExposes
<1>5. DOMAIN sessions' = DOMAIN sessions
      /\ \A s \in DOMAIN sessions :
           sessions'[s] = IF sessions[s].name # n THEN sessions[s]
                          ELSE [sessions[s] EXCEPT !.name = new, !.role = role]
  BY DEF EditUser, UpdateIdentity
<1>6. ASSUME NEW s \in DOMAIN sessions
      PROVE  /\ sessions[s] \in Sessions /\ sessions'[s] \in Sessions
             /\ sessions[s].name # n => sessions'[s] = sessions[s]
             /\ sessions[s].name = n =>
                  /\ sessions'[s].name = new /\ sessions'[s].role = role
                  /\ sessions'[s].account = sessions[s].account
                  /\ sessions'[s].password = sessions[s].password
                  /\ sessions'[s].seen = sessions[s].seen /\ sessions'[s].idle = sessions[s].idle
  <2>1. sessions[s] \in Sessions
    BY DEF SessionInv, Tables
  <2> QED
    BY <1>5, <2>1 DEF Sessions
<1>7. Tables'
  BY <1>1, <1>4, <1>5, <1>6, AnsweredReading DEF SessionInv, Tables
<1>8. ASSUME portalExposed' = {}, NEW s \in DOMAIN sessions
      PROVE  Fits(sessions[s])' /\ Fresh(sessions[s])'
  <2>1. Fits(sessions[s]) /\ Fresh(sessions[s])
    BY <1>4, <1>8 DEF SessionInv, Signed
  <2>2. sessions[s].name \in Name
    BY <1>6 DEF Sessions
  <2>3. CASE sessions[s].name = n
    <3>1. enabled
      BY <1>4, <1>8, <2>1, <2>3 DEF Fits
    <3>2. users'[new] = u
      BY <1>2
    <3> QED
      BY <1>1, <1>3, <1>6, <2>1, <2>3, <3>1, <3>2 DEF Fits, Fresh
  <2>4. CASE sessions[s].name # n
    <3>1. sessions[s].name # new
      BY <1>1, <2>1, <2>4 DEF Fits, Exists
    <3>2. users'[sessions[s].name] = users[sessions[s].name] /\ sessions'[s] = sessions[s]
      BY <1>2, <1>6, <2>2, <2>4, <3>1
    <3> QED
      BY <1>1, <2>1, <3>2 DEF Fits, Fresh
  <2> QED
    BY <2>3, <2>4
<1>9. ASSUME portalExposed' = {}, NEW d \in Connection, reading'[d] # Rest
      PROVE  Fits(reading[d])' /\ Admitted(reading[d])'
  <2>1. /\ reading'[d] = reading[d] /\ Fits(reading[d]) /\ Admitted(reading[d])
        /\ reading[d].name # n /\ reading[d].name \in Name
    BY <1>1, <1>4, <1>9, OthersFit
  <2>2. reading[d].name # new
    BY <1>1, <2>1 DEF Fits, Exists
  <2>3. users'[reading[d].name] = users[reading[d].name]
    BY <1>2, <2>1, <2>2
  <2> QED
    BY <2>1, <2>3 DEF Fits, Admitted
<1>10. Signed'
  BY <1>5, <1>8, <1>9 DEF Signed
<1> QED
  BY <1>7, <1>10

\* The sessions of the account go, and one is opened with the new password.
LEMMA PasswordKeeps ==
  ASSUME SessionInv, NEW c \in Connection, PasswordChanged(c)
  PROVE  Tables' /\ Signed'
<1> DEFINE r == reading[c]
           n == r.name
           k == r.number
<1>1. /\ DOMAIN reading = Connection /\ r # Rest /\ r \in Requests /\ now \in 0 .. Period - 1
      /\ now' = now /\ Answered(c)
  BY DEF SessionInv, IInv, Numbered, PasswordChanged, Rest, Tables
<1>2. n \in Name /\ k \in Nat /\ r.role \in Role
  BY <1>1 DEF Requests
<1>3. users[n] \in Users
  BY <1>2 DEF SessionInv, IInv, Accounts
<1>4. CASE ~Exists(n)
  BY <1>1, <1>4, AnsweredReading, KeptFacts DEF PasswordChanged, SessionInv
<1>5. CASE Exists(n)
  <2> DEFINE x == [name |-> n, role |-> r.role, seen |-> now, account |-> users[n].account,
                   password |-> k, idle |-> 0]
             keep == SessionRoom \ SessionsOf(n)
  <2>1. /\ users' = [users EXCEPT ![n].password = k] /\ EditsAccount(c, n, TRUE)
        /\ sessions' = [s \in keep \cup {k} |-> IF s = k THEN x ELSE sessions[s]]
    BY <1>5 DEF PasswordChanged, Create
  <2>2. x \in Sessions /\ x.name = n /\ x.role = r.role /\ x.account = users[n].account
        /\ x.password = k /\ x.seen = now /\ x.idle = 0
    BY <1>1, <1>2, <1>3, AccessAssumption DEF Sessions, Users
  <2>3. \A s \in keep : s \in DOMAIN sessions /\ sessions[s].name # n
    BY RoomFacts DEF SessionsOf
  <2>4. /\ portalExposed' \subseteq PortalExposure
        /\ portalExposed' = {} =>
              /\ portalExposed = {}
              /\ \A d \in Connection \ {c} :
                   reading[d] # Rest => reading[d].account # users[n].account
    BY <1>2, <2>1, EditExposes
  <2> HIDE DEF x, keep, n, k, r
  <2>5. /\ users'[n].account = users[n].account /\ users'[n].role = users[n].role
        /\ users'[n].enabled = users[n].enabled /\ users'[n].password = k
        /\ \A m : m # n => users'[m] = users[m]
    <3>1. users \in [Name -> Users]
      BY DEF SessionInv, IInv, Accounts
    <3>2. users'[n] = [users[n] EXCEPT !.password = k]
      BY <1>2, <2>1, <3>1
    <3>3. \A m : m # n => users'[m] = users[m]
      BY <2>1, <3>1
    <3> QED
      BY <1>3, <3>2, <3>3 DEF Users
  <2>6. \A s \in DOMAIN sessions' :
          \/ sessions'[s] = x
          \/ s \in DOMAIN sessions /\ sessions'[s] = sessions[s] /\ sessions[s].name # n
    BY <2>1, <2>3
  <2>7. Tables'
    BY <1>1, <2>2, <2>4, <2>6, AnsweredReading DEF SessionInv, Tables
  <2>8. ASSUME portalExposed' = {}, NEW s \in DOMAIN sessions'
        PROVE  Fits(sessions[s])' /\ Fresh(sessions[s])'
    <3>1. Fits(r)
      BY <1>1, <2>4, <2>8 DEF SessionInv, Signed, r
    <3>2. CASE sessions'[s] = x
      <4>1. Fits(sessions[s])'
        BY <1>5, <2>2, <2>5, <3>1, <3>2 DEF Fits, Exists, n
      <4>2. Fresh(sessions[s])'
        BY <1>1, <2>2, <3>2 DEF Fresh
      <4> QED
        BY <4>1, <4>2
    <3>3. CASE s \in DOMAIN sessions /\ sessions'[s] = sessions[s] /\ sessions[s].name # n
      <4>1. Fits(sessions[s]) /\ Fresh(sessions[s])
        BY <2>4, <2>8, <3>3 DEF SessionInv, Signed
      <4> QED
        BY <1>1, <2>5, <3>3, <4>1 DEF Fits, Fresh
    <3> QED
      BY <2>6, <3>2, <3>3
  <2>9. ASSUME portalExposed' = {}, NEW d \in Connection, reading'[d] # Rest
        PROVE  Fits(reading[d])' /\ Admitted(reading[d])'
    <3>1. /\ reading'[d] = reading[d] /\ Fits(reading[d]) /\ Admitted(reading[d])
          /\ reading[d].name # n
      BY <1>1, <1>2, <2>4, <2>9, OthersFit
    <3> QED
      BY <2>5, <3>1 DEF Fits, Admitted
  <2>10. Signed'
    BY <2>8, <2>9 DEF Signed
  <2> QED
    BY <2>7, <2>10
<1> QED
  BY <1>4, <1>5

-----------------------------------------------------------------------------
(* Time.                                                                   *)

\* The clock counts on, or wraps.
LEMMA ClockFacts ==
  ASSUME Tables, now' = (now + 1) % Period
  PROVE  now' \in 0 .. Period - 1 /\ (now' # 0 => now' = now + 1)
<1>1. now \in Nat /\ now < Period /\ Period \in Nat /\ Period > 0
  BY AccessAssumption DEF Tables
<1>2. CASE now + 1 < Period
  <2>1. (now + 1) % Period = now + 1
    BY <1>1, <1>2
  <2> QED
    BY <1>1, <1>2, <2>1
<1>3. CASE now + 1 = Period
  <2>1. Period % Period = 0
    BY <1>1
  <2> QED
    BY <1>1, <1>3, <2>1
<1> QED
  BY <1>1, <1>2, <1>3

LEMMA TickKeeps ==
  ASSUME SessionInv, Tick
  PROVE  Tables' /\ Signed'
<1>1. now' \in 0 .. Period - 1 /\ (now' # 0 => now' = now + 1)
  BY ClockFacts DEF SessionInv, Tick
<1>2. /\ users' = users /\ reading' = reading /\ DOMAIN sessions' = DOMAIN sessions
      /\ portalExposed' \subseteq PortalExposure
      /\ portalExposed' = {} => portalExposed = {} /\ (sessions # <<>> => now' # 0)
  BY DEF Tick, SessionInv, Tables, PortalExposure
<1>3. ASSUME NEW s \in DOMAIN sessions
      PROVE  /\ sessions[s] \in Sessions /\ sessions'[s] \in Sessions
             /\ sessions'[s].name = sessions[s].name /\ sessions'[s].role = sessions[s].role
             /\ sessions'[s].account = sessions[s].account
             /\ sessions'[s].password = sessions[s].password
             /\ sessions'[s].seen = sessions[s].seen
             /\ sessions'[s].idle <= sessions[s].idle + 1
  <2>1. sessions[s] \in Sessions /\ sessions[s].idle \in 0 .. Timeout + 1
    BY DEF SessionInv, Tables, Sessions
  <2> DEFINE i == IF sessions[s].idle > Timeout THEN sessions[s].idle ELSE sessions[s].idle + 1
  <2>2. i \in 0 .. Timeout + 1 /\ i <= sessions[s].idle + 1
    BY <2>1, AccessAssumption
  <2>3. sessions'[s] = [sessions[s] EXCEPT !.idle = i]
    BY DEF Tick
  <2> HIDE DEF i
  <2> QED
    BY <2>1, <2>2, <2>3 DEF Sessions
<1>4. Tables'
  BY <1>1, <1>2, <1>3 DEF SessionInv, Tables
<1>5. ASSUME portalExposed' = {}, NEW s \in DOMAIN sessions
      PROVE  Fits(sessions[s])' /\ Fresh(sessions[s])'
  <2>1. Fits(sessions[s]) /\ Fresh(sessions[s])
    BY <1>2, <1>5 DEF SessionInv, Signed
  <2>2. sessions # <<>>
    BY <1>5
  <2>3. now' = now + 1
    BY <1>1, <1>2, <1>5, <2>2
  <2>4. Fits(sessions[s])'
    BY <1>2, <1>3, <2>1 DEF Fits
  <2>5. /\ sessions[s].seen \in Nat /\ sessions[s].idle \in Nat /\ now \in Nat
        /\ sessions'[s].idle \in Nat
    BY <1>3, AccessAssumption DEF Sessions, SessionInv, Tables
  <2>6. Fresh(sessions[s])'
    BY <1>3, <2>1, <2>3, <2>5 DEF Fresh
  <2> QED
    BY <2>4, <2>6
<1>6. ASSUME portalExposed' = {}, NEW d \in Connection, reading'[d] # Rest
      PROVE  Fits(reading[d])' /\ Admitted(reading[d])'
  BY <1>2, <1>6 DEF SessionInv, Signed, Fits, Admitted
<1>7. Signed'
  BY <1>2, <1>5, <1>6 DEF Signed
<1> QED
  BY <1>4, <1>7

-----------------------------------------------------------------------------
(* Who acts is who signed in.                                              *)

LEMMA SessionInit == PortalInit => SessionInv
<1> SUFFICES ASSUME PortalInit PROVE SessionInv
  OBVIOUS
<1>1. Tables /\ Signed
  BY AccessAssumption DEF PortalInit, Tables, Signed
<1> QED
  BY <1>1, InitHolds DEF SessionInv

LEMMA SessionNext ==
  ASSUME SessionInv, [PortalNext]_portalVars
  PROVE  SessionInv'
<1>1. IInv'
  BY NextHolds DEF SessionInv
<1>2. ASSUME NEW c \in Connection, Answers(c) PROVE Tables' /\ Signed'
  <2>1. DOMAIN reading = Connection
    BY DEF SessionInv, IInv, Numbered
  <2>2. CASE RequestRefused(c) \/ ServeRequest(c) \/ PasswordRefused(c)
    BY <2>1, <2>2, AnsweredReading, KeptFacts
    DEF RequestRefused, ServeRequest, ServePage, ServeUpload, ServeSettings, PasswordRefused,
        SessionInv
  <2>3. CASE Leave(c) \/ ResetAccepted(c)
    BY <2>3, RevokeKeeps DEF Leave, ResetAccepted
  <2>4. CASE Activate(c)
    BY <2>1, <2>4, RevokeKeeps, AnsweredReading, KeptFacts DEF Activate, SessionInv
  <2>5. CASE PasswordChangeBegins(c) \/ ResetBegins(c)
    BY <2>5, AuthenticationKeeps DEF PasswordChangeBegins, ResetBegins
  <2> QED
    BY <1>2, <2>2, <2>3, <2>4, <2>5, RequestKeeps, LoginKeeps, AcceptedKeeps, PasswordKeeps,
       AddKeeps, RemoveKeeps, EditKeeps DEF Answers
<1>3. ASSUME Tick PROVE Tables' /\ Signed'
  BY <1>3, TickKeeps
<1>4. ASSUME PortalRestart PROVE Tables' /\ Signed'
  <2>1. DOMAIN sessions' = {}
    BY <1>4 DEF PortalRestart
  <2>2. \A c \in Connection : reading'[c] = Rest
    BY <1>4 DEF PortalRestart
  <2>3. Tables'
    BY <1>4, <2>1, <2>2, AccessAssumption DEF PortalRestart, SessionInv, Tables
  <2>4. Signed'
    BY <2>1, <2>2 DEF Signed
  <2> QED
    BY <2>3, <2>4
<1>5. ASSUME UNCHANGED portalVars PROVE Tables' /\ Signed'
  <2>1. /\ users' = users /\ now' = now /\ portalExposed' = portalExposed
        /\ sessions' = sessions /\ reading' = reading
    BY <1>5 DEF portalVars
  <2>2. Tables'
    BY <2>1 DEF SessionInv, Tables
  <2>3. Signed'
    BY <2>1 DEF SessionInv, Signed, Fits, Fresh, Admitted
  <2> QED
    BY <2>2, <2>3
<1> QED
  BY <1>1, <1>2, <1>3, <1>4, <1>5 DEF PortalNext, SessionInv

\* What an effect comes from.
LEMMA EffectFacts ==
  ASSUME NEW c \in Connection, NEW kind \in Operation, Effect(c, kind)
  PROVE  /\ reading[c] # Rest
         /\ \/ RoleAllows(reading[c].role, kind)
            \/ reading[c].at = kind /\ kind \in {"password", "reset"}
<1>1. reading[c].at \in {"body", "password", "reset"}
  BY DEF Effect, ServePage, ServeUpload, Activate, ServeSettings, PasswordChanged,
     ResetAccepted, RemoveUser, AddUser, EditUser, Handles
<1>2. reading[c] # Rest
  BY <1>1 DEF Rest
<1> QED
  BY <1>2 DEF Effect, ServePage, ServeUpload, Activate, ServeSettings, PasswordChanged,
     ResetAccepted, RemoveUser, AddUser, EditUser, Handles

LEMMA OnlyAllowed ==
  ASSUME SessionInv, PortalExposure \subseteq PortalExcused
  PROVE  ActsOnlyAllowed
<1> SUFFICES ASSUME NEW c \in Connection, NEW kind \in Operation, PortalPromised, Effect(c, kind)
             PROVE  /\ reading[c].idle <= Timeout
                    /\ LET u == users[reading[c].name] IN
                         /\ u.account = reading[c].account /\ u.enabled
                         /\ Level[u.role] >= Level[Required[kind]]
  BY DEF ActsOnlyAllowed
<1>1. portalExposed = {}
  BY DEF PortalPromised, SessionInv, Tables
<1>2. reading[c] # Rest
  BY EffectFacts
<1>3. Fits(reading[c]) /\ Admitted(reading[c])
  BY <1>1, <1>2 DEF SessionInv, Signed
<1>4. RoleAllows(reading[c].role, kind)
  BY <1>3, EffectFacts DEF Admitted
<1> QED
  BY <1>3, <1>4 DEF Fits, Admitted, RoleAllows

LEMMA MatchingSessions ==
  ASSUME SessionInv, PortalExposure \subseteq PortalExcused
  PROVE  SessionsMatchAccounts
<1>1. PortalPromised => portalExposed = {}
  BY DEF PortalPromised, SessionInv, Tables
<1> QED
  BY <1>1 DEF SessionsMatchAccounts, SessionInv, Signed, Fits

\* Who acts is who signed in, and may (portal_routes.py:36-107, portal_sessions.py): a session
\* is that of an enabled account with its role and password, and a request has an effect only
\* for an account whose role allows it when the effect comes, however sign-ins, edits,
\* renames, password changes and the reading of requests interleave.
THEOREM SessionsHoldThroughout ==
  ASSUME PortalExposure \subseteq PortalExcused
  PROVE  PortalSpec => SessionsHold
<1>1. PortalInit => SessionInv
  BY SessionInit
<1>2. SessionInv /\ [PortalNext]_portalVars => SessionInv'
  BY SessionNext
<1>3. SessionInv /\ SessionInv' => SessionsMatchAccounts' /\ ActsOnlyAllowed
  <2>1. SessionInv => SessionsMatchAccounts
    BY MatchingSessions
  <2>2. SessionInv' => SessionsMatchAccounts'
    BY <2>1, PTL
  <2>3. SessionInv => ActsOnlyAllowed
    BY OnlyAllowed
  <2> QED
    BY <2>2, <2>3
<1> QED
  BY <1>1, <1>2, <1>3, PTL DEF PortalSpec, SessionsHold

-----------------------------------------------------------------------------
(***************************************************************************)
(* Uploads.  Whoever writes to the store, and whenever power is lost, what *)
(* is stored, handed to an installer and staged is whole, and what can be  *)
(* activated is of one release.                                            *)
(***************************************************************************)

Session == {NoSession} \cup [art : Artifact, received : 0 .. Size, complete : BOOLEAN]

Payload == {p \in [exists : BOOLEAN, chunks : Seq(Chunk)] : Len(p.chunks) <= Size}

\* What the flash may hold.
Contents == [meta : [Id -> Session], part : [Id -> Payload]]

\* One payload at most.
Alone(s) == \A i, j \in Id : s.part[i].exists /\ s.part[j].exists => i = j

\* The payload of a session holds what it acknowledged.
Holds(s, i) ==
  s.meta[i] # NoSession =>
    /\ s.part[i].exists
    /\ Len(s.part[i].chunks) >= s.meta[i].received
    /\ \A k \in 1 .. s.meta[i].received : s.part[i].chunks[k].at = k

Held(s) == \A i \in Id : Holds(s, i)

Shelf == Stored \in Contents /\ Alone(Stored) /\ ("missing" \notin exposed => Held(Stored))

ComponentRecord == [status : {"idle", "ready", "selected", "trial"},
                    release : {0} \cup Release, running : 1 .. MaxRelease]

\* What is staged or on trial is a release.
Components ==
  /\ comp \in [Kind -> ComponentRecord]
  /\ \A k \in Kind : comp[k].status # "idle" => comp[k].release \in Release

Plans ==
  /\ plan \in [release : {0, Wanted}, need : SUBSET Kind, done : SUBSET Kind,
               bound : SUBSET (Kind \X Id)]
  /\ plan.done \subseteq plan.need /\ plan.bound \subseteq plan.need \X Id
  /\ uni \in [status : {"idle", "ready", "activating"}, release : {0, Wanted},
              need : SUBSET Kind]

\* A browser at a step of an upload has an artifact.
Asking ==
  /\ tab \in [Tab -> Request]
  /\ \A t \in Tab : tab[t].step \in {"begin", "chunk", "complete"} => tab[t].art \in Artifact

\* One writer at a time, and only while the application runs.
Writers ==
  /\ on \in BOOLEAN
  /\ install \in [art : Artifact \cup {NoArtifact}, id : Id]
  /\ fetch \in Artifact \cup {NoArtifact}
  /\ Installing => ~Fetching
  /\ ~on => ~Installing /\ ~Fetching

Bounded ==
  tries \in 0 .. MaxTries /\ faults \in 0 .. MaxFaults /\ exposed \subseteq Exposure

WrittenCore ==
  comp["firmware"].status = "ready" =>
    install.art.kind # "firmware" /\ fetch.kind # "firmware"

Paired ==
  ({"planLost", "replaced"} \cap exposed = {} /\ uni.status = "ready") =>
    \A k \in uni.need : comp[k].status = "ready" => comp[k].release = uni.release

UploadTypes == Components /\ Plans /\ Asking /\ Writers /\ Bounded

UploadInv == UploadTypes /\ Shelf /\ HandedWhole /\ WrittenCore /\ Paired

-----------------------------------------------------------------------------
(* The contents of the store.                                              *)

LEMMA SessionFacts ==
  /\ NoArtifact \notin Artifact
  /\ NoSession.received = 0 /\ NoSession.complete = FALSE /\ NoSession.art = NoArtifact
  /\ NoSession \in Session /\ NoPayload \in Payload
  /\ \A m \in Session : /\ m.received \in 0 .. Size /\ m.complete \in BOOLEAN
                        /\ m.art \in Artifact \cup {NoArtifact}
                        /\ m # NoSession => m.art \in Artifact
<1>1. NoArtifact.kind = "none" /\ NoArtifact \notin Artifact
  BY DEF NoArtifact, Artifact, Kind
<1>2. /\ NoSession.received = 0 /\ NoSession.complete = FALSE
      /\ NoSession.art = NoArtifact /\ NoSession \in Session
  BY DEF NoSession, Session
<1>3. NoPayload \in Payload
  <2>1. <<>> \in Seq(Chunk) /\ Len(<<>>) = 0
    OBVIOUS
  <2>2. Size \in Nat
    BY SizeAssumption
  <2> QED
    BY <2>1, <2>2 DEF NoPayload, Payload
<1>4. ASSUME NEW m \in Session
      PROVE  /\ m.received \in 0 .. Size /\ m.complete \in BOOLEAN
             /\ m.art \in Artifact \cup {NoArtifact}
             /\ m # NoSession => m.art \in Artifact
  <2>1. CASE m = NoSession
    <3>1. 0 \in 0 .. Size
      BY SizeAssumption
    <3>2. m.received = 0 /\ m.complete = FALSE /\ m.art = NoArtifact
      BY <2>1, <1>2
    <3> QED
      BY <2>1, <3>1, <3>2
  <2>2. CASE m # NoSession
    BY <2>2 DEF Session
  <2> QED
    BY <2>1, <2>2
<1> QED
  BY <1>1, <1>2, <1>3, <1>4

LEMMA ContentsFacts ==
  ASSUME NEW s \in Contents, NEW i \in Id
  PROVE  /\ s.meta \in [Id -> Session] /\ s.part \in [Id -> Payload]
         /\ s.meta[i] \in Session /\ s.meta[i].received \in 0 .. Size
         /\ s.meta[i].received \in Nat
         /\ s.part[i] \in Payload /\ s.part[i].exists \in BOOLEAN
         /\ s.part[i].chunks \in Seq(Chunk) /\ Len(s.part[i].chunks) \in Nat
         /\ Len(s.part[i].chunks) <= Size
         /\ s = [meta |-> s.meta, part |-> s.part]
<1>1. s.meta \in [Id -> Session] /\ s.part \in [Id -> Payload]
      /\ s = [meta |-> s.meta, part |-> s.part]
  BY DEF Contents
<1>2. s.meta[i] \in Session /\ s.part[i] \in Payload
  BY <1>1
<1>3. s.meta[i].received \in 0 .. Size /\ s.meta[i].received \in Nat
  BY <1>2, SessionFacts, SizeAssumption
<1>4. /\ s.part[i].exists \in BOOLEAN
      /\ s.part[i].chunks \in Seq(Chunk) /\ Len(s.part[i].chunks) <= Size
  BY <1>2 DEF Payload
<1> QED
  BY <1>1, <1>2, <1>3, <1>4

\* Putting a payload, or a session, in its place.
LEMMA PutPayload ==
  ASSUME NEW s \in Contents, NEW i \in Id, NEW p \in Payload
  PROVE  /\ [s EXCEPT !.part[i] = p] \in Contents
         /\ [s EXCEPT !.part[i] = p].meta = s.meta
         /\ [s EXCEPT !.part[i] = p].part[i] = p
         /\ \A j \in Id : j # i => [s EXCEPT !.part[i] = p].part[j] = s.part[j]
<1>1. s.meta \in [Id -> Session] /\ s.part \in [Id -> Payload]
      /\ s = [meta |-> s.meta, part |-> s.part]
  BY ContentsFacts
<1> DEFINE n == [s EXCEPT !.part[i] = p]
<1>2. n = [meta |-> s.meta, part |-> [s.part EXCEPT ![i] = p]]
  BY <1>1 DEF Contents
<1>3. [s.part EXCEPT ![i] = p] \in [Id -> Payload]
  BY <1>1
<1> QED
  BY <1>1, <1>2, <1>3 DEF Contents

LEMMA PutSession ==
  ASSUME NEW s \in Contents, NEW i \in Id, NEW m \in Session
  PROVE  /\ [s EXCEPT !.meta[i] = m] \in Contents
         /\ [s EXCEPT !.meta[i] = m].part = s.part
         /\ [s EXCEPT !.meta[i] = m].meta[i] = m
         /\ \A j \in Id : j # i => [s EXCEPT !.meta[i] = m].meta[j] = s.meta[j]
<1>1. s.meta \in [Id -> Session] /\ s.part \in [Id -> Payload]
      /\ s = [meta |-> s.meta, part |-> s.part]
  BY ContentsFacts
<1> DEFINE n == [s EXCEPT !.meta[i] = m]
<1>2. n = [meta |-> [s.meta EXCEPT ![i] = m], part |-> s.part]
  BY <1>1 DEF Contents
<1>3. [s.meta EXCEPT ![i] = m] \in [Id -> Session]
  BY <1>1
<1> QED
  BY <1>1, <1>2, <1>3 DEF Contents

\* The values a sequence of writes goes through.
LEMMA OneWrite ==
  ASSUME NEW x \in Contents
  PROVE  <<x>> \in Seq(Contents) /\ Len(<<x>>) >= 1 /\ Left(<<x>>) = x /\ Values(<<x>>) = {x}
BY DEF Left, Values

LEMMA TwoWrites ==
  ASSUME NEW x \in Contents, NEW y \in Contents
  PROVE  /\ <<x, y>> \in Seq(Contents) /\ Len(<<x, y>>) >= 1
         /\ Left(<<x, y>>) = y /\ Values(<<x, y>>) = {x, y}
<1>1. /\ <<x, y>> \in Seq(Contents) /\ Len(<<x, y>>) >= 1
      /\ DOMAIN <<x, y>> = {1, 2} /\ Len(<<x, y>>) = 2
  OBVIOUS
<1> QED
  BY <1>1 DEF Left, Values

LEMMA ThreeWrites ==
  ASSUME NEW x \in Contents, NEW y \in Contents, NEW z \in Contents
  PROVE  /\ <<x, y, z>> \in Seq(Contents) /\ Len(<<x, y, z>>) >= 1
         /\ Left(<<x, y, z>>) = z /\ Values(<<x, y, z>>) = {x, y, z}
<1>1. <<x, y, z>> \in Seq(Contents) /\ Len(<<x, y, z>>) >= 1
      /\ Len(<<x, y, z>>) = 3 /\ DOMAIN <<x, y, z>> = {1, 2, 3}
  OBVIOUS
<1> QED
  BY <1>1 DEF Left, Values

LEMMA MoreWrites ==
  ASSUME NEW ws \in Seq(Contents), NEW vs \in Seq(Contents), Len(vs) >= 1
  PROVE  /\ ws \o vs \in Seq(Contents) /\ Len(ws \o vs) = Len(ws) + Len(vs)
         /\ Left(ws \o vs) = Left(vs)
         /\ Values(ws \o vs) = Values(ws) \cup Values(vs)
<1>1. /\ ws \o vs \in Seq(Contents) /\ Len(ws \o vs) = Len(ws) + Len(vs)
      /\ Len(ws) \in Nat /\ Len(vs) \in Nat
      /\ DOMAIN ws = 1 .. Len(ws) /\ DOMAIN vs = 1 .. Len(vs)
      /\ DOMAIN (ws \o vs) = 1 .. Len(ws) + Len(vs)
      /\ \A k \in 1 .. Len(ws) + Len(vs) :
           (ws \o vs)[k] = IF k <= Len(ws) THEN ws[k] ELSE vs[k - Len(ws)]
  BY ConcatProperties, LenProperties
<1>2. Left(ws \o vs) = Left(vs)
  BY <1>1 DEF Left
<1>3. ASSUME NEW v \in Values(ws \o vs) PROVE v \in Values(ws) \cup Values(vs)
  <2>1. PICK k \in 1 .. Len(ws) + Len(vs) : v = (ws \o vs)[k]
    BY <1>1 DEF Values
  <2>2. CASE k <= Len(ws)
    BY <1>1, <2>1, <2>2 DEF Values
  <2>3. CASE ~(k <= Len(ws))
    <3>1. k - Len(ws) \in 1 .. Len(vs) /\ v = vs[k - Len(ws)]
      BY <1>1, <2>1, <2>3
    <3> QED
      BY <1>1, <3>1 DEF Values
  <2> QED
    BY <2>2, <2>3
<1>4. ASSUME NEW v \in Values(ws) PROVE v \in Values(ws \o vs)
  <2>1. PICK k \in 1 .. Len(ws) : v = ws[k]
    BY <1>1 DEF Values
  <2>2. k \in 1 .. Len(ws) + Len(vs) /\ v = (ws \o vs)[k]
    BY <1>1, <2>1
  <2> QED
    BY <1>1, <2>2 DEF Values
<1>5. ASSUME NEW v \in Values(vs) PROVE v \in Values(ws \o vs)
  <2>1. PICK k \in 1 .. Len(vs) : v = vs[k]
    BY <1>1 DEF Values
  <2>2. k + Len(ws) \in 1 .. Len(ws) + Len(vs) /\ v = (ws \o vs)[k + Len(ws)]
    BY <1>1, <2>1
  <2> QED
    BY <1>1, <2>2 DEF Values
<1> QED
  BY <1>1, <1>2, <1>3, <1>4, <1>5

-----------------------------------------------------------------------------
(* What the operations of the store do to its contents.                    *)

\* A value that holds no more than another, and what its sessions acknowledged.
Within(s, v) ==
  /\ v \in Contents
  /\ \A j \in Id : v.part[j].exists => s.part[j].exists
  /\ \A j \in Id : v.meta[j] # NoSession =>
       /\ s.meta[j] # NoSession
       /\ v.meta[j].received = s.meta[j].received
       /\ s.part[j].exists => v.part[j].exists
       /\ Len(s.part[j].chunks) >= s.meta[j].received
            => /\ Len(v.part[j].chunks) >= s.meta[j].received
               /\ \A k \in 1 .. s.meta[j].received :
                    v.part[j].chunks[k] = s.part[j].chunks[k]

LEMMA WithinItself ==
  ASSUME NEW s \in Contents
  PROVE  Within(s, s)
BY DEF Within

LEMMA WithinAgain ==
  ASSUME NEW s \in Contents, NEW v, NEW w, Within(s, v), Within(v, w)
  PROVE  Within(s, w)
BY DEF Within

LEMMA WithinKeeps ==
  ASSUME NEW s \in Contents, NEW v, Within(s, v)
  PROVE  /\ v \in Contents
         /\ Alone(s) => Alone(v)
         /\ Held(s) => Held(v)
<1>1. v \in Contents
  BY DEF Within
<1>2. ASSUME Alone(s) PROVE Alone(v)
  BY <1>2 DEF Within, Alone
<1>3. ASSUME Held(s), NEW j \in Id, v.meta[j] # NoSession
      PROVE  /\ v.part[j].exists
             /\ Len(v.part[j].chunks) >= v.meta[j].received
             /\ \A k \in 1 .. v.meta[j].received : v.part[j].chunks[k].at = k
  <2>1. /\ s.meta[j] # NoSession
        /\ v.meta[j].received = s.meta[j].received
        /\ s.part[j].exists => v.part[j].exists
        /\ Len(s.part[j].chunks) >= s.meta[j].received
            => /\ Len(v.part[j].chunks) >= s.meta[j].received
               /\ \A k \in 1 .. s.meta[j].received :
                    v.part[j].chunks[k] = s.part[j].chunks[k]
    BY <1>3 DEF Within
  <2>2. /\ s.part[j].exists
        /\ Len(s.part[j].chunks) >= s.meta[j].received
        /\ \A k \in 1 .. s.meta[j].received : s.part[j].chunks[k].at = k
    BY <1>3, <2>1 DEF Held, Holds
  <2>3. /\ Len(v.part[j].chunks) >= s.meta[j].received
        /\ \A k \in 1 .. s.meta[j].received : v.part[j].chunks[k] = s.part[j].chunks[k]
    BY <2>1, <2>2
  <2> QED
    BY <2>1, <2>2, <2>3
<1> QED
  BY <1>1, <1>2, <1>3 DEF Held, Holds

\* Without its session, and without its session and its payload.
LEMMA RemovedFacts ==
  ASSUME NEW s \in Contents, NEW i \in Id
  PROVE  /\ Removed(s, i) \in Seq(Contents) /\ Len(Removed(s, i)) >= 1
         /\ \A v \in Values(Removed(s, i)) : Within(s, v)
         /\ Within(s, Left(Removed(s, i)))
         /\ Left(Removed(s, i)).meta[i] = NoSession
         /\ Left(Removed(s, i)).part[i] = NoPayload
         /\ \A j \in Id : j # i =>
              /\ Left(Removed(s, i)).meta[j] = s.meta[j]
              /\ Left(Removed(s, i)).part[j] = s.part[j]
<1> DEFINE x == [s EXCEPT !.meta[i] = NoSession]
           y == [s EXCEPT !.meta[i] = NoSession, !.part[i] = NoPayload]
           z == [x EXCEPT !.part[i] = NoPayload]
<1>1. /\ x \in Contents /\ x.part = s.part /\ x.meta[i] = NoSession
      /\ \A j \in Id : j # i => x.meta[j] = s.meta[j]
  BY PutSession, SessionFacts
<1>2. y = z
  BY ContentsFacts DEF Contents
<1> HIDE DEF x
<1>3. /\ z \in Contents /\ z.meta = x.meta /\ z.part[i] = NoPayload
      /\ \A j \in Id : j # i => z.part[j] = x.part[j]
  BY <1>1, PutPayload, SessionFacts
<1> HIDE DEF y, z
<1>4. Within(s, x) /\ Within(s, y)
  <2>1. NoPayload.exists = FALSE
    BY DEF NoPayload
  <2> QED
    BY <1>1, <1>2, <1>3, <2>1 DEF Within
<1>5. Removed(s, i) = <<x, y>>
  BY DEF Removed, x, y
<1> QED
  BY <1>1, <1>2, <1>3, <1>4, <1>5, TwoWrites

\* The others go, their sessions first.
LEMMA DroppedFacts ==
  ASSUME NEW s \in Contents, NEW i \in Id
  PROVE  /\ DropOthers(s, i) \in Seq(Contents) /\ Len(DropOthers(s, i)) >= 1
         /\ \A v \in Values(DropOthers(s, i)) : Within(s, v)
         /\ Within(s, Left(DropOthers(s, i)))
         /\ Left(DropOthers(s, i)).meta[i] = s.meta[i]
         /\ Left(DropOthers(s, i)).part[i] = s.part[i]
         /\ \A j \in Id : j # i =>
              /\ Left(DropOthers(s, i)).meta[j] = NoSession
              /\ Left(DropOthers(s, i)).part[j] = NoPayload
<1> DEFINE ms == [j \in Id |-> IF j = i THEN s.meta[j] ELSE NoSession]
           ps == [j \in Id |-> IF j = i THEN s.part[j] ELSE NoPayload]
           x == [s EXCEPT !.meta = [j \in Id |-> IF j = i THEN @[j] ELSE NoSession]]
           y == [x EXCEPT !.part = [j \in Id |-> IF j = i THEN @[j] ELSE NoPayload]]
<1>1. s.meta \in [Id -> Session] /\ s.part \in [Id -> Payload]
      /\ s = [meta |-> s.meta, part |-> s.part]
  BY ContentsFacts
<1>2. ms \in [Id -> Session] /\ ps \in [Id -> Payload]
  BY <1>1, SessionFacts
<1>3. x.meta = ms /\ x.part = s.part /\ x = [meta |-> ms, part |-> s.part]
  BY <1>1 DEF Contents
<1> HIDE DEF x
<1>4. y.meta = ms /\ y.part = ps /\ y = [meta |-> ms, part |-> ps]
  BY <1>1, <1>3
<1>5. x \in Contents /\ y \in Contents
  BY <1>1, <1>2, <1>3, <1>4 DEF Contents
<1>6. DropOthers(s, i) = <<x, y>>
  BY DEF DropOthers, x
<1>7. NoPayload.exists = FALSE
  BY DEF NoPayload
<1> HIDE DEF y
<1>8. Within(s, x) /\ Within(s, y)
  BY <1>3, <1>4, <1>5, <1>7 DEF Within
<1>9. /\ y.meta[i] = s.meta[i] /\ y.part[i] = s.part[i]
      /\ \A j \in Id : j # i => y.meta[j] = NoSession /\ y.part[j] = NoPayload
  BY <1>4
<1> HIDE DEF ms, ps
<1>10. /\ <<x, y>> \in Seq(Contents) /\ Len(<<x, y>>) >= 1
       /\ Left(<<x, y>>) = y /\ Values(<<x, y>>) = {x, y}
  BY <1>5, TwoWrites
<1> QED
  BY <1>6, <1>8, <1>9, <1>10

\* Cut to what its session acknowledged.
LEMMA ReconciledFacts ==
  ASSUME NEW s \in Contents, NEW i \in Id, Loads(s, i)
  PROVE  /\ Within(s, Reconciled(s, i))
         /\ Reconciled(s, i).meta = s.meta
         /\ Reconciled(s, i).part[i].exists
         /\ Len(Reconciled(s, i).part[i].chunks) = s.meta[i].received
         /\ \A j \in Id : j # i => Reconciled(s, i).part[j] = s.part[j]
<1> DEFINE q == SubSeq(s.part[i].chunks, 1, s.meta[i].received)
           p == [s.part[i] EXCEPT !.chunks = q]
           r == [s EXCEPT !.part[i] = p]
<1>1. /\ s.part[i].exists /\ s.meta[i] # NoSession /\ s.part[i] \in Payload
      /\ s.part[i].chunks \in Seq(Chunk) /\ s.meta[i].received \in 0 .. Size
      /\ s.meta[i].received <= Len(s.part[i].chunks) /\ Len(s.part[i].chunks) \in Nat
      /\ s.meta[i].received \in Nat
  BY ContentsFacts DEF Loads
<1>2. /\ q \in Seq(Chunk) /\ Len(q) = s.meta[i].received
      /\ \A k \in 1 .. s.meta[i].received : q[k] = s.part[i].chunks[k]
  BY <1>1, SubSeqProperties
<1> HIDE DEF q
<1>3. p \in Payload /\ p.exists /\ p.chunks = q
  BY <1>1, <1>2, SizeAssumption DEF Payload
<1>4. Reconciled(s, i) = r
  BY <1>1, ContentsFacts DEF Reconciled, q, Contents
<1> HIDE DEF p
<1>5. /\ r \in Contents /\ r.meta = s.meta /\ r.part[i] = p
      /\ \A j \in Id : j # i => r.part[j] = s.part[j]
  BY <1>3, PutPayload
<1> HIDE DEF r
<1>6. Within(s, r)
  <2> SUFFICES ASSUME NEW j \in Id
               PROVE  /\ r.part[j].exists => s.part[j].exists
                      /\ s.part[j].exists => r.part[j].exists
                      /\ Len(s.part[j].chunks) >= s.meta[j].received
                           => /\ Len(r.part[j].chunks) >= s.meta[j].received
                              /\ \A k \in 1 .. s.meta[j].received :
                                   r.part[j].chunks[k] = s.part[j].chunks[k]
    BY <1>5 DEF Within
  <2>1. CASE j = i
    BY <2>1, <1>1, <1>2, <1>3, <1>5
  <2>2. CASE j # i
    BY <2>2, <1>5
  <2> QED
    BY <2>1, <2>2
<1> QED
  BY <1>2, <1>3, <1>4, <1>5, <1>6

\* Without file.truncate there is a moment without the payload.
LEMMA CutFacts ==
  ASSUME NEW s \in Contents, NEW i \in Id, Loads(s, i)
  PROVE  /\ Reconciling(s, i) \in Seq(Contents) /\ Len(Reconciling(s, i)) >= 1
         /\ \A v \in Values(Reconciling(s, i)) :
              \/ Within(s, v)
              \/ v \in Contents /\ LostPayload(v) /\ (Alone(s) => Alone(v))
         /\ Within(s, Left(Reconciling(s, i)))
         /\ Left(Reconciling(s, i)).meta = s.meta
         /\ Left(Reconciling(s, i)).part[i].exists
         /\ Len(Left(Reconciling(s, i)).part[i].chunks) = s.meta[i].received
         /\ Left(Reconciling(s, i)).part[i].chunks = Reconciled(s, i).part[i].chunks
         /\ \A j \in Id : j # i => Left(Reconciling(s, i)).part[j] = s.part[j]
<1>1. /\ s.part[i].exists /\ s.meta[i] # NoSession /\ s.part[i] \in Payload
      /\ s.part[i].chunks \in Seq(Chunk) /\ s.meta[i].received \in Nat
      /\ s.meta[i].received <= Len(s.part[i].chunks) /\ Len(s.part[i].chunks) \in Nat
  BY ContentsFacts DEF Loads
<1> DEFINE r == Reconciled(s, i)
           v == [s EXCEPT !.part[i] = NoPayload]
<1>2. /\ Within(s, r) /\ r \in Contents /\ r.meta = s.meta /\ r.part[i].exists
      /\ Len(r.part[i].chunks) = s.meta[i].received
      /\ \A j \in Id : j # i => r.part[j] = s.part[j]
  BY ReconciledFacts DEF Within
<1>3. CASE Len(s.part[i].chunks) > s.meta[i].received
  <2>1. Reconciling(s, i) = <<v, r>>
    BY <1>3 DEF Reconciling
  <2>2. /\ v \in Contents /\ v.meta = s.meta /\ v.part[i] = NoPayload
        /\ \A j \in Id : j # i => v.part[j] = s.part[j]
    BY PutPayload, SessionFacts
  <2>3. NoPayload.exists = FALSE
    BY DEF NoPayload
  <2> HIDE DEF r, v
  <2>4. LostPayload(v)
    BY <1>1, <2>2, <2>3 DEF LostPayload
  <2>5. Alone(s) => Alone(v)
    BY <2>2, <2>3 DEF Alone
  <2>6. /\ <<v, r>> \in Seq(Contents) /\ Len(<<v, r>>) >= 1
        /\ Left(<<v, r>>) = r /\ Values(<<v, r>>) = {v, r}
    BY <1>2, <2>2, TwoWrites
  <2> QED
    BY <1>2, <2>1, <2>2, <2>4, <2>5, <2>6 DEF r
<1>4. CASE ~(Len(s.part[i].chunks) > s.meta[i].received)
  <2>1. Reconciling(s, i) = <<s>>
    BY <1>4 DEF Reconciling
  <2>2. Len(s.part[i].chunks) = s.meta[i].received
    BY <1>1, <1>4
  <2>3. r.part[i].chunks = s.part[i].chunks
    <3>1. SubSeq(s.part[i].chunks, 1, s.meta[i].received) = s.part[i].chunks
      <4> DEFINE q == SubSeq(s.part[i].chunks, 1, s.meta[i].received)
      <4>1. /\ q \in Seq(Chunk) /\ Len(q) = Len(s.part[i].chunks)
            /\ \A k \in 1 .. Len(q) : q[k] = s.part[i].chunks[k]
        BY <1>1, <2>2, SubSeqProperties
      <4> HIDE DEF q
      <4>2. q = s.part[i].chunks
        BY <1>1, <4>1, SeqEqual
      <4> QED
        BY <4>2 DEF q
    <3> DEFINE p == [s.part[i] EXCEPT !.chunks = SubSeq(@, 1, s.meta[i].received)]
    <3>2. p.chunks = s.part[i].chunks /\ p \in Payload
      BY <1>1, <3>1 DEF Payload
    <3>3. r = [s EXCEPT !.part[i] = p]
      BY <1>1, ContentsFacts DEF Reconciled, Contents
    <3> HIDE DEF p, r
    <3>4. r.part[i] = p
      BY <3>2, <3>3, PutPayload
    <3> QED
      BY <3>2, <3>4
  <2>4. Within(s, s)
    BY WithinItself
  <2> HIDE DEF r
  <2> QED
    BY <1>1, <2>1, <2>2, <2>3, <2>4, OneWrite DEF r
<1> QED
  BY <1>1, <1>3, <1>4

-----------------------------------------------------------------------------
(* The operations.  Power may be lost at any of the values.                *)

\* At any moment there is one payload, and it holds what was acknowledged, or is gone and
\* that shows; in the end it is there.
Safe(s, ws) ==
  /\ \A v \in Values(ws) : /\ v \in Contents
                           /\ Alone(s) => Alone(v)
                           /\ Held(s) => Held(v) \/ LostPayload(v)
  /\ Left(ws) \in Values(ws)
  /\ Held(s) => Held(Left(ws))

\* begin finds the session of this artifact.
LEMMA ResumeFacts ==
  ASSUME NEW s \in Contents, NEW i \in Id, Loads(s, i)
  PROVE  /\ Safe(s, Resume(s, i))
         /\ Left(Resume(s, i)).meta[i] = s.meta[i]
<1> DEFINE cut == Reconciling(s, i)
           c == Left(cut)
           d == DropOthers(c, i)
<1>1. /\ cut \in Seq(Contents) /\ Len(cut) >= 1
      /\ \A v \in Values(cut) :
              \/ Within(s, v)
              \/ v \in Contents /\ LostPayload(v) /\ (Alone(s) => Alone(v))
      /\ Within(s, c) /\ c.meta = s.meta
  BY CutFacts
<1>2. c \in Contents
  BY <1>1 DEF Within
<1>3. Resume(s, i) = cut \o d
  BY DEF Resume
<1> HIDE DEF cut, c
<1>4. /\ d \in Seq(Contents) /\ Len(d) >= 1 /\ \A v \in Values(d) : Within(c, v)
      /\ Within(c, Left(d)) /\ Left(d).meta[i] = c.meta[i]
  BY <1>2, DroppedFacts
<1> HIDE DEF d
<1>5. Left(cut \o d) = Left(d) /\ Values(cut \o d) = Values(cut) \cup Values(d)
  BY <1>1, <1>4, MoreWrites
<1>6. \A v \in Values(d) : Within(s, v)
  BY <1>1, <1>4, WithinAgain
<1>7. Within(s, Left(d)) /\ Left(d) \in Values(d)
  BY <1>1, <1>4, WithinAgain DEF Left, Values
<1> QED
  BY <1>1, <1>3, <1>4, <1>5, <1>6, <1>7, WithinKeeps DEF Safe

\* begin with another artifact, or without the space for the rest of this one.
LEMMA RestartFacts ==
  ASSUME NEW s \in Contents, NEW i \in Id, NEW a \in Artifact
  PROVE  /\ Safe(s, Restart(s, i, a))
         /\ Left(Restart(s, i, a)).meta[i] = [NoSession EXCEPT !.art = a]
<1> DEFINE gone == Removed(s, i)
           g == Left(gone)
           only == DropOthers(g, i)
           o == Left(only)
           empty == [exists |-> TRUE, chunks |-> <<>>]
           x == [o EXCEPT !.part[i] = empty]
           m == [NoSession EXCEPT !.art = a]
           y == [x EXCEPT !.meta[i] = m]
<1>1. /\ gone \in Seq(Contents) /\ Len(gone) >= 1
      /\ \A v \in Values(gone) : Within(s, v)
      /\ Within(s, g) /\ g.meta[i] = NoSession
  BY RemovedFacts
<1>2. g \in Contents
  BY <1>1 DEF Within
<1>3. Restart(s, i, a) = gone \o only \o <<x, y>>
  BY DEF Restart, Opened
<1> HIDE DEF gone, g
<1>4. /\ only \in Seq(Contents) /\ Len(only) >= 1 /\ \A v \in Values(only) : Within(g, v)
      /\ Within(g, o) /\ o.meta[i] = g.meta[i]
      /\ \A j \in Id : j # i => o.meta[j] = NoSession /\ o.part[j] = NoPayload
  BY <1>2, DroppedFacts
<1>5. o \in Contents /\ \A j \in Id : o.meta[j] = NoSession
  BY <1>1, <1>4 DEF Within
<1> HIDE DEF only, o
<1>6. empty \in Payload /\ empty.exists /\ Len(empty.chunks) = 0
  <2>1. <<>> \in Seq(Chunk) /\ Len(<<>>) = 0 /\ Size \in Nat
    BY SizeAssumption
  <2> QED
    BY <2>1 DEF Payload
<1> HIDE DEF empty
<1>7. /\ x \in Contents /\ x.meta = o.meta /\ x.part[i] = empty
      /\ \A j \in Id : j # i => x.part[j] = o.part[j]
  BY <1>5, <1>6, PutPayload
<1> HIDE DEF x
<1>8. m \in Session /\ m.received = 0
  <2>1. 0 \in 0 .. Size
    BY SizeAssumption
  <2>2. NoSession \in [art : {NoArtifact}, received : 0 .. Size, complete : BOOLEAN]
    BY <2>1 DEF NoSession
  <2>3. m \in [art : Artifact, received : 0 .. Size, complete : BOOLEAN]
    BY <2>2
  <2>4. m.received = 0
    BY <2>2, SessionFacts
  <2> QED
    BY <2>3, <2>4 DEF Session
<1> HIDE DEF m
<1>9. /\ y \in Contents /\ y.part = x.part /\ y.meta[i] = m
      /\ \A j \in Id : j # i => y.meta[j] = x.meta[j]
  BY <1>7, <1>8, PutSession
<1> HIDE DEF y
<1>10. NoPayload.exists = FALSE
  BY DEF NoPayload
<1>11. Alone(x) /\ Alone(y)
  BY <1>4, <1>7, <1>9, <1>10 DEF Alone
<1>12. Held(x)
  BY <1>5, <1>7 DEF Held, Holds
<1>13. Held(y)
  <2> SUFFICES ASSUME NEW j \in Id, y.meta[j] # NoSession
               PROVE  /\ y.part[j].exists
                      /\ Len(y.part[j].chunks) >= y.meta[j].received
                      /\ \A k \in 1 .. y.meta[j].received : y.part[j].chunks[k].at = k
    BY DEF Held, Holds
  <2>1. j = i
    BY <1>5, <1>7, <1>9
  <2>2. y.meta[j].received = 0 /\ y.part[j] = empty /\ 1 .. 0 = {}
    BY <2>1, <1>7, <1>8, <1>9
  <2> QED
    BY <2>2, <1>6
<1>14. /\ <<x, y>> \in Seq(Contents) /\ Len(<<x, y>>) >= 1
       /\ Left(<<x, y>>) = y /\ Values(<<x, y>>) = {x, y}
  BY <1>7, <1>9, TwoWrites
<1>15. \A v \in Values(only) : Within(s, v)
  BY <1>1, <1>4, WithinAgain
<1> DEFINE front == gone \o only
<1>16. front \in Seq(Contents) /\ Values(front) = Values(gone) \cup Values(only)
  BY <1>1, <1>4, MoreWrites
<1> HIDE DEF front
<1>17. Left(front \o <<x, y>>) = y /\ Values(front \o <<x, y>>) = Values(front) \cup {x, y}
  BY <1>14, <1>16, MoreWrites
<1>18. Restart(s, i, a) = front \o <<x, y>>
  BY <1>3 DEF front
<1> QED
  BY <1>1, <1>7, <1>9, <1>11, <1>12, <1>13, <1>15, <1>16, <1>17, <1>18, WithinKeeps
  DEF Safe, m

\* append: the chunk, then the acknowledgement.
LEMMA AppendFacts ==
  ASSUME NEW s \in Contents, NEW i \in Id, NEW n, CanAppend(s, i, n),
         NEW c \in Chunk, c.at = n + 1
  PROVE  /\ Safe(s, Appends(s, i, c))
         /\ \A j \in Id : j # i =>
              /\ Left(Appends(s, i, c)).meta[j] = s.meta[j]
              /\ Left(Appends(s, i, c)).part[j] = s.part[j]
         /\ LET most == SubSeq(Appends(s, i, c), 1, Len(Reconciling(s, i)) + 1)
            IN /\ Within(s, Left(most))
               /\ Left(most).meta = s.meta
               /\ \A j \in Id : j # i => Left(most).part[j] = s.part[j]
<1> DEFINE cut == Reconciling(s, i)
           b == Left(cut)
           q == Append(b.part[i].chunks, c)
           p == [b.part[i] EXCEPT !.chunks = q]
           x == [b EXCEPT !.part[i].chunks = Append(@, c)]
           y == [x EXCEPT !.meta[i] = NoSession]
           z == [x EXCEPT !.meta[i].received = @ + 1]
           m == [x.meta[i] EXCEPT !.received = @ + 1]
<1>1. /\ Loads(s, i) /\ n = s.meta[i].received /\ n < Size /\ n \in Nat
      /\ s.meta[i] # NoSession
  BY ContentsFacts DEF CanAppend, Loads
<1>2. /\ cut \in Seq(Contents) /\ Len(cut) >= 1
      /\ \A v \in Values(cut) :
              \/ Within(s, v)
              \/ v \in Contents /\ LostPayload(v) /\ (Alone(s) => Alone(v))
      /\ Within(s, b) /\ b.meta = s.meta /\ b.part[i].exists
      /\ Len(b.part[i].chunks) = n
      /\ \A j \in Id : j # i => b.part[j] = s.part[j]
  BY <1>1, CutFacts
<1>3. b \in Contents
  BY <1>2 DEF Within
<1>4. Appends(s, i, c) = cut \o <<x, y, z>>
  BY DEF Appends
<1> HIDE DEF cut, b
<1>5. /\ b.part[i] \in Payload /\ b.part[i].chunks \in Seq(Chunk)
      /\ b.part[i].exists \in BOOLEAN
  BY <1>3, ContentsFacts
<1>6. /\ q \in Seq(Chunk) /\ Len(q) = n + 1 /\ q[n + 1] = c
      /\ \A k \in 1 .. n : q[k] = b.part[i].chunks[k]
  <2> DEFINE w == b.part[i].chunks
  <2>1. w \in Seq(Chunk) /\ Len(w) = n /\ DOMAIN w = 1 .. n
    BY <1>2, <1>5, LenProperties
  <2> HIDE DEF w
  <2>2. /\ Append(w, c) \in Seq(Chunk) /\ Len(Append(w, c)) = n + 1
        /\ Append(w, c)[n + 1] = c
        /\ \A k \in 1 .. n : Append(w, c)[k] = w[k]
    BY <1>1, <2>1, AppendProperties
  <2> QED
    BY <2>2 DEF w
<1> HIDE DEF q
<1>7. p \in Payload /\ p.chunks = q /\ p.exists
  <2>1. n + 1 <= Size
    BY <1>1, SizeAssumption
  <2>2. p \in [exists : BOOLEAN, chunks : Seq(Chunk)] /\ p.chunks = q /\ p.exists
    BY <1>2, <1>5, <1>6 DEF Payload
  <2> QED
    BY <2>1, <2>2, <1>6 DEF Payload
<1>8. x = [b EXCEPT !.part[i] = p]
  BY <1>3, ContentsFacts DEF Contents, q
<1> HIDE DEF p, x
<1>9. /\ x \in Contents /\ x.meta = s.meta /\ x.part[i] = p
      /\ \A j \in Id : j # i => x.part[j] = s.part[j]
  BY <1>2, <1>3, <1>7, <1>8, PutPayload
<1>10. /\ y \in Contents /\ y.part = x.part /\ y.meta[i] = NoSession
       /\ \A j \in Id : j # i => y.meta[j] = s.meta[j]
  BY <1>9, PutSession, SessionFacts
<1>11. m \in Session /\ m.received = n + 1
  <2>1. x.meta[i] \in [art : Artifact, received : 0 .. Size, complete : BOOLEAN]
        /\ x.meta[i].received = n
    BY <1>1, <1>9, ContentsFacts DEF Session
  <2>2. n + 1 \in 0 .. Size
    BY <1>1, SizeAssumption
  <2>3. m \in [art : Artifact, received : 0 .. Size, complete : BOOLEAN]
        /\ m.received = n + 1
    BY <2>1, <2>2
  <2> QED
    BY <2>3 DEF Session
<1>12. z = [x EXCEPT !.meta[i] = m]
  BY <1>9, ContentsFacts DEF Contents
<1> HIDE DEF m, y, z
<1>13. /\ z \in Contents /\ z.part = x.part /\ z.meta[i] = m
       /\ \A j \in Id : j # i => z.meta[j] = s.meta[j]
  BY <1>9, <1>11, <1>12, PutSession
<1>14. Within(s, x)
  <2> SUFFICES ASSUME NEW j \in Id
               PROVE  /\ x.part[j].exists => s.part[j].exists
                      /\ s.part[j].exists => x.part[j].exists
                      /\ Len(s.part[j].chunks) >= s.meta[j].received
                           => /\ Len(x.part[j].chunks) >= s.meta[j].received
                              /\ \A k \in 1 .. s.meta[j].received :
                                   x.part[j].chunks[k] = s.part[j].chunks[k]
    BY <1>9 DEF Within
  <2>1. CASE j = i
    <3>1. s.part[i].exists /\ Len(s.part[i].chunks) >= s.meta[i].received
      BY <1>1 DEF Loads
    <3>2. \A k \in 1 .. n : b.part[i].chunks[k] = s.part[i].chunks[k]
      BY <1>1, <1>2, <3>1 DEF Within
    <3>3. Len(x.part[i].chunks) >= s.meta[i].received
      BY <1>1, <1>6, <1>7, <1>9
    <3>4. \A k \in 1 .. n : x.part[i].chunks[k] = s.part[i].chunks[k]
      BY <1>6, <1>7, <1>9, <3>2
    <3> QED
      BY <2>1, <1>1, <1>7, <1>9, <3>1, <3>3, <3>4
  <2>2. CASE j # i
    BY <2>2, <1>9
  <2> QED
    BY <2>1, <2>2
<1>15. Within(s, y)
  <2>1. Within(x, y)
    BY <1>9, <1>10 DEF Within
  <2> QED
    BY <2>1, <1>14, WithinAgain
<1>16. Alone(s) => Alone(z)
  <2>1. Alone(s) => Alone(x)
    BY <1>14, WithinKeeps
  <2> QED
    BY <2>1, <1>13 DEF Alone
<1>17. ASSUME Held(s) PROVE Held(z)
  <2> SUFFICES ASSUME NEW j \in Id, z.meta[j] # NoSession
               PROVE  /\ z.part[j].exists
                      /\ Len(z.part[j].chunks) >= z.meta[j].received
                      /\ \A k \in 1 .. z.meta[j].received : z.part[j].chunks[k].at = k
    BY DEF Held, Holds
  <2>1. Held(x)
    BY <1>14, <1>17, WithinKeeps
  <2>2. CASE j # i
    BY <2>1, <2>2, <1>9, <1>13 DEF Held, Holds
  <2>3. CASE j = i
    <3>1. z.meta[i].received = n + 1 /\ z.part[i].exists /\ z.part[i].chunks = q
      BY <1>7, <1>9, <1>11, <1>13
    <3>2. \A k \in 1 .. n : x.part[i].chunks[k].at = k
      BY <2>1, <1>1, <1>9 DEF Held, Holds
    <3>3. ASSUME NEW k \in 1 .. n + 1 PROVE q[k].at = k
      <4>1. CASE k = n + 1
        BY <4>1, <1>6
      <4>2. CASE k # n + 1
        <5>1. k \in 1 .. n
          BY <4>2, <1>1
        <5> QED
          BY <5>1, <3>2, <1>7, <1>9
      <4> QED
        BY <4>1, <4>2
    <3> QED
      BY <2>3, <3>1, <3>3, <1>6, <1>1
  <2> QED
    BY <2>2, <2>3
<1>18. /\ <<x, y, z>> \in Seq(Contents) /\ Len(<<x, y, z>>) >= 1
       /\ Left(<<x, y, z>>) = z /\ Values(<<x, y, z>>) = {x, y, z}
  BY <1>9, <1>10, <1>13, ThreeWrites
<1>19. Left(cut \o <<x, y, z>>) = z
       /\ Values(cut \o <<x, y, z>>) = Values(cut) \cup {x, y, z}
  BY <1>2, <1>18, MoreWrites
<1>20. Safe(s, Appends(s, i, c))
  BY <1>2, <1>4, <1>13, <1>14, <1>15, <1>16, <1>17, <1>19, WithinKeeps DEF Safe
<1> DEFINE most == SubSeq(cut \o <<x, y, z>>, 1, Len(cut) + 1)
<1>21. Left(most) = x
  <2>1. cut \o <<x, y, z>> \in Seq(Contents) /\ Len(cut \o <<x, y, z>>) = Len(cut) + 3
        /\ Len(cut) \in Nat /\ (cut \o <<x, y, z>>)[Len(cut) + 1] = x
    <3>1. Len(<<x, y, z>>) = 3 /\ <<x, y, z>>[1] = x
      OBVIOUS
    <3> QED
      BY <1>2, <1>18, <3>1, ConcatProperties, LenProperties
  <2> DEFINE w == cut \o <<x, y, z>>
  <2> HIDE DEF w
  <2>2. /\ Len(SubSeq(w, 1, Len(cut) + 1)) = Len(cut) + 1
        /\ SubSeq(w, 1, Len(cut) + 1)[Len(cut) + 1] = w[Len(cut) + 1]
    <3>1. w \in Seq(Contents) /\ Len(w) = Len(cut) + 3 /\ Len(cut) \in Nat
      BY <2>1 DEF w
    <3>2. 1 \in 1 .. Len(w) + 1 /\ Len(cut) + 1 \in 0 .. Len(w)
          /\ Len(cut) + 1 \in 1 .. Len(cut) + 1
      BY <3>1
    <3> QED
      BY <3>1, <3>2, SubSeqProperties
  <2> QED
    BY <2>1, <2>2 DEF w, Left
<1>22. most = SubSeq(Appends(s, i, c), 1, Len(Reconciling(s, i)) + 1)
  BY <1>4 DEF cut
<1> HIDE DEF most
<1> QED
  BY <1>4, <1>9, <1>10, <1>13, <1>14, <1>19, <1>20, <1>21, <1>22

\* complete, with the hand-over.
LEMMA CompleteFacts ==
  ASSUME NEW s \in Contents, NEW i \in Id, Loads(s, i)
  PROVE  /\ Safe(s, Completes(s, i))
         /\ Left(Completes(s, i)).meta[i] = NoSession
         /\ Left(Completes(s, i)).part[i].chunks = Reconciled(s, i).part[i].chunks
         /\ \A j \in Id : j # i =>
              /\ Left(Completes(s, i)).meta[j] = s.meta[j]
              /\ Left(Completes(s, i)).part[j] = s.part[j]
<1> DEFINE cut == Reconciling(s, i)
           b == Left(cut)
           x == [b EXCEPT !.meta[i] = NoSession]
           y == [b EXCEPT !.meta[i].complete = TRUE]
           m == [b.meta[i] EXCEPT !.complete = TRUE]
<1>1. /\ cut \in Seq(Contents) /\ Len(cut) >= 1
      /\ \A v \in Values(cut) :
              \/ Within(s, v)
              \/ v \in Contents /\ LostPayload(v) /\ (Alone(s) => Alone(v))
      /\ Within(s, b) /\ b.meta = s.meta
      /\ b.part[i].chunks = Reconciled(s, i).part[i].chunks
      /\ \A j \in Id : j # i => b.part[j] = s.part[j]
  BY CutFacts
<1>2. b \in Contents
  BY <1>1 DEF Within
<1>3. Completes(s, i) = cut \o <<x, y, x>>
  BY DEF Completes
<1> HIDE DEF cut, b
<1>4. /\ x \in Contents /\ x.part = b.part /\ x.meta[i] = NoSession
      /\ \A j \in Id : j # i => x.meta[j] = s.meta[j]
  BY <1>1, <1>2, PutSession, SessionFacts
<1>5. m \in Session /\ m.received = b.meta[i].received
  <2>1. b.meta[i] \in [art : Artifact, received : 0 .. Size, complete : BOOLEAN]
    BY <1>1, ContentsFacts DEF Session, Loads
  <2>2. m \in [art : Artifact, received : 0 .. Size, complete : BOOLEAN]
        /\ m.received = b.meta[i].received
    BY <2>1
  <2> QED
    BY <2>2 DEF Session
<1>6. y = [b EXCEPT !.meta[i] = m]
  BY <1>2, ContentsFacts DEF Contents
<1> HIDE DEF m, x, y
<1>7. /\ y \in Contents /\ y.part = b.part /\ y.meta[i] = m
      /\ \A j \in Id : j # i => y.meta[j] = b.meta[j]
  BY <1>2, <1>5, <1>6, PutSession
<1>8. Within(s, x) /\ Within(s, y)
  <2>1. Within(b, x)
    BY <1>1, <1>2, <1>4 DEF Within
  <2>2. b.meta[i] # NoSession
    BY <1>1 DEF Loads
  <2>3. Within(b, y)
    BY <1>1, <1>2, <1>5, <1>7, <2>2 DEF Within
  <2> QED
    BY <2>1, <2>3, <1>1, WithinAgain
<1>9. /\ <<x, y, x>> \in Seq(Contents) /\ Len(<<x, y, x>>) >= 1
      /\ Left(<<x, y, x>>) = x /\ Values(<<x, y, x>>) = {x, y, x}
  BY <1>4, <1>7, ThreeWrites
<1>10. Left(cut \o <<x, y, x>>) = x
       /\ Values(cut \o <<x, y, x>>) = Values(cut) \cup {x, y, x}
  BY <1>1, <1>9, MoreWrites
<1>11. Safe(s, Completes(s, i))
  BY <1>1, <1>3, <1>8, <1>10, WithinKeeps DEF Safe
<1> QED
  BY <1>1, <1>3, <1>4, <1>10, <1>11

\* Any other removal.
LEMMA RemovedSafe ==
  ASSUME NEW s \in Contents, NEW i \in Id
  PROVE  Safe(s, Removed(s, i))
<1>1. /\ Removed(s, i) \in Seq(Contents) /\ Len(Removed(s, i)) >= 1
      /\ \A v \in Values(Removed(s, i)) : Within(s, v)
      /\ Within(s, Left(Removed(s, i)))
  BY RemovedFacts
<1>2. Left(Removed(s, i)) \in Values(Removed(s, i))
  BY <1>1 DEF Left, Values
<1> QED
  BY <1>1, <1>2, WithinKeeps DEF Safe

-----------------------------------------------------------------------------
(* The records of the components, and what the browsers ask.               *)

ComponentsFit(c) ==
  /\ c \in [Kind -> ComponentRecord]
  /\ \A k \in Kind : c[k].status # "idle" => c[k].release \in Release

\* Nothing becomes ready, and what is ready stays the release it is.
Lessens(c) ==
  \A k \in Kind : c[k].status = "ready" =>
    comp[k].status = "ready" /\ c[k].release = comp[k].release

LEMMA ReleaseFacts ==
  /\ MaxRelease \in Nat /\ Wanted \in Release /\ Release \subseteq Nat
  /\ \A r \in Release : r \in 1 .. MaxRelease /\ r \in Nat
  /\ Kind = {"firmware", "application"}
  /\ \A a \in Artifact : a.kind \in Kind /\ a.release \in Release
  /\ \A k \in Kind : Component(k) \in Artifact /\ IdOf[Component(k)] \in Id
  /\ NoArtifact.kind = "none"
  /\ \A a \in Artifact : a # NoArtifact
<1>1. /\ MaxRelease \in Nat /\ Wanted \in Release /\ Release \subseteq Nat
      /\ \A r \in Release : r \in 1 .. MaxRelease /\ r \in Nat
  BY ReleaseAssumption DEF Release
<1>2. Kind = {"firmware", "application"} /\ NoArtifact.kind = "none"
  BY DEF Kind, NoArtifact
<1>3. \A a \in Artifact : a.kind \in Kind /\ a.release \in Release
  BY DEF Artifact
<1>4. \A k \in Kind : Component(k) \in Artifact
  BY <1>1 DEF Artifact, Component
<1>5. \A k \in Kind : IdOf[Component(k)] \in Id
  BY <1>4, IdAssumption
<1>6. \A a \in Artifact : a # NoArtifact
  BY <1>2, <1>3
<1> QED
  BY <1>1, <1>2, <1>3, <1>4, <1>5, <1>6

LEMMA SomeId == (CHOOSE i \in Id : TRUE) \in Id
<1>1. IdOf[Component("firmware")] \in Id
  BY ReleaseFacts
<1> QED
  BY <1>1

LEMMA RequestFacts ==
  /\ NoRequest \in Request /\ NoRequest.step = "idle"
  /\ \A need \in SUBSET Kind : /\ NextComponent(need) \in Request
                              /\ NextComponent(need).art \in Artifact
  /\ NoInstall \in [art : Artifact \cup {NoArtifact}, id : Id]
  /\ NoInstall.art = NoArtifact
<1>1. 0 \in 0 .. Size
  BY SizeAssumption
<1>2. NoRequest \in [step : {"idle"}, id : Id, art : {NoArtifact}, offset : 0 .. Size,
                     planned : BOOLEAN]
  BY <1>1, SomeId DEF NoRequest
<1>3. ASSUME NEW need \in SUBSET Kind
      PROVE  NextComponent(need) \in [step : {"begin"}, id : Id, art : Artifact,
                                     offset : 0 .. Size, planned : BOOLEAN]
  <2>1. ASSUME NEW k \in Kind
        PROVE  [NoRequest EXCEPT !.step = "begin", !.art = Component(k),
                                 !.id = IdOf[Component(k)], !.planned = TRUE]
                 \in [step : {"begin"}, id : Id, art : Artifact, offset : 0 .. Size,
                      planned : BOOLEAN]
    BY <1>2, ReleaseFacts
  <2>2. "firmware" \in Kind /\ "application" \in Kind
    BY ReleaseFacts
  <2> QED
    BY <2>1, <2>2 DEF NextComponent
<1>4. NoInstall \in [art : Artifact \cup {NoArtifact}, id : Id] /\ NoInstall.art = NoArtifact
  BY SomeId DEF NoInstall
<1> QED
  BY <1>2, <1>3, <1>4 DEF Request

LEMMA AnswerFacts ==
  ASSUME Asking, NEW t \in Tab, NEW r \in Request, Answer(t, r),
         r.step \in {"begin", "chunk", "complete"} => r.art \in Artifact
  PROVE  Asking'
BY DEF Asking, Answer

LEMMA RefusedFacts ==
  ASSUME Asking, NEW t \in Tab, Refused(t)
  PROVE  Asking'
BY AnswerFacts, RequestFacts DEF Refused

\* The changes of one record.
StagedIn(c, k, r) == [c EXCEPT ![k] = Staged(@, r)]

ForgottenIn(c, k) == [c EXCEPT ![k] = Forgotten(@)]

LEMMA RecordFacts ==
  ASSUME NEW c, ComponentsFit(c), NEW k \in Kind, NEW r \in Release
  PROVE  /\ ComponentsFit(StagedIn(c, k, r)) /\ ComponentsFit(ForgottenIn(c, k))
         /\ StagedIn(c, k, r)[k].release = r /\ StagedIn(c, k, r)[k].status = "ready"
         /\ ForgottenIn(c, k)[k].status = "idle"
         /\ \A j \in Kind : j # k => /\ StagedIn(c, k, r)[j] = c[j]
                                     /\ ForgottenIn(c, k)[j] = c[j]
<1>1. c \in [Kind -> ComponentRecord] /\ c[k] \in ComponentRecord
  BY DEF ComponentsFit
<1> DEFINE p == Staged(c[k], r)
           q == Forgotten(c[k])
<1>2. p \in ComponentRecord /\ p.release = r /\ p.status = "ready"
  BY <1>1 DEF Staged, ComponentRecord
<1>3. q \in ComponentRecord /\ q.status = "idle"
  BY <1>1 DEF Forgotten, ComponentRecord
<1>4. StagedIn(c, k, r) = [c EXCEPT ![k] = p] /\ ForgottenIn(c, k) = [c EXCEPT ![k] = q]
  BY DEF StagedIn, ForgottenIn
<1> HIDE DEF p, q
<1>5. /\ [c EXCEPT ![k] = p] \in [Kind -> ComponentRecord]
      /\ [c EXCEPT ![k] = q] \in [Kind -> ComponentRecord]
      /\ [c EXCEPT ![k] = p][k] = p /\ [c EXCEPT ![k] = q][k] = q
      /\ \A j \in Kind : j # k => [c EXCEPT ![k] = p][j] = c[j] /\ [c EXCEPT ![k] = q][j] = c[j]
  BY <1>1, <1>2, <1>3
<1>6. ComponentsFit([c EXCEPT ![k] = p]) /\ ComponentsFit([c EXCEPT ![k] = q])
  BY <1>2, <1>3, <1>5, <1>1 DEF ComponentsFit
<1> QED
  BY <1>2, <1>3, <1>4, <1>5, <1>6

LEMMA ForgottenFacts ==
  ASSUME Components, NEW k \in Kind
  PROVE  /\ ComponentsFit(ForgottenIn(comp, k)) /\ Lessens(ForgottenIn(comp, k))
         /\ ForgottenIn(comp, k)[k].status = "idle"
<1>1. ComponentsFit(comp)
  BY DEF Components, ComponentsFit
<1>2. Wanted \in Release
  BY ReleaseFacts
<1>3. /\ ComponentsFit(ForgottenIn(comp, k)) /\ ForgottenIn(comp, k)[k].status = "idle"
      /\ \A j \in Kind : j # k => ForgottenIn(comp, k)[j] = comp[j]
  BY <1>1, <1>2, RecordFacts
<1> QED
  BY <1>3 DEF Lessens

LEMMA BeginsFacts ==
  ASSUME Components, NEW a \in Artifact
  PROVE  /\ ComponentsFit(InstallerBegins(a)) /\ Lessens(InstallerBegins(a))
         /\ a.kind = "firmware" => InstallerBegins(a)["firmware"].status = "idle"
<1>1. ComponentsFit(comp) /\ Lessens(comp)
  BY DEF Components, ComponentsFit, Lessens
<1>2. InstallerBegins(a) = IF a.kind = "firmware" THEN ForgottenIn(comp, "firmware") ELSE comp
  BY DEF InstallerBegins, ForgottenIn
<1>3. "firmware" \in Kind
  BY ReleaseFacts
<1>4. /\ ComponentsFit(ForgottenIn(comp, "firmware")) /\ Lessens(ForgottenIn(comp, "firmware"))
      /\ ForgottenIn(comp, "firmware")["firmware"].status = "idle"
  BY <1>3, ForgottenFacts
<1> QED
  BY <1>1, <1>2, <1>4

LEMMA ReconciledCompFacts ==
  ASSUME NEW c, ComponentsFit(c), NEW u
  PROVE  /\ ComponentsFit(ReconciledComp(c, u))
         /\ \A k \in Kind : \/ ReconciledComp(c, u)[k] = c[k]
                            \/ ReconciledComp(c, u)[k].status = "idle"
<1> DEFINE d == [k \in Kind |-> IF k \in u.need THEN Forgotten(c[k]) ELSE c[k]]
<1>1. ASSUME NEW k \in Kind
      PROVE  /\ c[k] \in ComponentRecord /\ Forgotten(c[k]) \in ComponentRecord
             /\ Forgotten(c[k]).status = "idle"
  BY DEF ComponentsFit, ComponentRecord, Forgotten
<1>2. ComponentsFit(d)
  BY <1>1 DEF ComponentsFit
<1>3. \A k \in Kind : d[k] = c[k] \/ d[k].status = "idle"
  BY <1>1
<1> HIDE DEF d
<1> QED
  BY <1>2, <1>3 DEF ReconciledComp, d

LEMMA BoundFacts ==
  ASSUME Bounded
  PROVE  /\ tries \in Nat /\ faults \in Nat /\ MaxTries \in Nat /\ MaxFaults \in Nat
         /\ Fault => faults' \in 0 .. MaxFaults
         /\ (tries < MaxTries /\ tries' = tries + 1) => tries' \in 0 .. MaxTries
         /\ \A t \in Tab : Tries(t) => tries' \in 0 .. MaxTries
         /\ \A e \in Exposure, b \in BOOLEAN :
              Expose(e, b) => exposed \subseteq exposed' /\ exposed' \subseteq Exposure
         /\ \A e, b : Expose(e, b) /\ b => e \in exposed'
BY SizeAssumption DEF Bounded, Fault, Tries, Expose

LEMMA ShelfKept ==
  ASSUME Shelf, UNCHANGED store, exposed \subseteq exposed'
  PROVE  Shelf'
BY DEF Shelf, Stored, Alone, Held, Holds, store

LEMMA ShelfWritten ==
  ASSUME Shelf, NEW ws, Safe(Stored, ws), Write(ws), exposed \subseteq exposed'
  PROVE  Shelf'
<1>1. /\ \A v \in Values(ws) : v \in Contents /\ (Alone(Stored) => Alone(v))
      /\ Left(ws) \in Values(ws)
      /\ Held(Stored) => Held(Left(ws))
      /\ Alone(Stored)
  BY DEF Safe, Shelf
<1>2. Left(ws) \in Contents /\ Alone(Left(ws))
  BY <1>1
<1>3. Stored' = Left(ws)
  BY <1>2 DEF Stored, Write, Contents
<1> QED
  BY <1>1, <1>2, <1>3 DEF Shelf, Alone, Held, Holds, Stored

LEMMA PairedKept ==
  ASSUME Paired, Plans, exposed \subseteq exposed', Lessens(comp'),
         uni' = uni \/ uni'.status # "ready"
  PROVE  Paired'
BY DEF Paired, Plans, Lessens

LEMMA CoreKept ==
  ASSUME WrittenCore, Lessens(comp'),
         install'.art.kind \in {install.art.kind, "none", "application"},
         fetch'.kind \in {fetch.kind, "none", "application"}
  PROVE  WrittenCore'
BY ReleaseFacts DEF WrittenCore, Lessens

\* A component that was staged is of the pair's release, or the exposure shows.
LEMMA PairedStaged ==
  ASSUME Paired, Plans, Components, exposed \subseteq exposed', NEW k \in Kind,
         NEW r \in Release, comp' = StagedIn(comp, k, r), uni' = uni,
         (uni.status = "ready" /\ k \in uni.need /\ r # uni.release) =>
           {"planLost", "replaced"} \cap exposed' # {}
  PROVE  Paired'
<1>1. ComponentsFit(comp)
  BY DEF Components, ComponentsFit
<1>2. /\ comp'[k].release = r /\ \A j \in Kind : j # k => comp'[j] = comp[j]
  BY <1>1, RecordFacts
<1> QED
  BY <1>2 DEF Paired, Plans

\* What a component's installer leaves when it is through.
LEMMA StagedFacts ==
  ASSUME Components, NEW a \in Artifact, comp' = StagedIn(comp, a.kind, a.release)
  PROVE  Components'
<1>1. ComponentsFit(comp)
  BY DEF Components, ComponentsFit
<1>2. ComponentsFit(comp')
  BY <1>1, ReleaseFacts, RecordFacts
<1> QED
  BY <1>2 DEF Components, ComponentsFit

LEMMA ExposeFacts ==
  ASSUME Bounded, NEW e \in Exposure, NEW b \in BOOLEAN, Expose(e, b)
  PROVE  exposed \subseteq exposed' /\ exposed' \subseteq Exposure /\ (b => e \in exposed')
BY DEF Bounded, Expose

\* Power is off: nobody asks, installs or downloads.
LEMMA PowerDownFacts ==
  ASSUME Asking, WrittenCore, PowerDown
  PROVE  Asking' /\ Writers' /\ HandedWhole' /\ WrittenCore'
<1>1. tab' \in [Tab -> Request] /\ \A t \in Tab : tab'[t].step = "idle"
  BY RequestFacts DEF PowerDown
<1>2. install' = NoInstall /\ fetch' = NoArtifact /\ on' = FALSE /\ ~Installing' /\ ~Fetching'
  BY RequestFacts DEF PowerDown, Installing, Fetching
<1>3. install'.art.kind = "none" /\ fetch'.kind = "none"
  BY <1>2, RequestFacts, ReleaseFacts
<1> QED
  BY <1>1, <1>2, <1>3, RequestFacts DEF Asking, Writers, HandedWhole, WrittenCore

-----------------------------------------------------------------------------
(* Each action keeps the invariant.                                        *)

LEMMA ChooseBundleStep ==
  ASSUME UploadInv, NEW t \in Tab, NEW i \in Id, NEW a \in Artifact, ChooseBundle(t, i, a)
  PROVE  UploadInv'
<1> USE DEF UploadInv, UploadTypes
<1>21. Components'
  BY DEF Components, ChooseBundle, store, flash, hist
<1>22. Plans'
  BY DEF Plans, ChooseBundle, store, flash, hist
<1>23. Asking'
  <2>1. NoRequest \in [step : {"idle"}, id : Id, art : {NoArtifact}, offset : 0 .. Size,
                      planned : BOOLEAN]
    BY RequestFacts DEF NoRequest, Request
  <2>2. [NoRequest EXCEPT !.step = "begin", !.id = i, !.art = a]
          \in [step : {"begin"}, id : Id, art : Artifact, offset : 0 .. Size, planned : BOOLEAN]
    BY <2>1
  <2>3. /\ [NoRequest EXCEPT !.step = "begin", !.id = i, !.art = a] \in Request
        /\ [NoRequest EXCEPT !.step = "begin", !.id = i, !.art = a].art \in Artifact
    BY <2>2 DEF Request
  <2> QED
    BY <2>3, AnswerFacts DEF ChooseBundle
<1>24. Writers'
  BY DEF Writers, Installing, Fetching, ChooseBundle
<1>25. Bounded'
  BY BoundFacts DEF Bounded, ChooseBundle, store, flash, hist
<1>26. Shelf'
  BY ShelfKept DEF ChooseBundle, store, flash, hist, Bounded
<1>27. HandedWhole'
  BY DEF HandedWhole, Installing, ChooseBundle, store, flash, hist
<1>28. WrittenCore'
  BY DEF WrittenCore, ChooseBundle, store, flash, hist
<1>29. Paired'
  BY DEF Paired, ChooseBundle, store, flash, hist
<1> QED
  BY <1>21, <1>22, <1>23, <1>24, <1>25, <1>26, <1>27, <1>28, <1>29

LEMMA PrepareStep ==
  ASSUME UploadInv, NEW t \in Tab, Prepare(t)
  PROVE  UploadInv'
<1> USE DEF UploadInv, UploadTypes
<1>21. Components'
  <2>1. ComponentsFit(comp)
    BY DEF Components, ComponentsFit
  <2>2. ComponentsFit(comp')
    BY <2>1, ReconciledCompFacts DEF Prepare
  <2> QED
    BY <2>2 DEF Components, ComponentsFit
<1>22. Plans'
  <2>1. NoPair \in [status : {"idle", "ready", "activating"}, release : {0, Wanted},
                     need : SUBSET Kind]
    BY DEF NoPair
  <2>2. uni' \in {uni, NoPair}
    BY DEF Prepare, ReconciledUni
  <2>3. Planned(Needs) \in [release : {0, Wanted}, need : SUBSET Kind, done : SUBSET Kind,
                            bound : SUBSET (Kind \X Id)]
        /\ Planned(Needs).done = {} /\ Planned(Needs).bound = {}
    BY DEF Planned, Needs
  <2>4. plan' \in {plan, Planned(Needs)}
    BY DEF Prepare
  <2> QED
    BY <2>1, <2>2, <2>3, <2>4 DEF Plans
<1>23. Asking'
  <2>1. plan.need \in SUBSET Kind /\ Needs \in SUBSET Kind
    BY DEF Plans, Needs
  <2>2. PICK need \in SUBSET Kind : Answer(t, NextComponent(need))
    BY <2>1 DEF Prepare
  <2> QED
    BY <2>2, AnswerFacts, RequestFacts
<1>24. Writers'
  BY DEF Writers, Installing, Fetching, Prepare
<1>25. Bounded'
  BY BoundFacts DEF Bounded, Prepare, store, flash, hist
<1>26. Shelf'
  BY ShelfKept DEF Prepare, store, flash, hist, Bounded
<1>27. HandedWhole'
  BY DEF HandedWhole, Installing, Prepare, store, flash, hist
<1>28. WrittenCore'
  <2>1. Lessens(comp')
    <3>1. ComponentsFit(comp)
      BY DEF Components, ComponentsFit
    <3> QED
      BY <3>1, ReconciledCompFacts DEF Prepare, Lessens
  <2> QED
    BY <2>1, CoreKept DEF Prepare
<1>29. Paired'
  BY DEF Paired, Prepare
<1> QED
  BY <1>21, <1>22, <1>23, <1>24, <1>25, <1>26, <1>27, <1>28, <1>29

\* What begin may do to the store.
LEMMA BeginsSafe ==
  ASSUME Shelf, NEW i \in Id, NEW a \in Artifact, CanBegin(Stored, i),
         NEW ws \in Begins(Stored, i, a)
  PROVE  Safe(Stored, ws) /\ Left(ws).meta[i].received \in 0 .. Size
<1>1. Stored \in Contents
  BY DEF Shelf
<1>2. ws = Restart(Stored, i, a) \/ (ws = Resume(Stored, i) /\ Stored.meta[i].art = a)
  BY DEF Begins
<1>3. CASE ws = Restart(Stored, i, a)
  <2>1. Safe(Stored, ws)
    BY <1>1, <1>3, RestartFacts
  <2>2. Left(ws) \in Contents
    BY <2>1 DEF Safe
  <2> QED
    BY <2>1, <2>2, ContentsFacts
<1>4. CASE ws = Resume(Stored, i) /\ Stored.meta[i].art = a
  <2>1. Stored.meta[i] # NoSession
    BY <1>4, SessionFacts
  <2>2. Loads(Stored, i)
    BY <2>1 DEF CanBegin
  <2> QED
    BY <1>1, <1>4, <2>2, ResumeFacts, ContentsFacts
<1> QED
  BY <1>2, <1>3, <1>4

LEMMA BeginStep ==
  ASSUME UploadInv, NEW t \in Tab, Begin(t)
  PROVE  UploadInv'
<1> USE DEF UploadInv, UploadTypes
<1> DEFINE i == tab[t].id
           a == tab[t].art
<1>1. i \in Id /\ a \in Artifact /\ tab[t] \in Request
  BY DEF Asking, Request, Begin
<1>2. PICK ws \in Begins(Stored, i, a) :
        /\ Write(ws)
        /\ UNCHANGED faults \/ Fault
        /\ Answer(t, [tab[t] EXCEPT !.step = IF Left(ws).meta[i].received = Size
                                             THEN "complete" ELSE "chunk",
                                    !.offset = Left(ws).meta[i].received])
  BY DEF Begin
<1>3. Safe(Stored, ws) /\ Left(ws).meta[i].received \in 0 .. Size
  BY <1>1, BeginsSafe DEF Begin, MayBegin
<1> HIDE DEF i, a
<1>21. Components'
  BY DEF Components, Begin, store, flash, hist
<1>22. Plans'
  <2>1. a.kind \in Kind
    BY <1>1, ReleaseFacts
  <2>2. Authorized(t) => a.kind \in plan.need
    BY DEF Authorized, a
  <2>3. Authorized(t) => /\ Bind(t).bound \subseteq plan.need \X Id
                         /\ Bind(t) \in [release : {0, Wanted}, need : SUBSET Kind,
                                        done : SUBSET Kind, bound : SUBSET (Kind \X Id)]
                         /\ Bind(t).need = plan.need /\ Bind(t).done = plan.done
    BY <1>1, <2>1, <2>2 DEF Bind, Plans, i, a
  <2>4. plan' = plan \/ (Authorized(t) /\ plan' = Bind(t))
    BY DEF Begin, AuthorizedPlan, MayBegin
  <2> QED
    BY <2>3, <2>4 DEF Plans, Begin
<1>23. Asking'
  <2> DEFINE got == Left(ws).meta[i].received
  <2>1. got \in 0 .. Size
    BY <1>3
  <2> HIDE DEF got
  <2>2. PICK st \in {"complete", "chunk"} :
          Answer(t, [tab[t] EXCEPT !.step = st, !.offset = got])
    BY <1>2 DEF got
  <2>3. [tab[t] EXCEPT !.step = st, !.offset = got] \in
          [step : {"complete", "chunk"}, id : Id, art : Artifact, offset : 0 .. Size,
           planned : BOOLEAN]
    BY <1>1, <2>1 DEF Request, a
  <2>4. [tab[t] EXCEPT !.step = st, !.offset = got] \in Request
        /\ [tab[t] EXCEPT !.step = st, !.offset = got].art \in Artifact
    BY <2>3 DEF Request
  <2> QED
    BY <2>2, <2>4, AnswerFacts
<1>24. Writers'
  BY DEF Writers, Installing, Fetching, Begin
<1>25. Bounded'
  BY <1>2, BoundFacts DEF Bounded, Begin
<1>26. Shelf'
  BY <1>2, <1>3, ShelfWritten DEF Begin
<1>27. HandedWhole'
  BY DEF HandedWhole, Installing, Begin, MayBegin
<1>28. WrittenCore'
  BY DEF WrittenCore, Begin, store, flash, hist
<1>29. Paired'
  BY DEF Paired, Begin, store, flash, hist
<1> QED
  BY <1>21, <1>22, <1>23, <1>24, <1>25, <1>26, <1>27, <1>28, <1>29

LEMMA BeginRefusedStep ==
  ASSUME UploadInv, NEW t \in Tab, BeginRefused(t)
  PROVE  UploadInv'
<1> USE DEF UploadInv, UploadTypes
<1> DEFINE i == tab[t].id
           a == tab[t].art
<1>1. i \in Id /\ a \in Artifact /\ tab[t] \in Request
  BY DEF Asking, Request, BeginRefused
<1>21. Components'
  BY DEF Components, BeginRefused, store, flash, hist
<1>22. Plans'
  <2>1. a.kind \in Kind
    BY <1>1, ReleaseFacts
  <2>2. Authorized(t) => a.kind \in plan.need
    BY DEF Authorized, a
  <2>3. Authorized(t) => /\ Bind(t).bound \subseteq plan.need \X Id
                         /\ Bind(t) \in [release : {0, Wanted}, need : SUBSET Kind,
                                        done : SUBSET Kind, bound : SUBSET (Kind \X Id)]
                         /\ Bind(t).need = plan.need /\ Bind(t).done = plan.done
    BY <1>1, <2>1, <2>2 DEF Bind, Plans, i, a
  <2>4. plan' = plan \/ (Authorized(t) /\ plan' = Bind(t))
    BY DEF BeginRefused
  <2> QED
    BY <2>3, <2>4 DEF Plans, BeginRefused
<1>23. Asking'
  BY RefusedFacts DEF BeginRefused
<1>24. Writers'
  BY DEF Writers, Installing, Fetching, BeginRefused
<1>25. Bounded'
  BY BoundFacts DEF Bounded, BeginRefused, store, flash, hist
<1>26. Shelf'
  BY ShelfKept DEF BeginRefused, store, flash, hist, Bounded
<1>27. HandedWhole'
  BY DEF HandedWhole, Installing, BeginRefused, store, flash, hist
<1>28. WrittenCore'
  BY DEF WrittenCore, BeginRefused, store, flash, hist
<1>29. Paired'
  BY DEF Paired, BeginRefused, store, flash, hist
<1> QED
  BY <1>21, <1>22, <1>23, <1>24, <1>25, <1>26, <1>27, <1>28, <1>29

LEMMA AppendChunkStep ==
  ASSUME UploadInv, NEW t \in Tab, AppendChunk(t)
  PROVE  UploadInv'
<1> USE DEF UploadInv, UploadTypes
<1> DEFINE i == tab[t].id
           c == NextChunk(t)
           n == tab[t].offset
<1>1. i \in Id /\ tab[t].art \in Artifact /\ tab[t] \in Request /\ n \in 0 .. Size
  BY DEF Asking, Request, AppendChunk
<1>2. ASSUME CanAppend(Stored, i, n)
      PROVE  /\ c \in Chunk /\ c.at = n + 1 /\ n + 1 \in 0 .. Size
             /\ Loads(Stored, i) /\ meta[i] # NoSession
  <2>1. n < Size /\ n + 1 \in 1 .. Size /\ n + 1 \in 0 .. Size
    BY <1>1, <1>2, SizeAssumption DEF CanAppend
  <2> QED
    BY <1>1, <1>2, <2>1 DEF NextChunk, Chunk, CanAppend, Loads, Stored
<1>3. Stored \in Contents
  BY DEF Shelf
<1> HIDE DEF i, c, n
<1>21. Components'
  BY DEF Components, AppendChunk, store, flash, hist
<1>22. Plans'
  BY DEF Plans, AppendChunk, store, flash, hist
<1>23. Asking'
  <2>1. CASE CanAppend(Stored, i, n)
    <3>1. PICK st \in {"complete", "chunk"} :
            Answer(t, [tab[t] EXCEPT !.offset = @ + 1, !.step = st])
      BY <2>1 DEF AppendChunk, i, n
    <3>2. [tab[t] EXCEPT !.offset = @ + 1, !.step = st] \in
            [step : {"complete", "chunk"}, id : Id, art : Artifact, offset : 0 .. Size,
             planned : BOOLEAN]
      BY <1>1, <1>2, <2>1 DEF Request, n
    <3>3. [tab[t] EXCEPT !.offset = @ + 1, !.step = st] \in Request
          /\ [tab[t] EXCEPT !.offset = @ + 1, !.step = st].art \in Artifact
      BY <3>2 DEF Request
    <3> QED
      BY <3>1, <3>3, AnswerFacts
  <2>2. CASE ~CanAppend(Stored, i, n)
    BY <2>2, RefusedFacts DEF AppendChunk, i, n
  <2> QED
    BY <2>1, <2>2
<1>24. Writers'
  BY DEF Writers, Installing, Fetching, AppendChunk
<1>25. Bounded'
  BY BoundFacts DEF Bounded, AppendChunk, store, flash, hist
<1>26. Shelf'
  <2>1. CASE CanAppend(Stored, i, n)
    <3>1. Safe(Stored, Appends(Stored, i, c)) /\ Write(Appends(Stored, i, c))
      BY <1>1, <1>2, <1>3, <2>1, AppendFacts DEF AppendChunk, i, n, c
    <3> QED
      BY <3>1, ShelfWritten DEF AppendChunk, hist
  <2>2. CASE ~CanAppend(Stored, i, n)
    BY <2>2, ShelfKept DEF AppendChunk, i, n, hist
  <2> QED
    BY <2>1, <2>2
<1>27. HandedWhole'
  <2>1. CASE CanAppend(Stored, i, n)
    <3>1. /\ Write(Appends(Stored, i, c))
          /\ \A j \in Id : j # i =>
                /\ Left(Appends(Stored, i, c)).meta[j] = Stored.meta[j]
                /\ Left(Appends(Stored, i, c)).part[j] = Stored.part[j]
      BY <1>1, <1>2, <1>3, <2>1, AppendFacts DEF AppendChunk, i, n, c
    <3>2. \A j \in Id : j # i => meta'[j] = meta[j] /\ part'[j] = part[j]
      BY <3>1 DEF Write, Stored
    <3> QED
      BY <3>2, <1>2, <2>1 DEF HandedWhole, Writers, Installing, AppendChunk
  <2>2. CASE ~CanAppend(Stored, i, n)
    BY <2>2 DEF HandedWhole, Installing, AppendChunk, i, n, store
  <2> QED
    BY <2>1, <2>2
<1>28. WrittenCore'
  BY DEF WrittenCore, AppendChunk, store, flash, hist
<1>29. Paired'
  BY DEF Paired, AppendChunk, store, flash, hist
<1> QED
  BY <1>21, <1>22, <1>23, <1>24, <1>25, <1>26, <1>27, <1>28, <1>29

LEMMA AppendFailsStep ==
  ASSUME UploadInv, NEW t \in Tab, AppendFails(t)
  PROVE  UploadInv'
<1> USE DEF UploadInv, UploadTypes
<1> DEFINE i == tab[t].id
           c == NextChunk(t)
           n == tab[t].offset
<1>1. i \in Id /\ tab[t].art \in Artifact /\ tab[t] \in Request /\ n \in 0 .. Size
  BY DEF Asking, Request, AppendFails
<1>2. ASSUME CanAppend(Stored, i, n)
      PROVE  /\ c \in Chunk /\ c.at = n + 1 /\ n + 1 \in 0 .. Size
             /\ Loads(Stored, i) /\ meta[i] # NoSession
  <2>1. n < Size /\ n + 1 \in 1 .. Size /\ n + 1 \in 0 .. Size
    BY <1>1, <1>2, SizeAssumption DEF CanAppend
  <2> QED
    BY <1>1, <1>2, <2>1 DEF NextChunk, Chunk, CanAppend, Loads, Stored
<1>3. Stored \in Contents
  BY DEF Shelf
<1> HIDE DEF i, c, n
<1>4. CanAppend(Stored, i, n)
  BY DEF AppendFails, i, n
<1>5. PICK ws : /\ Write(ws) /\ Within(Stored, Left(ws))
                /\ Left(ws).meta = Stored.meta
                /\ \A j \in Id : j # i => Left(ws).part[j] = Stored.part[j]
  <2>1. PICK ws \in {Reconciling(Stored, i), SubSeq(Appends(Stored, i, c), 1,
                                                  Len(Reconciling(Stored, i)) + 1)} : Write(ws)
    BY DEF AppendFails, i, c
  <2>2. CASE ws = Reconciling(Stored, i)
    BY <1>1, <1>2, <1>3, <1>4, <2>1, <2>2, CutFacts
  <2>3. CASE ws = SubSeq(Appends(Stored, i, c), 1, Len(Reconciling(Stored, i)) + 1)
    BY <1>1, <1>2, <1>3, <1>4, <2>1, <2>3, AppendFacts
  <2> QED
    BY <2>1, <2>2, <2>3
<1>21. Components'
  BY DEF Components, AppendFails, store, flash, hist
<1>22. Plans'
  BY DEF Plans, AppendFails, store, flash, hist
<1>23. Asking'
  BY RefusedFacts DEF AppendFails
<1>24. Writers'
  BY DEF Writers, Installing, Fetching, AppendFails
<1>25. Bounded'
  BY BoundFacts DEF Bounded, AppendFails, store, flash, hist
<1>26. Shelf'
  <2>1. Within(Stored, Left(ws)) /\ exposed' = exposed
    BY <1>5 DEF AppendFails
  <2>2. Stored' = Left(ws)
    BY <1>5, <2>1 DEF Stored, Write, Within, Contents
  <2>3. /\ Left(ws) \in Contents /\ Alone(Left(ws))
        /\ Held(Stored) => Held(Left(ws))
    BY <2>1, <1>3, WithinKeeps DEF Shelf
  <2> QED
    BY <2>1, <2>2, <2>3 DEF Shelf, Alone, Held, Holds, Stored
<1>27. HandedWhole'
  <2>1. \A j \in Id : j # i => meta'[j] = meta[j] /\ part'[j] = part[j]
    BY <1>5 DEF Write, Stored
  <2> QED
    BY <2>1, <1>2, <1>4 DEF HandedWhole, Writers, Installing, AppendFails
<1>28. WrittenCore'
  BY DEF WrittenCore, AppendFails, store, flash, hist
<1>29. Paired'
  BY DEF Paired, AppendFails, store, flash, hist
<1> QED
  BY <1>21, <1>22, <1>23, <1>24, <1>25, <1>26, <1>27, <1>28, <1>29

LEMMA CompleteStep ==
  ASSUME UploadInv, NEW t \in Tab, Complete(t)
  PROVE  UploadInv'
<1> USE DEF UploadInv, UploadTypes
<1> DEFINE i == tab[t].id
           a == meta[i].art
<1>1. i \in Id /\ Loads(Stored, i) /\ Verifies(Stored, i) /\ Stored \in Contents
  BY DEF Asking, Request, Complete, Accepts, Shelf
<1>2. a \in Artifact
  BY <1>1, ContentsFacts, SessionFacts DEF Loads, Stored
<1>3. /\ Write(Completes(Stored, i))
      /\ install' = [art |-> a, id |-> i]
      /\ comp' = InstallerBegins(a)
      /\ exposed \subseteq exposed' /\ exposed' \subseteq Exposure
  <2>1. exposed' = exposed \/ exposed' = exposed \cup {"overTrial"}
    BY DEF Complete, Expose
  <2>2. exposed \subseteq exposed' /\ exposed' \subseteq Exposure
    BY <2>1 DEF Bounded, Exposure
  <2> QED
    BY <2>2 DEF Complete
<1> HIDE DEF i, a
<1>21. Components'
  <2>1. ComponentsFit(comp')
    BY <1>2, <1>3, BeginsFacts
  <2> QED
    BY <2>1 DEF Components, ComponentsFit
<1>22. Plans'
  BY DEF Plans, Complete, store, flash, hist
<1>23. Asking'
  <2>1. [tab[t] EXCEPT !.step = "wait"] \in Request
        /\ [tab[t] EXCEPT !.step = "wait"].step = "wait"
    BY DEF Asking, Request
  <2> QED
    BY <2>1, AnswerFacts DEF Complete
<1>24. Writers'
  <2>1. ~Fetching /\ ~Fetching' /\ on'
    BY DEF Complete, Accepts, Locked, Fetching
  <2> QED
    BY <1>1, <1>2, <1>3, <2>1 DEF Writers, Complete
<1>25. Bounded'
  BY <1>3, BoundFacts, ExposeFacts DEF Bounded, Complete, Exposure
<1>26. Shelf'
  <2>1. Safe(Stored, Completes(Stored, i))
    BY <1>1, CompleteFacts
  <2> QED
    BY <1>3, <2>1, ShelfWritten
<1>27. HandedWhole'
  <2>1. /\ Left(Completes(Stored, i)).meta[i] = NoSession
        /\ Left(Completes(Stored, i)).part[i].chunks = Reconciled(Stored, i).part[i].chunks
    BY <1>1, CompleteFacts
  <2>2. Reconciled(Stored, i).part[i].chunks = Whole(a)
    BY <1>1 DEF Verifies, Stored, a
  <2>3. install'.art = a /\ install'.id = i
    BY <1>3
  <2>4. meta'[i] = NoSession /\ part'[i].chunks = Whole(a)
    BY <1>3, <2>1, <2>2 DEF Write
  <2> QED
    BY <2>3, <2>4 DEF HandedWhole
<1>28. WrittenCore'
  <2>1. Lessens(comp') /\ (a.kind = "firmware" => comp'["firmware"].status = "idle")
    BY <1>2, <1>3, BeginsFacts
  <2>2. install'.art = a /\ fetch' = fetch
    BY <1>3 DEF Complete
  <2>3. CASE a.kind = "firmware"
    BY <2>1, <2>3 DEF WrittenCore
  <2>4. CASE a.kind = "application"
    BY <2>1, <2>2, <2>4, CoreKept
  <2> QED
    BY <1>2, <2>3, <2>4, ReleaseFacts
<1>29. Paired'
  <2>1. Lessens(comp')
    BY <1>2, <1>3, BeginsFacts
  <2> QED
    BY <1>3, <2>1, PairedKept DEF Complete
<1> QED
  BY <1>21, <1>22, <1>23, <1>24, <1>25, <1>26, <1>27, <1>28, <1>29

LEMMA CompleteRefusedStep ==
  ASSUME UploadInv, NEW t \in Tab, CompleteRefused(t)
  PROVE  UploadInv'
<1> USE DEF UploadInv, UploadTypes
<1>1. tab[t].id \in Id
  BY DEF Asking, Request
<1>21. Components'
  BY DEF Components, CompleteRefused, store, flash, hist
<1>22. Plans'
  BY DEF Plans, CompleteRefused, store, flash, hist
<1>23. Asking'
  BY RefusedFacts DEF CompleteRefused
<1>24. Writers'
  BY DEF Writers, Installing, Fetching, CompleteRefused
<1>25. Bounded'
  BY BoundFacts DEF Bounded, CompleteRefused, store, flash, hist
<1>26. Shelf'
  <2>1. Safe(Stored, Removed(Stored, tab[t].id))
    BY <1>1, RemovedSafe DEF Shelf
  <2> QED
    BY <2>1, ShelfKept, ShelfWritten DEF CompleteRefused, hist
<1>27. HandedWhole'
  BY DEF HandedWhole, Installing, CompleteRefused, store
<1>28. WrittenCore'
  BY DEF WrittenCore, CompleteRefused, store, flash, hist
<1>29. Paired'
  BY DEF Paired, CompleteRefused, store, flash, hist
<1> QED
  BY <1>21, <1>22, <1>23, <1>24, <1>25, <1>26, <1>27, <1>28, <1>29

LEMMA FinalizeStep ==
  ASSUME UploadInv, NEW t \in Tab, Finalize(t)
  PROVE  UploadInv'
<1> USE DEF UploadInv, UploadTypes
<1>21. Components'
  BY DEF Components, Finalize, store, flash, hist
<1>22. Plans'
  <2>1. [status |-> "ready", release |-> Wanted, need |-> plan.need] \in
          [status : {"idle", "ready", "activating"}, release : {0, Wanted}, need : SUBSET Kind]
    BY DEF Plans
  <2>2. NoPlan \in [release : {0, Wanted}, need : SUBSET Kind, done : SUBSET Kind,
                   bound : SUBSET (Kind \X Id)]
        /\ NoPlan.done = {} /\ NoPlan.bound = {}
    BY DEF NoPlan
  <2> QED
    BY <2>1, <2>2 DEF Plans, Finalize
<1>23. Asking'
  BY RefusedFacts DEF Finalize
<1>24. Writers'
  BY DEF Writers, Installing, Fetching, Finalize
<1>25. Bounded'
  BY BoundFacts DEF Bounded, Finalize, store, flash, hist
<1>26. Shelf'
  BY ShelfKept DEF Finalize, store, flash, hist, Bounded
<1>27. HandedWhole'
  BY DEF HandedWhole, Installing, Finalize, store, flash, hist
<1>28. WrittenCore'
  BY DEF WrittenCore, Finalize, store, flash, hist
<1>29. Paired'
  <2>1. Pairable(Wanted) => \A k \in plan.need : comp[k].release = Wanted
    BY DEF Pairable, Ready, Plans
  <2> QED
    BY <2>1 DEF Paired, Plans, Finalize, hist
<1> QED
  BY <1>21, <1>22, <1>23, <1>24, <1>25, <1>26, <1>27, <1>28, <1>29

LEMMA GiveUpStep ==
  ASSUME UploadInv, NEW t \in Tab, GiveUp(t)
  PROVE  UploadInv'
<1> USE DEF UploadInv, UploadTypes
<1>21. Components'
  BY DEF Components, GiveUp, store, flash, hist
<1>22. Plans'
  BY DEF Plans, GiveUp, store, flash, hist
<1>23. Asking'
  BY RefusedFacts DEF GiveUp
<1>24. Writers'
  BY DEF Writers, Installing, Fetching, GiveUp
<1>25. Bounded'
  BY BoundFacts DEF Bounded, GiveUp
<1>26. Shelf'
  BY ShelfKept DEF GiveUp, store, flash, hist, Bounded
<1>27. HandedWhole'
  BY DEF HandedWhole, Installing, GiveUp, store, flash, hist
<1>28. WrittenCore'
  BY DEF WrittenCore, GiveUp, store, flash, hist
<1>29. Paired'
  BY DEF Paired, GiveUp, store, flash, hist
<1> QED
  BY <1>21, <1>22, <1>23, <1>24, <1>25, <1>26, <1>27, <1>28, <1>29

\* What a browser asks next, when its component is staged.
LEMMA AfterFacts ==
  ASSUME NEW t \in Tab
  PROVE  /\ AfterComponent(t) \in Request
         /\ AfterComponent(t).step \in {"begin", "chunk", "complete"}
              => AfterComponent(t).art \in Artifact
<1>1. {"application"} \in SUBSET Kind
  BY ReleaseFacts
<1>2. [NoRequest EXCEPT !.step = "finalize", !.planned = TRUE] \in Request
      /\ [NoRequest EXCEPT !.step = "finalize", !.planned = TRUE].step = "finalize"
  BY RequestFacts DEF Request
<1> QED
  BY <1>1, <1>2, RequestFacts DEF AfterComponent

LEMMA InstallEndsStep ==
  ASSUME UploadInv, InstallEnds
  PROVE  UploadInv'
<1> USE DEF UploadInv, UploadTypes
<1> DEFINE a == install.art
<1>1. a \in Artifact /\ install.id \in Id /\ a.kind \in Kind /\ a.release \in Release
  BY ReleaseFacts DEF Writers, Installing, InstallEnds
<1>2. /\ Write(Removed(Stored, install.id))
      /\ comp' = StagedIn(comp, a.kind, a.release)
      /\ exposed \subseteq exposed' /\ exposed' \subseteq Exposure
      /\ StagesOver(a) => "replaced" \in exposed'
  BY ExposeFacts DEF InstallEnds, StagedIn, Exposure, StagesOver
<1>3. /\ install'.art = NoArtifact /\ fetch' = NoArtifact /\ ~Installing' /\ ~Fetching'
  BY RequestFacts DEF InstallEnds, Writers, Installing, Fetching
<1> HIDE DEF a
<1>21. Components'
  BY <1>1, <1>2, StagedFacts
<1>22. Plans'
  <2>1. \/ plan' = plan
        \/ plan' = [plan EXCEPT !.done = @ \cup {a.kind}] /\ Marks(install.id, a)
    BY DEF InstallEnds, a
  <2>2. Marks(install.id, a) => a.kind \in plan.need
    BY <1>1 DEF Marks, Plans
  <2> QED
    BY <2>1, <2>2, <1>1 DEF Plans, InstallEnds
<1>23. Asking'
  <2>1. \A t \in Tab : tab'[t] \in {tab[t], AfterComponent(t), NoRequest}
    BY DEF InstallEnds
  <2>2. tab' \in [Tab -> Request]
    BY <2>1, AfterFacts, RequestFacts DEF Asking, InstallEnds
  <2> QED
    BY <2>1, <2>2, AfterFacts, RequestFacts DEF Asking
<1>24. Writers'
  BY <1>3, RequestFacts DEF Writers, Installing, Fetching, InstallEnds
<1>25. Bounded'
  BY <1>2 DEF Bounded, InstallEnds
<1>26. Shelf'
  <2>1. Safe(Stored, Removed(Stored, install.id))
    BY <1>1, RemovedSafe DEF Shelf
  <2> QED
    BY <1>2, <2>1, ShelfWritten
<1>27. HandedWhole'
  BY <1>3 DEF HandedWhole
<1>28. WrittenCore'
  BY <1>3, ReleaseFacts DEF WrittenCore
<1>29. Paired'
  BY <1>1, <1>2, PairedStaged DEF StagesOver, InstallEnds
<1> QED
  BY <1>21, <1>22, <1>23, <1>24, <1>25, <1>26, <1>27, <1>28, <1>29

LEMMA InstallFailsStep ==
  ASSUME UploadInv, InstallFails
  PROVE  UploadInv'
<1> USE DEF UploadInv, UploadTypes
<1> DEFINE a == install.art
<1>1. a \in Artifact /\ install.id \in Id /\ a.kind \in Kind /\ a.release \in Release
  BY ReleaseFacts DEF Writers, Installing, InstallFails
<1>2. /\ comp' \in {comp, ForgottenIn(comp, a.kind)} /\ a.kind \in Kind
      /\ Lessens(comp')
  <2>1. comp' \in {comp, ForgottenIn(comp, a.kind)}
    BY DEF InstallFails, ForgottenIn
  <2>2. Lessens(comp)
    BY DEF Lessens
  <2> QED
    BY <1>1, <2>1, <2>2, ForgottenFacts
<1>3. /\ install'.art = NoArtifact /\ fetch' = NoArtifact /\ ~Installing' /\ ~Fetching'
  BY RequestFacts DEF InstallFails, Writers, Installing, Fetching
<1> HIDE DEF a
<1>21. Components'
  <2>1. ComponentsFit(comp')
    BY <1>2, ForgottenFacts DEF Components, ComponentsFit
  <2> QED
    BY <2>1 DEF Components, ComponentsFit
<1>22. Plans'
  BY DEF Plans, InstallFails, store, flash, hist
<1>23. Asking'
  <2>1. \A t \in Tab : tab'[t] \in {tab[t], NoRequest}
    BY DEF InstallFails
  <2>2. tab' \in [Tab -> Request]
    BY <2>1, RequestFacts DEF Asking, InstallFails
  <2> QED
    BY <2>1, <2>2, RequestFacts DEF Asking
<1>24. Writers'
  BY <1>3, RequestFacts DEF Writers, Installing, Fetching, InstallFails
<1>25. Bounded'
  BY BoundFacts DEF Bounded, InstallFails, store, flash, hist
<1>26. Shelf'
  <2>1. Safe(Stored, Removed(Stored, install.id))
    BY <1>1, RemovedSafe DEF Shelf
  <2> QED
    BY <2>1, ShelfWritten DEF InstallFails
<1>27. HandedWhole'
  BY <1>3 DEF HandedWhole
<1>28. WrittenCore'
  BY <1>3, ReleaseFacts DEF WrittenCore
<1>29. Paired'
  BY <1>2, PairedKept DEF InstallFails
<1> QED
  BY <1>21, <1>22, <1>23, <1>24, <1>25, <1>26, <1>27, <1>28, <1>29

LEMMA StartFetchStep ==
  ASSUME UploadInv, NEW a \in Artifact, StartFetch(a)
  PROVE  UploadInv'
<1> USE DEF UploadInv, UploadTypes
<1>1. /\ comp' = InstallerBegins(a)
      /\ exposed \subseteq exposed' /\ exposed' \subseteq Exposure
  <2>1. exposed' = exposed \/ exposed' = exposed \cup {"overTrial"}
    BY DEF StartFetch, Expose
  <2>2. exposed \subseteq exposed' /\ exposed' \subseteq Exposure
    BY <2>1 DEF Bounded, Exposure
  <2> QED
    BY <2>2 DEF StartFetch
<1>21. Components'
  <2>1. ComponentsFit(comp')
    BY <1>1, BeginsFacts
  <2> QED
    BY <2>1 DEF Components, ComponentsFit
<1>22. Plans'
  BY DEF Plans, StartFetch, store, flash, hist
<1>23. Asking'
  BY DEF Asking, StartFetch
<1>24. Writers'
  BY DEF Writers, Installing, Fetching, StartFetch, Locked
<1>25. Bounded'
  BY <1>1, BoundFacts DEF Bounded, StartFetch
<1>26. Shelf'
  BY <1>1, ShelfKept DEF StartFetch
<1>27. HandedWhole'
  BY DEF HandedWhole, Installing, StartFetch, store, flash, hist
<1>28. WrittenCore'
  <2>1. Lessens(comp') /\ (a.kind = "firmware" => comp'["firmware"].status = "idle")
    BY <1>1, BeginsFacts
  <2>2. fetch' = a /\ install' = install
    BY DEF StartFetch
  <2>3. CASE a.kind = "firmware"
    BY <2>1, <2>3 DEF WrittenCore
  <2>4. CASE a.kind = "application"
    BY <2>1, <2>2, <2>4, CoreKept
  <2> QED
    BY <2>3, <2>4, ReleaseFacts
<1>29. Paired'
  BY <1>1, BeginsFacts, PairedKept DEF StartFetch
<1> QED
  BY <1>21, <1>22, <1>23, <1>24, <1>25, <1>26, <1>27, <1>28, <1>29

LEMMA EndFetchStep ==
  ASSUME UploadInv, EndFetch
  PROVE  UploadInv'
<1> USE DEF UploadInv, UploadTypes
<1>1. fetch \in Artifact /\ fetch.kind \in Kind /\ fetch.release \in Release
  BY ReleaseFacts DEF EndFetch, Writers, Fetching
<1>2. /\ comp' \in {comp, StagedIn(comp, fetch.kind, fetch.release)}
      /\ exposed \subseteq exposed' /\ exposed' \subseteq Exposure
      /\ (StagesOver(fetch) /\ comp' # comp) => "replaced" \in exposed'
  BY ExposeFacts DEF EndFetch, StagedIn, Exposure, StagesOver
<1>21. Components'
  BY <1>1, <1>2, StagedFacts DEF Components
<1>22. Plans'
  BY DEF Plans, EndFetch, store, flash, hist
<1>23. Asking'
  BY DEF Asking, EndFetch
<1>24. Writers'
  BY DEF Writers, Installing, Fetching, EndFetch
<1>25. Bounded'
  BY <1>2 DEF Bounded, EndFetch
<1>26. Shelf'
  BY <1>2, ShelfKept DEF EndFetch
<1>27. HandedWhole'
  BY DEF HandedWhole, Installing, EndFetch, store, flash, hist
<1>28. WrittenCore'
  <2>1. install'.art = NoArtifact /\ fetch' = NoArtifact
    BY DEF EndFetch, Writers, Installing
  <2> QED
    BY <2>1, ReleaseFacts DEF WrittenCore
<1>29. Paired'
  <2>1. CASE comp' = comp
    <3>1. Lessens(comp')
      BY <2>1 DEF Lessens
    <3> QED
      BY <3>1, <1>2, PairedKept DEF EndFetch
  <2>2. CASE comp' = StagedIn(comp, fetch.kind, fetch.release) /\ comp' # comp
    BY <1>1, <1>2, <2>2, PairedStaged DEF StagesOver, EndFetch
  <2> QED
    BY <1>2, <2>1, <2>2
<1> QED
  BY <1>21, <1>22, <1>23, <1>24, <1>25, <1>26, <1>27, <1>28, <1>29

\* A component that was ready is to be tried.
LEMMA SelectFacts ==
  ASSUME Components, NEW k \in Kind, comp[k].status = "ready"
  PROVE  ComponentsFit(Select(k)) /\ Lessens(Select(k))
<1> DEFINE p == [comp[k] EXCEPT !.status = "selected"]
<1>1. /\ comp[k].release \in Release /\ p.release = comp[k].release
      /\ p.status = "selected" /\ p \in ComponentRecord
  BY DEF Components, ComponentRecord
<1>2. Select(k) = [comp EXCEPT ![k] = p]
  BY DEF Select, Components
<1> HIDE DEF p
<1> QED
  BY <1>1, <1>2 DEF Components, ComponentsFit, Lessens

LEMMA ActivateCoreStep ==
  ASSUME UploadInv, ActivateCore
  PROVE  UploadInv'
<1> USE DEF UploadInv, UploadTypes
<1>1. /\ ComponentsFit(comp') /\ Lessens(comp')
      /\ exposed \subseteq exposed' /\ exposed' \subseteq Exposure
  BY ReleaseFacts, SelectFacts, ExposeFacts DEF ActivateCore, Exposure, InPlan
<1>21. Components'
  <2>1. ComponentsFit(comp')
    BY <1>1
  <2> QED
    BY <2>1 DEF Components, ComponentsFit
<1>22. Plans'
  BY DEF Plans, ActivateCore, store, flash, hist
<1>23. Asking'
  BY DEF Asking, ActivateCore
<1>24. Writers'
  BY DEF Writers, Installing, Fetching, ActivateCore
<1>25. Bounded'
  BY <1>1 DEF Bounded, ActivateCore
<1>26. Shelf'
  BY <1>1, ShelfKept DEF ActivateCore
<1>27. HandedWhole'
  BY DEF HandedWhole, Installing, ActivateCore, store, flash, hist
<1>28. WrittenCore'
  BY <1>1, CoreKept DEF ActivateCore
<1>29. Paired'
  BY <1>1, PairedKept DEF ActivateCore
<1> QED
  BY <1>21, <1>22, <1>23, <1>24, <1>25, <1>26, <1>27, <1>28, <1>29

LEMMA ActivateUniversalStep ==
  ASSUME UploadInv, ActivateUniversal
  PROVE  UploadInv'
<1> USE DEF UploadInv, UploadTypes
<1>1. ComponentsFit(comp') /\ Lessens(comp')
  <2>1. ComponentsFit(comp) /\ Lessens(comp)
    BY DEF Components, ComponentsFit, Lessens
  <2> QED
    BY <2>1, ReleaseFacts, SelectFacts DEF ActivateUniversal, Activatable
<1>21. Components'
  <2>1. ComponentsFit(comp')
    BY <1>1
  <2> QED
    BY <2>1 DEF Components, ComponentsFit
<1>22. Plans'
  BY DEF Plans, ActivateUniversal
<1>23. Asking'
  BY DEF Asking, ActivateUniversal
<1>24. Writers'
  BY DEF Writers, Installing, Fetching, ActivateUniversal
<1>25. Bounded'
  BY BoundFacts DEF Bounded, ActivateUniversal, store, flash, hist
<1>26. Shelf'
  BY ShelfKept DEF ActivateUniversal, store, flash, hist, Bounded
<1>27. HandedWhole'
  BY DEF HandedWhole, Installing, ActivateUniversal, store, flash, hist
<1>28. WrittenCore'
  BY <1>1, CoreKept DEF ActivateUniversal
<1>29. Paired'
  <2>1. uni'.status = "activating"
    BY DEF ActivateUniversal, Plans
  <2> QED
    BY <2>1 DEF Paired
<1> QED
  BY <1>21, <1>22, <1>23, <1>24, <1>25, <1>26, <1>27, <1>28, <1>29

LEMMA ResetStep ==
  ASSUME UploadInv, Reset
  PROVE  UploadInv'
<1> USE DEF UploadInv, UploadTypes
<1>21. Components'
  BY DEF Components, Reset, store, flash, hist
<1>22. Plans'
  BY DEF Plans, Reset, store, flash, hist
<1>23. Asking'
  BY PowerDownFacts DEF Reset
<1>24. Writers'
  BY PowerDownFacts DEF Reset
<1>25. Bounded'
  BY BoundFacts DEF Bounded, Reset, store, flash, hist
<1>26. Shelf'
  BY ShelfKept DEF Reset, store, flash, hist, Bounded
<1>27. HandedWhole'
  BY PowerDownFacts DEF Reset
<1>28. WrittenCore'
  BY PowerDownFacts DEF Reset
<1>29. Paired'
  BY DEF Paired, Reset, store, flash, hist
<1> QED
  BY <1>21, <1>22, <1>23, <1>24, <1>25, <1>26, <1>27, <1>28, <1>29

\* The bootloader and the decisions of the boot: nothing becomes ready.
LEMMA BootFacts ==
  ASSUME Components
  PROVE  /\ ComponentsFit(AfterBootloader)
         /\ \A k \in Kind : AfterBootloader[k].status = "ready" => AfterBootloader[k] = comp[k]
<1> DEFINE p == IF comp["firmware"].status = "trial" THEN Forgotten(comp["firmware"])
                ELSE IF comp["firmware"].status = "selected"
                     THEN [comp["firmware"] EXCEPT !.status = "trial"] ELSE comp["firmware"]
<1>1. "firmware" \in Kind /\ comp["firmware"] \in ComponentRecord
  BY ReleaseFacts DEF Components
<1>2. /\ p \in ComponentRecord /\ (p.status # "idle" => p.release \in Release)
      /\ p.status = "ready" => p = comp["firmware"]
  BY <1>1 DEF Components, ComponentRecord, Forgotten
<1>3. AfterBootloader = [comp EXCEPT !["firmware"] = p]
  BY DEF AfterBootloader
<1> HIDE DEF p
<1> QED
  BY <1>1, <1>2, <1>3 DEF Components, ComponentsFit

LEMMA BootStep ==
  ASSUME UploadInv, Boot
  PROVE  UploadInv'
<1> USE DEF UploadInv, UploadTypes
<1>1. ComponentsFit(comp') /\ Lessens(comp')
  <2> DEFINE c == ReconciledComp(AfterBootloader, uni)
             p == IF c["application"].status = "ready" THEN "trial" ELSE c["application"].status
  <2>1. /\ ComponentsFit(c)
        /\ \A k \in Kind : c[k].status = "ready" => c[k] = comp[k]
    BY BootFacts, ReconciledCompFacts
  <2>2. comp' = [c EXCEPT !["application"].status = p]
    BY DEF Boot
  <2>3. p \in {"idle", "selected", "trial"} /\ (p # "idle" => c["application"].status # "idle")
    BY <2>1, ReleaseFacts DEF ComponentsFit, ComponentRecord
  <2> HIDE DEF c, p
  <2>4. ComponentsFit(comp')
    BY <2>1, <2>2, <2>3 DEF ComponentsFit, ComponentRecord
  <2>5. \A k \in Kind : comp'[k].status = "ready" => comp'[k] = c[k]
    BY <2>1, <2>2, <2>3 DEF ComponentsFit, ComponentRecord
  <2> QED
    BY <2>1, <2>4, <2>5 DEF Lessens
<1>2. /\ uni' \in {uni, NoPair}
      /\ exposed \subseteq exposed' /\ exposed' \subseteq Exposure
  <2>1. uni' \in {uni, NoPair}
    BY DEF Boot, ReconciledUni
  <2>2. PICK b \in BOOLEAN : Expose("booted", b)
    BY DEF Boot, InPlan
  <2> QED
    BY <2>1, <2>2, ExposeFacts DEF Exposure
<1>21. Components'
  <2>1. ComponentsFit(comp')
    BY <1>1
  <2> QED
    BY <2>1 DEF Components, ComponentsFit
<1>22. Plans'
  <2>1. NoPair \in [status : {"idle", "ready", "activating"}, release : {0, Wanted},
                     need : SUBSET Kind]
    BY DEF NoPair
  <2> QED
    BY <1>2, <2>1 DEF Plans, Boot
<1>23. Asking'
  BY DEF Asking, Boot
<1>24. Writers'
  BY DEF Writers, Installing, Fetching, Boot
<1>25. Bounded'
  BY <1>2 DEF Bounded, Boot
<1>26. Shelf'
  BY <1>2, ShelfKept DEF Boot
<1>27. HandedWhole'
  BY DEF HandedWhole, Installing, Boot, store, flash, hist
<1>28. WrittenCore'
  BY <1>1, CoreKept DEF Boot
<1>29. Paired'
  <2>1. NoPair.status = "idle"
    BY DEF NoPair
  <2> QED
    BY <1>1, <1>2, <2>1, PairedKept DEF Boot
<1> QED
  BY <1>21, <1>22, <1>23, <1>24, <1>25, <1>26, <1>27, <1>28, <1>29

LEMMA DecideStep ==
  ASSUME UploadInv, Decide
  PROVE  UploadInv'
<1> USE DEF UploadInv, UploadTypes
<1>1. ComponentsFit(comp') /\ Lessens(comp')
  <2>1. PICK kept \in SUBSET {k \in Kind : comp[k].status = "trial"} :
          comp' = [k \in Kind |-> IF comp[k].status # "trial" THEN comp[k]
                                 ELSE IF k \in kept THEN Confirmed(comp[k])
                                 ELSE Forgotten(comp[k])]
    BY DEF Decide
  <2>2. ASSUME NEW k \in Kind
        PROVE  /\ comp'[k] \in ComponentRecord
               /\ comp'[k].status # "idle" => comp'[k] = comp[k]
    <3>1. comp[k] \in ComponentRecord /\ (comp[k].status # "idle" => comp[k].release \in Release)
      BY DEF Components
    <3>2. CASE comp[k].status # "trial"
      BY <2>1, <3>1, <3>2
    <3>3. CASE comp[k].status = "trial"
      <4>1. comp[k].release \in 1 .. MaxRelease
        BY <3>1, <3>3, ReleaseFacts
      <4>2. Confirmed(comp[k]) \in ComponentRecord /\ Confirmed(comp[k]).status = "idle"
        BY <3>1, <4>1 DEF Confirmed, ComponentRecord
      <4>3. Forgotten(comp[k]) \in ComponentRecord /\ Forgotten(comp[k]).status = "idle"
        BY <3>1 DEF Forgotten, ComponentRecord
      <4> QED
        BY <2>1, <3>3, <4>2, <4>3
    <3> QED
      BY <3>2, <3>3
  <2>3. ComponentsFit(comp')
    BY <2>1, <2>2 DEF ComponentsFit, Components
  <2> QED
    BY <2>2, <2>3 DEF Lessens
<1>2. uni' \in {uni, NoPair}
  BY DEF Decide, ReconciledUni
<1>21. Components'
  <2>1. ComponentsFit(comp')
    BY <1>1
  <2> QED
    BY <2>1 DEF Components, ComponentsFit
<1>22. Plans'
  <2>1. NoPair \in [status : {"idle", "ready", "activating"}, release : {0, Wanted},
                     need : SUBSET Kind]
    BY DEF NoPair
  <2> QED
    BY <1>2, <2>1 DEF Plans, Decide
<1>23. Asking'
  BY DEF Asking, Decide
<1>24. Writers'
  BY DEF Writers, Installing, Fetching, Decide
<1>25. Bounded'
  BY BoundFacts DEF Bounded, Decide, store, flash, hist
<1>26. Shelf'
  BY ShelfKept DEF Decide, store, flash, hist, Bounded
<1>27. HandedWhole'
  BY DEF HandedWhole, Installing, Decide, store, flash, hist
<1>28. WrittenCore'
  BY <1>1, CoreKept DEF Decide
<1>29. Paired'
  <2>1. NoPair.status = "idle" /\ exposed' = exposed
    BY DEF NoPair, Decide, hist
  <2> QED
    BY <1>1, <1>2, <2>1, PairedKept
<1> QED
  BY <1>21, <1>22, <1>23, <1>24, <1>25, <1>26, <1>27, <1>28, <1>29

\* A value the store may be left at when power is lost.
LEMMA CutsFacts ==
  ASSUME Shelf, Asking, NEW t \in Tab, NEW s \in Cuts(t)
  PROVE  s \in Contents /\ Alone(s) /\ (Held(Stored) => Held(s) \/ LostPayload(s))
<1> DEFINE i == tab[t].id
           a == tab[t].art
           c == NextChunk(t)
           n == tab[t].offset
<1>1. i \in Id /\ n \in 0 .. Size /\ Stored \in Contents /\ Alone(Stored)
      /\ (tab[t].step \in {"begin", "chunk", "complete"} => a \in Artifact)
  BY DEF Asking, Request, Shelf
<1> SUFFICES \E ws : Safe(Stored, ws) /\ s \in Values(ws)
  BY <1>1 DEF Safe
<1>2. CASE tab[t].step = "begin" /\ MayBegin(t)
  <2>1. s \in UNION {Values(ws) : ws \in Begins(Stored, i, a)}
    BY <1>2 DEF Cuts
  <2>2. PICK ws \in Begins(Stored, i, a) : s \in Values(ws)
    BY <2>1
  <2>3. Safe(Stored, ws)
    BY <1>1, <1>2, BeginsSafe DEF MayBegin
  <2> QED
    BY <2>2, <2>3
<1>3. CASE tab[t].step = "chunk" /\ CanAppend(Stored, i, n)
  <2>1. s \in Values(Appends(Stored, i, c))
    BY <1>3 DEF Cuts
  <2>2. c \in Chunk /\ c.at = n + 1
    <3>1. n + 1 \in 1 .. Size
      BY <1>1, <1>3, SizeAssumption DEF CanAppend
    <3> QED
      BY <1>1, <1>3, <3>1 DEF NextChunk, Chunk
  <2>3. Safe(Stored, Appends(Stored, i, c))
    BY <1>1, <1>3, <2>2, AppendFacts
  <2> QED
    BY <2>1, <2>3
<1>4. CASE tab[t].step = "complete" /\ Loads(Stored, i) /\ Accepts(t)
  <2>1. s \in Values(Completes(Stored, i))
    BY <1>4 DEF Cuts
  <2>2. Safe(Stored, Completes(Stored, i))
    BY <1>1, <1>4, CompleteFacts
  <2> QED
    BY <2>1, <2>2
<1> QED
  BY <1>2, <1>3, <1>4 DEF Cuts

LEMMA PowerLossStep ==
  ASSUME UploadInv, PowerLoss
  PROVE  UploadInv'
<1> USE DEF UploadInv, UploadTypes
<1>1. PICK s \in {Stored} \cup UNION {Cuts(t) : t \in Tab} :
        /\ meta' = s.meta /\ part' = s.part
        /\ exposed \subseteq exposed' /\ exposed' \subseteq Exposure
        /\ (LostPayload(s) /\ ~LostPayload(Stored)) => "missing" \in exposed'
  BY ExposeFacts DEF PowerLoss, Exposure, LostPayload
<1>2. s \in Contents /\ Alone(s) /\ (Held(Stored) => Held(s) \/ LostPayload(s))
  <2>1. CASE s = Stored
    BY <2>1 DEF Shelf
  <2>2. CASE s # Stored
    <3>1. PICK t \in Tab : s \in Cuts(t)
      BY <2>2
    <3> QED
      BY <3>1, CutsFacts
  <2> QED
    BY <2>1, <2>2
<1>21. Components'
  BY DEF Components, PowerLoss, store, flash, hist
<1>22. Plans'
  BY DEF Plans, PowerLoss, store, flash, hist
<1>23. Asking'
  BY PowerDownFacts DEF PowerLoss
<1>24. Writers'
  BY PowerDownFacts DEF PowerLoss
<1>25. Bounded'
  BY <1>1, BoundFacts DEF Bounded, PowerLoss
<1>26. Shelf'
  <2>1. Stored' = s
    BY <1>1, <1>2 DEF Stored, Contents
  <2>2. ASSUME "missing" \notin exposed' PROVE Held(s)
    <3>1. Held(Stored)
      BY <1>1, <2>2 DEF Shelf
    <3>2. ~LostPayload(Stored)
      BY <3>1 DEF Held, Holds, LostPayload
    <3> QED
      BY <1>1, <1>2, <2>2, <3>1, <3>2
  <2> QED
    BY <1>2, <2>1, <2>2 DEF Shelf, Alone, Held, Holds, Stored
<1>27. HandedWhole'
  BY PowerDownFacts DEF PowerLoss
<1>28. WrittenCore'
  BY PowerDownFacts DEF PowerLoss
<1>29. Paired'
  BY <1>1 DEF Paired, PowerLoss
<1> QED
  BY <1>21, <1>22, <1>23, <1>24, <1>25, <1>26, <1>27, <1>28, <1>29

LEMMA PlanLostStep ==
  ASSUME UploadInv, PlanLost
  PROVE  UploadInv'
<1> USE DEF UploadInv, UploadTypes
<1>1. exposed \subseteq exposed' /\ exposed' \subseteq Exposure /\ "planLost" \in exposed'
  BY ExposeFacts DEF PlanLost, Exposure
<1>21. Components'
  <2>1. CASE comp' = comp
    BY <2>1 DEF Components
  <2>2. CASE Installing /\ comp' = StagedIn(comp, install.art.kind, install.art.release)
    <3>1. install.art \in Artifact
      BY <2>2 DEF Writers, Installing
    <3> QED
      BY <2>2, <3>1, StagedFacts
  <2> QED
    BY <2>1, <2>2 DEF PlanLost, StagedIn
<1>22. Plans'
  <2>1. NoPlan \in [release : {0, Wanted}, need : SUBSET Kind, done : SUBSET Kind,
                   bound : SUBSET (Kind \X Id)]
        /\ NoPlan.done = {} /\ NoPlan.bound = {}
    BY DEF NoPlan
  <2> QED
    BY <2>1 DEF Plans, PlanLost
<1>23. Asking'
  BY PowerDownFacts DEF PlanLost
<1>24. Writers'
  BY PowerDownFacts DEF PlanLost
<1>25. Bounded'
  BY <1>1, BoundFacts DEF Bounded, PlanLost
<1>26. Shelf'
  BY <1>1, ShelfKept DEF PlanLost
<1>27. HandedWhole'
  BY PowerDownFacts DEF PlanLost
<1>28. WrittenCore'
  BY PowerDownFacts DEF PlanLost
<1>29. Paired'
  BY <1>1 DEF Paired
<1> QED
  BY <1>21, <1>22, <1>23, <1>24, <1>25, <1>26, <1>27, <1>28, <1>29

LEMMA UnmarkedStep ==
  ASSUME UploadInv, Unmarked
  PROVE  UploadInv'
<1> USE DEF UploadInv, UploadTypes
<1> DEFINE a == install.art
<1>1. a \in Artifact /\ install.id \in Id /\ a.kind \in Kind /\ a.release \in Release
  BY ReleaseFacts DEF Writers, Installing, Unmarked
<1>2. /\ comp' = StagedIn(comp, a.kind, a.release)
      /\ exposed \subseteq exposed' /\ exposed' \subseteq Exposure
      /\ StagesOver(a) => "replaced" \in exposed'
  BY ExposeFacts DEF Unmarked, StagedIn, Exposure, StagesOver
<1> HIDE DEF a
<1>21. Components'
  BY <1>1, <1>2, StagedFacts
<1>22. Plans'
  BY DEF Plans, Unmarked, store, flash, hist
<1>23. Asking'
  BY PowerDownFacts DEF Unmarked
<1>24. Writers'
  BY PowerDownFacts DEF Unmarked
<1>25. Bounded'
  BY <1>2, BoundFacts DEF Bounded, Unmarked
<1>26. Shelf'
  <2>1. CASE part' = part
    BY <1>2, <2>1, ShelfKept DEF Unmarked, store
  <2>2. CASE part' = Left(Removed(Stored, install.id)).part
    <3>1. /\ meta[install.id] = NoSession /\ meta' = meta
      BY DEF HandedWhole, Unmarked
    <3>2. Stored \in Contents
      BY DEF Shelf
    <3> DEFINE v == Left(Removed(Stored, install.id))
    <3>3. /\ Within(Stored, v) /\ v \in Contents /\ v.meta[install.id] = NoSession
          /\ \A j \in Id : j # install.id => v.meta[j] = Stored.meta[j]
      <4>1. /\ Within(Stored, v) /\ v.meta[install.id] = NoSession
            /\ \A j \in Id : j # install.id => v.meta[j] = Stored.meta[j]
        BY <1>1, <3>2, RemovedFacts
      <4> QED
        BY <4>1 DEF Within
    <3> HIDE DEF v
    <3>4. v.meta = meta
      <4>1. v.meta \in [Id -> Session] /\ meta \in [Id -> Session]
        BY <3>2, <3>3, <1>1, ContentsFacts DEF Stored
      <4>2. \A j \in Id : v.meta[j] = meta[j]
        BY <3>1, <3>3 DEF Stored
      <4> QED
        BY <4>1, <4>2
    <3>5. Stored' = v
      BY <2>2, <3>1, <3>3, <3>4 DEF Stored, Contents, v
    <3>6. Alone(v) /\ (Held(Stored) => Held(v))
      BY <3>2, <3>3, WithinKeeps DEF Shelf
    <3> QED
      BY <1>2, <3>3, <3>5, <3>6 DEF Shelf, Alone, Held, Holds, Stored
  <2> QED
    BY <2>1, <2>2 DEF Unmarked
<1>27. HandedWhole'
  BY PowerDownFacts DEF Unmarked
<1>28. WrittenCore'
  BY PowerDownFacts DEF Unmarked
<1>29. Paired'
  BY <1>1, <1>2, PairedStaged DEF StagesOver, Unmarked
<1> QED
  BY <1>21, <1>22, <1>23, <1>24, <1>25, <1>26, <1>27, <1>28, <1>29

LEMMA UnplannedStep ==
  ASSUME UploadInv, Unplanned
  PROVE  UploadInv'
<1> USE DEF UploadInv, UploadTypes
<1>21. Components'
  BY DEF Components, Unplanned, store, flash, hist
<1>22. Plans'
  <2>1. [status |-> "ready", release |-> Wanted, need |-> plan.need] \in
          [status : {"idle", "ready", "activating"}, release : {0, Wanted}, need : SUBSET Kind]
    BY DEF Plans
  <2> QED
    BY <2>1 DEF Plans, Unplanned
<1>23. Asking'
  BY PowerDownFacts DEF Unplanned
<1>24. Writers'
  BY PowerDownFacts DEF Unplanned
<1>25. Bounded'
  BY BoundFacts DEF Bounded, Unplanned, store, flash, hist
<1>26. Shelf'
  BY ShelfKept DEF Unplanned, store, flash, hist, Bounded
<1>27. HandedWhole'
  BY PowerDownFacts DEF Unplanned
<1>28. WrittenCore'
  BY PowerDownFacts DEF Unplanned
<1>29. Paired'
  <2>1. Pairable(Wanted) => \A k \in plan.need : comp[k].release = Wanted
    BY DEF Pairable, Ready, Plans
  <2> QED
    BY <2>1 DEF Paired, Plans, Unplanned
<1> QED
  BY <1>21, <1>22, <1>23, <1>24, <1>25, <1>26, <1>27, <1>28, <1>29

-----------------------------------------------------------------------------
(* The invariant holds.                                                    *)

LEMMA UploadInit == Init => UploadInv
<1> SUFFICES ASSUME Init PROVE UploadInv
  OBVIOUS
<1> USE DEF Init
<1>1. 0 \in 0 .. Size /\ 0 \in 0 .. MaxTries /\ 0 \in 0 .. MaxFaults /\ 1 \in 1 .. MaxRelease
  BY SizeAssumption, ReleaseAssumption DEF Release
<1>2. Components
  BY <1>1 DEF Components, ComponentRecord
<1>3. Plans
  BY DEF Plans, NoPlan, NoPair
<1>4. Asking
  BY RequestFacts DEF Asking
<1>5. ~Installing /\ ~Fetching
  BY RequestFacts DEF Installing, Fetching
<1>6. Writers
  BY <1>5, RequestFacts DEF Writers
<1>7. Bounded
  BY <1>1 DEF Bounded
<1>8. Shelf
  <2>1. Stored \in Contents
    BY SessionFacts DEF Stored, Contents
  <2>2. NoPayload.exists = FALSE
    BY DEF NoPayload
  <2> QED
    BY <2>1, <2>2 DEF Shelf, Alone, Held, Holds, Stored
<1>9. HandedWhole /\ WrittenCore /\ Paired
  BY <1>5, ReleaseFacts DEF HandedWhole, WrittenCore, Paired, NoPair
<1> QED
  BY <1>2, <1>3, <1>4, <1>6, <1>7, <1>8, <1>9 DEF UploadInv, UploadTypes

LEMMA UploadNext == UploadInv /\ [Next]_vars => UploadInv'
<1> SUFFICES ASSUME UploadInv, [Next]_vars PROVE UploadInv'
  OBVIOUS
<1>1. ASSUME NEW t \in Tab, Browse(t) PROVE UploadInv'
  BY <1>1, ChooseBundleStep, PrepareStep, BeginStep, BeginRefusedStep, AppendChunkStep,
     AppendFailsStep, CompleteStep, CompleteRefusedStep, FinalizeStep, GiveUpStep DEF Browse
<1>2. CASE Device
  BY <1>2, InstallEndsStep, InstallFailsStep, StartFetchStep, EndFetchStep, ActivateCoreStep,
     ActivateUniversalStep, ResetStep, BootStep, DecideStep, PowerLossStep, PlanLostStep,
     UnmarkedStep, UnplannedStep DEF Device
<1>3. CASE UNCHANGED vars
  <2> USE <1>3 DEF UploadInv, UploadTypes, vars
  <2>1. Components' /\ Plans' /\ Asking' /\ Bounded'
    BY DEF Components, Plans, Asking, Bounded
  <2>2. Writers' /\ HandedWhole' /\ WrittenCore' /\ Paired'
    BY DEF Writers, HandedWhole, WrittenCore, Paired, Installing, Fetching
  <2>3. Shelf'
    BY ShelfKept DEF store
  <2> QED
    BY <2>1, <2>2, <2>3
<1> QED
  BY <1>1, <1>2, <1>3 DEF Next

LEMMA UploadSound ==
  ASSUME {"missing", "planLost", "replaced"} \subseteq Excused, UploadInv
  PROVE  StoreIsSound
<1> USE DEF UploadInv, UploadTypes
<1>1. TypeOK
  <2>1. ASSUME NEW i \in Id
        PROVE  /\ meta[i].art \in Artifact \cup {NoArtifact}
               /\ meta[i].received \in 0 .. Size /\ meta[i].complete \in BOOLEAN
               /\ part[i].exists \in BOOLEAN /\ part[i].chunks \in Seq(Chunk)
               /\ Len(part[i].chunks) <= Size
    BY ContentsFacts, SessionFacts DEF Shelf, Stored
  <2> QED
    BY <2>1 DEF TypeOK, Components, ComponentRecord, Plans, Asking, Writers, Bounded
<1>2. AcknowledgedIsStored
  <2> SUFFICES ASSUME Promised, NEW i \in Id
               PROVE  /\ Len(part[i].chunks) >= meta[i].received
                      /\ \A k \in 1 .. meta[i].received : part[i].chunks[k].at = k
    BY DEF AcknowledgedIsStored
  <2>1. Held(Stored) /\ Stored \in Contents
    BY DEF Promised, Shelf
  <2>2. CASE meta[i] = NoSession
    <3>1. meta[i].received = 0 /\ Len(part[i].chunks) \in Nat
      BY <2>1, <2>2, ContentsFacts, SessionFacts DEF Stored
    <3> QED
      BY <3>1
  <2>3. CASE meta[i] # NoSession
    BY <2>1, <2>3 DEF Held, Holds, Stored
  <2> QED
    BY <2>2, <2>3
<1>3. OnePayload
  <2> DEFINE E == {i \in Id : part[i].exists}
  <2>1. \A i, j \in E : i = j
    BY DEF Shelf, Alone, Stored
  <2> HIDE DEF E
  <2>2. ASSUME E = {} PROVE Cardinality(E) <= 1
    BY <2>2, FS_EmptySet
  <2>3. ASSUME E # {} PROVE Cardinality(E) <= 1
    <3>1. PICK i : i \in E
      BY <2>3
    <3>2. E = {i}
      BY <2>1, <3>1
    <3>3. Cardinality(E) = 1
      BY <3>2, FS_Singleton, Zenon
    <3> QED
      BY <3>3
  <2>4. Cardinality(E) <= 1
    BY <2>2, <2>3
  <2> QED
    BY <2>4 DEF OnePayload, E
<1>4. StagedCoreIsWhole
  BY DEF StagedCoreIsWhole, WrittenCore
<1>5. PairMatches
  BY DEF PairMatches, Paired, Activatable, Promised
<1> QED
  BY <1>1, <1>2, <1>3, <1>4, <1>5 DEF StoreIsSound

\* An installer is handed every chunk of the artifact its session declared, an acknowledged
\* chunk is in the one payload of the flash, a core that is recorded as staged is not being
\* written, and the components of an activatable pair are of one release: for any number of
\* clients that share a session, losses of power and faults.
THEOREM StoreIsSoundHolds ==
  ASSUME {"missing", "planLost", "replaced"} \subseteq Excused
  PROVE  Spec => []StoreIsSound
<1>1. Init => UploadInv
  BY UploadInit
<1>2. UploadInv /\ [Next]_vars => UploadInv'
  BY UploadNext
<1>3. UploadInv => StoreIsSound
  BY UploadSound
<1> QED
  BY <1>1, <1>2, <1>3, PTL DEF Spec


-----------------------------------------------------------------------------
(* Clients of the API.                                                     *)

Registries == [Client -> Scope \cup {"none"}]

\* Registers are read before anybody is let in, and never while the device is down.
Registering ==
  /\ file \in Registries /\ cache \in Registries \cup {Unloaded}
  /\ granted \in Registries /\ promised \in Registries
  /\ barred \subseteq Client /\ DOMAIN conn = Client
  /\ ~up => cache = Unloaded

\* Nothing lets in who was revoked, memory or file, whatever was not written or was lost.
Barred == \A c \in barred : file[c] = "none" /\ Registry[c] = "none"

AccessInv == Registering /\ Barred /\ AccessAsTold

LEMMA RegistriesFacts ==
  /\ Nobody \in Registries /\ Unloaded \notin Registries
  /\ \A r \in Registries, c \in Client, g \in Scope \cup {"none"} :
       /\ [r EXCEPT ![c] = g] \in Registries
       /\ [r EXCEPT ![c] = g][c] = g
       /\ \A d \in Client : d # c => [r EXCEPT ![c] = g][d] = r[d]
<1>1. Reader \in Client
  BY ApiAssumption
<1>2. Unloaded[Reader] = "unloaded" /\ "unloaded" \notin Scope \cup {"none"}
  BY <1>1 DEF Unloaded, Scope
<1> QED
  BY <1>1, <1>2 DEF Registries, Nobody

LEMMA RegistryFacts ==
  /\ Registering => Registry \in Registries
  /\ (cache' \in Registries) => Registry' = cache'
BY RegistriesFacts DEF Registering, Registry

LEMMA AccessInit == ApiInit => AccessInv
<1> SUFFICES ASSUME ApiInit PROVE AccessInv
  OBVIOUS
<1>1. Registering
  BY RegistriesFacts DEF ApiInit, Registering
<1>2. Barred
  BY DEF ApiInit, Barred
<1>3. AccessAsTold
  BY DEF ApiInit, AccessAsTold
<1> QED
  BY <1>1, <1>2, <1>3 DEF AccessInv

\* What leaves the registry alone, and what only reads it.
LEMMA ReadKeeps ==
  ASSUME AccessInv, cache' \in {cache, Registry}, up' = up, ~up => cache' = cache,
         file' = file, granted' = granted, promised' = promised, barred' = barred,
         DOMAIN conn' = Client, apiExposed \subseteq apiExposed'
  PROVE  AccessInv'
<1>1. Registry' = Registry
  BY RegistriesFacts, RegistryFacts DEF AccessInv, Registry
<1>2. Registering'
  BY RegistryFacts DEF AccessInv, Registering
<1>3. Barred'
  BY <1>1 DEF AccessInv, Barred
<1>4. AccessAsTold'
  BY <1>1 DEF AccessInv, AccessAsTold, ApiPromised
<1> QED
  BY <1>2, <1>3, <1>4 DEF AccessInv

\* A save, of a registry in which the owner changed one client.
LEMMA ChangeKeeps ==
  ASSUME AccessInv, {"unsaved", "overwritten"} \subseteq ApiExcused, up,
         NEW c \in Client, NEW g \in Scope \cup {"none"},
         barred' \subseteq barred \cup {c}, g # "none" => c \notin barred',
         up' = up, conn' = conn,
         \/ /\ Saved([Registry EXCEPT ![c] = g])
            /\ granted' = [granted EXCEPT ![c] = g]
            /\ promised' = [promised EXCEPT ![c] = g]
         \/ /\ NotSaved([Registry EXCEPT ![c] = g])
            /\ c \in barred' => c \in barred
  PROVE  AccessInv'
<1> DEFINE r == [Registry EXCEPT ![c] = g]
<1>1. /\ Registry \in Registries /\ r \in Registries /\ r[c] = g
      /\ \A d \in Client : d # c => r[d] = Registry[d]
  BY RegistriesFacts, RegistryFacts DEF AccessInv
<1>2. cache' = r
  BY DEF Saved, NotSaved
<1>3. Registry' = r
  BY <1>1, <1>2, RegistryFacts
<1>4. CASE Saved(r) /\ granted' = [granted EXCEPT ![c] = g]
                    /\ promised' = [promised EXCEPT ![c] = g]
  <2>1. file' = r
    BY <1>4 DEF Saved
  <2> HIDE DEF r
  <2>2. Registering'
    BY <1>1, <1>2, <1>4, <2>1, RegistriesFacts DEF AccessInv, Registering
  <2>3. Barred'
    BY <1>1, <1>3, <2>1 DEF AccessInv, Registering, Barred
  <2>4. ASSUME ApiPromised' PROVE Registry' = granted' /\ file' = promised'
    <3>1. ApiPromised /\ promised = granted
      BY <1>4, <2>4 DEF Saved, ApiPromised
    <3>2. Registry = granted
      BY <3>1 DEF AccessInv, AccessAsTold
    <3>3. r = granted' /\ r = promised'
      BY <1>4, <3>1, <3>2 DEF r
    <3> QED
      BY <1>3, <2>1, <3>3
  <2>5. AccessAsTold'
    BY <2>4 DEF AccessAsTold
  <2> QED
    BY <2>2, <2>3, <2>5 DEF AccessInv
<1>5. CASE NotSaved(r) /\ (c \in barred' => c \in barred)
  <2>1. /\ file' \in {file, Nobody} /\ granted' = granted /\ promised' = promised
        /\ ~ApiPromised'
    BY <1>5 DEF NotSaved, ApiPromised
  <2> HIDE DEF r
  <2>2. Registering'
    BY <1>1, <1>2, <2>1, RegistriesFacts DEF AccessInv, Registering
  <2>3. Barred'
    BY <1>1, <1>3, <1>5, <2>1 DEF AccessInv, Registering, Barred, Nobody
  <2>4. AccessAsTold'
    BY <2>1 DEF AccessAsTold
  <2> QED
    BY <2>2, <2>3, <2>4 DEF AccessInv
<1> QED
  BY <1>4, <1>5

LEMMA EnrolKeeps ==
  ASSUME AccessInv, {"unsaved", "overwritten"} \subseteq ApiExcused,
         NEW c \in Client, NEW g \in Scope, Enrol(c, g), up' = up
  PROVE  AccessInv'
<1>1. barred' \subseteq barred \cup {c} /\ c \notin barred' /\ conn' = conn /\ up
  BY DEF Enrol
<1>2. \/ /\ Saved([Registry EXCEPT ![c] = g])
         /\ granted' = [granted EXCEPT ![c] = g]
         /\ promised' = [promised EXCEPT ![c] = g]
      \/ NotSaved([Registry EXCEPT ![c] = g])
  BY DEF Enrol, With
<1> QED
  BY <1>1, <1>2, ChangeKeeps

LEMMA RevokeClientKeeps ==
  ASSUME AccessInv, {"unsaved", "overwritten"} \subseteq ApiExcused,
         NEW c \in Client, Revoke(c), up' = up
  PROVE  AccessInv'
<1>1. barred' \subseteq barred \cup {c} /\ conn' = conn /\ up
  BY DEF Revoke
<1>2. \/ /\ Saved([Registry EXCEPT ![c] = "none"])
         /\ granted' = [granted EXCEPT ![c] = "none"]
         /\ promised' = [promised EXCEPT ![c] = "none"]
      \/ /\ NotSaved([Registry EXCEPT ![c] = "none"])
         /\ c \in barred' => c \in barred
  BY DEF Revoke
<1> QED
  BY <1>1, <1>2, ChangeKeeps

LEMMA RestoreKeeps ==
  ASSUME AccessInv, NEW registry \in Registries, Restore(registry), up' = up
  PROVE  AccessInv'
<1>1. /\ file' = registry /\ promised' = registry /\ cache' = cache /\ up /\ up'
      /\ granted' = (IF cache = Unloaded THEN registry ELSE granted)
      /\ barred' = barred \ Enrolled(registry) /\ conn' = conn /\ apiExposed' = apiExposed
  BY DEF Restore
<1>2. Registry' = IF cache = Unloaded THEN registry ELSE Registry
  BY <1>1 DEF Registry
<1>3. Registering'
  BY <1>1 DEF AccessInv, Registering
<1>4. Barred'
  BY <1>1, <1>2 DEF AccessInv, Registering, Barred, Enrolled
<1>5. AccessAsTold'
  BY <1>1, <1>2 DEF AccessInv, AccessAsTold, ApiPromised
<1> QED
  BY <1>3, <1>4, <1>5 DEF AccessInv

LEMMA CrashKeeps ==
  ASSUME AccessInv, {"unsaved", "overwritten"} \subseteq ApiExcused, Crash
  PROVE  AccessInv'
<1>1. PICK registry \in {file, Nobody} :
        /\ file' = registry /\ apiExposed \subseteq apiExposed'
        /\ registry # file => "unsaved" \in apiExposed'
  BY DEF Crash
<1>2. /\ up' = FALSE /\ cache' = Unloaded /\ DOMAIN conn' = Client
      /\ granted' = granted /\ promised' = promised /\ barred' = barred
  BY DEF Crash
<1>3. Registry' = registry
  BY <1>1, <1>2 DEF Registry
<1>4. Registering'
  BY <1>1, <1>2, RegistriesFacts DEF AccessInv, Registering
<1>5. Barred'
  BY <1>1, <1>2, <1>3 DEF AccessInv, Registering, Barred, Nobody
<1>6. AccessAsTold'
  BY <1>1, <1>2 DEF AccessInv, AccessAsTold, ApiPromised
<1> QED
  BY <1>4, <1>5, <1>6 DEF AccessInv

LEMMA ApiBootKeeps ==
  ASSUME AccessInv, ApiBoot
  PROVE  AccessInv'
<1>1. /\ ~up /\ up' /\ granted' = promised /\ cache' = cache /\ file' = file /\ conn' = conn
      /\ promised' = promised /\ barred' = barred /\ apiExposed' = apiExposed
  BY DEF ApiBoot
<1>2. Registry' = file /\ Registry = file
  BY <1>1 DEF AccessInv, Registering, Registry
<1>3. Registering'
  BY <1>1 DEF AccessInv, Registering
<1>4. Barred'
  BY <1>1, <1>2 DEF AccessInv, Barred
<1>5. AccessAsTold'
  BY <1>1, <1>2 DEF AccessInv, AccessAsTold, ApiPromised
<1> QED
  BY <1>3, <1>4, <1>5 DEF AccessInv

\* The history and the log have nothing to do with the registry.
LEMMA HistoryApart ==
  ASSUME Records \/ Sends
  PROVE  /\ UNCHANGED clientVars /\ up' = up
         /\ apiExposed \subseteq apiExposed'
BY DEF Records, Sends, Happens, Logs, ClearHistory, SendBegins, Sent, SendFails

LEMMA AccessNext ==
  ASSUME AccessInv, [ApiNext]_apiVars, {"unsaved", "overwritten"} \subseteq ApiExcused
  PROVE  AccessInv'
<1>1. ASSUME Records \/ Sends PROVE AccessInv'
  BY <1>1, HistoryApart, ReadKeeps DEF clientVars, AccessInv, Registering
<1>2. ASSUME RegistryChanges PROVE AccessInv'
  <2>1. up' = up
    BY <1>2 DEF RegistryChanges
  <2>2. \A c \in Client : [Nobody EXCEPT ![c] = "api"] \in Registries
    BY RegistriesFacts DEF Scope
  <2> QED
    BY <1>2, <2>1, <2>2, EnrolKeeps, RevokeClientKeeps, RestoreKeeps DEF RegistryChanges
<1>3. ASSUME NEW c \in Client, Opens(c) \/ Closes(c) PROVE AccessInv'
  BY <1>3, ReadKeeps DEF Opens, Closes, AccessInv, Registering
<1>4. ASSUME NEW c \in Client, NEW scope \in Scope, ServeClient(c, scope) \/ Refuse(c, scope)
      PROVE  AccessInv'
  BY <1>4, ReadKeeps DEF ServeClient, Refuse, AccessInv, Registering
<1>5. ASSUME UNCHANGED apiVars PROVE AccessInv'
  BY <1>5, ReadKeeps DEF apiVars, AccessInv, Registering
<1> QED
  BY <1>1, <1>2, <1>3, <1>4, <1>5, CrashKeeps, ApiBootKeeps DEF ApiNext

\* A request is answered only for a client that was let in and whose revocation was not
\* confirmed since (device_api.py, api_security.py; docs/API.md:42), and what the owner was
\* told of each client is what the registry does, now and after a restart, whatever crashes and
\* whichever backup is restored, until the registry could not be written or a restored one is
\* changed before the restart it asks for.
THEOREM AccessHoldsThroughout ==
  ASSUME {"unsaved", "overwritten"} \subseteq ApiExcused
  PROVE  ApiSpec => AccessHolds
<1>1. ApiInit => AccessInv
  BY AccessInit
<1>2. AccessInv /\ [ApiNext]_apiVars => AccessInv'
  BY AccessNext
<1>3. AccessInv /\ AccessInv' => AccessAsTold' /\ RevokedStaysOut
  <2>1. AccessInv' => AccessAsTold'
    BY DEF AccessInv
  <2>2. AccessInv => RevokedStaysOut
    BY DEF AccessInv, Barred, RevokedStaysOut, ServeClient, Authenticates, Scope
  <2> QED
    BY <2>1, <2>2
<1> QED
  BY <1>1, <1>2, <1>3, PTL DEF ApiSpec, AccessHolds

-----------------------------------------------------------------------------
(***************************************************************************)
(* The event history, for histories, pages and queues of any length.       *)
(***************************************************************************)

Event   == [id : Nat, n : Nat]
Story   == [events : Seq(Event), sequence : Nat]
Health  == [events : Seq(Event), sequence : Nat, dirty : 0 .. Changes, file : Story]

\* The newest of the events that were numbered; k is the number of the last.
Chronicle(events, sequence, k) ==
  /\ Len(events) = IF sequence < MaxEvents THEN sequence ELSE MaxEvents
  /\ \A i \in DOMAIN events :
       events[i].id = sequence - Len(events) + i /\ events[i].n >= 1 /\ events[i].n <= k
  /\ \A i, j \in DOMAIN events : i < j => events[i].n < events[j].n

Authentic(h, k) ==
  /\ h \in Health
  /\ Chronicle(h.events, h.sequence, k) /\ Chronicle(h.file.events, h.file.sequence, k)

\* What is in memory goes on from the file.
Follows(h) ==
  /\ h.file.sequence <= h.sequence
  /\ \A i \in DOMAIN h.events :
       IF h.events[i].id <= h.file.sequence
       THEN \E j \in DOMAIN h.file.events : h.file.events[j] = h.events[i]
       ELSE \A j \in DOMAIN h.file.events : h.file.events[j].n < h.events[i].n

\* A reader at cursor c, who reads these events, is told of the event n.
Owes(events, c, n) ==
  \/ \E i \in DOMAIN events : events[i].n = n /\ events[i].id > c
  \/ /\ c = 0 \/ (events # <<>> /\ c < events[1].id - 1)
     /\ \A i \in DOMAIN events : events[i].n > n

Later(events, n) == \A i \in DOMAIN events : events[i].n < n

Owing(h, c, o) ==
  /\ c <= h.sequence
  /\ \A n \in o : Owes(h.events, c, n)
  /\ \A n \in o : Owes(h.file.events, c, n) \/ Later(h.file.events, n)

OnFile(h, f) == \A n \in f : Displaced(n, h.file.events)
Known(h, f)  == \A n \in f : Displaced(n, h.events)

LEMMA LimitFacts ==
  /\ MaxEvents \in Nat /\ MaxEvents >= 1 /\ Changes \in Nat /\ Changes >= 1
  /\ PageLimit \in Nat /\ PageLimit >= 1 /\ QueueLimit \in Nat /\ QueueLimit >= 1
BY HistoryAssumption

LEMMA EventFacts ==
  ASSUME NEW events \in Seq(Event)
  PROVE  /\ Len(events) \in Nat /\ DOMAIN events = 1 .. Len(events)
         /\ \A i \in DOMAIN events :
              events[i] \in Event /\ events[i].id \in Nat /\ events[i].n \in Nat
<1> DEFINE S == Event
<1>1. \A e \in S : e \in Event /\ e.id \in Nat /\ e.n \in Nat
  BY DEF Event
<1>2. events \in Seq(S)
  OBVIOUS
<1> HIDE DEF S
<1>3. Len(events) \in Nat /\ DOMAIN events = 1 .. Len(events)
  BY <1>2, LenProperties
<1>4. \A i \in DOMAIN events : events[i] \in S
  BY <1>2, <1>3, ElementOfSeq
<1> QED
  BY <1>1, <1>3, <1>4

LEMMA NewestFacts ==
  ASSUME NEW q \in Seq(Event), Len(q) <= MaxEvents + 1
  PROVE  \E gone \in {0, 1} :
           /\ gone = 1 <=> Len(q) = MaxEvents + 1
           /\ Newest(q) \in Seq(Event) /\ Len(Newest(q)) = Len(q) - gone
           /\ DOMAIN Newest(q) = 1 .. Len(q) - gone
           /\ \A i \in DOMAIN Newest(q) : i + gone \in DOMAIN q /\ Newest(q)[i] = q[i + gone]
<1> DEFINE S == Event
<1>1. q \in Seq(S) /\ Len(q) \in Nat /\ DOMAIN q = 1 .. Len(q) /\ MaxEvents \in Nat
      /\ MaxEvents >= 1
  BY LenProperties, LimitFacts
<1>2. PICK L \in Nat : L = Len(q)
  BY <1>1
<1>3. L <= MaxEvents + 1
  BY <1>2
<1> HIDE DEF S
<1>4. CASE L = MaxEvents + 1
  <2>1. L > MaxEvents /\ L - MaxEvents + 1 = 2 /\ L >= 2
    BY <1>1, <1>2, <1>4
  <2>2. Newest(q) = SubSeq(q, 2, L)
    BY <1>2, <2>1 DEF Newest
  <2>3. \A i \in 2 .. L : q[i] \in S
    BY <1>1, <1>2, ElementOfSeq
  <2>4. /\ SubSeq(q, 2, L) \in Seq(S)
        /\ Len(SubSeq(q, 2, L)) = IF 2 <= L THEN L - 2 + 1 ELSE 0
        /\ \A i \in 1 .. L - 2 + 1 : SubSeq(q, 2, L)[i] = q[2 + i - 1]
    BY <1>2, <2>3, SubSeqProperties
  <2> DEFINE w == SubSeq(q, 2, L)
  <2>5. w \in Seq(S) /\ Len(w) = L - 1 /\ \A i \in 1 .. L - 1 : w[i] = q[i + 1]
    BY <1>2, <2>1, <2>4
  <2> HIDE DEF w
  <2>6. DOMAIN w = 1 .. L - 1
    BY <2>5, LenProperties
  <2>7. \A i \in DOMAIN w : i + 1 \in DOMAIN q /\ w[i] = q[i + 1]
    BY <1>1, <1>2, <2>5, <2>6
  <2>8. Newest(q) = w
    BY <2>2 DEF w
  <2>9. /\ 1 = 1 <=> Len(q) = MaxEvents + 1
        /\ Newest(q) \in Seq(Event) /\ Len(Newest(q)) = Len(q) - 1
        /\ DOMAIN Newest(q) = 1 .. Len(q) - 1
        /\ \A i \in DOMAIN Newest(q) : i + 1 \in DOMAIN q /\ Newest(q)[i] = q[i + 1]
    BY <1>2, <1>4, <2>5, <2>6, <2>7, <2>8 DEF S
  <2> QED
    BY <2>9
<1>5. CASE L # MaxEvents + 1
  <2>1. ~(L > MaxEvents)
    <3>1. MaxEvents \in Nat
      BY <1>1
    <3> QED
      BY <1>3, <1>5, <3>1
  <2>a. L - 0 = L /\ \A i \in 1 .. L : i + 0 = i
    OBVIOUS
  <2>2. Newest(q) = q
    BY <1>2, <2>1 DEF Newest
  <2>3. Newest(q) \in Seq(Event)
    BY <1>1, <2>2 DEF S
  <2>4. Len(Newest(q)) = Len(q) - 0 /\ DOMAIN Newest(q) = 1 .. Len(q) - 0
    BY <1>1, <1>2, <2>a, <2>2
  <2>5. \A i \in DOMAIN Newest(q) : i + 0 \in DOMAIN q /\ Newest(q)[i] = q[i + 0]
    BY <1>1, <1>2, <2>a, <2>2
  <2>6. 0 = 1 <=> Len(q) = MaxEvents + 1
    BY <1>2, <1>5
  <2> QED
    BY <2>3, <2>4, <2>5, <2>6
<1> QED
  BY <1>4, <1>5

\* One event more: the oldest makes room for it.
Grown(events, sequence, k) == Newest(Append(events, [id |-> sequence + 1, n |-> k + 1]))

LEMMA GrownFacts ==
  ASSUME NEW k \in Nat, NEW s \in Nat, NEW events \in Seq(Event), Chronicle(events, s, k)
  PROVE  \E gone \in {0, 1}, L \in Nat :
           /\ L = Len(events) /\ DOMAIN events = 1 .. L /\ L + 1 - gone \in Nat
           /\ gone = 1 <=> L = MaxEvents
           /\ L = IF s < MaxEvents THEN s ELSE MaxEvents
           /\ Grown(events, s, k) \in Seq(Event) /\ Len(Grown(events, s, k)) = L + 1 - gone
           /\ DOMAIN Grown(events, s, k) = 1 .. L + 1 - gone
           /\ \A i \in 1 .. L - gone : i + gone \in DOMAIN events
                                       /\ Grown(events, s, k)[i] = events[i + gone]
           /\ Grown(events, s, k)[L + 1 - gone] = [id |-> s + 1, n |-> k + 1]
<1> DEFINE e == [id |-> s + 1, n |-> k + 1]
<1> DEFINE q == Append(events, e)
<1>1. e \in Event
  BY DEF Event
<1>2. /\ Len(events) \in Nat /\ Len(events) = IF s < MaxEvents THEN s ELSE MaxEvents
      /\ MaxEvents \in Nat /\ MaxEvents >= 1 /\ DOMAIN events = 1 .. Len(events)
  BY LenProperties, LimitFacts DEF Chronicle
<1>3. PICK L \in Nat : L = Len(events)
  BY <1>2
<1>4. L <= MaxEvents /\ L = IF s < MaxEvents THEN s ELSE MaxEvents
  BY <1>2, <1>3
<1> HIDE DEF e
<1>5. /\ q \in Seq(Event) /\ Len(q) = L + 1
      /\ \A i \in 1 .. L : q[i] = events[i]
      /\ q[L + 1] = e
  BY <1>1, <1>3, AppendProperties
<1> HIDE DEF q
<1>6. Len(q) <= MaxEvents + 1
  BY <1>2, <1>4, <1>5
<1>7. PICK gone \in {0, 1} :
        /\ gone = 1 <=> Len(q) = MaxEvents + 1
        /\ Newest(q) \in Seq(Event) /\ Len(Newest(q)) = Len(q) - gone
        /\ DOMAIN Newest(q) = 1 .. Len(q) - gone
        /\ \A i \in DOMAIN Newest(q) : i + gone \in DOMAIN q /\ Newest(q)[i] = q[i + gone]
  BY <1>5, <1>6, NewestFacts
<1> DEFINE new == Newest(q)
<1>8. /\ gone = 1 <=> L = MaxEvents
      /\ new \in Seq(Event) /\ Len(new) = L + 1 - gone /\ DOMAIN new = 1 .. L + 1 - gone
      /\ \A i \in DOMAIN new : new[i] = q[i + gone]
  BY <1>2, <1>5, <1>7
<1> HIDE DEF new
<1>9. \A i \in 1 .. L - gone : i + gone \in DOMAIN events /\ new[i] = events[i + gone]
  <2> SUFFICES ASSUME NEW i \in 1 .. L - gone
               PROVE  i + gone \in DOMAIN events /\ new[i] = events[i + gone]
    OBVIOUS
  <2>1. i \in 1 .. L + 1 - gone /\ i + gone \in 1 .. L
    OBVIOUS
  <2> QED
    BY <1>2, <1>3, <1>5, <1>8, <2>1
<1>10. new[L + 1 - gone] = e
  <2>1. L + 1 - gone \in 1 .. L + 1 - gone /\ L + 1 - gone + gone = L + 1
    BY <1>2, <1>4, <1>8
  <2> QED
    BY <1>5, <1>8, <2>1
<1>11. Grown(events, s, k) = new /\ L + 1 - gone \in Nat
  BY DEF Grown, new, q, e
<1> QED
  BY <1>2, <1>3, <1>4, <1>8, <1>9, <1>10, <1>11 DEF e

LEMMA ChronicleGrows ==
  ASSUME NEW k \in Nat, NEW s \in Nat, NEW events \in Seq(Event), Chronicle(events, s, k)
  PROVE  /\ Grown(events, s, k) \in Seq(Event)
         /\ Chronicle(Grown(events, s, k), s + 1, k + 1)
<1> DEFINE new == Grown(events, s, k)
<1>1. PICK gone \in {0, 1}, L \in Nat :
        /\ L = Len(events) /\ DOMAIN events = 1 .. L /\ L + 1 - gone \in Nat
        /\ gone = 1 <=> L = MaxEvents
        /\ L = IF s < MaxEvents THEN s ELSE MaxEvents
        /\ new \in Seq(Event) /\ Len(new) = L + 1 - gone
        /\ DOMAIN new = 1 .. L + 1 - gone
        /\ \A i \in 1 .. L - gone : i + gone \in DOMAIN events /\ new[i] = events[i + gone]
        /\ new[L + 1 - gone] = [id |-> s + 1, n |-> k + 1]
  BY GrownFacts
<1> HIDE DEF new
<1>2. MaxEvents \in Nat /\ MaxEvents >= 1
  BY LimitFacts
<1>3. /\ \A i \in 1 .. L : events[i].id = s - L + i /\ events[i].n >= 1 /\ events[i].n <= k
      /\ \A i, j \in 1 .. L : i < j => events[i].n < events[j].n
      /\ \A i \in 1 .. L : events[i].n \in Nat
  BY <1>1, EventFacts DEF Chronicle
<1>4. \A i \in 1 .. L + 1 - gone : i \in 1 .. L - gone \/ i = L + 1 - gone
  OBVIOUS
<1>5. \A i \in 1 .. L - gone : i + gone \in 1 .. L /\ new[i] = events[i + gone]
  BY <1>1
<1>6. L + 1 - gone = IF s + 1 < MaxEvents THEN s + 1 ELSE MaxEvents
  BY <1>1, <1>2
<1>7. \A i \in DOMAIN new :
        new[i].id = s + 1 - Len(new) + i /\ new[i].n >= 1 /\ new[i].n <= k + 1
  <2> SUFFICES ASSUME NEW i \in 1 .. L + 1 - gone
               PROVE  new[i].id = s + 1 - (L + 1 - gone) + i /\ new[i].n >= 1 /\ new[i].n <= k + 1
    BY <1>1
  <2>1. CASE i \in 1 .. L - gone
    <3>1. i + gone \in 1 .. L /\ new[i] = events[i + gone]
      BY <1>5, <2>1
    <3>2. events[i + gone].id = s - L + (i + gone) /\ events[i + gone].n >= 1
          /\ events[i + gone].n <= k /\ events[i + gone].n \in Nat
      BY <1>3, <3>1
    <3>3. s + 1 - (L + 1 - gone) + i = s - L + (i + gone)
      OBVIOUS
    <3> QED
      BY <3>1, <3>2, <3>3
  <2>2. CASE i = L + 1 - gone
    BY <1>1, <2>2
  <2> QED
    BY <1>4, <2>1, <2>2
<1>8. \A i, j \in DOMAIN new : i < j => new[i].n < new[j].n
  <2> SUFFICES ASSUME NEW i \in 1 .. L + 1 - gone, NEW j \in 1 .. L + 1 - gone, i < j
               PROVE  new[i].n < new[j].n
    BY <1>1
  <2>1. i \in 1 .. L - gone
    OBVIOUS
  <2>2. i + gone \in 1 .. L /\ new[i] = events[i + gone]
    BY <1>5, <2>1
  <2>3. CASE j \in 1 .. L - gone
    <3>1. j + gone \in 1 .. L /\ new[j] = events[j + gone] /\ i + gone < j + gone
      BY <1>5, <2>3
    <3> QED
      BY <1>3, <2>2, <3>1
  <2>4. CASE j = L + 1 - gone
    <3>1. new[j].n = k + 1 /\ events[i + gone].n <= k /\ events[i + gone].n \in Nat
      BY <1>1, <1>3, <2>2, <2>4
    <3> QED
      BY <2>2, <3>1
  <2> QED
    BY <1>4, <2>3, <2>4
<1>9. Chronicle(new, s + 1, k + 1)
  BY <1>1, <1>6, <1>7, <1>8 DEF Chronicle
<1> QED
  BY <1>1, <1>9 DEF new

LEMMA ChronicleLater ==
  ASSUME NEW k \in Nat, NEW s \in Nat, NEW events \in Seq(Event), Chronicle(events, s, k)
  PROVE  Chronicle(events, s, k + 1)
<1>1. \A i \in DOMAIN events : events[i].n \in Nat
  BY EventFacts
<1> QED
  BY <1>1 DEF Chronicle

\* In front of the new event there are only events there were before it.
LEMMA GrownElements ==
  ASSUME NEW k \in Nat, NEW s \in Nat, NEW events \in Seq(Event), Chronicle(events, s, k)
  PROVE  LET new == Grown(events, s, k)
         IN /\ \A j \in DOMAIN new : \/ \E i \in DOMAIN events : new[j] = events[i]
                                     \/ new[j] = [id |-> s + 1, n |-> k + 1]
            /\ \A i \in DOMAIN events :
                 \/ \E j \in DOMAIN new : new[j] = events[i]
                 \/ /\ Len(events) = MaxEvents /\ i = 1 /\ 1 \in DOMAIN new
                    /\ \A j \in DOMAIN new : new[j].n > events[1].n
                    /\ new[1].id = events[1].id + 1
            /\ \E j \in DOMAIN new : new[j] = [id |-> s + 1, n |-> k + 1]
            /\ 1 \in DOMAIN new
            /\ events # <<>> => new[1].id >= events[1].id
            /\ Len(events) = MaxEvents => Len(new) = MaxEvents
<1> DEFINE new == Grown(events, s, k)
<1>1. PICK gone \in {0, 1}, L \in Nat :
        /\ L = Len(events) /\ DOMAIN events = 1 .. L /\ L + 1 - gone \in Nat
        /\ gone = 1 <=> L = MaxEvents
        /\ L = IF s < MaxEvents THEN s ELSE MaxEvents
        /\ new \in Seq(Event) /\ Len(new) = L + 1 - gone
        /\ DOMAIN new = 1 .. L + 1 - gone
        /\ \A i \in 1 .. L - gone : i + gone \in DOMAIN events /\ new[i] = events[i + gone]
        /\ new[L + 1 - gone] = [id |-> s + 1, n |-> k + 1]
  BY GrownFacts
<1>2. MaxEvents \in Nat /\ MaxEvents >= 1
  BY LimitFacts
<1>3. Chronicle(new, s + 1, k + 1)
  BY ChronicleGrows
<1> HIDE DEF new
<1>4. 1 \in DOMAIN new /\ L + 1 - gone \in DOMAIN new
  BY <1>1, <1>2
<1>5. /\ \A i \in 1 .. L : events[i].id = s - L + i /\ events[i].n \in Nat /\ events[i].n <= k
      /\ \A i, j \in 1 .. L : i < j => events[i].n < events[j].n
  BY <1>1, EventFacts DEF Chronicle
<1>6. new[1].id = s + 1 - (L + 1 - gone) + 1
  <2>1. new[1].id = s + 1 - Len(new) + 1
    BY <1>3, <1>4 DEF Chronicle
  <2> QED
    BY <1>1, <2>1
<1>7. \A j \in DOMAIN new : \/ \E i \in DOMAIN events : new[j] = events[i]
                            \/ new[j] = [id |-> s + 1, n |-> k + 1]
  <2> SUFFICES ASSUME NEW j \in 1 .. L + 1 - gone
               PROVE  \/ \E i \in DOMAIN events : new[j] = events[i]
                      \/ new[j] = [id |-> s + 1, n |-> k + 1]
    BY <1>1
  <2>1. j \in 1 .. L - gone \/ j = L + 1 - gone
    OBVIOUS
  <2> QED
    BY <1>1, <2>1
<1>8. ASSUME NEW i \in DOMAIN events
      PROVE  \/ \E j \in DOMAIN new : new[j] = events[i]
             \/ /\ Len(events) = MaxEvents /\ i = 1 /\ 1 \in DOMAIN new
                /\ \A j \in DOMAIN new : new[j].n > events[1].n
                /\ new[1].id = events[1].id + 1
  <2>0. i \in 1 .. L
    BY <1>1
  <2>1. CASE i > gone
    <3>1. i - gone \in 1 .. L - gone /\ i - gone \in 1 .. L + 1 - gone /\ i - gone + gone = i
      BY <2>0, <2>1
    <3>2. new[i - gone] = events[i]
      BY <1>1, <3>1
    <3> QED
      BY <1>1, <3>1, <3>2
  <2>2. CASE ~(i > gone)
    <3>1. gone = 1 /\ i = 1 /\ L = MaxEvents
      BY <1>1, <2>0, <2>2
    <3>2. ASSUME NEW j \in DOMAIN new
          PROVE  new[j].n > events[1].n
      <4>1. j \in 1 .. L - gone \/ j = L + 1 - gone
        BY <1>1
      <4>2. CASE j \in 1 .. L - gone
        <5>1. j + gone \in 1 .. L /\ new[j] = events[j + gone] /\ 1 < j + gone
          BY <1>1, <3>1, <4>2
        <5>2. events[1].n < events[j + gone].n /\ events[1].n \in Nat /\ events[j + gone].n \in Nat
          BY <1>5, <2>0, <3>1, <5>1
        <5> QED
          BY <5>1, <5>2
      <4>3. CASE j = L + 1 - gone
        <5>1. new[j].n = k + 1 /\ events[1].n \in Nat /\ events[1].n <= k
          BY <1>1, <1>5, <2>0, <3>1, <4>3
        <5> QED
          BY <5>1
      <4> QED
        BY <4>1, <4>2, <4>3
    <3>3. events[1].id = s - L + 1
      BY <1>5, <2>0, <3>1
    <3>4. new[1].id = events[1].id + 1
      BY <1>6, <3>1, <3>3
    <3> QED
      BY <1>1, <1>4, <3>1, <3>2, <3>4
  <2> QED
    BY <2>1, <2>2
<1>9. events # <<>> => new[1].id >= events[1].id
  <2> SUFFICES ASSUME events # <<>> PROVE new[1].id >= events[1].id
    OBVIOUS
  <2>1. L # 0
    BY <1>1, EmptySeq
  <2>2. events[1].id = s - L + 1
    BY <1>5, <2>1
  <2> QED
    BY <1>6, <2>2
<1>10. Len(events) = MaxEvents => Len(new) = MaxEvents
  BY <1>1, <1>2
<1> QED
  BY <1>1, <1>4, <1>7, <1>8, <1>9, <1>10 DEF new

\* What a reader will be told of it is told of, too, when the history has grown.
LEMMA OwesGrows ==
  ASSUME NEW k \in Nat, NEW s \in Nat, NEW events \in Seq(Event), Chronicle(events, s, k),
         NEW c \in Nat, NEW n \in 1 .. k, Owes(events, c, n)
  PROVE  Owes(Grown(events, s, k), c, n)
<1> DEFINE new == Grown(events, s, k)
<1>1. /\ \A j \in DOMAIN new : \/ \E i \in DOMAIN events : new[j] = events[i]
                               \/ new[j] = [id |-> s + 1, n |-> k + 1]
      /\ \A i \in DOMAIN events :
           \/ \E j \in DOMAIN new : new[j] = events[i]
           \/ /\ Len(events) = MaxEvents /\ i = 1 /\ 1 \in DOMAIN new
              /\ \A j \in DOMAIN new : new[j].n > events[1].n
              /\ new[1].id = events[1].id + 1
      /\ 1 \in DOMAIN new
      /\ events # <<>> => new[1].id >= events[1].id
  BY GrownElements
<1>2. new \in Seq(Event)
  BY ChronicleGrows
<1> HIDE DEF new
<1>3. new # <<>> /\ new[1].id \in Nat
  <2>1. DOMAIN new = 1 .. Len(new) /\ new[1].id \in Nat /\ Len(new) \in Nat
    BY <1>1, <1>2, EventFacts
  <2>2. Len(new) # 0
    BY <1>1, <2>1
  <2> QED
    BY <1>2, <2>1, <2>2, EmptySeq
<1>4. CASE \E i \in DOMAIN events : events[i].n = n /\ events[i].id > c
  <2>1. PICK i \in DOMAIN events : events[i].n = n /\ events[i].id > c
    BY <1>4
  <2>2. CASE \E j \in DOMAIN new : new[j] = events[i]
    BY <2>1, <2>2 DEF Owes, new
  <2>3. CASE ~\E j \in DOMAIN new : new[j] = events[i]
    <3>1. i = 1 /\ (\A j \in DOMAIN new : new[j].n > events[1].n)
          /\ new[1].id = events[1].id + 1
      BY <1>1, <2>1, <2>3
    <3>2. events[1].id \in Nat /\ events[1].id > c /\ events[1].n = n
      BY <2>1, <3>1, EventFacts
    <3>3. c < new[1].id - 1
      BY <3>1, <3>2
    <3>4. \A j \in DOMAIN new : new[j].n > n
      BY <3>1, <3>2
    <3> QED
      BY <1>3, <3>3, <3>4 DEF Owes, new
  <2> QED
    BY <2>2, <2>3
<1>5. CASE /\ c = 0 \/ (events # <<>> /\ c < events[1].id - 1)
           /\ \A i \in DOMAIN events : events[i].n > n
  <2>1. \A j \in DOMAIN new : new[j].n > n
    <3> SUFFICES ASSUME NEW j \in DOMAIN new PROVE new[j].n > n
      OBVIOUS
    <3>1. CASE \E i \in DOMAIN events : new[j] = events[i]
      BY <1>5, <3>1
    <3>2. CASE new[j] = [id |-> s + 1, n |-> k + 1]
      <4>1. new[j].n = k + 1
        BY <3>2
      <4> QED
        BY <4>1
    <3> QED
      BY <1>1, <3>1, <3>2
  <2>2. c = 0 \/ c < new[1].id - 1
    <3>1. CASE events # <<>> /\ c < events[1].id - 1
      <4>1. 1 \in DOMAIN events
        BY <3>1, EventFacts, EmptySeq
      <4>2. events[1].id \in Nat /\ new[1].id >= events[1].id
        BY <1>1, <3>1, <4>1, EventFacts
      <4> QED
        BY <1>3, <3>1, <4>2
    <3> QED
      BY <1>5, <3>1
  <2> QED
    BY <1>3, <2>1, <2>2 DEF Owes, new
<1> QED
  BY <1>4, <1>5 DEF Owes

LEMMA OwesNew ==
  ASSUME NEW k \in Nat, NEW s \in Nat, NEW events \in Seq(Event), Chronicle(events, s, k),
         NEW c \in Nat, c <= s
  PROVE  Owes(Grown(events, s, k), c, k + 1)
<1> DEFINE new == Grown(events, s, k)
<1>1. PICK j \in DOMAIN new : new[j] = [id |-> s + 1, n |-> k + 1]
  BY GrownElements
<1> HIDE DEF new
<1>2. new[j].n = k + 1 /\ new[j].id > c
  BY <1>1
<1> QED
  BY <1>2 DEF Owes, new

LEMMA DisplacedFacts ==
  ASSUME NEW events \in Seq(Event), NEW n
  PROVE  Displaced(n, events) <=>
           \/ \E i \in DOMAIN events : events[i].n = n
           \/ Len(events) = MaxEvents /\ \A i \in DOMAIN events : events[i].n > n
<1>1. DOMAIN events = 1 .. Len(events)
  BY EventFacts
<1>2. n \in Numbers(events) <=> \E i \in DOMAIN events : events[i].n = n
  BY <1>1 DEF Numbers
<1>3. (\A e \in ToSet(events) : e.n > n) <=> \A i \in DOMAIN events : events[i].n > n
  BY DEF ToSet
<1> QED
  BY <1>2, <1>3 DEF Displaced

LEMMA DisplacedGrows ==
  ASSUME NEW k \in Nat, NEW s \in Nat, NEW events \in Seq(Event), Chronicle(events, s, k)
  PROVE  /\ \A n \in 1 .. k : Displaced(n, events) => Displaced(n, Grown(events, s, k))
         /\ Displaced(k + 1, Grown(events, s, k))
<1> DEFINE new == Grown(events, s, k)
<1>1. /\ \A j \in DOMAIN new : \/ \E i \in DOMAIN events : new[j] = events[i]
                               \/ new[j] = [id |-> s + 1, n |-> k + 1]
      /\ \A i \in DOMAIN events :
           \/ \E j \in DOMAIN new : new[j] = events[i]
           \/ /\ Len(events) = MaxEvents /\ i = 1 /\ 1 \in DOMAIN new
              /\ \A j \in DOMAIN new : new[j].n > events[1].n
              /\ new[1].id = events[1].id + 1
      /\ \E j \in DOMAIN new : new[j] = [id |-> s + 1, n |-> k + 1]
      /\ Len(events) = MaxEvents => Len(new) = MaxEvents
  BY GrownElements
<1>2. new \in Seq(Event)
  BY ChronicleGrows
<1> HIDE DEF new
<1>3. ASSUME NEW n \in 1 .. k, Displaced(n, events)
      PROVE  Displaced(n, new)
  <2>1. CASE \E i \in DOMAIN events : events[i].n = n
    <3>1. PICK i \in DOMAIN events : events[i].n = n
      BY <2>1
    <3>2. \/ \E j \in DOMAIN new : new[j].n = n
          \/ Len(new) = MaxEvents /\ \A j \in DOMAIN new : new[j].n > n
      BY <1>1, <3>1
    <3> QED
      BY <1>2, <3>2, DisplacedFacts
  <2>2. CASE Len(events) = MaxEvents /\ \A i \in DOMAIN events : events[i].n > n
    <3>1. ASSUME NEW j \in DOMAIN new PROVE new[j].n > n
      <4>1. CASE \E i \in DOMAIN events : new[j] = events[i]
        BY <2>2, <4>1
      <4>2. CASE new[j] = [id |-> s + 1, n |-> k + 1]
        <5>1. new[j].n = k + 1
          BY <4>2
        <5> QED
          BY <5>1
      <4> QED
        BY <1>1, <4>1, <4>2
    <3>2. Len(new) = MaxEvents
      BY <1>1, <2>2
    <3> QED
      BY <1>2, <3>1, <3>2, DisplacedFacts
  <2> QED
    BY <1>3, <2>1, <2>2, DisplacedFacts
<1>4. Displaced(k + 1, new)
  <2>1. \E j \in DOMAIN new : new[j].n = k + 1
    BY <1>1
  <2> QED
    BY <1>2, <2>1, DisplacedFacts
<1> QED
  BY <1>3, <1>4 DEF new

\* The file g is left with after a checkpoint: the one there was, or what is in memory.
Checkpointed(h, g) ==
  /\ g \in Health /\ g.events = h.events /\ g.sequence = h.sequence
  /\ g.file = h.file \/ g.file = [events |-> h.events, sequence |-> h.sequence]

LEMMA CheckpointFacts ==
  ASSUME NEW h \in Health, NEW force \in BOOLEAN, NEW works \in BOOLEAN
  PROVE  /\ Checkpointed(h, Checkpoint(h, force, works))
         /\ force /\ works => Checkpoint(h, force, works).file
                                = [events |-> h.events, sequence |-> h.sequence]
<1> DEFINE S == Seq(Event)
<1>1. 0 \in 0 .. Changes
  BY LimitFacts
<1>2. h \in [events : S, sequence : Nat, dirty : 0 .. Changes, file : [events : S, sequence : Nat]]
  BY DEF Health, Story
<1> HIDE DEF S
<1> DEFINE g == Checkpoint(h, force, works)
<1>3. /\ g \in [events : S, sequence : Nat, dirty : 0 .. Changes,
                file : [events : S, sequence : Nat]]
      /\ g.events = h.events /\ g.sequence = h.sequence
      /\ g.file = h.file \/ g.file = [events |-> h.events, sequence |-> h.sequence]
      /\ force /\ works => g.file = [events |-> h.events, sequence |-> h.sequence]
  BY <1>1, <1>2 DEF Checkpoint
<1>4. g \in Health
  BY <1>3 DEF Health, Story, S
<1> HIDE DEF g
<1> QED
  BY <1>3, <1>4 DEF Checkpointed, g

LEMMA CheckpointKeeps ==
  ASSUME NEW h, NEW g, NEW k \in Nat, Authentic(h, k), Checkpointed(h, g)
  PROVE  /\ Authentic(g, k)
         /\ Follows(h) => Follows(g)
         /\ \A c, o : Owing(h, c, o) => Owing(g, c, o)
         /\ \A f : Known(h, f) => Known(g, f) /\ (OnFile(h, f) => OnFile(g, f))
<1> DEFINE snapshot == [events |-> h.events, sequence |-> h.sequence]
<1>1. /\ g \in Health /\ g.events = h.events /\ g.sequence = h.sequence
      /\ g.file = h.file \/ g.file = snapshot
      /\ snapshot.events = h.events /\ snapshot.sequence = h.sequence
  BY DEF Checkpointed
<1>2. /\ Chronicle(h.events, h.sequence, k) /\ Chronicle(h.file.events, h.file.sequence, k)
      /\ h.events \in Seq(Event) /\ h.sequence \in Nat
  BY DEF Authentic, Health
<1> HIDE DEF snapshot
<1>3. Authentic(g, k)
  BY <1>1, <1>2 DEF Authentic
<1>4. ASSUME Follows(h) PROVE Follows(g)
  <2>1. CASE g.file = h.file
    BY <1>1, <1>4, <2>1 DEF Follows
  <2>2. CASE g.file = snapshot
    <3>1. ASSUME NEW i \in DOMAIN h.events PROVE h.events[i].id <= h.sequence
      <4>1. h.events[i].id = h.sequence - Len(h.events) + i
            /\ i \in 1 .. Len(h.events) /\ Len(h.events) \in Nat
        BY <1>2, EventFacts DEF Chronicle
      <4> QED
        BY <1>2, <4>1
    <3> QED
      BY <1>1, <1>2, <2>2, <3>1 DEF Follows
  <2> QED
    BY <1>1, <2>1, <2>2
<1>5. ASSUME NEW c, NEW o, Owing(h, c, o) PROVE Owing(g, c, o)
  BY <1>1, <1>5 DEF Owing
<1>6. ASSUME NEW f, Known(h, f) PROVE Known(g, f) /\ (OnFile(h, f) => OnFile(g, f))
  BY <1>1, <1>6 DEF Known, OnFile
<1> QED
  BY <1>3, <1>4, <1>5, <1>6

\* h, and an event more
Added(h, k) ==
  [h EXCEPT !.sequence = @ + 1, !.events = Newest(Append(@, [id |-> h.sequence + 1, n |-> k + 1]))]

LEMMA AddedKeeps ==
  ASSUME NEW h, NEW k \in Nat, Authentic(h, k)
  PROVE  /\ Authentic(Added(h, k), k + 1)
         /\ Follows(h) => Follows(Added(h, k))
         /\ \A c \in Nat, o \in SUBSET (1 .. k) :
              Owing(h, c, o) => Owing(Added(h, k), c, o \cup {k + 1})
         /\ \A f \in SUBSET (1 .. k) :
              Known(h, f) => Known(Added(h, k), f \cup {k + 1})
         /\ Added(h, k).file = h.file
<1> DEFINE g == Added(h, k)
<1> DEFINE new == Grown(h.events, h.sequence, k)
<1>1. /\ h \in Health /\ h.events \in Seq(Event) /\ h.sequence \in Nat
      /\ h.file.events \in Seq(Event) /\ h.file.sequence \in Nat
      /\ Chronicle(h.events, h.sequence, k) /\ Chronicle(h.file.events, h.file.sequence, k)
  BY DEF Authentic, Health, Story
<1>2. new \in Seq(Event) /\ Chronicle(new, h.sequence + 1, k + 1)
  BY <1>1, ChronicleGrows
<1>3. g = [h EXCEPT !.sequence = @ + 1, !.events = new]
  BY DEF Added, Grown
<1> HIDE DEF g, new
<1>4. g \in Health /\ g.events = new /\ g.sequence = h.sequence + 1 /\ g.file = h.file
  <2> DEFINE S == Seq(Event)
  <2>1. h \in [events : S, sequence : Nat, dirty : 0 .. Changes, file : Story] /\ new \in S
    BY <1>1, <1>2 DEF Health
  <2> HIDE DEF S
  <2>2. /\ g \in [events : S, sequence : Nat, dirty : 0 .. Changes, file : Story]
        /\ g.events = new /\ g.sequence = h.sequence + 1 /\ g.file = h.file
    <3>1. PICK m \in Nat : m = h.sequence + 1
      BY <2>1
    <3>2. g = [h EXCEPT !.sequence = m, !.events = new]
      BY <1>3, <3>1
    <3>3. g \in [events : S, sequence : Nat, dirty : 0 .. Changes, file : Story]
      BY <2>1, <3>2
    <3>4. g.events = new /\ g.sequence = m /\ g.file = h.file
      BY <2>1, <3>2
    <3> QED
      BY <3>1, <3>3, <3>4
  <2> QED
    BY <2>2 DEF Health, S
<1>5. Authentic(g, k + 1)
  <2>1. Chronicle(g.file.events, g.file.sequence, k + 1)
    BY <1>1, <1>4, ChronicleLater
  <2> QED
    BY <1>2, <1>4, <2>1 DEF Authentic
<1>6. \A i \in DOMAIN h.file.events : h.file.events[i].n < k + 1
  <2>1. \A i \in DOMAIN h.file.events : h.file.events[i].n \in Nat /\ h.file.events[i].n <= k
    BY <1>1, EventFacts DEF Chronicle
  <2> QED
    BY <2>1
<1>7. ASSUME Follows(h) PROVE Follows(g)
  <2>1. g.file.sequence <= g.sequence
    BY <1>1, <1>4, <1>7 DEF Follows
  <2>2. ASSUME NEW j \in DOMAIN new
        PROVE  IF new[j].id <= h.file.sequence
               THEN \E i \in DOMAIN h.file.events : h.file.events[i] = new[j]
               ELSE \A i \in DOMAIN h.file.events : h.file.events[i].n < new[j].n
    <3>1. \/ \E i \in DOMAIN h.events : new[j] = h.events[i]
          \/ new[j] = [id |-> h.sequence + 1, n |-> k + 1]
      BY <1>1, <2>2, GrownElements DEF new
    <3>2. CASE \E i \in DOMAIN h.events : new[j] = h.events[i]
      BY <1>7, <3>2 DEF Follows
    <3>3. CASE new[j] = [id |-> h.sequence + 1, n |-> k + 1]
      <4>1. new[j].n = k + 1 /\ new[j].id = h.sequence + 1 /\ h.file.sequence <= h.sequence
        BY <1>7, <3>3 DEF Follows
      <4>2. ~(new[j].id <= h.file.sequence)
        BY <1>1, <4>1
      <4> QED
        BY <1>6, <4>1, <4>2
    <3> QED
      BY <3>1, <3>2, <3>3
  <2> QED
    BY <1>4, <2>1, <2>2 DEF Follows
<1>8. ASSUME NEW c \in Nat, NEW o \in SUBSET (1 .. k), Owing(h, c, o)
      PROVE  Owing(g, c, o \cup {k + 1})
  <2>1. c <= h.sequence /\ c <= g.sequence
    BY <1>1, <1>4, <1>8 DEF Owing
  <2>2. \A n \in o : Owes(new, c, n)
    BY <1>1, <1>8, OwesGrows DEF Owing, new
  <2>3. Owes(new, c, k + 1)
    BY <1>1, <2>1, OwesNew DEF new
  <2>4. Later(h.file.events, k + 1)
    BY <1>6 DEF Later
  <2> QED
    BY <1>4, <1>8, <2>1, <2>2, <2>3, <2>4 DEF Owing
<1>9. ASSUME NEW f \in SUBSET (1 .. k), Known(h, f)
      PROVE  Known(g, f \cup {k + 1})
  <2>1. (\A n \in f : Displaced(n, new)) /\ Displaced(k + 1, new)
    BY <1>1, <1>9, DisplacedGrows DEF Known, new
  <2> QED
    BY <1>4, <2>1 DEF Known
<1> QED
  BY <1>4, <1>5, <1>7, <1>8, <1>9 DEF g

\* A counter changes: only the count of the changes does.
LEMMA DirtyFacts ==
  ASSUME NEW h, NEW k \in Nat, Authentic(h, k)
  PROVE  /\ Authentic(Dirty(h), k)
         /\ Dirty(h).events = h.events /\ Dirty(h).sequence = h.sequence
         /\ Dirty(h).file = h.file
<1> DEFINE S == Seq(Event)
<1> DEFINE g == Dirty(h)
<1>1. h \in [events : S, sequence : Nat, dirty : 0 .. Changes, file : Story] /\ Changes \in Nat
  BY LimitFacts DEF Authentic, Health
<1> HIDE DEF S
<1>2. /\ g \in [events : S, sequence : Nat, dirty : 0 .. Changes, file : Story]
      /\ g.events = h.events /\ g.sequence = h.sequence /\ g.file = h.file
  BY <1>1 DEF Dirty
<1>3. g \in Health
  BY <1>2 DEF Health, S
<1> HIDE DEF g
<1>4. Authentic(g, k)
  BY <1>2, <1>3 DEF Authentic
<1> QED
  BY <1>2, <1>4 DEF g

\* What holds of the history while the device runs, of the reader and of the forced events
Kept(h, k, c, o, f, follows, follow, durable) ==
  /\ Authentic(h, k)
  /\ follows => Follows(h)
  /\ follow => Owing(h, c, o)
  /\ durable => OnFile(h, f) /\ Known(h, f)

LEMMA IncrementKeeps ==
  ASSUME NEW h, NEW k \in Nat, NEW c, NEW o, NEW f,
         NEW follows \in BOOLEAN, NEW follow \in BOOLEAN, NEW durable \in BOOLEAN,
         Kept(h, k, c, o, f, follows, follow, durable), NEW works \in BOOLEAN
  PROVE  Kept(Increment(h, works), k, c, o, f, follows, follow, durable)
<1> DEFINE d == Dirty(h)
<1> DEFINE g == Checkpoint(d, FALSE, works)
<1>1. /\ Authentic(d, k) /\ d.events = h.events /\ d.sequence = h.sequence /\ d.file = h.file
      /\ d \in Health
  BY DirtyFacts DEF Kept, Authentic
<1> HIDE DEF d
<1>2. /\ follows => Follows(d)
      /\ follow => Owing(d, c, o)
      /\ durable => OnFile(d, f) /\ Known(d, f)
  BY <1>1 DEF Kept, Follows, Owing, OnFile, Known
<1>3. Checkpointed(d, g)
  BY <1>1, CheckpointFacts
<1> HIDE DEF g
<1>4. Kept(g, k, c, o, f, follows, follow, durable)
  BY <1>1, <1>2, <1>3, CheckpointKeeps DEF Kept
<1> QED
  BY <1>4 DEF Increment, g, d

LEMMA RecordKeeps ==
  ASSUME NEW h, NEW k \in Nat, NEW c \in Nat,
         NEW o \in SUBSET (1 .. k), NEW f \in SUBSET (1 .. k),
         NEW follows \in BOOLEAN, NEW follow \in BOOLEAN, NEW durable \in BOOLEAN,
         Kept(h, k, c, o, f, follows, follow, durable),
         NEW force \in BOOLEAN, NEW works \in BOOLEAN,
         NEW m, m = k + 1, NEW owing, owing = o \cup {m},
         NEW kept, kept = IF force /\ works THEN f \cup {m} ELSE f
  PROVE  Kept(Record(h, m, force, works), m, c, owing, kept, follows, follow, durable)
<1> DEFINE d == Dirty(h)
<1> DEFINE a == Added(d, k)
<1> DEFINE g == Checkpoint(a, force, works)
<1>1. /\ Authentic(d, k) /\ d.events = h.events /\ d.sequence = h.sequence /\ d.file = h.file
  BY DirtyFacts DEF Kept
<1>2. Record(h, m, force, works) = g
  BY <1>1 DEF Record, Added
<1> HIDE DEF d
<1>3. /\ follows => Follows(d)
      /\ follow => Owing(d, c, o)
      /\ durable => OnFile(d, f) /\ Known(d, f)
  BY <1>1 DEF Kept, Follows, Owing, OnFile, Known
<1>4. /\ Authentic(a, k + 1)
      /\ follows => Follows(a)
      /\ follow => Owing(a, c, o \cup {k + 1})
      /\ durable => Known(a, f \cup {k + 1})
      /\ a.file = d.file
  BY <1>1, <1>3, AddedKeeps
<1> HIDE DEF a
<1>5. a \in Health /\ k + 1 \in Nat
  BY <1>4 DEF Authentic
<1>6. /\ Checkpointed(a, g)
      /\ force /\ works => g.file = [events |-> a.events, sequence |-> a.sequence]
  BY <1>5, CheckpointFacts
<1> HIDE DEF g
<1>7. /\ Authentic(g, k + 1)
      /\ follows => Follows(g)
      /\ follow => Owing(g, c, o \cup {k + 1})
      /\ durable => Known(g, f \cup {k + 1})
  BY <1>4, <1>5, <1>6, CheckpointKeeps
<1>8. ASSUME durable, force, works PROVE OnFile(g, f \cup {k + 1})
  <2>1. g.file.events = a.events
    BY <1>6, <1>8
  <2> QED
    BY <1>4, <1>8, <2>1 DEF Known, OnFile
<1>9. ASSUME durable PROVE OnFile(g, f) /\ Known(g, f)
  <2>1. OnFile(a, f) /\ Known(a, f)
    BY <1>3, <1>4, <1>9 DEF OnFile, Known
  <2> QED
    BY <1>4, <1>5, <1>6, <2>1, CheckpointKeeps
<1> QED
  BY <1>2, <1>7, <1>8, <1>9 DEF Kept

\* What holds of the file while the device is down
Asleep(saved, k, c, o, f, follow, durable) ==
  /\ saved \in Story /\ Chronicle(saved.events, saved.sequence, k)
  /\ follow => c <= saved.sequence /\ \A n \in o : Owes(saved.events, c, n)
  /\ durable => \A n \in f : Displaced(n, saved.events)

\* The history starts from its file.
LEMMA LoadedFacts ==
  ASSUME NEW saved, NEW k \in Nat, NEW c, NEW o, NEW f,
         NEW follows \in BOOLEAN, NEW follow \in BOOLEAN, NEW durable \in BOOLEAN,
         Asleep(saved, k, c, o, f, follow, durable)
  PROVE  Kept(Loaded(saved), k, c, o, f, follows, follow, durable)
<1> DEFINE h == Loaded(saved)
<1> DEFINE S == Seq(Event)
<1>1. /\ saved \in Story /\ saved.events \in Seq(Event) /\ saved.sequence \in Nat
      /\ Chronicle(saved.events, saved.sequence, k)
  BY DEF Asleep, Story
<1>2. Len(saved.events) \in Nat /\ MaxEvents \in Nat /\ 0 \in 0 .. Changes
  BY <1>1, EventFacts, LimitFacts
<1>3. ~(Len(saved.events) > MaxEvents)
  BY <1>1, <1>2 DEF Chronicle
<1>4. h = [events |-> saved.events, sequence |-> saved.sequence, dirty |-> 0, file |-> saved]
  BY <1>3 DEF Loaded, Newest
<1>5. saved.events \in S
  BY <1>1
<1> HIDE DEF S, h
<1>6. /\ h \in [events : S, sequence : Nat, dirty : 0 .. Changes, file : Story]
      /\ h.events = saved.events /\ h.sequence = saved.sequence /\ h.file = saved
  BY <1>1, <1>2, <1>4, <1>5
<1>7. h \in Health
  BY <1>6 DEF Health, S
<1>8. Authentic(h, k)
  BY <1>1, <1>6, <1>7 DEF Authentic
<1>9. Follows(h)
  <2>1. ASSUME NEW i \in DOMAIN saved.events PROVE saved.events[i].id <= saved.sequence
    <3>1. saved.events[i].id = saved.sequence - Len(saved.events) + i
          /\ i \in 1 .. Len(saved.events)
      BY <1>1, EventFacts DEF Chronicle
    <3> QED
      BY <1>1, <1>2, <3>1
  <2> QED
    BY <1>1, <1>6, <2>1 DEF Follows
<1>10. follow => Owing(h, c, o)
  BY <1>6 DEF Asleep, Owing
<1>11. durable => OnFile(h, f) /\ Known(h, f)
  BY <1>6 DEF Asleep, OnFile, Known
<1> QED
  BY <1>8, <1>9, <1>10, <1>11 DEF Kept, h

LEMMA BootKeeps ==
  ASSUME NEW saved, NEW k \in Nat, NEW c \in Nat,
         NEW o \in SUBSET (1 .. k), NEW f \in SUBSET (1 .. k),
         NEW follows \in BOOLEAN, NEW follow \in BOOLEAN, NEW durable \in BOOLEAN,
         Asleep(saved, k, c, o, f, follow, durable), NEW works \in BOOLEAN,
         NEW m, m = k + 1, NEW owing, owing = o \cup {m},
         NEW kept, kept = IF works THEN f \cup {m} ELSE f
  PROVE  Kept(RecordBoot(Loaded(saved), m, works), m, c, owing, kept,
              follows, follow, durable)
<1> DEFINE a == Loaded(saved)
<1> DEFINE b == Increment(a, works)
<1> DEFINE d == Increment(b, works)
<1>1. Kept(a, k, c, o, f, follows, follow, durable)
  BY LoadedFacts
<1> HIDE DEF a
<1>2. Kept(b, k, c, o, f, follows, follow, durable)
  BY <1>1, IncrementKeeps
<1> HIDE DEF b
<1>3. Kept(d, k, c, o, f, follows, follow, durable)
  BY <1>2, IncrementKeeps
<1>4. RecordBoot(a, m, works) = Record(d, m, TRUE, works)
  BY DEF RecordBoot, b
<1> HIDE DEF d
<1>5. PICK force \in BOOLEAN : force = TRUE
  OBVIOUS
<1>6. kept = IF force /\ works THEN f \cup {m} ELSE f
  BY <1>5
<1>7. Kept(Record(d, m, force, works), m, c, owing, kept, follows, follow, durable)
  BY <1>3, <1>6, RecordKeeps
<1> QED
  BY <1>4, <1>5, <1>7 DEF a

\* The page is the run of events that comes after the cursor: the p events after the d-th.
IsPage(page, events, s, c, L, d, p) ==
  /\ L = Len(events) /\ DOMAIN events = 1 .. L /\ L <= s /\ d + p <= L
  /\ \A i \in 1 .. L : events[i].id = s - L + i
  /\ \A i \in 1 .. L : events[i].id > c <=> i > d
  /\ Len(page) = p /\ (page = <<>> <=> p = 0)
  /\ \A j \in 1 .. p : page[j] = events[d + j]
  /\ p = 0 => d = L

LEMMA PageFacts ==
  ASSUME NEW k \in Nat, NEW s \in Nat, NEW events \in Seq(Event), Chronicle(events, s, k),
         cursor \in Nat, cursor <= s, NEW page, page = Page(events)
  PROVE  \E L \in Nat, d \in Nat, p \in Nat : IsPage(page, events, s, cursor, L, d, p)
<1>1. /\ Len(events) \in Nat /\ DOMAIN events = 1 .. Len(events)
      /\ \A i \in 1 .. Len(events) : events[i].id = s - Len(events) + i
      /\ Len(events) = IF s < MaxEvents THEN s ELSE MaxEvents
      /\ MaxEvents \in Nat /\ PageLimit \in Nat /\ PageLimit >= 1
  BY EventFacts, LimitFacts DEF Chronicle
<1>2. PICK L \in Nat : L = Len(events)
  BY <1>1
<1>3. PICK c \in Nat : c = cursor
  OBVIOUS
<1>4. L <= s /\ DOMAIN events = 1 .. L /\ \A i \in 1 .. L : events[i].id = s - L + i
  BY <1>1, <1>2
<1>4a. L <= s /\ c <= s
  BY <1>3, <1>4
<1>5. PICK d \in Nat : d = IF c > s - L THEN c - (s - L) ELSE 0
  <2>1. (IF c > s - L THEN c - (s - L) ELSE 0) \in Nat
    BY <1>4a
  <2> QED
    BY <2>1
<1>6a. d <= L
  BY <1>4a, <1>5
<1>6. d <= L /\ \A i \in 1 .. L : events[i].id > c <=> i > d
  BY <1>3, <1>4, <1>5, <1>6a
<1> DEFINE after == {i \in DOMAIN events : events[i].id > cursor}
<1> DEFINE Nth(k_) == CHOOSE i \in after : Cardinality({j \in after : j < i}) = k_ - 1
<1> DEFINE size == Cardinality(after)
<1>7. after = (d + 1) .. L
  BY <1>3, <1>4, <1>6
<1>8. size = L - d
  <2>1. Cardinality((d + 1) .. L) = IF d + 1 > L THEN 0 ELSE L - (d + 1) + 1
    BY FS_Interval
  <2>2. size = IF d + 1 > L THEN 0 ELSE L - (d + 1) + 1
    BY <1>7, <2>1
  <2> QED
    BY <1>6a, <2>2
<1>8a. PageLimit \in Nat /\ PageLimit >= 1
  BY <1>1
<1>9. PICK p \in Nat : p = IF L - d < PageLimit THEN L - d ELSE PageLimit
  <2>1. (IF L - d < PageLimit THEN L - d ELSE PageLimit) \in Nat
    BY <1>6a, <1>8a
  <2> QED
    BY <2>1
<1>10. d + p <= L /\ p <= L - d /\ (p = 0 => d = L)
  BY <1>6a, <1>8a, <1>9
<1>11. page = [j \in 1 .. p |-> events[Nth(j)]]
  BY <1>8, <1>9 DEF Page
<1>12. ASSUME NEW j \in 1 .. p PROVE Nth(j) = d + j
  <2>1. d + j \in after
    <3>1. d + j \in (d + 1) .. L
      BY <1>10
    <3> QED
      BY <1>7, <3>1
  <2>2. ASSUME NEW i \in after PROVE Cardinality({m \in after : m < i}) = i - 1 - d
    <3>1. i \in Nat /\ i >= d + 1 /\ i <= L
      BY <1>7
    <3>2. {m \in after : m < i} = (d + 1) .. (i - 1)
      BY <1>7, <3>1
    <3>3. PICK j0 \in Nat : j0 = i - 1
      BY <3>1
    <3>4. Cardinality((d + 1) .. j0) = IF d + 1 > j0 THEN 0 ELSE j0 - (d + 1) + 1
      BY FS_Interval
    <3>5. Cardinality((d + 1) .. j0) = j0 - d
      BY <3>1, <3>3, <3>4
    <3> QED
      BY <3>2, <3>3, <3>5
  <2>3. \A i \in after : Cardinality({m \in after : m < i}) = j - 1 <=> i = d + j
    <3> SUFFICES ASSUME NEW i \in after
                 PROVE  Cardinality({m \in after : m < i}) = j - 1 <=> i = d + j
      OBVIOUS
    <3>1. Cardinality({m \in after : m < i}) = i - 1 - d /\ i \in Nat
      BY <1>7, <2>2
    <3> QED
      BY <3>1
  <2> HIDE DEF after
  <2> QED
    BY <2>1, <2>3
<1> HIDE DEF Nth, after, size
<1>13. Len(page) = p /\ DOMAIN page = 1 .. p
  BY <1>11
<1>14. \A j \in 1 .. p : page[j] = events[d + j]
  BY <1>11, <1>12
<1>15. page = <<>> <=> p = 0
  <2>1. CASE p = 0
    <3>1. 1 .. p = {}
      BY <2>1
    <3> QED
      BY <1>11, <2>1, <3>1
  <2>2. CASE p # 0
    <3>1. page # <<>>
      BY <1>13, <2>2
    <3> QED
      BY <2>2, <3>1
  <2> QED
    BY <2>1, <2>2
<1>16. \A i \in 1 .. L : events[i].id > cursor <=> i > d
  BY <1>3, <1>6
<1> QED
  <2>1. IsPage(page, events, s, cursor, L, d, p)
    BY <1>2, <1>4, <1>10, <1>13, <1>14, <1>15, <1>16 DEF IsPage
  <2> QED
    BY <2>1

\* A reader is told of what the page leaves out by the pages to come.
LEMMA PageKeeps ==
  ASSUME NEW h, NEW k \in Nat, Authentic(h, k), Follows(h),
         cursor \in Nat, NEW o \in SUBSET (1 .. k), Owing(h, cursor, o),
         NEW left \in SUBSET o,
         \A n \in left :
           /\ n \notin Numbers(Page(h.events))
           /\ ~((Gap(h.events) \/ cursor = 0) /\ \A e \in ToSet(h.events) : e.n > n)
  PROVE  /\ NextCursor(Page(h.events), h.sequence) \in Nat
         /\ Owing(h, NextCursor(Page(h.events), h.sequence), left)
<1>0. /\ h.events \in Seq(Event) /\ h.sequence \in Nat
      /\ Chronicle(h.events, h.sequence, k) /\ cursor <= h.sequence
      /\ h.file.sequence \in Nat /\ h.file.events \in Seq(Event)
  BY DEF Authentic, Health, Story, Owing
<1>a. PICK events \in Seq(Event) : events = h.events
  BY <1>0
<1>b. PICK s \in Nat : s = h.sequence
  BY <1>0
<1>c. PICK page : page = Page(events)
  OBVIOUS
<1>1. /\ Chronicle(events, s, k) /\ cursor <= s
      /\ h.file.sequence \in Nat /\ h.file.events \in Seq(Event)
  BY <1>0, <1>a, <1>b
<1>p. PICK L \in Nat, d \in Nat, p \in Nat : IsPage(page, events, s, cursor, L, d, p)
  BY <1>1, <1>c, PageFacts
<1>2. /\ L = Len(events) /\ DOMAIN events = 1 .. L /\ L <= s /\ d + p <= L
      /\ \A i \in 1 .. L : events[i].id = s - L + i
      /\ \A i \in 1 .. L : events[i].id > cursor <=> i > d
      /\ Len(page) = p /\ (page = <<>> <=> p = 0)
      /\ \A j \in 1 .. p : page[j] = events[d + j]
      /\ p = 0 => d = L
  BY <1>p DEF IsPage
<1>3. PICK next : next = NextCursor(page, s)
  OBVIOUS
<1>4. /\ next \in Nat /\ next <= s /\ (p = 0 => next = cursor)
      /\ p # 0 => next = s - L + (d + p)
  <2>1. CASE p = 0
    BY <1>1, <1>2, <1>3, <2>1 DEF NextCursor
  <2>2. CASE p # 0
    <3>1. next = page[p].id /\ p \in 1 .. p /\ d + p \in 1 .. L
      BY <1>2, <1>3, <2>2 DEF NextCursor
    <3>2. next = s - L + (d + p)
      BY <1>2, <3>1
    <3> QED
      BY <1>1, <1>2, <2>2, <3>2
  <2> QED
    BY <2>1, <2>2
<1>5. ASSUME NEW n \in left
      PROVE  \E i \in 1 .. L : events[i].n = n /\ events[i].id > next
  <2>1. Owes(events, cursor, n)
    BY <1>a DEF Owing
  <2>2. ~(/\ cursor = 0 \/ (events # <<>> /\ cursor < events[1].id - 1)
          /\ \A i \in DOMAIN events : events[i].n > n)
    <3>1. (\A e \in ToSet(events) : e.n > n) <=> \A i \in DOMAIN events : events[i].n > n
      BY DEF ToSet
    <3>2. ~((Gap(events) \/ cursor = 0) /\ \A e \in ToSet(events) : e.n > n)
      BY <1>a
    <3> QED
      BY <3>1, <3>2 DEF Gap
  <2>3. PICK i \in 1 .. L : events[i].n = n /\ events[i].id > cursor
    BY <1>2, <2>1, <2>2 DEF Owes
  <2>4. i > d /\ events[i].id = s - L + i
    BY <1>2, <2>3
  <2>5. i > d + p
    <3> SUFFICES ASSUME i <= d + p PROVE FALSE
      OBVIOUS
    <3>1. i - d \in 1 .. p /\ d + (i - d) = i
      BY <2>4
    <3>2. page[i - d] = events[i]
      BY <1>2, <3>1
    <3>3. n \in Numbers(page)
      BY <1>2, <2>3, <3>1, <3>2 DEF Numbers
    <3> QED
      BY <1>a, <1>c, <3>3
  <2>6. events[i].id > next
    BY <1>1, <1>2, <1>4, <2>3, <2>4, <2>5
  <2> QED
    BY <2>3, <2>6
<1>6. ASSUME NEW n \in left
      PROVE  /\ Owes(events, next, n)
             /\ Owes(h.file.events, next, n) \/ Later(h.file.events, n)
  <2>1. PICK i \in DOMAIN events : events[i].n = n /\ events[i].id > next
    BY <1>2, <1>5
  <2>2. Owes(events, next, n)
    BY <2>1 DEF Owes
  <2>3. CASE events[i].id <= h.file.sequence
    <3>1. PICK j \in DOMAIN h.file.events : h.file.events[j] = events[i]
      BY <1>a, <2>1, <2>3 DEF Follows
    <3> QED
      BY <2>1, <2>2, <3>1 DEF Owes
  <2>4. CASE ~(events[i].id <= h.file.sequence)
    <3>1. \A j \in DOMAIN h.file.events : h.file.events[j].n < n
      BY <1>a, <2>1, <2>4 DEF Follows
    <3> QED
      BY <2>2, <3>1 DEF Later
  <2> QED
    BY <2>3, <2>4
<1>7. Owing(h, next, left)
  BY <1>a, <1>b, <1>4, <1>6 DEF Owing
<1> QED
  BY <1>a, <1>b, <1>c, <1>3, <1>4, <1>7

\* The queue q of the remote log holds the newest of m messages, with sd being sent, and what
\* it gave up unsent is old.
Line(q, sd, st, m) ==
  /\ m \in Nat /\ q \in Seq(Nat)
  /\ Len(q) <= QueueLimit /\ Len(q) <= m
  /\ \A i \in 1 .. Len(q) : q[i] = m - Len(q) + i
  /\ sd # 0 => q # <<>> /\ (sd = q[1] \/ Len(q) = QueueLimit)
  /\ \A n \in 1 .. m : n \in st \/ n > m - Len(q) \/ m - n >= QueueLimit - 1

LEMMA LineGrows ==
  ASSUME NEW q, NEW sd, NEW st, NEW m, Line(q, sd, st, m)
  PROVE  Line(Append(Room(q), m + 1), sd, st, m + 1)
<1>1. /\ m \in Nat /\ q \in Seq(Nat) /\ Len(q) <= QueueLimit /\ Len(q) <= m
      /\ \A i \in 1 .. Len(q) : q[i] = m - Len(q) + i
      /\ sd # 0 => q # <<>> /\ (sd = q[1] \/ Len(q) = QueueLimit)
      /\ \A n \in 1 .. m : n \in st \/ n > m - Len(q) \/ m - n >= QueueLimit - 1
  BY DEF Line
<1>2. Len(q) \in Nat /\ QueueLimit \in Nat /\ QueueLimit >= 1
  BY <1>1, LenProperties, LimitFacts
<1>3. PICK L \in Nat : L = Len(q)
  BY <1>2
<1>4. PICK gone \in {0, 1} : gone = 1 <=> L >= QueueLimit
  <2>1. CASE L >= QueueLimit
    <3>1. 1 = 1 <=> L >= QueueLimit
      BY <2>1
    <3> QED
      BY <3>1
  <2>2. CASE ~(L >= QueueLimit)
    <3>1. 0 = 1 <=> L >= QueueLimit
      BY <2>2
    <3> QED
      BY <3>1
  <2> QED
    BY <2>1, <2>2
<1> DEFINE r == Room(q)
<1>5. r \in Seq(Nat) /\ Len(r) = L - gone /\ \A i \in 1 .. L - gone : r[i] = q[i + gone]
  <2>1. CASE gone = 1
    <3>1. q # <<>> /\ r = Tail(q)
      BY <1>1, <1>2, <1>3, <1>4, <2>1, EmptySeq DEF Room
    <3>2. Tail(q) \in Seq(Nat) /\ Len(Tail(q)) = L - 1
          /\ \A i \in 1 .. L - 1 : Tail(q)[i] = q[i + 1]
      BY <1>1, <1>3, <3>1, HeadTailProperties
    <3> QED
      BY <2>1, <3>1, <3>2
  <2>2. CASE gone = 0
    <3>1. r = q /\ L - 0 = L /\ \A i \in 1 .. L : i + 0 = i
      BY <1>2, <1>3, <1>4, <2>2 DEF Room
    <3> QED
      BY <1>1, <1>3, <2>2, <3>1
  <2> QED
    BY <2>1, <2>2
<1> HIDE DEF r
<1> DEFINE t == Append(r, m + 1)
<1>6. /\ t \in Seq(Nat) /\ Len(t) = L - gone + 1
      /\ \A i \in 1 .. L - gone : t[i] = r[i]
      /\ t[L - gone + 1] = m + 1
  <2>1. m + 1 \in Nat /\ L - gone \in Nat
    BY <1>1, <1>2, <1>4
  <2> QED
    BY <1>5, <2>1, AppendProperties
<1> HIDE DEF t
<1>7. PICK M \in Nat : M = L - gone + 1
  BY <1>2, <1>4
<1>8. M <= QueueLimit /\ M <= m + 1 /\ M >= 1 /\ (gone = 1 => M = QueueLimit)
  BY <1>1, <1>2, <1>3, <1>4, <1>7
<1>9. ASSUME NEW i \in 1 .. M PROVE t[i] = (m + 1) - M + i
  <2>1. CASE i = M
    BY <1>1, <1>6, <1>7, <2>1
  <2>2. CASE i # M
    <3>1. i \in 1 .. L - gone /\ i + gone \in 1 .. L
      BY <1>7, <2>2
    <3>2. t[i] = q[i + gone] /\ q[i + gone] = m - L + (i + gone)
      BY <1>1, <1>3, <1>5, <1>6, <3>1
    <3>3. m - L + (i + gone) = (m + 1) - M + i
      BY <1>1, <1>7
    <3> QED
      BY <3>2, <3>3
  <2> QED
    BY <2>1, <2>2
<1>10. ASSUME sd # 0 PROVE t # <<>> /\ (sd = t[1] \/ Len(t) = QueueLimit)
  <2>1. t # <<>>
    BY <1>6, <1>7, <1>8, EmptySeq
  <2>2. CASE gone = 1
    BY <1>6, <1>7, <1>8, <2>1, <2>2
  <2>3. CASE gone = 0
    <3>1. L # QueueLimit /\ sd = q[1] /\ q # <<>>
      BY <1>1, <1>2, <1>3, <1>4, <1>10, <2>3
    <3>2. 1 \in 1 .. L
      BY <1>1, <1>3, <3>1, EmptySeq
    <3>3. t[1] = q[1]
      BY <1>5, <1>6, <2>3, <3>2
    <3> QED
      BY <2>1, <3>1, <3>3
  <2> QED
    BY <2>2, <2>3
<1>11. ASSUME NEW n \in 1 .. m + 1
       PROVE  n \in st \/ n > (m + 1) - M \/ (m + 1) - n >= QueueLimit - 1
  <2>1. CASE n = m + 1
    BY <1>1, <1>8, <2>1
  <2>2. CASE n # m + 1
    <3>1. n \in 1 .. m
      BY <1>1, <2>2
    <3>2. n \in st \/ n > m - L \/ m - n >= QueueLimit - 1
      BY <1>1, <1>3, <3>1
    <3>3. CASE n > m - L
      BY <1>1, <1>2, <1>4, <1>7, <1>8, <3>1, <3>3
    <3>4. CASE m - n >= QueueLimit - 1
      BY <1>1, <1>2, <3>1, <3>4
    <3> QED
      BY <3>2, <3>3, <3>4
  <2> QED
    BY <2>1, <2>2
<1>12. Line(t, sd, st, m + 1)
  BY <1>1, <1>6, <1>7, <1>8, <1>9, <1>10, <1>11 DEF Line
<1> QED
  BY <1>12 DEF t, r

LEMMA LineSent ==
  ASSUME NEW q, NEW sd, NEW st, NEW m, Line(q, sd, st, m), sd # 0
  PROVE  Line(Tail(q), 0, st \cup {sd}, m)
<1>1. /\ m \in Nat /\ q \in Seq(Nat) /\ Len(q) <= QueueLimit /\ Len(q) <= m
      /\ \A i \in 1 .. Len(q) : q[i] = m - Len(q) + i
      /\ q # <<>> /\ (sd = q[1] \/ Len(q) = QueueLimit)
      /\ \A n \in 1 .. m : n \in st \/ n > m - Len(q) \/ m - n >= QueueLimit - 1
  BY DEF Line
<1>2. Len(q) \in Nat /\ QueueLimit \in Nat /\ QueueLimit >= 1
  BY <1>1, LenProperties, LimitFacts
<1>3. PICK L \in Nat : L = Len(q)
  BY <1>2
<1>4. L >= 1
  BY <1>1, <1>3, EmptySeq
<1> DEFINE t == Tail(q)
<1>5. t \in Seq(Nat) /\ Len(t) = L - 1 /\ \A i \in 1 .. L - 1 : t[i] = q[i + 1]
  BY <1>1, <1>3, HeadTailProperties
<1> HIDE DEF t
<1>6. ASSUME NEW i \in 1 .. L - 1 PROVE t[i] = m - (L - 1) + i
  <2>1. i + 1 \in 1 .. L
    OBVIOUS
  <2>2. t[i] = q[i + 1] /\ q[i + 1] = m - L + (i + 1)
    BY <1>1, <1>3, <1>5, <2>1
  <2>3. m - L + (i + 1) = m - (L - 1) + i
    BY <1>1
  <2> QED
    BY <2>2, <2>3
<1>7. ASSUME NEW n \in 1 .. m
      PROVE  n \in st \cup {sd} \/ n > m - (L - 1) \/ m - n >= QueueLimit - 1
  <2>1. n \in st \/ n > m - L \/ m - n >= QueueLimit - 1
    BY <1>1, <1>3
  <2>2. CASE n = m - L + 1
    <3>1. q[1] = m - L + 1
      BY <1>1, <1>3, <1>4
    <3>2. CASE sd = q[1]
      BY <2>2, <3>1, <3>2
    <3>3. CASE L = QueueLimit
      <4>1. m - n = QueueLimit - 1
        BY <1>1, <1>2, <2>2, <3>3
      <4> QED
        BY <1>2, <4>1
    <3> QED
      BY <1>1, <1>3, <3>2, <3>3
  <2>3. CASE n # m - L + 1
    <3>1. n > m - L => n > m - (L - 1)
      BY <1>1, <2>3
    <3> QED
      BY <2>1, <3>1
  <2> QED
    BY <2>2, <2>3
<1>8. L - 1 <= QueueLimit /\ L - 1 <= m
  BY <1>1, <1>2, <1>3
<1>9. Line(t, 0, st \cup {sd}, m)
  BY <1>1, <1>5, <1>6, <1>7, <1>8 DEF Line
<1> QED
  BY <1>9 DEF t

LEMMA LineTakes ==
  ASSUME NEW q, NEW sd, NEW st, NEW m, Line(q, sd, st, m)
  PROVE  /\ q # <<>> => Line(q, q[1], st, m)
         /\ \A more : st \subseteq more => Line(q, 0, more, m)
<1>1. q # <<>> => Line(q, q[1], st, m)
  BY DEF Line
<1>2. ASSUME NEW more, st \subseteq more PROVE Line(q, 0, more, m)
  BY <1>2 DEF Line
<1> QED
  BY <1>1, <1>2

LEMMA LineBegins == Line(<<>>, 0, {}, 0)
<1>1. <<>> \in Seq(Nat) /\ Len(<<>>) = 0
  BY EmptySeq
<1> QED
  BY <1>1, LimitFacts DEF Line

Unreset   == "cleared" \notin apiExposed
Following == apiExposed \cap {"cleared", "reused"} = {}
Durable   == apiExposed \cap {"cleared", "torn"} = {}

\* The events of the history, while the device runs and while it does not.
HistoryInv ==
  /\ number \in Nat /\ cursor \in Nat
  /\ owed \in SUBSET (1 .. number) /\ forced \in SUBSET (1 .. number)
  /\ up => Kept(health, number, cursor, owed, forced, Unreset, Following, Durable)
  /\ ~up => Asleep(health.file, number, cursor, owed, forced, Following, Durable)

LogInv == Line(queue, sending, sent, messages)

LEMMA ExposureGrows ==
  ASSUME apiExposed \subseteq apiExposed'
  PROVE  (Unreset' => Unreset) /\ (Following' => Following) /\ (Durable' => Durable)
BY DEF Unreset, Following, Durable

LEMMA HistoryStays ==
  ASSUME HistoryInv, UNCHANGED historyVars, up' = up, apiExposed \subseteq apiExposed'
  PROVE  HistoryInv'
<1>1. /\ number \in Nat /\ cursor \in Nat
      /\ owed \in SUBSET (1 .. number) /\ forced \in SUBSET (1 .. number)
      /\ up => Kept(health, number, cursor, owed, forced, Unreset, Following, Durable)
      /\ ~up => Asleep(health.file, number, cursor, owed, forced, Following, Durable)
  BY DEF HistoryInv
<1>2. health' = health /\ number' = number /\ cursor' = cursor /\ owed' = owed
      /\ forced' = forced /\ up' = up
  BY DEF historyVars
<1>3. (Unreset' => Unreset) /\ (Following' => Following) /\ (Durable' => Durable)
  BY ExposureGrows
<1>4. ASSUME up
      PROVE  Kept(health, number, cursor, owed, forced, Unreset', Following', Durable')
  BY <1>1, <1>3, <1>4 DEF Kept
<1>5. ASSUME ~up
      PROVE  Asleep(health.file, number, cursor, owed, forced, Following', Durable')
  BY <1>1, <1>3, <1>5 DEF Asleep
<1> QED
  BY <1>1, <1>2, <1>4, <1>5 DEF HistoryInv

LEMMA CursorFacts ==
  ASSUME NEW k \in Nat, NEW s \in Nat, NEW events \in Seq(Event), Chronicle(events, s, k),
         cursor \in Nat
  PROVE  NextCursor(Page(events), s) \in Nat
<1>1. PICK page : page = Page(events)
  OBVIOUS
<1>2. CASE cursor <= s
  <2>1. PICK L \in Nat, d \in Nat, p \in Nat : IsPage(page, events, s, cursor, L, d, p)
    BY <1>1, <1>2, PageFacts
  <2>2. CASE page = <<>>
    BY <1>1, <2>2 DEF NextCursor
  <2>3. CASE page # <<>>
    <3>1. /\ Len(page) = p /\ p # 0 /\ page[p] = events[d + p] /\ d + p \in DOMAIN events
      <4>1. Len(page) = p /\ p # 0 /\ DOMAIN events = 1 .. L /\ d + p <= L
            /\ \A j \in 1 .. p : page[j] = events[d + j]
        BY <2>1, <2>3 DEF IsPage
      <4>2. p \in 1 .. p /\ d + p \in 1 .. L
        BY <4>1
      <4> QED
        BY <4>1, <4>2
    <3>2. events[d + p].id \in Nat
      BY <3>1, EventFacts
    <3> QED
      BY <1>1, <2>3, <3>1, <3>2 DEF NextCursor
  <2> QED
    BY <2>2, <2>3
<1>3. CASE ~(cursor <= s)
  <2>1. {i \in DOMAIN events : events[i].id > cursor} = {}
    <3> SUFFICES ASSUME NEW i \in DOMAIN events, events[i].id > cursor PROVE FALSE
      OBVIOUS
    <3>1. events[i].id = s - Len(events) + i /\ i \in 1 .. Len(events) /\ Len(events) \in Nat
      BY EventFacts DEF Chronicle
    <3> QED
      BY <1>3, <3>1
  <2>2. Cardinality({}) = 0
    BY FS_EmptySet
  <2>3. PageLimit \in Nat /\ PageLimit >= 1
    BY LimitFacts
  <2> DEFINE after == {i \in DOMAIN events : events[i].id > cursor}
  <2>a. Cardinality(after) = 0
    BY <2>1, <2>2
  <2>4. Cardinality(after) = 0 /\ (IF 0 < PageLimit THEN 0 ELSE PageLimit) = 0
    BY <2>3, <2>a
  <2> DEFINE Nth(k_) == CHOOSE i \in after : Cardinality({j \in after : j < i}) = k_ - 1
  <2>5. page = [j \in 1 .. 0 |-> events[Nth(j)]]
    BY <1>1, <2>4 DEF Page
  <2> HIDE DEF Nth
  <2>6. 1 .. 0 = {}
    OBVIOUS
  <2>7. page = <<>>
    BY <2>5, <2>6
  <2> QED
    BY <1>1, <2>7 DEF NextCursor
<1> QED
  BY <1>2, <1>3

\* A step of a device that runs on, with the facts about its new history.
LEMMA HistoryGoesOn ==
  ASSUME number' \in Nat, cursor' \in Nat,
         owed' \in SUBSET (1 .. number'), forced' \in SUBSET (1 .. number'), up',
         Kept(health', number', cursor', owed', forced', Unreset, Following, Durable),
         apiExposed' = apiExposed
  PROVE  HistoryInv'
<1>1. (Unreset' => Unreset) /\ (Following' => Following) /\ (Durable' => Durable)
  BY ExposureGrows
<1>2. Kept(health', number', cursor', owed', forced', Unreset', Following', Durable')
  BY <1>1 DEF Kept
<1> QED
  BY <1>2 DEF HistoryInv

LEMMA FlagFacts ==
  Unreset \in BOOLEAN /\ Following \in BOOLEAN /\ Durable \in BOOLEAN
BY DEF Unreset, Following, Durable

\* h is a history that is as good as the one there was; an event is added to it.
LEMMA RecordedHolds ==
  ASSUME HistoryInv, up', apiExposed' = apiExposed, NEW h,
         Kept(h, number, cursor, owed, forced, Unreset, Following, Durable),
         NEW force \in BOOLEAN, NEW works \in BOOLEAN,
         Recorded(Record(h, number + 1, force, works), force /\ works)
  PROVE  HistoryInv'
<1>1. /\ number \in Nat /\ cursor \in Nat
      /\ owed \in SUBSET (1 .. number) /\ forced \in SUBSET (1 .. number)
  BY DEF HistoryInv
<1>2. /\ health' = Record(h, number + 1, force, works)
      /\ number' = number + 1 /\ owed' = owed \cup {number + 1}
      /\ forced' = IF force /\ works THEN forced \cup {number + 1} ELSE forced
      /\ cursor' = cursor
  BY DEF Recorded
<1>3. Kept(health', number', cursor, owed', forced', Unreset, Following, Durable)
  <2>1. /\ owed' = owed \cup {number'}
        /\ forced' = IF force /\ works THEN forced \cup {number'} ELSE forced
        /\ health' = Record(h, number', force, works)
    BY <1>2
  <2> QED
    BY <1>1, <1>2, <2>1, FlagFacts, RecordKeeps
<1>4. /\ number' \in Nat /\ owed' \in SUBSET (1 .. number')
      /\ forced' \in SUBSET (1 .. number')
  BY <1>1, <1>2
<1> QED
  BY <1>1, <1>2, <1>3, <1>4, HistoryGoesOn

LEMMA CountedHolds ==
  ASSUME HistoryInv, up, up' = up, apiExposed' = apiExposed,
         health' = Increment(health, TRUE), UNCHANGED <<number, forced>>,
         cursor' \in Nat, owed' \subseteq owed,
         Following => Owing(health, cursor', owed')
  PROVE  HistoryInv'
<1>1. /\ number \in Nat
      /\ owed \in SUBSET (1 .. number) /\ forced \in SUBSET (1 .. number)
      /\ Kept(health, number, cursor, owed, forced, Unreset, Following, Durable)
  BY DEF HistoryInv
<1>2. Kept(health, number, cursor', owed', forced, Unreset, Following, Durable)
  BY <1>1 DEF Kept
<1>3. TRUE \in BOOLEAN
  OBVIOUS
<1>4. Kept(Increment(health, TRUE), number, cursor', owed', forced,
           Unreset, Following, Durable)
  BY <1>1, <1>2, <1>3, FlagFacts, IncrementKeeps
<1>5. owed' \in SUBSET (1 .. number')
  BY <1>1
<1> QED
  BY <1>1, <1>4, <1>5, HistoryGoesOn

LEMMA ReadHolds ==
  ASSUME HistoryInv, up, up' = up, apiExposed' = apiExposed,
         health' = Increment(health, TRUE), UNCHANGED <<number, forced>>, ReadPage(health)
  PROVE  HistoryInv'
<1>1. /\ number \in Nat /\ cursor \in Nat
      /\ owed \in SUBSET (1 .. number)
      /\ Kept(health, number, cursor, owed, forced, Unreset, Following, Durable)
  BY DEF HistoryInv
<1>2. /\ cursor' = NextCursor(Page(health.events), health.sequence)
      /\ owed' = owed \ Told(Page(health.events))
  BY DEF ReadPage
<1>3. owed' \subseteq owed
  BY <1>2
<1>4. ASSUME NEW n \in owed'
      PROVE  /\ n \notin Numbers(Page(health.events))
             /\ ~((Gap(health.events) \/ cursor = 0)
                  /\ \A e \in ToSet(health.events) : e.n > n)
  <2>1. n \in owed /\ n \notin Told(Page(health.events))
    BY <1>2
  <2> QED
    BY <2>1 DEF Told
<1>5. Following => Unreset
  BY DEF Following, Unreset
<1>6. Following => Owing(health, cursor', owed')
  <2> SUFFICES ASSUME Following PROVE Owing(health, cursor', owed')
    OBVIOUS
  <2>1. Authentic(health, number) /\ Follows(health) /\ Owing(health, cursor, owed)
    BY <1>1, <1>5 DEF Kept
  <2>2. Owing(health, NextCursor(Page(health.events), health.sequence), owed')
    BY <1>1, <1>3, <1>4, <2>1, PageKeeps
  <2> QED
    BY <1>2, <2>2
<1>7. cursor' \in Nat
  <2> DEFINE page == Page(health.events)
  <2>1. /\ health.events \in Seq(Event) /\ health.sequence \in Nat
        /\ Chronicle(health.events, health.sequence, number)
    BY <1>1 DEF Kept, Authentic, Health
  <2> QED
    BY <1>1, <1>2, <2>1, CursorFacts
<1> QED
  BY <1>3, <1>6, <1>7, CountedHolds

LEMMA CrashHolds ==
  ASSUME HistoryInv, up, ~up', NEW saved \in {health.file, Nothing}, CrashHistory(saved),
         apiExposed \cup CrashExposes(saved) \subseteq apiExposed'
  PROVE  HistoryInv'
<1>1. /\ number \in Nat /\ cursor \in Nat
      /\ owed \in SUBSET (1 .. number) /\ forced \in SUBSET (1 .. number)
      /\ Kept(health, number, cursor, owed, forced, Unreset, Following, Durable)
  BY DEF HistoryInv
<1>2. /\ health' = [Loaded(saved) EXCEPT !.events = <<>>, !.sequence = 0]
      /\ owed' = {n \in owed : \E e \in ToSet(saved.events) : e.n >= n}
      /\ number' = number /\ cursor' = cursor /\ forced' = forced
  BY DEF CrashHistory
<1>3. health'.file = saved
  BY <1>2 DEF Loaded
<1>4. /\ health \in Health /\ health.file \in Story
      /\ Chronicle(health.file.events, health.file.sequence, number)
  BY <1>1 DEF Kept, Authentic, Health
<1>5. saved \in Story /\ Chronicle(saved.events, saved.sequence, number)
  <2>1. CASE saved = health.file
    BY <1>4, <2>1
  <2>2. CASE saved = Nothing
    <3>1. /\ saved.events = <<>> /\ saved.sequence = 0 /\ <<>> \in Seq(Event)
          /\ Len(<<>>) = 0 /\ DOMAIN <<>> = {}
      BY <2>2, EmptySeq DEF Nothing
    <3>2. Nothing \in Story
      BY <3>1 DEF Nothing, Story
    <3> QED
      BY <2>2, <3>1, <3>2, LimitFacts DEF Chronicle
  <2> QED
    BY <2>1, <2>2
<1>6. (Unreset' => Unreset) /\ (Following' => Following) /\ (Durable' => Durable)
  BY ExposureGrows
<1>7. ASSUME Following'
      PROVE  cursor <= saved.sequence /\ \A n \in owed' : Owes(saved.events, cursor, n)
  <2>1. Owing(health, cursor, owed)
    BY <1>1, <1>6, <1>7 DEF Kept
  <2>2. ~(cursor > saved.sequence)
    BY <1>7 DEF CrashExposes, Following
  <2>3. cursor <= saved.sequence
    BY <1>1, <1>5, <2>2 DEF Story
  <2>4. ASSUME NEW n \in owed' PROVE Owes(saved.events, cursor, n)
    <3>1. n \in owed /\ \E e \in ToSet(saved.events) : e.n >= n
      BY <1>2
    <3>2. PICK i \in DOMAIN saved.events : saved.events[i].n >= n
      BY <3>1 DEF ToSet
    <3>3. saved # Nothing
      BY <3>2, EmptySeq DEF Nothing
    <3>4. saved = health.file
      BY <3>3
    <3>5. saved.events[i].n \in Nat /\ n \in Nat
      BY <1>1, <1>5, <3>1, EventFacts DEF Story
    <3>6. ~Later(saved.events, n)
      BY <3>2, <3>5 DEF Later
    <3> QED
      BY <2>1, <3>1, <3>4, <3>6 DEF Owing
  <2> QED
    BY <2>3, <2>4
<1>8. ASSUME Durable' PROVE \A n \in forced : Displaced(n, saved.events)
  <2>1. saved = health.file
    BY <1>8 DEF CrashExposes, Durable
  <2> QED
    BY <1>1, <1>6, <1>8, <2>1 DEF Kept, OnFile
<1>9. Asleep(saved, number, cursor, owed', forced, Following', Durable')
  BY <1>5, <1>7, <1>8 DEF Asleep
<1>10. owed' \in SUBSET (1 .. number)
  BY <1>1, <1>2
<1> QED
  BY <1>1, <1>2, <1>3, <1>9, <1>10 DEF HistoryInv

LEMMA BootHolds ==
  ASSUME HistoryInv, ~up, up', apiExposed' = apiExposed, NEW works \in BOOLEAN,
         BootHistory(works)
  PROVE  HistoryInv'
<1>1. /\ number \in Nat /\ cursor \in Nat
      /\ owed \in SUBSET (1 .. number) /\ forced \in SUBSET (1 .. number)
      /\ Asleep(health.file, number, cursor, owed, forced, Following, Durable)
  BY DEF HistoryInv
<1>2. /\ health' = RecordBoot(Loaded(health.file), number + 1, works)
      /\ number' = number + 1 /\ owed' = owed \cup {number + 1}
      /\ forced' = IF works THEN forced \cup {number + 1} ELSE forced
      /\ cursor' = cursor
  BY DEF BootHistory, Recorded
<1>3. Kept(health', number', cursor, owed', forced', Unreset, Following, Durable)
  <2>1. /\ owed' = owed \cup {number'}
        /\ forced' = IF works THEN forced \cup {number'} ELSE forced
        /\ health' = RecordBoot(Loaded(health.file), number', works)
    BY <1>2
  <2> QED
    BY <1>1, <1>2, <2>1, FlagFacts, BootKeeps
<1>4. /\ number' \in Nat /\ owed' \in SUBSET (1 .. number')
      /\ forced' \in SUBSET (1 .. number')
  BY <1>1, <1>2
<1> QED
  BY <1>1, <1>2, <1>3, <1>4, HistoryGoesOn

\* After the history was reset only what is recorded is as it should be.
LEMMA ClearHolds ==
  ASSUME HistoryInv, up, up' = up, NEW works \in BOOLEAN, health' = Cleared(health, works),
         owed' = {}, forced' = {}, UNCHANGED <<number, cursor>>,
         apiExposed' = apiExposed \cup {"cleared"}
  PROVE  HistoryInv'
<1>1. number \in Nat /\ cursor \in Nat /\ Authentic(health, number)
  BY DEF HistoryInv, Kept
<1> DEFINE a == [health EXCEPT !.events = <<>>, !.sequence = 0, !.dirty = Changes]
<1> DEFINE S == Seq(Event)
<1>2. health \in [events : S, sequence : Nat, dirty : 0 .. Changes, file : Story]
      /\ Changes \in 0 .. Changes
  BY <1>1, LimitFacts DEF Authentic, Health
<1>3. <<>> \in S /\ Len(<<>>) = 0 /\ DOMAIN <<>> = {}
  BY EmptySeq
<1> HIDE DEF S
<1>4. /\ a \in [events : S, sequence : Nat, dirty : 0 .. Changes, file : Story]
      /\ a.events = <<>> /\ a.sequence = 0 /\ a.file = health.file
  BY <1>2, <1>3
<1>5. a \in Health
  BY <1>4 DEF Health, S
<1>6. health' = Checkpoint(a, TRUE, works)
  BY DEF Cleared
<1> HIDE DEF a
<1>7. Authentic(a, number)
  <2>1. Chronicle(a.events, a.sequence, number)
    BY <1>3, <1>4, LimitFacts DEF Chronicle
  <2> QED
    BY <1>1, <1>4, <1>5, <2>1 DEF Authentic
<1>8. Checkpointed(a, health')
  <2>1. PICK force \in BOOLEAN : force = TRUE
    OBVIOUS
  <2>2. Checkpointed(a, Checkpoint(a, force, works))
    BY <1>5, CheckpointFacts
  <2> QED
    BY <1>6, <2>1, <2>2
<1>9. Authentic(health', number)
  BY <1>1, <1>7, <1>8, CheckpointKeeps
<1>10. ~Unreset' /\ ~Following' /\ ~Durable'
  BY DEF Unreset, Following, Durable
<1>11. Kept(health', number, cursor, owed', forced', Unreset', Following', Durable')
  BY <1>9, <1>10 DEF Kept
<1> QED
  BY <1>1, <1>11 DEF HistoryInv

LEMMA HistoryStep ==
  ASSUME HistoryInv, [ApiNext]_apiVars
  PROVE  HistoryInv'
<1>1. CASE ApiBoot
  <2>1. PICK works \in BOOLEAN : BootHistory(works)
    BY <1>1 DEF ApiBoot
  <2> QED
    BY <1>1, <2>1, BootHolds DEF ApiBoot
<1>2. CASE Crash
  <2>1. PICK saved \in {health.file, Nothing} :
          CrashHistory(saved) /\ apiExposed \cup CrashExposes(saved) \subseteq apiExposed'
    BY <1>2 DEF Crash
  <2> QED
    BY <1>2, <2>1, CrashHolds DEF Crash
<1>3. CASE Records
  <2>1. CASE Happens
    <3>1. PICK force \in BOOLEAN, works \in BOOLEAN :
            Recorded(Record(health, number + 1, force, works), force /\ works)
      BY <2>1 DEF Happens
    <3>2. up /\ up' = up /\ apiExposed' = apiExposed
      BY <2>1 DEF Happens
    <3>3. Kept(health, number, cursor, owed, forced, Unreset, Following, Durable)
      BY <3>2 DEF HistoryInv
    <3> QED
      BY <3>1, <3>2, <3>3, RecordedHolds
  <2>2. CASE Logs
    BY <2>2, HistoryStays DEF Logs
  <2>3. CASE ClearHistory
    <3>1. PICK works \in BOOLEAN : health' = Cleared(health, works)
      BY <2>3 DEF ClearHistory
    <3> QED
      BY <2>3, <3>1, ClearHolds DEF ClearHistory
  <2> QED
    BY <1>3, <2>1, <2>2, <2>3 DEF Records
<1>4. CASE Sends
  BY <1>4, HistoryStays DEF Sends, SendBegins, Sent, SendFails
<1>5. CASE RegistryChanges
  <2>1. UNCHANGED historyVars /\ up' = up
    BY <1>5 DEF RegistryChanges
  <2>2. apiExposed \subseteq apiExposed'
    BY <1>5 DEF RegistryChanges, Revoke, Enrol, Restore, Saved, NotSaved
  <2> QED
    BY <2>1, <2>2, HistoryStays
<1>6. ASSUME NEW c \in Client, Opens(c) \/ Closes(c) PROVE HistoryInv'
  <2>1. UNCHANGED historyVars /\ up' = up /\ apiExposed \subseteq apiExposed'
    BY <1>6 DEF Opens, Closes
  <2> QED
    BY <2>1, HistoryStays
<1>7. ASSUME NEW c \in Client, NEW scope \in Scope, ServeClient(c, scope)
      PROVE  HistoryInv'
  <2>1. up /\ up' = up /\ apiExposed' = apiExposed
    BY <1>7 DEF ServeClient
  <2>2. /\ cursor \in Nat
        /\ Kept(health, number, cursor, owed, forced, Unreset, Following, Durable)
        /\ number \in Nat
    BY <2>1 DEF HistoryInv
  <2>3. CASE /\ health' = Increment(health, TRUE) /\ UNCHANGED <<number, forced>>
             /\ UNCHANGED <<cursor, owed>>
    <3>1. Following => Owing(health, cursor', owed')
      BY <2>2, <2>3 DEF Kept
    <3> QED
      BY <2>1, <2>2, <2>3, <3>1, CountedHolds
  <2>4. CASE /\ health' = Increment(health, TRUE) /\ UNCHANGED <<number, forced>>
             /\ ReadPage(health)
    BY <2>1, <2>4, ReadHolds
  <2>5. ASSUME NEW works \in BOOLEAN,
               Recorded(Record(Increment(health, works), number + 1, FALSE, works), FALSE)
        PROVE  HistoryInv'
    <3>1. PICK force \in BOOLEAN : force = FALSE
      OBVIOUS
    <3>2. PICK h : h = Increment(health, works)
      OBVIOUS
    <3>3. Kept(h, number, cursor, owed, forced, Unreset, Following, Durable)
      BY <2>2, <3>2, FlagFacts, IncrementKeeps
    <3>4. (force /\ works) = FALSE
      BY <3>1
    <3>5. Recorded(Record(h, number + 1, force, works), force /\ works)
      BY <2>5, <3>1, <3>2, <3>4
    <3> QED
      BY <2>1, <3>3, <3>5, RecordedHolds
  <2> QED
    BY <1>7, <2>3, <2>4, <2>5 DEF ServeClient
<1>8. ASSUME NEW c \in Client, NEW scope \in Scope, Refuse(c, scope)
      PROVE  HistoryInv'
  <2>1. /\ up /\ up' = up /\ apiExposed' = apiExposed /\ health' = Increment(health, TRUE)
        /\ UNCHANGED <<number, forced, cursor, owed>>
    BY <1>8 DEF Refuse
  <2>2. cursor \in Nat /\ (Following => Owing(health, cursor', owed'))
    BY <2>1 DEF HistoryInv, Kept
  <2> QED
    BY <2>1, <2>2, CountedHolds
<1>9. CASE UNCHANGED apiVars
  <2>1. UNCHANGED historyVars /\ up' = up /\ apiExposed \subseteq apiExposed'
    BY <1>9 DEF apiVars, historyVars
  <2> QED
    BY <2>1, HistoryStays
<1> QED
  BY <1>1, <1>2, <1>3, <1>4, <1>5, <1>6, <1>7, <1>8, <1>9 DEF ApiNext

LEMMA LogStep ==
  ASSUME LogInv, [ApiNext]_apiVars
  PROVE  LogInv'
<1>1. CASE UNCHANGED syslogVars
  BY <1>1 DEF LogInv, syslogVars
<1>2. CASE Enqueue
  BY <1>2, LineGrows DEF LogInv, Enqueue
<1>3. CASE SendBegins
  BY <1>3, LineTakes DEF LogInv, SendBegins
<1>4. CASE Sent
  BY <1>4, LineSent DEF LogInv, Sent
<1>5. CASE SendFails
  <2>1. sent \subseteq sent' /\ sending' = 0 /\ queue' = queue /\ messages' = messages
    BY <1>5 DEF SendFails
  <2> QED
    BY <2>1, LineTakes DEF LogInv
<1>6. CASE Crash
  <2>1. queue' = <<>> /\ sending' = 0 /\ sent' = {} /\ messages' = 0
    BY <1>6 DEF Crash, CrashHistory
  <2> QED
    BY <2>1, LineBegins DEF LogInv
<1>7. CASE ApiBoot
  BY <1>1, <1>7 DEF ApiBoot, BootHistory
<1>8. CASE Records
  BY <1>1, <1>2, <1>8 DEF Records, Happens, Logs, ClearHistory
<1>9. CASE Sends
  BY <1>3, <1>4, <1>5, <1>9 DEF Sends
<1>10. CASE RegistryChanges
  BY <1>1, <1>10 DEF RegistryChanges
<1>11. ASSUME NEW c \in Client, Opens(c) \/ Closes(c) PROVE LogInv'
  BY <1>1, <1>11 DEF Opens, Closes
<1>12. ASSUME NEW c \in Client, NEW scope \in Scope, ServeClient(c, scope) \/ Refuse(c, scope)
       PROVE  LogInv'
  BY <1>1, <1>12 DEF ServeClient, Refuse
<1>13. CASE UNCHANGED apiVars
  BY <1>1, <1>13 DEF apiVars, syslogVars
<1> QED
  BY <1>6, <1>7, <1>8, <1>9, <1>10, <1>11, <1>12, <1>13 DEF ApiNext

LEMMA HistoryBegins ==
  ASSUME ApiInit
  PROVE  HistoryInv /\ LogInv
<1>1. /\ number = 0 /\ cursor = 0 /\ owed = {} /\ forced = {} /\ ~up
      /\ health.file = Nothing
      /\ queue = <<>> /\ sending = 0 /\ sent = {} /\ messages = 0
  BY DEF ApiInit, InitHistory
<1>2. LogInv
  BY <1>1, LineBegins DEF LogInv
<1>3. /\ Nothing.events = <<>> /\ Nothing.sequence = 0 /\ <<>> \in Seq(Event)
      /\ Len(<<>>) = 0 /\ DOMAIN <<>> = {}
  BY EmptySeq DEF Nothing
<1>4. Nothing \in Story
  BY <1>3 DEF Nothing, Story
<1>5. Chronicle(Nothing.events, Nothing.sequence, 0)
  BY <1>3, LimitFacts DEF Chronicle
<1>6. Asleep(Nothing, 0, 0, {}, {}, Following, Durable)
  BY <1>3, <1>4, <1>5 DEF Asleep
<1> QED
  BY <1>1, <1>2, <1>6 DEF HistoryInv

\* What the invariants say to the reader
LEMMA HistoryConsequence ==
  ASSUME HistoryInv, LogInv, {"cleared", "reused"} \subseteq ApiExcused
  PROVE  HistoryKept
<1>1. NothingMissed
  <2> SUFFICES ASSUME up, apiExposed \cap ApiExcused = {}, NEW n \in owed
               PROVE  WillBeTold(n)
    BY DEF NothingMissed
  <2>1. Following
    BY DEF Following
  <2>2. Owes(health.events, cursor, n)
    BY <2>1 DEF HistoryInv, Kept, Owing
  <2>3. CASE \E i \in DOMAIN health.events : health.events[i].n = n
                                           /\ health.events[i].id > cursor
    BY <2>3 DEF WillBeTold, ToSet
  <2>4. CASE /\ cursor = 0 \/ (health.events # <<>> /\ cursor < health.events[1].id - 1)
             /\ \A i \in DOMAIN health.events : health.events[i].n > n
    <3>1. \A e \in ToSet(health.events) : e.n > n
      BY <2>4 DEF ToSet
    <3> QED
      BY <2>4, <3>1 DEF WillBeTold, Gap
  <2> QED
    BY <2>2, <2>3, <2>4 DEF Owes
<1>2. ForcedSurvives
  <2> SUFFICES ASSUME apiExposed \cap {"cleared", "torn"} = {}, NEW n \in forced
               PROVE  /\ Displaced(n, health.file.events)
                      /\ up => Displaced(n, health.events)
    BY DEF ForcedSurvives
  <2>1. Durable
    BY DEF Durable
  <2>2. CASE up
    BY <2>1, <2>2 DEF HistoryInv, Kept, OnFile, Known
  <2>3. CASE ~up
    BY <2>1, <2>3 DEF HistoryInv, Asleep
  <2> QED
    BY <2>2, <2>3
<1>3. KeepsNewest
  <2> SUFFICES ASSUME NEW m \in 1 .. messages,
                      m \notin sent, ~(messages - m >= QueueLimit - 1)
               PROVE  m \in ToSet(queue)
    BY DEF KeepsNewest
  <2>1. /\ messages \in Nat /\ queue \in Seq(Nat) /\ m > messages - Len(queue)
        /\ \A i \in 1 .. Len(queue) : queue[i] = messages - Len(queue) + i
    BY DEF LogInv, Line
  <2>2. Len(queue) \in Nat /\ DOMAIN queue = 1 .. Len(queue)
    BY <2>1, LenProperties
  <2>3. PICK L \in Nat : L = Len(queue)
    BY <2>2
  <2>4. m - (messages - L) \in 1 .. L
        /\ messages - L + (m - (messages - L)) = m
    BY <2>1, <2>3
  <2>5. queue[m - (messages - L)] = m
    BY <2>1, <2>3, <2>4
  <2> QED
    BY <2>2, <2>3, <2>4, <2>5 DEF ToSet
<1> QED
  BY <1>1, <1>2, <1>3 DEF HistoryKept

\* A reader that polls is told of every event the device did not forget in a crash, an event
\* whose checkpoint was forced survives the restart, and the queue of the remote log keeps its
\* newest messages: for histories, pages and queues of any length.
THEOREM HistoryKeptHolds ==
  ASSUME {"cleared", "reused"} \subseteq ApiExcused
  PROVE  ApiSpec => []HistoryKept
<1>1. ApiInit => HistoryInv /\ LogInv
  BY HistoryBegins
<1>2. HistoryInv /\ LogInv /\ [ApiNext]_apiVars => (HistoryInv /\ LogInv)'
  BY HistoryStep, LogStep
<1>3. HistoryInv /\ LogInv => HistoryKept
  BY HistoryConsequence
<1> QED
  BY <1>1, <1>2, <1>3, PTL DEF ApiSpec
=============================================================================
