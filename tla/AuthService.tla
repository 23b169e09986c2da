----------------------------- MODULE AuthService -----------------------------
(***************************************************************************)
(* Accounts: registration, login and what a token is worth                 *)
(* (app/services/auth_service.py, app/api/deps.py).  Registrations are     *)
(* served by concurrent threads, one action per SQL statement; a user row  *)
(* is kept under the registration that inserted it and is seen by others   *)
(* once its transaction is committed.  A login reads the user row in one   *)
(* statement.  A request with a token checks the expiry, then reads the    *)
(* user, then runs its handler on what it has read: between these steps    *)
(* the clock and the user row go on.                                       *)
(*                                                                         *)
(* No endpoint changes a user's role or is_active; somebody with access to *)
(* the database may.                                                       *)
(***************************************************************************)
EXTENDS Naturals, FiniteSets

CONSTANTS
  Registrations,  \* requests to /auth/register
  Sessions,       \* clients that log in and use the token they get
  Spellings,      \* addresses as they are typed
  Normal,         \* Normal[s]: what EmailStr makes of s, the domain in lower case
  Passwords,
  Significant,    \* Significant[p]: the bytes of p that bcrypt hashes, the first 72
  Roles,
  RequestedRole,  \* RequestedRole[r]: the role in the payload of r
  Faulty,         \* registrations that may hit an exception or lose their process
  TokenMinutes,   \* access_token_expire_minutes
  LastMinute,     \* bound on the clock
  NoEmail,
  NoUser

ASSUME NormalAssumption ==
  /\ Normal \in [Spellings -> Spellings]
  /\ \A s \in Spellings : Normal[Normal[s]] = Normal[s]
ASSUME NullsAssumption == NoEmail \notin Spellings /\ NoUser \notin Registrations
ASSUME PasswordsAssumption == Significant \in [Passwords -> Passwords]
ASSUME FaultyAssumption == Faulty \subseteq Registrations
ASSUME RolesAssumption == RequestedRole \in [Registrations -> Roles]
ASSUME ClockAssumption == TokenMinutes \in Nat /\ LastMinute \in Nat

VARIABLES
  payload,        \* payload[r]: the address and the password r registers
  pc,             \* pc[r]: the statement r executes next
  tx,             \* tx[r]: the transaction of r; its only row is the user
  reply,          \* reply[r]: what the client of r was told
  user,           \* user[r]: the columns of r's user that may change later
  typed,          \* typed[c]: the address and the password c got its token for
  token,          \* token[c]: the token c holds
  at,             \* at[c]: where the request is that c has sent with its token
  access,         \* access[c]: current_user of that request, as loaded
  now             \* the clock, in minutes

vars == <<payload, pc, tx, reply, user, typed, token, at, access, now>>

registering == <<payload, pc, tx, reply>>

holding == <<typed, token, at, access>>
-----------------------------------------------------------------------------
Payloads == [email : Spellings, password : Passwords]

Users == [role : Roles, is_active : BOOLEAN]

\* /auth/login takes an EmailStr, the form of /auth/token any text.
Doors == {"login", "token"}

Credentials == [door : Doors, username : Spellings, password : Passwords]

Pair(credentials) == [email |-> credentials.username, password |-> credentials.password]

Tokens == [sub : Registrations, role : Roles, exp : Nat]

NoToken == [sub |-> NoUser]

Accesses == [sub : Registrations, role : Roles]

NoAccess == [sub |-> NoUser]

TypeOK ==
  /\ payload \in [Registrations -> Payloads]
  /\ pc \in [Registrations -> {"idle", "lookup", "insert", "commit", "answer", "done"}]
  /\ tx \in [Registrations -> {"none", "open", "committed"}]
  /\ reply \in [Registrations -> {"none", "created", "conflict", "error", "lost"}]
  /\ user \in [Registrations -> Users]
  /\ typed \in [Sessions -> Payloads \cup {NoUser}]
  /\ token \in [Sessions -> Tokens \cup {NoToken}]
  /\ at \in [Sessions -> {"client", "decoded", "handler"}]
  /\ access \in [Sessions -> Accesses \cup {NoAccess}]
  /\ now \in 0..LastMinute
-----------------------------------------------------------------------------
EmailAsTyped(r) == payload[r].email \* variant: the address is stored as typed

Email(r) == Normal[payload[r].email]

VerifyFirstByte(p, h) == TRUE \* variant: the result of verify_password is dropped

verify_password(p, h) == Significant[p] = Significant[h]

Committed(r) == tx[r] = "committed"

Registered == {r \in Registrations : Committed(r)}

Clash(r, w) == w # r /\ tx[w] # "none" /\ Email(w) = Email(r)

Goto(r, label) == pc' = [pc EXCEPT ![r] = label]

Reply(r, what) == Goto(r, "done") /\ reply' = [reply EXCEPT ![r] = what]

RollbackForgotten(r) == UNCHANGED tx \* variant: the session is left open

RollbackAll(r) == tx' = [tx EXCEPT ![r] = "none"] \* variant: what was committed is undone

Rollback(r) == tx' = [tx EXCEPT ![r] = IF @ = "open" THEN "none" ELSE @]

Searched(credentials) ==
  IF credentials.door = "login" THEN Normal[credentials.username] ELSE credentials.username

\* authenticate: the users a login with these credentials is let in as.
Authenticated(credentials) ==
  {u \in Registered : /\ Email(u) = Searched(credentials)
                      /\ verify_password(credentials.password, payload[u].password)
                      /\ user[u].is_active}

create_access_token(u) ==
  [sub |-> u, role |-> user[u].role, exp |-> now + TokenMinutes]

RoleOfClaim(t) == t.role \* variant: the claim decides, not the database

RoleOfUser(t) == user[t.sub].role
-----------------------------------------------------------------------------
(* Variants of the steps below.                                             *)

InsertUnindexed(r) == \* variant: the column has no unique index
  /\ pc[r] = "insert"
  /\ tx' = [tx EXCEPT ![r] = "open"]
  /\ Goto(r, "commit")
  /\ UNCHANGED <<payload, reply, user, holding, now>>

EmailTakenAsError(r) == \* variant: the IntegrityError is not told apart
  /\ pc[r] = "insert" /\ \E w \in Registered : Clash(r, w)
  /\ Rollback(r) /\ Reply(r, "failed")
  /\ UNCHANGED <<payload, user, holding, now>>
-----------------------------------------------------------------------------
Init ==
  /\ payload \in [Registrations -> Payloads]
  /\ pc = [r \in Registrations |-> "idle"]
  /\ tx = [r \in Registrations |-> "none"]
  /\ reply = [r \in Registrations |-> "none"]
  /\ user = [r \in Registrations |-> [role |-> RequestedRole[r], is_active |-> TRUE]]
  /\ typed = [c \in Sessions |-> NoUser]
  /\ token = [c \in Sessions |-> NoToken]
  /\ at = [c \in Sessions |-> "client"]
  /\ access = [c \in Sessions |-> NoAccess]
  /\ now = 0

Receive(r) ==
  /\ pc[r] = "idle" /\ Goto(r, "lookup")
  /\ UNCHANGED <<payload, tx, reply, user, holding, now>>

(* register *)
EmailKnown(r) ==
  /\ pc[r] = "lookup" /\ \E w \in Registered : Email(w) = Email(r)
  /\ Reply(r, "conflict")
  /\ UNCHANGED <<payload, tx, user, holding, now>>

EmailFree(r) ==
  /\ pc[r] = "lookup" /\ \A w \in Registered : Email(w) # Email(r)
  /\ Goto(r, "insert")
  /\ UNCHANGED <<payload, tx, reply, user, holding, now>>

\* The insert waits while the address is in another open transaction.
Insert(r) ==
  /\ pc[r] = "insert" /\ ~ \E w \in Registrations : Clash(r, w)
  /\ tx' = [tx EXCEPT ![r] = "open"]
  /\ Goto(r, "commit")
  /\ UNCHANGED <<payload, reply, user, holding, now>>

EmailTaken(r) ==
  /\ pc[r] = "insert" /\ \E w \in Registered : Clash(r, w)
  /\ Rollback(r) /\ Reply(r, "conflict")
  /\ UNCHANGED <<payload, user, holding, now>>

Commit(r) ==
  /\ pc[r] = "commit"
  /\ tx' = [tx EXCEPT ![r] = "committed"] /\ Goto(r, "answer")
  /\ UNCHANGED <<payload, reply, user, holding, now>>

\* db.refresh(user), 201.
Answer(r) ==
  /\ pc[r] = "answer" /\ Reply(r, "created")
  /\ UNCHANGED <<payload, tx, user, holding, now>>

\* An exception (500), or the process or its connection ends and nobody answers.
Fail(r) ==
  /\ r \in Faulty /\ pc[r] \notin {"idle", "done"}
  /\ Rollback(r) /\ \E what \in {"error", "lost"} : Reply(r, what)
  /\ UNCHANGED <<payload, user, holding, now>>

(* login, login_with_credentials.  A 401 leaves everything as it was.       *)
LogIn(c) ==
  /\ at[c] = "client"
  /\ \E credentials \in Credentials : \E u \in Authenticated(credentials) :
       /\ typed' = [typed EXCEPT ![c] = Pair(credentials)]
       /\ token' = [token EXCEPT ![c] = create_access_token(u)]
  /\ UNCHANGED <<registering, user, at, access, now>>

(* A request with a token.  decode_access_token, or 401: *)
Decode(c) ==
  /\ at[c] = "client" /\ token[c] # NoToken
  /\ now <= token[c].exp
  /\ at' = [at EXCEPT ![c] = "decoded"]
  /\ UNCHANGED <<registering, user, typed, token, access, now>>

\* get_current_user and get_current_active_user read the user, or 401.
LoadUser(c) ==
  /\ at[c] = "decoded"
  /\ IF user[token[c].sub].is_active
     THEN /\ at' = [at EXCEPT ![c] = "handler"]
          /\ access' = [access EXCEPT ![c] = [sub |-> token[c].sub, role |-> RoleOfUser(token[c])]]
     ELSE at' = [at EXCEPT ![c] = "client"] /\ UNCHANGED access
  /\ UNCHANGED <<registering, user, typed, token, now>>

\* The handler is through, or an exception or a lost connection ends the request.
Leave(c) ==
  /\ at[c] # "client"
  /\ at' = [at EXCEPT ![c] = "client"]
  /\ access' = [access EXCEPT ![c] = NoAccess]
  /\ UNCHANGED <<registering, user, typed, token, now>>

\* Somebody changes the role of a user or switches the user off or on.
Administer(u) ==
  /\ u \in Registered
  /\ \E columns \in Users : user' = [user EXCEPT ![u] = columns]
  /\ UNCHANGED <<registering, holding, now>>

Tick ==
  /\ now < LastMinute /\ now' = now + 1
  /\ UNCHANGED <<registering, user, holding>>

Step(r) ==
  \/ EmailKnown(r) \/ EmailFree(r)
  \/ Insert(r) \/ EmailTaken(r)
  \/ Commit(r) \/ Answer(r)

Next ==
  \/ \E r \in Registrations : Receive(r) \/ Step(r) \/ Fail(r)
  \/ \E c \in Sessions : LogIn(c) \/ Decode(c) \/ LoadUser(c) \/ Leave(c)
  \/ \E u \in Registrations : Administer(u)
  \/ Tick

Fairness == \A r \in Registrations : WF_vars(Step(r))

Spec == Init /\ [][Next]_vars /\ Fairness
-----------------------------------------------------------------------------
(* Properties *)

(* An address belongs to one user, also when two registrations have both    *)
(* found it free: the unique index decides.                                 *)
OneUserPerEmail ==
  \A r, w \in Registered : Email(r) = Email(w) => r = w

(* Whoever is told 201 can log in with what was typed, in any spelling of   *)
(* the domain, and is found as that user and nobody else; the form of       *)
(* /auth/token wants the address as it is stored.                           *)
AccountOpens ==
  \A r \in Registrations : reply[r] = "created" /\ user[r].is_active =>
    LET stored == Normal[payload[r].email]
        LoggedIn(door, s) == Authenticated(
          [door |-> door, username |-> s, password |-> payload[r].password])
    IN /\ LoggedIn("token", stored) = {r}
       /\ \A s \in Spellings : Normal[s] = stored => LoggedIn("login", s) = {r}

(* A token names the committed user whose address and password were typed:  *)
(* never the user of a registration that lost the race for the address.     *)
TokenIsOwners ==
  \A c \in Sessions : token[c] # NoToken =>
    LET u == token[c].sub IN
    /\ Committed(u) /\ reply[u] \notin {"conflict"}
    /\ Normal[typed[c].email] = Normal[payload[u].email]
    /\ Significant[typed[c].password] = Significant[payload[u].password]

(* _issue_token: the database decides, not the claims of the token.  A      *)
(* handler may outlive what it was let in on: the token expires, the user   *)
(* is switched off or gets another role while it runs.  But no request that *)
(* loads its user after a role was taken away for good is served with that  *)
(* role, however often and with whatever token it comes, and none that      *)
(* starts when the token has expired for good is served at all.             *)
Granted(a) == Committed(a.sub) /\ user[a.sub] = [role |-> a.role, is_active |-> TRUE]

Expired(c) == token[c] = NoToken \/ now > token[c].exp

RevocationHolds ==
  \A c \in Sessions :
    /\ \A a \in Accesses : [](at[c] # "handler" /\ []~Granted(a) => [](access[c] # a))
    /\ [](at[c] = "client" /\ []Expired(c) => [](at[c] = "client"))

(* Every registration a thread has taken is answered, or its process ends. *)
EveryRegistrationEnds ==
  \A r \in Registrations : pc[r] = "lookup" ~> pc[r] = "done"

(* Registration keeps the promise of IdempotentCreate, with the address as  *)
(* the key and every payload another content: at most one takes effect, 201 *)
(* only for that one, 409 only while somebody else has the address.         *)
Said == [none |-> "none", created |-> "ticket", conflict |-> "hash_conflict",
         error |-> "error", lost |-> "lost"]

Promise == INSTANCE IdempotentCreate WITH
  Requests <- Registrations, NoKey <- NoEmail, NoTicket <- NoUser,
  request <- [r \in Registrations |-> [key |-> Email(r), content |-> r]],
  accepted <- Registered,
  found <- [r \in Registrations |-> IF reply[r] = "created" THEN r ELSE NoUser],
  reply <- [r \in Registrations |-> Said[reply[r]]]

RegistersAsPromised == Promise!Spec
=============================================================================
