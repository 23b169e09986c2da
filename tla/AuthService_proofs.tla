------------------------- MODULE AuthService_proofs -------------------------
(***************************************************************************)
(* Theorems about AuthService, for every set of registrations, sessions,   *)
(* addresses and passwords.                                                *)
(***************************************************************************)
EXTENDS AuthService, TLAPS

Act(r) == Receive(r) \/ Step(r) \/ Fail(r)

LEMMA RollbackFrame ==
  ASSUME TypeOK, NEW r \in Registrations, Rollback(r)
  PROVE  /\ tx' \in [Registrations -> {"none", "open", "committed"}]
         /\ \A q \in Registrations \ {r} : tx'[q] = tx[q]
         /\ tx'[r] = IF tx[r] = "open" THEN "none" ELSE tx[r]
BY DEF TypeOK, Rollback

LEMMA NormalType == \A s \in Spellings : Normal[s] \in Spellings /\ Normal[Normal[s]] = Normal[s]
BY NormalAssumption
-----------------------------------------------------------------------------
(* Type correctness                                                        *)

\* A request under way carries a token, and only a handler has a current_user.
Attending ==
  \A c \in Sessions :
    /\ at[c] # "client" => token[c] # NoToken
    /\ at[c] # "handler" => access[c] = NoAccess

LEMMA InitTypeOK == Init => TypeOK /\ Attending
BY RolesAssumption, ClockAssumption DEF Init, TypeOK, Attending, Users, NoToken, NoAccess

LEMMA ActTypeOK ==
  ASSUME TypeOK, NEW r \in Registrations, Act(r)
  PROVE  TypeOK'
<1> USE DEF TypeOK, Goto, Reply, holding
<1>1. CASE Receive(r) \/ EmailKnown(r) \/ EmailFree(r) \/ Insert(r) \/ Commit(r) \/ Answer(r)
  BY <1>1 DEF Receive, EmailKnown, EmailFree, Insert, Commit, Answer
<1>2. CASE EmailTaken(r) \/ Fail(r)
  BY <1>2, RollbackFrame DEF EmailTaken, Fail
<1> QED
  BY <1>1, <1>2 DEF Act, Step

LEMMA LogInTypeOK ==
  ASSUME TypeOK, NEW c \in Sessions, LogIn(c)
  PROVE  TypeOK'
<1>1. PICK credentials \in Credentials : \E u \in Authenticated(credentials) :
        /\ typed' = [typed EXCEPT ![c] = Pair(credentials)]
        /\ token' = [token EXCEPT ![c] = create_access_token(u)]
  BY DEF LogIn
<1>2. PICK u \in Authenticated(credentials) : token' = [token EXCEPT ![c] = create_access_token(u)]
  BY <1>1
<1>3. u \in Registrations /\ user[u].role \in Roles
  BY DEF Authenticated, Registered, TypeOK, Users
<1>4. now + TokenMinutes \in Nat
  BY ClockAssumption DEF TypeOK
<1>5. create_access_token(u) \in Tokens
  BY <1>3, <1>4 DEF create_access_token, Tokens
<1> QED
  BY <1>1, <1>2, <1>5 DEF LogIn, TypeOK, registering, Pair, Credentials, Payloads

LEMMA RequestTypeOK ==
  ASSUME TypeOK, Attending, NEW c \in Sessions, Decode(c) \/ LoadUser(c) \/ Leave(c)
  PROVE  TypeOK'
<1>1. CASE Decode(c) \/ Leave(c)
  BY <1>1 DEF Decode, Leave, TypeOK, registering, NoAccess
<1>2. CASE LoadUser(c)
  <2>1. token[c].sub \in Registrations /\ user[token[c].sub].role \in Roles
    BY <1>2 DEF LoadUser, Attending, Tokens, TypeOK, Users
  <2> QED
    BY <1>2, <2>1 DEF LoadUser, TypeOK, registering, RoleOfUser, Accesses
<1> QED
  BY <1>1, <1>2

LEMMA NextTypeOK == TypeOK /\ Attending /\ [Next]_vars => TypeOK'
<1> SUFFICES ASSUME TypeOK, Attending, [Next]_vars PROVE TypeOK'
  OBVIOUS
<1>1. ASSUME NEW u \in Registrations, Administer(u) PROVE TypeOK'
  BY <1>1 DEF Administer, TypeOK, registering, holding
<1>2. CASE Tick
  BY <1>2, ClockAssumption DEF Tick, TypeOK, registering, holding
<1>3. CASE UNCHANGED vars
  BY <1>3 DEF vars, TypeOK
<1> QED
  BY <1>1, <1>2, <1>3, ActTypeOK, LogInTypeOK, RequestTypeOK DEF Next, Act

\* What a step does with tokens and requests.
LEMMA Moves ==
  ASSUME [Next]_vars
  PROVE  \/ UNCHANGED holding
         \/ \E c \in Sessions : LogIn(c) \/ Decode(c) \/ LoadUser(c) \/ Leave(c)
BY DEF Next, vars, holding, Receive, Step, EmailKnown, EmailFree, Insert, EmailTaken, Commit,
   Answer, Fail, Administer, Tick

LEMMA NextAttending == TypeOK /\ Attending /\ [Next]_vars => Attending'
<1> SUFFICES ASSUME TypeOK, Attending, [Next]_vars PROVE Attending'
  OBVIOUS
<1>1. CASE UNCHANGED holding
  BY <1>1 DEF Attending, holding
<1>2. ASSUME NEW c \in Sessions, LogIn(c) PROVE Attending'
  <2>1. at[c] = "client" /\ UNCHANGED <<at, access>> /\ \A b \in Sessions \ {c} : token'[b] = token[b]
    BY <1>2 DEF LogIn, TypeOK
  <2> QED
    BY <2>1 DEF Attending
<1>3. ASSUME NEW c \in Sessions, Decode(c) \/ LoadUser(c) \/ Leave(c) PROVE Attending'
  BY <1>3 DEF Decode, LoadUser, Leave, TypeOK, Attending
<1> QED
  BY <1>1, <1>2, <1>3, Moves

(* Every variable keeps its type; a token always names a registration.      *)
THEOREM TypeCorrect == Spec => []TypeOK
BY InitTypeOK, NextTypeOK, NextAttending, PTL DEF Spec
-----------------------------------------------------------------------------
(* Where a registration is, and the unique index, which binds open         *)
(* transactions too.                                                       *)

Placed(r) ==
  /\ pc[r] \in {"idle", "lookup", "insert"} => tx[r] = "none"
  /\ pc[r] = "commit" => tx[r] = "open"
  /\ pc[r] = "answer" => tx[r] = "committed"
  /\ pc[r] = "done" => tx[r] # "open"
  /\ pc[r] # "done" => reply[r] = "none"
  /\ reply[r] = "created" => tx[r] = "committed"
  /\ reply[r] = "conflict" => tx[r] = "none"

UniqueEmails ==
  \A r, w \in Registrations :
    tx[r] # "none" /\ tx[w] # "none" /\ Email(r) = Email(w) => r = w

Indexed == UniqueEmails /\ \A r \in Registrations : Placed(r)

LEMMA InitIndexed == Init => Indexed
BY DEF Init, Indexed, UniqueEmails, Placed

LEMMA ActIndexed ==
  ASSUME TypeOK, Indexed, NEW r \in Registrations, Act(r)
  PROVE  /\ Indexed'
         /\ payload' = payload /\ user' = user /\ now' = now /\ UNCHANGED holding
         /\ \A q \in Registrations \ {r} : tx'[q] = tx[q] /\ pc'[q] = pc[q] /\ reply'[q] = reply[q]
         /\ tx[r] = "committed" => tx'[r] = "committed"
<1> USE DEF TypeOK, Goto, Reply
<1>1. /\ payload' = payload /\ user' = user /\ now' = now /\ UNCHANGED holding
      /\ \A q \in Registrations \ {r} : tx'[q] = tx[q] /\ pc'[q] = pc[q] /\ reply'[q] = reply[q]
  BY RollbackFrame
  DEF Act, Step, Receive, EmailKnown, EmailFree, Insert, EmailTaken, Commit, Answer, Fail
<1>2. \A q \in Registrations : Email(q)' = Email(q)
  BY <1>1 DEF Email
<1>3. \A q \in Registrations \ {r} : Placed(q)'
  BY <1>1 DEF Indexed, Placed
<1>4. CASE Insert(r)
  <2>1. tx[r] = "none" /\ tx'[r] = "open" /\ pc'[r] = "commit" /\ reply'[r] = "none"
    BY <1>4 DEF Insert, Indexed, Placed
  <2>2. \A w \in Registrations \ {r} : tx[w] # "none" => Email(w) # Email(r)
    BY <1>4 DEF Insert, Clash
  <2> QED
    BY <1>1, <1>2, <1>3, <2>1, <2>2 DEF Indexed, UniqueEmails, Placed
<1>5. CASE ~ Insert(r)
  <2>1. /\ tx'[r] # "none" => tx[r] # "none"
        /\ tx[r] = "committed" => tx'[r] = "committed"
        /\ Placed(r)'
    <3>1. CASE Receive(r) \/ EmailKnown(r) \/ EmailFree(r)
      BY <3>1 DEF Receive, EmailKnown, EmailFree, Indexed, Placed
    <3>2. CASE Commit(r) \/ Answer(r)
      BY <3>2 DEF Commit, Answer, Indexed, Placed
    <3>3. CASE EmailTaken(r)
      BY <3>3, RollbackFrame DEF EmailTaken, Indexed, Placed
    <3>4. CASE Fail(r)
      BY <3>4, RollbackFrame DEF Fail, Indexed, Placed
    <3> QED
      BY <1>5, <3>1, <3>2, <3>3, <3>4 DEF Act, Step
  <2> QED
    BY <1>1, <1>2, <1>3, <2>1 DEF Indexed, UniqueEmails
<1> QED
  BY <1>1, <1>4, <1>5 DEF Insert, Indexed, Placed

LEMMA StillIndexed == Indexed /\ UNCHANGED registering => Indexed'
BY DEF Indexed, registering, UniqueEmails, Placed, Email

LEMMA NextIndexed == TypeOK /\ Indexed /\ [Next]_vars => Indexed'
BY ActIndexed, StillIndexed
DEF Next, Act, LogIn, Decode, LoadUser, Leave, Administer, Tick, vars, registering

LEMMA AlwaysIndexed == Spec => [](TypeOK /\ Indexed)
BY TypeCorrect, InitIndexed, NextIndexed, PTL DEF Spec

(* However many registrations of an address are under way, one user has it. *)
THEOREM EmailsAreUnique == Spec => []OneUserPerEmail
<1>1. Indexed => OneUserPerEmail
  BY DEF Indexed, UniqueEmails, OneUserPerEmail, Registered, Committed
<1> QED
  BY <1>1, AlwaysIndexed, PTL
-----------------------------------------------------------------------------
(* Logging in.                                                             *)

(* Whoever was told 201 logs in as that user, and as nobody else, with any  *)
(* spelling of the address at /auth/login and the stored one at /auth/token. *)
THEOREM RegistrationOpensAccount == Spec => []AccountOpens
<1>1. ASSUME TypeOK, Indexed, NEW r \in Registrations, reply[r] = "created", user[r].is_active,
             NEW door \in Doors, NEW s \in Spellings,
             Searched([door |-> door, username |-> s, password |-> payload[r].password]) = Email(r)
      PROVE  Authenticated([door |-> door, username |-> s, password |-> payload[r].password]) = {r}
  <2>1. Committed(r)
    BY <1>1 DEF Indexed, Placed, Committed
  <2>2. \A w \in Registered : Email(w) = Email(r) => w = r
    BY <1>1, <2>1 DEF Indexed, UniqueEmails, Registered, Committed
  <2> QED
    BY <1>1, <2>1, <2>2 DEF Authenticated, Registered, verify_password
<1>2. TypeOK /\ Indexed => AccountOpens
  <2> SUFFICES ASSUME TypeOK, Indexed, NEW r \in Registrations,
                      reply[r] = "created" /\ user[r].is_active
               PROVE  LET stored == Normal[payload[r].email]
                          LoggedIn(door, s) == Authenticated(
                            [door |-> door, username |-> s, password |-> payload[r].password])
                      IN /\ LoggedIn("token", stored) = {r}
                         /\ \A s \in Spellings : Normal[s] = stored => LoggedIn("login", s) = {r}
    BY DEF AccountOpens
  <2> DEFINE stored == Normal[payload[r].email]
             Typed(door, s) == [door |-> door, username |-> s, password |-> payload[r].password]
  <2>1. stored \in Spellings /\ Email(r) = stored
    BY NormalType DEF TypeOK, Payloads, Email
  <2>2. Searched(Typed("token", stored)) = Email(r)
    BY <2>1 DEF Searched
  <2>3. \A s \in Spellings : Normal[s] = stored => Searched(Typed("login", s)) = Email(r)
    BY <2>1 DEF Searched
  <2>4. Authenticated(Typed("token", stored)) = {r}
    BY <1>1, <2>1, <2>2 DEF Doors
  <2>5. \A s \in Spellings : Normal[s] = stored => Authenticated(Typed("login", s)) = {r}
    BY <1>1, <2>3 DEF Doors
  <2> QED
    BY <2>4, <2>5
<1> QED
  BY <1>2, AlwaysIndexed, PTL

LEMMA LogInGivesOwn ==
  ASSUME TypeOK, Indexed, TokenIsOwners, NEW c \in Sessions, LogIn(c)
  PROVE  TokenIsOwners'
<1>1. PICK credentials \in Credentials : \E u \in Authenticated(credentials) :
        /\ typed' = [typed EXCEPT ![c] = Pair(credentials)]
        /\ token' = [token EXCEPT ![c] = create_access_token(u)]
  BY DEF LogIn
<1>2. PICK u \in Authenticated(credentials) :
        /\ typed' = [typed EXCEPT ![c] = Pair(credentials)]
        /\ token' = [token EXCEPT ![c] = create_access_token(u)]
  BY <1>1
<1>3. /\ typed'[c].email = credentials.username /\ typed'[c].password = credentials.password
      /\ token'[c].sub = u
      /\ \A b \in Sessions \ {c} : typed'[b] = typed[b] /\ token'[b] = token[b]
  BY <1>2 DEF TypeOK, create_access_token, Pair
<1>4. UNCHANGED registering
  BY DEF LogIn
<1>5. u \in Registrations /\ Committed(u) /\ reply[u] # "conflict"
  BY DEF Authenticated, Registered, Committed, Indexed, Placed
<1>6. Normal[credentials.username] = Normal[payload[u].email]
  <2>1. credentials.username \in Spellings /\ payload[u].email \in Spellings
    BY <1>5 DEF Credentials, TypeOK, Payloads
  <2>2. Normal[payload[u].email] = Searched(credentials)
    BY DEF Authenticated, Email
  <2> QED
    BY <2>1, <2>2, NormalType DEF Searched
<1>7. Significant[credentials.password] = Significant[payload[u].password]
  BY DEF Authenticated, verify_password
<1> QED
  BY <1>3, <1>4, <1>5, <1>6, <1>7 DEF TokenIsOwners, registering, Committed

LEMMA NextTokenIsOwners ==
  TypeOK /\ Indexed /\ Indexed' /\ TokenIsOwners /\ [Next]_vars => TokenIsOwners'
<1> SUFFICES ASSUME TypeOK, Indexed, Indexed', TokenIsOwners, [Next]_vars PROVE TokenIsOwners'
  OBVIOUS
<1>1. ASSUME NEW r \in Registrations, Act(r) PROVE TokenIsOwners'
  <2>1. /\ payload' = payload /\ typed' = typed /\ token' = token
        /\ \A q \in Registrations : tx[q] = "committed" => tx'[q] = "committed"
    BY <1>1, ActIndexed DEF holding
  <2>2. \A q \in Registrations : tx'[q] = "committed" => reply'[q] # "conflict"
    BY DEF Indexed, Placed
  <2>3. \A c \in Sessions : token[c] # NoToken => token[c].sub \in Registrations
    BY DEF TypeOK, Tokens
  <2> QED
    BY <2>1, <2>2, <2>3 DEF TokenIsOwners, Committed
<1>2. ASSUME UNCHANGED <<registering, typed, token>> PROVE TokenIsOwners'
  BY <1>2 DEF TokenIsOwners, registering, Committed
<1> QED
  BY <1>1, <1>2, LogInGivesOwn
  DEF Next, Act, Decode, LoadUser, Leave, Administer, Tick, vars, registering, holding

LEMMA AlwaysOwned == Spec => [](TypeOK /\ Indexed /\ TokenIsOwners)
<1>1. Init => TokenIsOwners
  BY DEF Init, TokenIsOwners
<1> QED
  BY <1>1, AlwaysIndexed, NextTokenIsOwners, PTL DEF Spec

(* A token is only ever given to who has typed the address and the password *)
(* (what bcrypt sees of it) of the user it names.                           *)
THEOREM TokensAreOwned == Spec => []TokenIsOwners
BY AlwaysOwned, PTL

\* What keeps a session out: it comes in only with what is granted when the
\* user is loaded, and its request starts only while the token is valid.
LEMMA RoleIsGranted ==
  ASSUME TypeOK, Attending, TokenIsOwners, [Next]_vars, NEW c \in Sessions, NEW a \in Accesses,
         access[c] # a, ~ Granted(a)
  PROVE  access'[c] # a
<1>1. CASE UNCHANGED access
  BY <1>1
<1>2. CASE LoadUser(c) /\ access'[c] # access[c]
  <2>1. /\ user[token[c].sub].is_active /\ token[c] # NoToken
        /\ access'[c] = [sub |-> token[c].sub, role |-> user[token[c].sub].role]
    BY <1>2 DEF LoadUser, Attending, TypeOK, RoleOfUser
  <2>2. Committed(token[c].sub) /\ token[c].sub \in Registrations
    BY <2>1 DEF TokenIsOwners, TypeOK, Tokens
  <2>3. user[token[c].sub] = [role |-> user[token[c].sub].role, is_active |-> TRUE]
    BY <2>1, <2>2 DEF TypeOK, Users
  <2>4. Granted(access'[c])
    BY <2>1, <2>2, <2>3 DEF Granted
  <2> QED
    BY <2>4
<1>3. CASE Leave(c)
  BY <1>3, NullsAssumption DEF Leave, TypeOK, NoAccess, Accesses
<1>4. ASSUME NEW b \in Sessions \ {c}, LoadUser(b) \/ Leave(b) PROVE access'[c] = access[c]
  BY <1>4 DEF LoadUser, Leave, TypeOK
<1> QED
  BY <1>1, <1>2, <1>3, <1>4, Moves DEF LogIn, Decode, holding

LEMMA StartsUnexpired ==
  ASSUME TypeOK, [Next]_vars, NEW c \in Sessions, at[c] = "client", Expired(c)
  PROVE  at'[c] = "client"
<1>1. ASSUME NEW b \in Sessions, Decode(b) PROVE b # c
  <2>1. b = c => now <= token[c].exp /\ now > token[c].exp /\ token[c] \in Tokens
    BY <1>1 DEF Decode, Expired, TypeOK
  <2> QED
    BY <2>1 DEF TypeOK, Tokens
<1>2. ASSUME NEW b \in Sessions, LogIn(b) \/ Decode(b) \/ LoadUser(b) \/ Leave(b)
      PROVE  at'[c] = "client"
  BY <1>1, <1>2 DEF LogIn, Decode, LoadUser, Leave, TypeOK
<1> QED
  BY <1>2, Moves DEF holding

LEMMA AlwaysAttending == Spec => [](TypeOK /\ Attending /\ TokenIsOwners)
BY AlwaysOwned, InitTypeOK, NextAttending, PTL DEF Spec

LEMMA RoleTakenAway ==
  ASSUME NEW c \in Sessions, NEW a \in Accesses
  PROVE  Spec => [](at[c] # "handler" /\ []~Granted(a) => [](access[c] # a))
<1>1. Attending /\ at[c] # "handler" => access[c] # a
  BY NullsAssumption DEF Attending, NoAccess, Accesses
<1>2. TypeOK /\ Attending /\ TokenIsOwners /\ [Next]_vars /\ access[c] # a /\ ~ Granted(a)
        => (access[c] # a)'
  BY RoleIsGranted
<1> QED
  BY <1>1, <1>2, AlwaysAttending, PTL DEF Spec

LEMMA ExpiredForGood ==
  ASSUME NEW c \in Sessions
  PROVE  Spec => [](at[c] = "client" /\ []Expired(c) => [](at[c] = "client"))
<1>1. TypeOK /\ [Next]_vars /\ at[c] = "client" /\ Expired(c) => (at[c] = "client")'
  BY StartsUnexpired
<1> QED
  BY <1>1, AlwaysAttending, PTL DEF Spec

(* A role that was taken away for good serves no request that loads its     *)
(* user later, and an expired token starts none, whatever the tokens say    *)
(* and however the steps of requests, clock and administrator interleave.   *)
THEOREM DatabaseDecides == Spec => RevocationHolds
BY RoleTakenAway, ExpiredForGood DEF RevocationHolds
-----------------------------------------------------------------------------
(* Registration implements IdempotentCreate: the commit accepts, and every *)
(* answer is one of the promise.                                           *)

RequestsOfPromise == [r \in Registrations |-> [key |-> Email(r), content |-> r]]

SaidTo == [r \in Registrations |-> Said[reply[r]]]

UsersTold == [r \in Registrations |-> IF reply[r] = "created" THEN r ELSE NoUser]

LEMMA SameEmail ==
  ASSUME TypeOK, NEW r \in Registrations, NEW w \in Registrations
  PROVE  /\ Promise!SameKey(r, w) <=> Email(w) = Email(r)
         /\ RequestsOfPromise[r].content = r
<1>1. Email(r) # NoEmail
  BY NormalType, NullsAssumption DEF TypeOK, Payloads, Email
<1> QED
  BY <1>1 DEF Promise!SameKey, RequestsOfPromise

LEMMA QuietRegistration ==
  ASSUME payload' = payload, reply' = reply, Registered' = Registered
  PROVE  UNCHANGED Promise!vars
<1>1. \A r : Email(r)' = Email(r)
  BY DEF Email
<1> QED
  BY <1>1 DEF Promise!vars

LEMMA AnswerOfPromise ==
  ASSUME TypeOK, Indexed, NEW r \in Registrations, pc[r] # "done", payload' = payload,
         Registered' = Registered, NEW what \in {"created", "conflict", "error", "lost"},
         Reply(r, what)
  PROVE  Promise!Tell(r, Said[what], IF what = "created" THEN r ELSE NoUser)
<1>1. reply[r] = "none" /\ reply' = [reply EXCEPT ![r] = what]
  BY DEF Indexed, Placed, Reply
<1>2. \A q : Email(q)' = Email(q)
  BY DEF Email
<1>3. RequestsOfPromise' = RequestsOfPromise
  BY <1>2 DEF RequestsOfPromise
<1>4. reply'[r] = what /\ \A q \in Registrations \ {r} : reply'[q] = reply[q]
  BY <1>1 DEF TypeOK
<1>5. SaidTo[r] = "none"
  BY <1>1 DEF SaidTo, Said
<1>6. SaidTo' = [SaidTo EXCEPT ![r] = Said[what]]
  BY <1>4 DEF SaidTo
<1>7. UsersTold' = [UsersTold EXCEPT ![r] = IF what = "created" THEN r ELSE NoUser]
  BY <1>4 DEF UsersTold
<1> QED
  BY <1>3, <1>5, <1>6, <1>7 DEF Promise!Tell, RequestsOfPromise, SaidTo, UsersTold

LEMMA ActOfPromise ==
  ASSUME TypeOK, Indexed, NEW r \in Registrations, Act(r)
  PROVE  Promise!Next \/ UNCHANGED Promise!vars
<1>1. /\ payload' = payload
      /\ \A q \in Registrations \ {r} : tx'[q] = tx[q]
      /\ tx[r] = "committed" => tx'[r] = "committed"
  BY ActIndexed
<1>2. ASSUME tx'[r] = "committed" => tx[r] = "committed"
      PROVE  Registered' = Registered
  BY <1>1, <1>2 DEF Registered, Committed
<1>3. ASSUME Promise!TellTicket(r) \/ Promise!TellConflict(r) \/ Promise!TellFailure(r)
             \/ Promise!Accept(r)
      PROVE  Promise!Next
  BY <1>3 DEF Promise!Next
<1>4. CASE Receive(r) \/ EmailFree(r) \/ Insert(r)
  <2>1. reply' = reply /\ (tx'[r] = "committed" => tx[r] = "committed")
    BY <1>4 DEF Receive, EmailFree, Insert, TypeOK
  <2> QED
    BY <1>1, <1>2, <2>1, QuietRegistration
<1>5. ASSUME NEW w \in Registered, Email(w) = Email(r), w # r, pc[r] # "done",
             Registered' = Registered, Reply(r, "conflict")
      PROVE  Promise!Next
  <2>1. Promise!Tell(r, "hash_conflict", NoUser)
    BY <1>1, <1>5, AnswerOfPromise DEF Said
  <2>2. Promise!TellConflict(r)
    BY <1>5, <2>1, SameEmail DEF Promise!TellConflict, Registered, RequestsOfPromise
  <2> QED
    BY <1>3, <2>2
<1>6. CASE EmailKnown(r)
  <2>1. PICK w \in Registered : Email(w) = Email(r)
    BY <1>6 DEF EmailKnown
  <2>2. w # r /\ pc[r] # "done"
    BY <1>6 DEF EmailKnown, Indexed, Placed, Registered, Committed
  <2>3. Registered' = Registered /\ Reply(r, "conflict")
    BY <1>2, <1>6 DEF EmailKnown
  <2> QED
    BY <1>5, <2>1, <2>2, <2>3
<1>7. CASE EmailTaken(r)
  <2>1. PICK w \in Registered : Email(w) = Email(r) /\ w # r
    BY <1>7 DEF EmailTaken, Clash
  <2>2. pc[r] # "done" /\ Registered' = Registered /\ Reply(r, "conflict")
    BY <1>2, <1>7, RollbackFrame DEF EmailTaken
  <2> QED
    BY <1>5, <2>1, <2>2
<1>8. CASE Commit(r)
  <2>1. /\ reply[r] = "none" /\ reply' = reply /\ tx[r] = "open"
        /\ Registered' = Registered \cup {r} /\ r \notin Registered
    BY <1>1, <1>8 DEF Commit, Indexed, Placed, Registered, Committed, TypeOK
  <2>2. \A w \in Registered : ~ Promise!SameKey(r, w)
    BY <2>1, SameEmail DEF Indexed, UniqueEmails, Registered, Committed
  <2>3. \A q : Email(q)' = Email(q)
    BY <1>1 DEF Email
  <2>4. /\ RequestsOfPromise' = RequestsOfPromise /\ SaidTo' = SaidTo /\ UsersTold' = UsersTold
        /\ SaidTo[r] = "none"
    BY <2>1, <2>3 DEF RequestsOfPromise, SaidTo, UsersTold, Said
  <2>5. Promise!Accept(r)
    BY <2>1, <2>2, <2>4 DEF Promise!Accept, RequestsOfPromise, SaidTo, UsersTold
  <2> QED
    BY <1>3, <2>5
<1>9. CASE Answer(r)
  <2>1. pc[r] # "done" /\ Registered' = Registered /\ Reply(r, "created") /\ r \in Registered
    BY <1>2, <1>9 DEF Answer, Indexed, Placed, Registered, Committed
  <2>2. Promise!Tell(r, "ticket", r)
    BY <1>1, <2>1, AnswerOfPromise DEF Said
  <2> QED
    BY <1>3, <2>1, <2>2 DEF Promise!TellTicket
<1>10. CASE Fail(r)
  <2>1. PICK what \in {"error", "lost"} : Reply(r, what)
    BY <1>10 DEF Fail
  <2>2. pc[r] # "done" /\ Registered' = Registered
    BY <1>2, <1>10, RollbackFrame DEF Fail
  <2>3. Promise!Tell(r, what, NoUser)
    BY <1>1, <2>1, <2>2, AnswerOfPromise DEF Said
  <2> QED
    BY <1>3, <2>3 DEF Promise!TellFailure
<1> QED
  BY <1>4, <1>6, <1>7, <1>8, <1>9, <1>10 DEF Act, Step

LEMMA NextOfPromise == TypeOK /\ Indexed /\ [Next]_vars => [Promise!Next]_(Promise!vars)
<1>1. UNCHANGED registering => UNCHANGED Promise!vars
  BY QuietRegistration DEF registering, Registered, Committed
<1> QED
  BY <1>1, ActOfPromise DEF Next, Act, LogIn, Decode, LoadUser, Leave, Administer, Tick, vars, registering

LEMMA InitOfPromise == Init => Promise!Init
BY DEF Init, Promise!Init, Registered, Committed, Said

(* Registration keeps the promise of IdempotentCreate, the address its key.  *)
THEOREM RegistrationImplements == Spec => RegistersAsPromised
BY AlwaysIndexed, InitOfPromise, NextOfPromise, PTL DEF Spec, RegistersAsPromised, Promise!Spec
=============================================================================
