---------------------------- MODULE UserAccounts ----------------------------
(***************************************************************************)
(* Accounts, tokens and what a request may see (services/auth_service.py,  *)
(* core/security.py, api/dependencies.py, repositories/user_repository.py, *)
(* routers/auth.py, and the checks of services/project_service.py).        *)
(*                                                                         *)
(* A token carries the role its user had when it was issued and lives for  *)
(* jwt_expire_minutes; the users table may be edited meanwhile, by hand,   *)
(* since no endpoint promotes or deactivates anyone.  A request reads the  *)
(* user's row once, then the project's, and works with what it has read.   *)
(***************************************************************************)
EXTENDS Integers

CONSTANTS
  Emails,
  Ids,        \* the primary keys the users table can still hand out; bounds the runs
  Workers,    \* the threads that serve requests
  Projects,
  MaxEdits,   \* bound on the edits of the users table by hand
  NoUser,     \* there is no such row
  Nobody,     \* the project does not exist yet
  Idle        \* the worker serves no request

Roles == {"admin", "consultant", "customer"}
Row == [email : Emails, role : Roles, is_active : BOOLEAN]
Token == [sub : Ids, role : Roles]
ADMIN_ROLE == "admin"

\* What a worker that serves a request holds.
Registration ==
  [asks : {"register"}, email : Emails, role : Roles,
   pc : {"conflict", "forbidden", "checked", "failed", "created"}]
ProjectRequest ==
  [asks : {"project"}, id : Ids, role : Roles, project : Projects,
   pc : {"known", "created", "missing", "forbidden", "shown"}]
RefusedRequest == [asks : {"project"}, id : Ids, project : Projects, pc : {"unauthenticated"}]
ExportRequest == [asks : {"export"}, id : Ids, pc : {"audited", "exported"}]
Request == Registration \cup ProjectRequest \cup RefusedRequest \cup ExportRequest

ASSUME AccountsAssumption ==
  /\ Ids \subseteq Nat
  /\ Nobody \notin Ids
  /\ MaxEdits \in Nat
  /\ NoUser \notin Row
  /\ Idle \notin Request

VARIABLES
  users,     \* users[i]: the row with primary key i, or NoUser
  owner,     \* owner[p]: projects.owner_id, or Nobody
  tokens,    \* the tokens that have been issued and have not expired
  serving,   \* serving[w]: the request of worker w, or Idle
  edits,     \* edits of the users table so far
  witnessed  \* witnessed[w]: what the caller's row has been at some instant since
             \* the request of w began (history)

vars == <<users, owner, tokens, serving, edits, witnessed>>

TypeOK ==
  /\ users \in [Ids -> Row \cup {NoUser}]
  /\ owner \in [Projects -> Ids \cup {Nobody}]
  /\ tokens \subseteq Token
  /\ serving \in [Workers -> Request \cup {Idle}]
  /\ edits \in 0..MaxEdits
  /\ witnessed \in [Workers -> SUBSET ({"active"} \cup Roles)]

Registered == {i \in Ids : users[i] # NoUser}

\* UserRepository.get_by_email finds a row.
Known(e) == \E i \in Registered : users[i].email = e

-----------------------------------------------------------------------------
(* POST /auth/register *)

_PUBLIC_SELF_SERVE_ROLES == {"customer", "consultant"}

SelfServes(role) == role \in _PUBLIC_SELF_SERVE_ROLES

\* register reads the table, then checks the role that is asked for.
Register(w, e, role) ==
  /\ serving[w] = Idle
  /\ serving' = [serving EXCEPT ![w] =
       [asks |-> "register", email |-> e, role |-> role,
        pc |-> CASE Known(e) -> "conflict"
                 [] ~Known(e) /\ ~SelfServes(role) -> "forbidden"
                 [] OTHER -> "checked"]]
  /\ UNCHANGED <<users, owner, tokens, edits>>

Serves(w, asks, pc) ==
  /\ serving[w] # Idle
  /\ serving[w].asks = asks
  /\ serving[w].pc = pc

NextId == CHOOSE i \in Ids \ Registered : \A j \in Ids \ Registered : i <= j

\* A faulty variant: users.email has no unique index.
InsertAnyway(w) ==
  /\ Serves(w, "register", "checked")
  /\ Registered # Ids
  /\ users' = [users EXCEPT ![NextId] =
       [email |-> serving[w].email, role |-> serving[w].role, is_active |-> TRUE]]
  /\ serving' = [serving EXCEPT ![w].pc = "created"]
  /\ UNCHANGED <<owner, tokens, edits>>

\* create inserts the row; the unique index refuses a second one, and nothing
\* turns the IntegrityError into the 409 of the check above.
Insert(w) ==
  /\ Serves(w, "register", "checked")
  /\ IF Known(serving[w].email)
     THEN /\ serving' = [serving EXCEPT ![w].pc = "failed"]
          /\ UNCHANGED users
     ELSE /\ Registered # Ids
          /\ users' = [users EXCEPT ![NextId] =
               [email |-> serving[w].email, role |-> serving[w].role, is_active |-> TRUE]]
          /\ serving' = [serving EXCEPT ![w].pc = "created"]
  /\ UNCHANGED <<owner, tokens, edits>>

-----------------------------------------------------------------------------
(* Tokens *)

\* POST /auth/login with the right password: authenticate and create_token.
Login(i) ==
  /\ i \in Registered
  /\ users[i].is_active
  /\ tokens' = tokens \cup {[sub |-> i, role |-> users[i].role]}
  /\ UNCHANGED <<users, owner, serving, edits>>

\* The exp claim passes: decode_access_token raises from now on.
TokenExpires(t) ==
  /\ t \in tokens
  /\ tokens' = tokens \ {t}
  /\ UNCHANGED <<users, owner, serving, edits>>

-----------------------------------------------------------------------------
(* Requests with a token *)

\* get_current_user: the row the token names, when it is active.
Current(t) == t \in tokens /\ t.sub \in Registered /\ users[t.sub].is_active

\* get_current_user_optional: the row, active or not.
Optional(t) == t \in tokens /\ t.sub \in Registered

\* A faulty variant: the role is taken from the token.
RoleOfClaim(t) == t.role

\* The role the request works with is the row's.
RoleOf(t) == users[t.sub].role

\* A request for a project: 401, or on with the row that was read.
Authenticate(w, t, p) ==
  /\ serving[w] = Idle
  /\ t.sub \in Registered
  /\ serving' = [serving EXCEPT ![w] =
       IF Current(t)
       THEN [asks |-> "project", id |-> t.sub, role |-> RoleOf(t), project |-> p, pc |-> "known"]
       ELSE [asks |-> "project", id |-> t.sub, project |-> p, pc |-> "unauthenticated"]]
  /\ UNCHANGED <<users, owner, tokens, edits>>

\* create_project.
CreateProject(w) ==
  /\ Serves(w, "project", "known")
  /\ owner[serving[w].project] = Nobody
  /\ owner' = [owner EXCEPT ![serving[w].project] = serving[w].id]
  /\ serving' = [serving EXCEPT ![w].pc = "created"]
  /\ UNCHANGED <<users, tokens, edits>>

\* _authorize.
Authorized(w) ==
  \/ serving[w].role = ADMIN_ROLE
  \/ owner[serving[w].project] = serving[w].id

\* get_project: 404, 403, or the project.
GetProject(w) ==
  /\ Serves(w, "project", "known")
  /\ serving' = [serving EXCEPT ![w].pc =
       CASE owner[serving[w].project] = Nobody -> "missing"
         [] owner[serving[w].project] # Nobody /\ ~Authorized(w) -> "forbidden"
         [] OTHER -> "shown"]
  /\ UNCHANGED <<users, owner, tokens, edits>>

\* The exports work for anyone; an administrator's has the audit sheet.
Export(w, t) ==
  /\ serving[w] = Idle
  /\ t.sub \in Registered
  /\ serving' = [serving EXCEPT ![w] =
       [asks |-> "export", id |-> t.sub,
        pc |-> IF Optional(t) /\ RoleOf(t) = ADMIN_ROLE THEN "audited" ELSE "exported"]]
  /\ UNCHANGED <<users, owner, tokens, edits>>

\* The answer is sent.
Answer(w) ==
  /\ serving[w] # Idle
  /\ serving[w].pc \notin {"checked", "known"}
  /\ serving' = [serving EXCEPT ![w] = Idle]
  /\ UNCHANGED <<users, owner, tokens, edits>>

\* The worker dies: the session is closed, nothing is committed.
Abandon(w) ==
  /\ serving[w] # Idle
  /\ serving[w].pc \in {"checked", "known"}
  /\ serving' = [serving EXCEPT ![w] = Idle]
  /\ UNCHANGED <<users, owner, tokens, edits>>

\* Someone edits a row by hand: a promotion, a demotion, a deactivation.
Edit(i, role, active) ==
  /\ edits < MaxEdits
  /\ i \in Registered
  /\ users' = [users EXCEPT ![i].role = role, ![i].is_active = active]
  /\ edits' = edits + 1
  /\ UNCHANGED <<owner, tokens, serving>>

-----------------------------------------------------------------------------
Init ==
  /\ users = [i \in Ids |-> NoUser]
  /\ owner = [p \in Projects |-> Nobody]
  /\ tokens = {}
  /\ serving = [w \in Workers |-> Idle]
  /\ edits = 0
  /\ witnessed = [w \in Workers |-> {}]

Step ==
  \/ \E w \in Workers :
       \/ \E e \in Emails, role \in Roles : Register(w, e, role)
       \/ \E t \in Token : \/ Export(w, t)
                           \/ \E p \in Projects : Authenticate(w, t, p)
       \/ Insert(w) \/ CreateProject(w) \/ GetProject(w) \/ Answer(w) \/ Abandon(w)
  \/ \E i \in Ids :
       \/ Login(i)
       \/ \E role \in {ADMIN_ROLE, "customer"}, active \in BOOLEAN : Edit(i, role, active)
  \/ \E t \in Token : TokenExpires(t)

\* What the row of the caller is.
Standing(w) ==
  IF serving[w] = Idle \/ serving[w].asks = "register" THEN {}
  ELSE (IF users[serving[w].id].is_active THEN {"active"} ELSE {})
       \cup {users[serving[w].id].role}

Next ==
  /\ Step
  /\ witnessed' = [w \in Workers |->
       CASE serving'[w] = Idle -> {}
         [] serving'[w] # Idle /\ serving[w] = Idle -> Standing(w)'
         [] OTHER -> witnessed[w] \cup Standing(w)']

Spec == Init /\ [][Next]_vars

-----------------------------------------------------------------------------
(* Properties *)

\* Whatever registrations overlap, no two accounts share an address, no account
\* starts as an administrator, and a request that is refused because of its
\* address leaves an account with that address (AuthService.register).
RegistrationsExclusive ==
  /\ \A i, j \in Registered : users[i].email = users[j].email => i = j
  /\ edits = 0 => \A i \in Registered : users[i].role # ADMIN_ROLE
  /\ \A w \in Workers :
       Serves(w, "register", "conflict") \/ Serves(w, "register", "failed")
         => Known(serving[w].email)

\* A project goes only to a caller whose row was active, and who owned it or
\* whose row was an administrator's, during the request; an audit sheet only to
\* one whose row was an administrator's.  How old the token is and what it says
\* does not matter (get_current_user, _authorize, export_excel).
NoStaleAuthority ==
  \A w \in Workers :
    /\ Serves(w, "project", "shown") =>
         /\ "active" \in witnessed[w]
         /\ ADMIN_ROLE \in witnessed[w] \/ owner[serving[w].project] = serving[w].id
    /\ Serves(w, "export", "audited") => ADMIN_ROLE \in witnessed[w]
=============================================================================
