------------------------ MODULE UserAccounts_proofs ------------------------
(***************************************************************************)
(* Proofs about UserAccounts, for any addresses, keys, workers, projects   *)
(* and number of edits by hand.                                            *)
(*                                                                         *)
(* The inductive invariant says what a request in flight knows: a          *)
(* registration that was let past the check asks for a role that is open   *)
(* to everyone, and the role a project request works with was its caller's *)
(* at some instant since the request began, while the caller was active.   *)
(***************************************************************************)
EXTENDS UserAccounts, WellFoundedInduction, TLAPS

\* What worker w may rely on although the table is edited under it.
RequestKnows(w) ==
  /\ Serves(w, "register", "checked") => SelfServes(serving[w].role)
  /\ Serves(w, "register", "conflict") \/ Serves(w, "register", "failed")
       => Known(serving[w].email)
  /\ serving[w] # Idle /\ serving[w].asks # "register" => serving[w].id \in Registered
  /\ Serves(w, "project", "known") =>
       "active" \in witnessed[w] /\ serving[w].role \in witnessed[w]

\* What NoStaleAuthority says of worker w.
Entitled(w) ==
  /\ Serves(w, "project", "shown") =>
       /\ "active" \in witnessed[w]
       /\ ADMIN_ROLE \in witnessed[w] \/ owner[serving[w].project] = serving[w].id
  /\ Serves(w, "export", "audited") => ADMIN_ROLE \in witnessed[w]

IInv ==
  /\ TypeOK
  /\ RegistrationsExclusive
  /\ \A w \in Workers : RequestKnows(w) /\ Entitled(w)

-----------------------------------------------------------------------------
\* Keys are ordered by a well-founded relation.
Smaller == {pair \in Nat \X Nat : pair[1] < pair[2]}

LEMMA SmallerWellFounded == IsWellFoundedOn(Smaller, Nat)
BY NatLessThanWellFounded DEF OpToRel, Smaller

\* A set of keys has a first one.
LEMMA FirstKey ==
  ASSUME NEW S, S \subseteq Nat, S # {}
  PROVE  \E i \in S : \A j \in S : i <= j
<1>1. PICK i \in S : \A j \in S : ~ (<<j, i>> \in Smaller)
  BY SmallerWellFounded, WFMin
<1>2. ASSUME NEW j \in S PROVE i <= j
  <2>1. CASE j < i
    <3>1. <<j, i>> \in Nat \X Nat /\ <<j, i>>[1] < <<j, i>>[2]
      BY <2>1
    <3>2. QED
      BY <1>1, <3>1 DEF Smaller
  <2>2. QED
    BY <2>1
<1>3. QED
  BY <1>2

\* As long as a key is free, NextId is one.
LEMMA NextIdFree ==
  ASSUME Registered # Ids
  PROVE  NextId \in Ids \ Registered
<1>1. Ids \ Registered \subseteq Nat /\ Ids \ Registered # {}
  BY AccountsAssumption DEF Registered
<1>2. QED
  BY <1>1, FirstKey DEF NextId

-----------------------------------------------------------------------------
(* What a step does to the table, to the projects and to what was witnessed *)

\* An account keeps its key and its address.
LEMMA UsersStay ==
  ASSUME TypeOK, [Next]_vars
  PROVE  /\ Registered \subseteq Registered'
         /\ \A i \in Registered : users'[i].email = users[i].email
         /\ \A e \in Emails : Known(e) => Known(e)'
<1> DEFINE Stay == \A i \in Registered : i \in Registered' /\ users'[i].email = users[i].email
<1>1. ASSUME users' = users PROVE Stay
  BY <1>1 DEF Registered
<1>2. ASSUME NEW w \in Workers, Insert(w), users' # users PROVE Stay
  <2>1. NextId \in Ids \ Registered
    BY <1>2, NextIdFree DEF Insert
  <2>2. \A i \in Registered : users'[i] = users[i]
    BY <1>2, <2>1 DEF Insert, TypeOK, Registered
  <2>3. QED
    BY <2>2 DEF Registered
<1>3. ASSUME NEW i \in Ids, NEW role \in Roles, NEW active \in BOOLEAN, Edit(i, role, active)
      PROVE  Stay
  <2>1. /\ users[i] \in Row
        /\ users' = [users EXCEPT ![i] = [users[i] EXCEPT !.role = role, !.is_active = active]]
    BY <1>3 DEF Edit, TypeOK, Registered
  <2>2. \A j \in Registered : users'[j] \in Row /\ users'[j].email = users[j].email
    BY <2>1 DEF TypeOK, Registered, Row
  <2>3. QED
    BY <2>2, AccountsAssumption DEF Registered
<1>4. Stay
  BY <1>1, <1>2, <1>3
     DEF Next, Step, vars, Register, Export, Authenticate, CreateProject, GetProject, Answer,
         Abandon, Login, TokenExpires, ADMIN_ROLE, Roles
<1>5. \A e \in Emails : Known(e) => Known(e)'
  BY <1>4 DEF Known
<1>6. QED
  BY <1>4, <1>5

\* A project never changes hands.
LEMMA OwnersStay ==
  ASSUME TypeOK, [Next]_vars, NEW p \in Projects, owner[p] # Nobody
  PROVE  owner'[p] = owner[p]
BY DEF TypeOK, Next, Step, vars, Register, Insert, Export, Authenticate, CreateProject, GetProject,
       Answer, Abandon, Login, TokenExpires, Edit

\* While a request lasts, what was witnessed of its caller is kept.
LEMMA WitnessGrows ==
  ASSUME TypeOK, [Next]_vars, NEW w \in Workers, serving[w] # Idle, serving'[w] # Idle
  PROVE  witnessed[w] \subseteq witnessed'[w]
BY DEF TypeOK, Next, vars

-----------------------------------------------------------------------------
(* Types *)

\* What a worker asks for tells what it holds.
LEMMA RequestShape ==
  ASSUME TypeOK, NEW w \in Workers, serving[w] # Idle
  PROVE  /\ serving[w] \in Request
         /\ serving[w].asks = "register" => serving[w] \in Registration
         /\ serving[w].asks = "project" /\ serving[w].pc # "unauthenticated" => serving[w] \in ProjectRequest
         /\ serving[w].asks # "register" => serving[w].id \in Ids
BY DEF TypeOK, Request, Registration, ProjectRequest, RefusedRequest, ExportRequest

\* The tables stay typed.
LEMMA TablesTyped ==
  ASSUME TypeOK, [Next]_vars
  PROVE  /\ users' \in [Ids -> Row \cup {NoUser}] /\ owner' \in [Projects -> Ids \cup {Nobody}]
         /\ tokens' \subseteq Token /\ edits' \in 0..MaxEdits
<1> DEFINE Typed == /\ users' \in [Ids -> Row \cup {NoUser}] /\ owner' \in [Projects -> Ids \cup {Nobody}]
                    /\ tokens' \subseteq Token /\ edits' \in 0..MaxEdits
<1> USE DEF TypeOK
<1>1. CASE UNCHANGED <<users, owner, tokens, edits>>
  BY <1>1
<1>2. ASSUME NEW w \in Workers, Insert(w) PROVE Typed
  <2>1. serving[w] \in Registration
    BY <1>2, RequestShape DEF Insert, Serves
  <2>2. [email |-> serving[w].email, role |-> serving[w].role, is_active |-> TRUE] \in Row
    BY <2>1 DEF Registration, Row
  <2>3. QED
    BY <1>2, <2>2 DEF Insert
<1>3. ASSUME NEW w \in Workers, CreateProject(w) PROVE Typed
  <2>1. serving[w] \in ProjectRequest
    BY <1>3, RequestShape DEF CreateProject, Serves
  <2>2. QED
    BY <1>3, <2>1 DEF CreateProject, ProjectRequest
<1>4. ASSUME NEW i \in Ids, Login(i) PROVE Typed
  <2>1. [sub |-> i, role |-> users[i].role] \in Token
    BY <1>4 DEF Login, Registered, Row, Token
  <2>2. QED
    BY <1>4, <2>1 DEF Login
<1>5. ASSUME NEW t \in Token, TokenExpires(t) PROVE Typed
  BY <1>5 DEF TokenExpires
<1>6. ASSUME NEW i \in Ids, NEW role \in Roles, NEW active \in BOOLEAN, Edit(i, role, active)
      PROVE  Typed
  <2>1. /\ users[i] \in Row
        /\ users' = [users EXCEPT ![i] = [users[i] EXCEPT !.role = role, !.is_active = active]]
    BY <1>6 DEF Edit, Registered
  <2>2. [users[i] EXCEPT !.role = role, !.is_active = active] \in Row
    BY <2>1 DEF Row
  <2>3. users' \in [Ids -> Row \cup {NoUser}]
    BY <2>1, <2>2
  <2>4. edits' \in 0..MaxEdits
    BY <1>6, AccountsAssumption DEF Edit
  <2>5. QED
    BY <1>6, <2>3, <2>4 DEF Edit
<1>7. QED
  BY <1>1, <1>2, <1>3, <1>4, <1>5, <1>6
     DEF Next, Step, vars, Register, Export, Authenticate, GetProject, Answer, Abandon,
         ADMIN_ROLE, Roles

\* What a worker holds after a step, and that it is typed.
LEMMA ServingTyped ==
  ASSUME TypeOK, [Next]_vars
  PROVE  serving' \in [Workers -> Request \cup {Idle}]
<1> DEFINE Typed == serving' \in [Workers -> Request \cup {Idle}]
<1> USE DEF TypeOK
<1>1. CASE serving' = serving
  BY <1>1
<1>2. ASSUME NEW w \in Workers, NEW e \in Emails, NEW role \in Roles, Register(w, e, role) PROVE Typed
  <2>1. PICK pc \in {"conflict", "forbidden", "checked"} :
          serving' = [serving EXCEPT ![w] = [asks |-> "register", email |-> e, role |-> role, pc |-> pc]]
    BY <1>2 DEF Register
  <2>2. [asks |-> "register", email |-> e, role |-> role, pc |-> pc] \in Registration
    BY DEF Registration
  <2>3. QED
    BY <2>1, <2>2 DEF Request
<1>3. ASSUME NEW w \in Workers, Insert(w) PROVE Typed
  <2>1. PICK pc \in {"failed", "created"} : serving' = [serving EXCEPT ![w].pc = pc]
    BY <1>3 DEF Insert
  <2>2. serving[w] \in Registration
    BY <1>3, RequestShape DEF Insert, Serves
  <2>3. [serving[w] EXCEPT !.pc = pc] \in Registration
    BY <2>2 DEF Registration
  <2>4. QED
    BY <2>1, <2>3 DEF Request
<1>4. ASSUME NEW w \in Workers, CreateProject(w) \/ GetProject(w) PROVE Typed
  <2>1. PICK pc \in {"created", "missing", "forbidden", "shown"} : serving' = [serving EXCEPT ![w].pc = pc]
    BY <1>4 DEF CreateProject, GetProject
  <2>2. serving[w] \in ProjectRequest
    BY <1>4, RequestShape DEF CreateProject, GetProject, Serves
  <2>3. [serving[w] EXCEPT !.pc = pc] \in ProjectRequest
    BY <2>2 DEF ProjectRequest
  <2>4. QED
    BY <2>1, <2>3 DEF Request
<1>5. ASSUME NEW w \in Workers, NEW t \in Token, NEW p \in Projects, Authenticate(w, t, p) PROVE Typed
  <2>1. t.sub \in Ids /\ t.sub \in Registered
    BY <1>5 DEF Authenticate, Registered
  <2>2. RoleOf(t) \in Roles
    BY <2>1 DEF RoleOf, Registered, Row
  <2>3. [asks |-> "project", id |-> t.sub, role |-> RoleOf(t), project |-> p, pc |-> "known"] \in ProjectRequest
    BY <2>1, <2>2 DEF ProjectRequest
  <2>4. [asks |-> "project", id |-> t.sub, project |-> p, pc |-> "unauthenticated"] \in RefusedRequest
    BY <2>1 DEF RefusedRequest
  <2>5. QED
    BY <1>5, <2>3, <2>4 DEF Authenticate, Request
<1>6. ASSUME NEW w \in Workers, NEW t \in Token, Export(w, t) PROVE Typed
  <2>1. t.sub \in Ids
    BY <1>6 DEF Export, Registered
  <2>2. PICK pc \in {"audited", "exported"} :
          serving' = [serving EXCEPT ![w] = [asks |-> "export", id |-> t.sub, pc |-> pc]]
    BY <1>6 DEF Export
  <2>3. [asks |-> "export", id |-> t.sub, pc |-> pc] \in ExportRequest
    BY <2>1 DEF ExportRequest
  <2>4. QED
    BY <2>2, <2>3 DEF Request
<1>7. ASSUME NEW w \in Workers, Answer(w) \/ Abandon(w) PROVE Typed
  BY <1>7 DEF Answer, Abandon
<1>8. QED
  BY <1>1, <1>2, <1>3, <1>4, <1>5, <1>6, <1>7
     DEF Next, Step, vars, Login, TokenExpires, Edit

-----------------------------------------------------------------------------
(* What a request in flight knows stays true *)

\* A worker the step leaves alone keeps what it knows.
LEMMA BystanderKeeps ==
  ASSUME TypeOK, [Next]_vars, NEW w \in Workers, RequestKnows(w), Entitled(w), serving'[w] = serving[w]
  PROVE  RequestKnows(w)' /\ Entitled(w)'
<1>1. CASE serving[w] = Idle
  BY <1>1 DEF RequestKnows, Entitled, Serves
<1>2. CASE serving[w] # Idle
  <2>1. witnessed[w] \subseteq witnessed'[w]
    BY <1>2, WitnessGrows
  <2>2. Serves(w, "register", "conflict") \/ Serves(w, "register", "failed") => Known(serving[w].email)'
    BY <1>2, UsersStay, RequestShape DEF RequestKnows, Serves, Registration
  <2>3. Registered \subseteq Registered'
    BY UsersStay
  <2>4. RequestKnows(w)'
    BY <2>1, <2>2, <2>3 DEF RequestKnows, Serves, Known
  <2>5. ASSUME Serves(w, "project", "shown"), owner[serving[w].project] = serving[w].id
        PROVE  owner'[serving[w].project] = serving[w].id
    <3>1. serving[w] \in ProjectRequest
      BY <2>5, RequestShape DEF Serves
    <3>2. serving[w].project \in Projects /\ serving[w].id # Nobody
      BY <3>1, AccountsAssumption DEF ProjectRequest
    <3>3. QED
      BY <2>5, <3>2, OwnersStay
  <2>6. Entitled(w)'
    BY <2>1, <2>5 DEF Entitled, Serves
  <2>7. QED
    BY <2>4, <2>6
<1>3. QED
  BY <1>1, <1>2

\* A registration knows whether its address is taken and its role is open.
LEMMA RegistrationKnows ==
  ASSUME TypeOK, [Next]_vars, NEW w \in Workers, RequestKnows(w),
         (\E e \in Emails, role \in Roles : Register(w, e, role)) \/ Insert(w)
  PROVE  RequestKnows(w)' /\ Entitled(w)'
<1>1. serving'[w] \in Request \cup {Idle}
  BY ServingTyped
<1>2. ASSUME NEW e \in Emails, NEW role \in Roles, Register(w, e, role)
      PROVE  RequestKnows(w)' /\ Entitled(w)'
  <2>1. PICK pc \in {"conflict", "forbidden", "checked"} :
          /\ serving'[w] = [asks |-> "register", email |-> e, role |-> role, pc |-> pc]
          /\ pc = "conflict" => Known(e)
          /\ pc = "checked" => SelfServes(role)
    BY <1>2 DEF Register, TypeOK
  <2>2. /\ serving'[w].asks = "register" /\ serving'[w].email = e
        /\ serving'[w].role = role /\ serving'[w].pc = pc
    BY <2>1
  <2>3. Known(e) => Known(e)'
    BY UsersStay
  <2>4. QED
    BY <2>1, <2>2, <2>3 DEF RequestKnows, Entitled, Serves, Known
<1>3. ASSUME Insert(w)
      PROVE  RequestKnows(w)' /\ Entitled(w)'
  <2>1. serving[w] \in Registration
    BY <1>3, RequestShape DEF Insert, Serves
  <2>2. PICK pc \in {"failed", "created"} :
          /\ serving'[w] = [serving[w] EXCEPT !.pc = pc]
          /\ pc = "failed" => Known(serving[w].email)
    BY <1>3 DEF Insert, TypeOK
  <2>3. /\ serving'[w].asks = "register" /\ serving'[w].email = serving[w].email
        /\ serving'[w].pc = pc /\ serving[w].email \in Emails
    BY <2>1, <2>2 DEF Registration
  <2>4. Known(serving[w].email) => Known(serving[w].email)'
    BY <2>3, UsersStay
  <2>5. QED
    BY <2>2, <2>3, <2>4 DEF RequestKnows, Entitled, Serves, Known
<1>4. QED
  BY <1>2, <1>3

\* A request that begins has witnessed its caller's row.
LEMMA BeginnerWitnesses ==
  ASSUME TypeOK, NEW w \in Workers, serving[w] = Idle, serving'[w] # Idle, Next, users' = users,
         serving'[w].asks # "register"
  PROVE  /\ users[serving'[w].id].role \in witnessed'[w]
         /\ users[serving'[w].id].is_active => "active" \in witnessed'[w]
<1>1. witnessed'[w] = Standing(w)'
  BY DEF Next
<1>2. QED
  BY <1>1 DEF Standing

\* A request with a token knows its caller.
LEMMA ProjectRequestKnows ==
  ASSUME TypeOK, Next, NEW w \in Workers, RequestKnows(w),
         \/ \E t \in Token, p \in Projects : Authenticate(w, t, p)
         \/ CreateProject(w) \/ GetProject(w)
  PROVE  RequestKnows(w)' /\ Entitled(w)'
<1>1. serving'[w] \in Request \cup {Idle}
  BY ServingTyped
<1>2. ASSUME NEW t \in Token, NEW p \in Projects, Authenticate(w, t, p)
      PROVE  RequestKnows(w)' /\ Entitled(w)'
  <2>1. serving[w] = Idle /\ users' = users /\ t.sub \in Registered /\ Registered' = Registered
    BY <1>2 DEF Authenticate, Registered
  <2>2. CASE Current(t)
    <3>1. serving'[w] = [asks |-> "project", id |-> t.sub, role |-> RoleOf(t), project |-> p, pc |-> "known"]
      BY <1>2, <2>2 DEF Authenticate, TypeOK
    <3>2. /\ serving'[w].asks = "project" /\ serving'[w].id = t.sub
          /\ serving'[w].role = users[t.sub].role /\ serving'[w].pc = "known"
      BY <3>1 DEF RoleOf
    <3>3. serving'[w] # Idle
      <4>1. serving'[w] \in ProjectRequest
        BY <2>1, <3>1 DEF ProjectRequest, RoleOf, Registered, TypeOK, Row
      <4>2. QED
        BY <4>1, AccountsAssumption DEF Request
    <3>4. "active" \in witnessed'[w] /\ users[t.sub].role \in witnessed'[w]
      BY <2>1, <2>2, <3>2, <3>3, BeginnerWitnesses DEF Current
    <3>5. QED
      BY <2>1, <3>2, <3>4 DEF RequestKnows, Entitled, Serves
  <2>3. CASE ~Current(t)
    <3>1. serving'[w] = [asks |-> "project", id |-> t.sub, project |-> p, pc |-> "unauthenticated"]
      BY <1>2, <2>3 DEF Authenticate, TypeOK
    <3>2. /\ serving'[w].asks = "project" /\ serving'[w].id = t.sub
          /\ serving'[w].pc = "unauthenticated"
      BY <3>1
    <3>3. QED
      BY <2>1, <3>2 DEF RequestKnows, Entitled, Serves
  <2>4. QED
    BY <2>2, <2>3
<1>3. ASSUME CreateProject(w) \/ GetProject(w)
      PROVE  RequestKnows(w)' /\ Entitled(w)'
  <2>1. /\ serving[w] \in ProjectRequest /\ serving[w] # Idle
        /\ serving[w].pc = "known" /\ serving[w].asks = "project"
    BY <1>3, RequestShape DEF CreateProject, GetProject, Serves
  <2>2. PICK pc \in {"created", "missing", "forbidden", "shown"} :
          /\ serving'[w] = [serving[w] EXCEPT !.pc = pc]
          /\ pc = "shown" => Authorized(w) /\ owner' = owner
    BY <1>3 DEF CreateProject, GetProject, TypeOK
  <2>3. /\ serving'[w].asks = "project" /\ serving'[w].pc = pc /\ serving'[w].id = serving[w].id
        /\ serving'[w].project = serving[w].project
        /\ [serving[w] EXCEPT !.pc = pc] \in ProjectRequest
    BY <2>1, <2>2 DEF ProjectRequest
  <2>4. serving'[w] # Idle
    BY <2>2, <2>3, AccountsAssumption DEF Request
  <2>5. "active" \in witnessed'[w] /\ serving[w].role \in witnessed'[w]
    BY <2>1, <2>4, WitnessGrows DEF RequestKnows, Serves
  <2>6. serving[w].id \in Registered'
    BY <2>1, UsersStay DEF RequestKnows
  <2>7. QED
    BY <2>2, <2>3, <2>5, <2>6 DEF RequestKnows, Entitled, Serves, Authorized
<1>4. QED
  BY <1>2, <1>3

\* An export that has the audit sheet was asked for by an administrator.
LEMMA ExportKnows ==
  ASSUME TypeOK, Next, NEW w \in Workers, NEW t \in Token, Export(w, t)
  PROVE  RequestKnows(w)' /\ Entitled(w)'
<1>1. serving[w] = Idle /\ users' = users /\ t.sub \in Registered /\ Registered' = Registered
  BY DEF Export, Registered
<1>2. PICK pc \in {"audited", "exported"} :
        /\ serving'[w] = [asks |-> "export", id |-> t.sub, pc |-> pc]
        /\ pc = "audited" => users[t.sub].role = ADMIN_ROLE
  BY DEF Export, TypeOK, RoleOf
<1>3. serving'[w].asks = "export" /\ serving'[w].id = t.sub /\ serving'[w].pc = pc
  BY <1>2
<1>4. serving'[w] # Idle
  <2>1. serving'[w] \in ExportRequest
    BY <1>1, <1>2 DEF ExportRequest, Registered
  <2>2. QED
    BY <2>1, AccountsAssumption DEF Request
<1>5. users[t.sub].role \in witnessed'[w]
  BY <1>1, <1>3, <1>4, BeginnerWitnesses
<1>6. QED
  BY <1>1, <1>2, <1>3, <1>5 DEF RequestKnows, Entitled, Serves

\* Every worker's knowledge survives every step.
LEMMA RequestStep ==
  ASSUME IInv, [Next]_vars, NEW w \in Workers
  PROVE  RequestKnows(w)' /\ Entitled(w)'
<1>1. TypeOK /\ RequestKnows(w) /\ Entitled(w)
  BY DEF IInv
<1>2. CASE serving'[w] = serving[w]
  BY <1>1, <1>2, BystanderKeeps
<1>3. ASSUME (\E e \in Emails, role \in Roles : Register(w, e, role)) \/ Insert(w)
      PROVE  RequestKnows(w)' /\ Entitled(w)'
  BY <1>1, <1>3, RegistrationKnows
<1>4. ASSUME Next, \/ \E t \in Token, p \in Projects : Authenticate(w, t, p)
                   \/ CreateProject(w) \/ GetProject(w)
      PROVE  RequestKnows(w)' /\ Entitled(w)'
  BY <1>1, <1>4, ProjectRequestKnows
<1>5. ASSUME Next, NEW t \in Token, Export(w, t)
      PROVE  RequestKnows(w)' /\ Entitled(w)'
  BY <1>1, <1>5, ExportKnows
<1>6. ASSUME Answer(w) \/ Abandon(w)
      PROVE  RequestKnows(w)' /\ Entitled(w)'
  <2>1. serving'[w] = Idle
    BY <1>1, <1>6 DEF Answer, Abandon, TypeOK
  <2>2. QED
    BY <2>1 DEF RequestKnows, Entitled, Serves
<1>7. ASSUME Next, serving'[w] # serving[w]
      PROVE  \/ (\E e \in Emails, role \in Roles : Register(w, e, role)) \/ Insert(w)
             \/ (\E t \in Token, p \in Projects : Authenticate(w, t, p))
             \/ CreateProject(w) \/ GetProject(w) \/ (\E t \in Token : Export(w, t))
             \/ Answer(w) \/ Abandon(w)
  <2>1. PICK v \in Workers :
          \/ (\E e \in Emails, role \in Roles : Register(v, e, role)) \/ Insert(v)
          \/ (\E t \in Token, p \in Projects : Authenticate(v, t, p))
          \/ CreateProject(v) \/ GetProject(v) \/ (\E t \in Token : Export(v, t))
          \/ Answer(v) \/ Abandon(v)
    BY <1>7 DEF Next, Step, Login, TokenExpires, Edit
  <2>2. v = w
    BY <1>1, <1>7, <2>1
       DEF TypeOK, Register, Insert, Authenticate, CreateProject, GetProject, Export, Answer, Abandon
  <2>3. QED
    BY <2>1, <2>2
<1>8. CASE UNCHANGED vars
  BY <1>2, <1>8 DEF vars
<1>9. QED
  BY <1>2, <1>3, <1>4, <1>5, <1>6, <1>7, <1>8

\* A registration never makes two accounts of one address, nor an administrator.
LEMMA ExclusiveStep ==
  ASSUME IInv, [Next]_vars
  PROVE  RegistrationsExclusive'
<1>1. TypeOK /\ RegistrationsExclusive /\ (\A w \in Workers : RequestKnows(w))
  BY DEF IInv
<1>2. \A w \in Workers : Serves(w, "register", "conflict")' \/ Serves(w, "register", "failed")'
                           => Known(serving[w].email)'
  BY RequestStep DEF RequestKnows
<1> DEFINE Unique == \A i, j \in Registered' : users'[i].email = users'[j].email => i = j
           Plain == edits' = 0 => \A i \in Registered' : users'[i].role # ADMIN_ROLE
<1>3. CASE users' = users /\ edits' = edits
  BY <1>1, <1>2, <1>3 DEF RegistrationsExclusive, Registered
<1>4. ASSUME NEW w \in Workers, Insert(w), users' # users
      PROVE  Unique /\ Plain
  <2>1. NextId \in Ids \ Registered
    BY <1>4, NextIdFree DEF Insert
  <2>2. PICK row : /\ row = [email |-> serving[w].email, role |-> serving[w].role, is_active |-> TRUE]
                   /\ users' = [users EXCEPT ![NextId] = row]
    BY <1>4 DEF Insert
  <2>3. row.email = serving[w].email /\ row.role = serving[w].role
    BY <2>2
  <2>4. users'[NextId] = row /\ \A i \in Registered : users'[i] = users[i]
    BY <1>1, <2>1, <2>2 DEF TypeOK, Registered
  <2>5. Registered' \subseteq Registered \cup {NextId}
    BY <1>1, <2>1, <2>2 DEF TypeOK, Registered
  <2>6. ~Known(serving[w].email) /\ edits' = edits /\ row.role # ADMIN_ROLE
    BY <1>1, <1>4, <2>3
       DEF Insert, RequestKnows, SelfServes, _PUBLIC_SELF_SERVE_ROLES, ADMIN_ROLE
  <2>7. \A i \in Registered : users[i].email # row.email
    BY <2>3, <2>6 DEF Known
  <2>8. Unique
    BY <1>1, <2>4, <2>5, <2>7 DEF RegistrationsExclusive
  <2>9. Plain
    BY <1>1, <2>4, <2>5, <2>6 DEF RegistrationsExclusive
  <2>10. QED
    BY <2>8, <2>9
<1>5. ASSUME NEW i \in Ids, NEW role \in Roles, NEW active \in BOOLEAN, Edit(i, role, active)
      PROVE  Unique /\ Plain
  <2>1. /\ users[i] \in Row
        /\ users' = [users EXCEPT ![i] = [users[i] EXCEPT !.role = role, !.is_active = active]]
    BY <1>1, <1>5 DEF Edit, Registered, TypeOK
  <2>2. users'[i].email = users[i].email
    BY <1>1, <2>1 DEF Row, TypeOK
  <2>3. i \in Registered /\ Registered' \subseteq Registered
    BY <1>1, <1>5, <2>1 DEF Edit, Registered, TypeOK
  <2>4. \A j \in Registered : users'[j].email = users[j].email
    BY <1>1, <2>1, <2>2, <2>3 DEF TypeOK, Registered
  <2>5. Unique
    BY <1>1, <2>3, <2>4 DEF RegistrationsExclusive
  <2>6. edits' # 0
    BY <1>1, <1>5, AccountsAssumption DEF Edit, TypeOK
  <2>7. QED
    BY <2>5, <2>6
<1>6. ASSUME Unique, Plain PROVE RegistrationsExclusive'
  BY <1>2, <1>6 DEF RegistrationsExclusive
<1>7. (users' = users /\ edits' = edits) \/ (Unique /\ Plain)
  BY <1>4, <1>5
     DEF Next, Step, vars, Register, Insert, Export, Authenticate, CreateProject, GetProject,
         Answer, Abandon, Login, TokenExpires, ADMIN_ROLE, Roles
<1>8. QED
  BY <1>3, <1>6, <1>7

\* Every step keeps the types.
LEMMA TypeStep ==
  ASSUME IInv, [Next]_vars
  PROVE  TypeOK'
<1>1. TypeOK
  BY DEF IInv
<1>2. \A w \in Workers : RequestKnows(w)'
  BY RequestStep
<1>3. /\ users' \in [Ids -> Row \cup {NoUser}] /\ owner' \in [Projects -> Ids \cup {Nobody}]
      /\ tokens' \subseteq Token /\ edits' \in 0..MaxEdits
      /\ serving' \in [Workers -> Request \cup {Idle}]
  BY <1>1, TablesTyped, ServingTyped
<1>4. ASSUME NEW w \in Workers
      PROVE  Standing(w)' \subseteq {"active"} \cup Roles
  <2>1. CASE serving'[w] = Idle \/ serving'[w].asks = "register"
    BY <2>1 DEF Standing
  <2>2. CASE serving'[w] # Idle /\ serving'[w].asks # "register"
    <3>1. users'[serving'[w].id] \in Row
      BY <1>2, <1>3, <2>2 DEF RequestKnows, Registered
    <3>2. QED
      BY <2>2, <3>1 DEF Standing, Row
  <2>3. QED
    BY <2>1, <2>2
<1>5. witnessed' \in [Workers -> SUBSET ({"active"} \cup Roles)]
  <2>1. CASE UNCHANGED vars
    BY <1>1, <2>1 DEF TypeOK, vars
  <2>2. CASE Next
    <3> DEFINE seen(w) == CASE serving'[w] = Idle -> {}
                            [] serving'[w] # Idle /\ serving[w] = Idle -> Standing(w)'
                            [] OTHER -> witnessed[w] \cup Standing(w)'
    <3>1. witnessed' = [w \in Workers |-> seen(w)]
      BY <2>2 DEF Next
    <3>2. ASSUME NEW w \in Workers PROVE seen(w) \subseteq {"active"} \cup Roles
      BY <1>1, <1>4 DEF TypeOK
    <3>3. QED
      BY <3>1, <3>2
  <2>3. QED
    BY <2>1, <2>2
<1>6. QED
  BY <1>3, <1>5 DEF TypeOK

-----------------------------------------------------------------------------
\* The initial state satisfies the inductive invariant.
LEMMA InitInv == Init => IInv
BY AccountsAssumption
   DEF Init, IInv, TypeOK, RegistrationsExclusive, RequestKnows, Entitled, Serves, Registered

\* IInv is an invariant of the specification.
THEOREM Inductive == Spec => []IInv
<1>1. IInv /\ [Next]_vars => IInv'
  BY TypeStep, ExclusiveStep, RequestStep DEF IInv
<1>2. QED
  BY InitInv, <1>1, PTL DEF Spec

\* Rows, tokens and the requests in flight are of their types.
THEOREM TypeCorrect == Spec => []TypeOK
<1>1. IInv => TypeOK
  BY DEF IInv
<1>2. QED
  BY <1>1, Inductive, PTL

\* However many registrations overlap, an address has one account, nobody registers
\* as an administrator, and a refusal for the address is true.
THEOREM Exclusive == Spec => []RegistrationsExclusive
<1>1. IInv => RegistrationsExclusive
  BY DEF IInv
<1>2. QED
  BY <1>1, Inductive, PTL

\* Nothing is shown on the strength of a role or an ownership that the caller's row
\* did not have while the request ran, however old its token is.
THEOREM Authorised == Spec => []NoStaleAuthority
<1>1. IInv => NoStaleAuthority
  BY DEF IInv, Entitled, NoStaleAuthority
<1>2. QED
  BY <1>1, Inductive, PTL

\* An account keeps its key and its address for ever, and a project its owner.
THEOREM IdentitiesStay ==
  Spec => [][ /\ \A i \in Registered : i \in Registered' /\ users'[i].email = users[i].email
              /\ \A p \in Projects : owner[p] # Nobody => owner'[p] = owner[p] ]_vars
<1> DEFINE Stay == /\ \A i \in Registered : i \in Registered' /\ users'[i].email = users[i].email
                   /\ \A p \in Projects : owner[p] # Nobody => owner'[p] = owner[p]
<1>1. TypeOK /\ [Next]_vars => [Stay]_vars
  BY UsersStay, OwnersStay
<1>2. QED
  BY <1>1, TypeCorrect, PTL DEF Spec
=============================================================================
