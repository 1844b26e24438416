---------------------- MODULE EstimateVersions_proofs ----------------------
(***************************************************************************)
(* Proofs about EstimateVersions, for any number of projects, users,       *)
(* workers and estimates and any retention period.                         *)
(*                                                                         *)
(* The inductive invariant says what a save in flight knows: the number it *)
(* read is at most one past a committed number (so committing it leaves no *)
(* gap), the largest number acknowledged when it began is still committed  *)
(* (so the number it reads is larger), and once it is past COMMIT its row  *)
(* is stored (so answering is safe).                                       *)
(***************************************************************************)
EXTENDS EstimateVersions, TLAPS

\* A worker that is past a step holds what that step gave it.
RequestComplete(r) ==
  /\ req[r].pc # "idle" => req[r].user \in Users /\ req[r].project \in Projects
  /\ req[r].pc \in {"priced", "numbered", "saved"} => req[r].estimate \in Estimates
  /\ req[r].pc \in {"numbered", "saved"} => req[r].number \in Nat \ {0}

\* The floor of a save is a committed number of its project.
FloorCommitted(r) ==
  req[r].pc # "idle" => req[r].floor = 0 \/ req[r].floor \in NumbersOf(req[r].project)

\* The number a save is about to commit follows a committed one.
NumberFollows(r) ==
  req[r].pc = "numbered" =>
    req[r].number = 1 \/ req[r].number - 1 \in NumbersOf(req[r].project)

\* A save that is past COMMIT has its row in the table.
SavedIsStored(r) == req[r].pc = "saved" => NewRow(r) \in rows

RequestInv ==
  \A r \in Requests :
    /\ RequestComplete(r)
    /\ FloorCommitted(r)
    /\ NumberFollows(r)
    /\ SavedIsStored(r)

IInv ==
  /\ TypeOK
  /\ RequestInv
  /\ VersionsContiguous
  /\ LaterSaveHasLargerNumber
  /\ AckedDurable

-----------------------------------------------------------------------------
\* A committed row is typed, and its number is one of its project's numbers.
LEMMA RowNumber ==
  ASSUME TypeOK, NEW row \in rows
  PROVE  row.version \in NumbersOf(row.project) /\ row.version \in Nat \ {0}
BY DEF TypeOK, Row, NumbersOf, VersionsOf

\* Numbers of a project are positive naturals.
LEMMA NumbersAreNat ==
  ASSUME TypeOK, NEW p \in Projects
  PROVE  NumbersOf(p) \subseteq Nat \ {0}
BY DEF TypeOK, Row, NumbersOf, VersionsOf

\* The numbers of a project only grow when rows are only added.
LEMMA NumbersGrow ==
  ASSUME rows \subseteq rows', NEW p
  PROVE  NumbersOf(p) \subseteq NumbersOf(p)'
BY DEF NumbersOf, VersionsOf

\* The initial state satisfies the inductive invariant.
LEMMA InitInv == Init => IInv
<1> SUFFICES ASSUME Init PROVE IInv
  OBVIOUS
<1>1. TypeOK
  BY VersionsAssumption DEF Init, TypeOK, Idle, Request, Steps
<1>2. RequestInv
  BY DEF Init, RequestInv, RequestComplete, FloorCommitted, NumberFollows, SavedIsStored, Idle
<1>3. VersionsContiguous
  BY DEF Init, VersionsContiguous, NumbersOf, VersionsOf
<1>4. LaterSaveHasLargerNumber
  BY DEF Init, LaterSaveHasLargerNumber, Idle
<1>5. AckedDurable
  BY DEF Init, AckedDurable
<1>6. QED
  BY <1>1, <1>2, <1>3, <1>4, <1>5 DEF IInv

-----------------------------------------------------------------------------
\* No step deletes or rewrites a version row.
LEMMA RowsGrow == [Next]_vars => rows \subseteq rows'
BY DEF Next, vars, SaveStep, BeginSave, Price, ReadNumber, CommitVersion, AnswerSave,
       Abandon, DayPasses, PurgeAudit

\* Every step keeps the types.
LEMMA TypeStep == TypeOK /\ RequestInv /\ [Next]_vars => TypeOK'
<1> SUFFICES ASSUME TypeOK, RequestInv, [Next]_vars PROVE TypeOK'
  OBVIOUS
<1> USE DEF TypeOK
<1>1. ASSUME NEW r \in Requests, NEW u \in Users, NEW p \in Projects, BeginSave(r, u, p)
      PROVE  TypeOK'
  <2>1. PICK m \in AckedNumbers(p) \cup {0} :
          req' = [req EXCEPT ![r] = [Idle EXCEPT !.pc = "pricing", !.user = u,
                                                 !.project = p, !.floor = m]]
    BY <1>1 DEF BeginSave
  <2>2. m \in Nat
    BY DEF AckedNumbers, Row
  <2>3. [Idle EXCEPT !.pc = "pricing", !.user = u, !.project = p, !.floor = m] \in Request
    BY <2>2 DEF Idle, Request, Steps
  <2>4. QED
    BY <1>1, <2>1, <2>3 DEF BeginSave
<1>2. ASSUME NEW r \in Requests, NEW e \in Estimates, Price(r, e)
      PROVE  TypeOK'
  <2>1. [req[r] EXCEPT !.pc = "priced", !.estimate = e] \in Request
    BY DEF Request, Steps
  <2>2. req' = [req EXCEPT ![r] = [req[r] EXCEPT !.pc = "priced", !.estimate = e]]
    BY <1>2 DEF Price
  <2>3. req' \in [Requests -> Request]
    BY <2>1, <2>2
  <2>4. QED
    BY <1>2, <2>3 DEF Price
<1>3. ASSUME NEW r \in Requests, ReadNumber(r)
      PROVE  TypeOK'
  <2>1. req[r].project \in Projects
    BY <1>3 DEF ReadNumber, RequestInv, RequestComplete
  <2>2. PICK m \in NumbersOf(req[r].project) \cup {0} :
          req' = [req EXCEPT ![r].pc = "numbered", ![r].number = m + 1]
    BY <1>3 DEF ReadNumber
  <2>3. m \in Nat /\ m + 1 \in Nat
    BY <2>1, NumbersAreNat
  <2>4. ASSUME NEW n \in Nat
        PROVE  [req[r] EXCEPT !.pc = "numbered", !.number = n] \in Request
    BY DEF Request, Steps
  <2>5. req' = [req EXCEPT ![r] = [req[r] EXCEPT !.pc = "numbered", !.number = m + 1]]
    BY <2>2
  <2>6. req' \in [Requests -> Request]
    BY <2>3, <2>4, <2>5
  <2>7. QED
    BY <1>3, <2>6 DEF ReadNumber
<1>4. ASSUME NEW r \in Requests, CommitVersion(r)
      PROVE  TypeOK'
  <2>1. NewRow(r) \in Row /\ req[r].estimate \in Estimates
    BY <1>4 DEF CommitVersion, NewRow, Row, RequestInv, RequestComplete
  <2>2. QED
    BY <1>4, <2>1 DEF CommitVersion, Request, Steps
<1>5. ASSUME NEW r \in Requests, AnswerSave(r)
      PROVE  TypeOK'
  <2>1. NewRow(r) \in Row
    BY <1>5 DEF AnswerSave, NewRow, Row, RequestInv, RequestComplete
  <2>2. Idle \in Request
    BY DEF Idle, Request, Steps
  <2>3. QED
    BY <1>5, <2>1, <2>2 DEF AnswerSave
<1>6. ASSUME NEW r \in Requests, Abandon(r)
      PROVE  TypeOK'
  <2>1. Idle \in Request
    BY DEF Idle, Request, Steps
  <2>2. QED
    BY <1>6, <2>1 DEF Abandon
<1>7. ASSUME DayPasses PROVE TypeOK'
  BY <1>7, VersionsAssumption DEF DayPasses
<1>8. ASSUME PurgeAudit PROVE TypeOK'
  BY <1>8, VersionsAssumption DEF PurgeAudit
<1>9. ASSUME UNCHANGED vars PROVE TypeOK'
  BY <1>9 DEF vars
<1>10. QED
  BY <1>1, <1>2, <1>3, <1>4, <1>5, <1>6, <1>7, <1>8, <1>9 DEF Next, SaveStep

-----------------------------------------------------------------------------
\* A worker the step leaves alone keeps what it knows, because rows only grow.
LEMMA BystanderKeeps ==
  ASSUME RequestInv, LaterSaveHasLargerNumber, rows \subseteq rows',
         NEW s \in Requests, req'[s] = req[s]
  PROVE  /\ RequestComplete(s)' /\ FloorCommitted(s)'
         /\ NumberFollows(s)' /\ SavedIsStored(s)'
         /\ req'[s].pc \in {"numbered", "saved"} => req'[s].number > req'[s].floor
<1>1. RequestComplete(s)'
  BY DEF RequestInv, RequestComplete
<1>2. NumbersOf(req[s].project) \subseteq NumbersOf(req[s].project)'
  BY NumbersGrow
<1>3. FloorCommitted(s)'
  BY <1>2 DEF RequestInv, FloorCommitted, NumbersOf, VersionsOf
<1>4. NumberFollows(s)'
  BY <1>2 DEF RequestInv, NumberFollows, NumbersOf, VersionsOf
<1>5. SavedIsStored(s)'
  BY DEF RequestInv, SavedIsStored, NewRow
<1>6. req'[s].pc \in {"numbered", "saved"} => req'[s].number > req'[s].floor
  BY DEF LaterSaveHasLargerNumber
<1>7. QED
  BY <1>1, <1>3, <1>4, <1>5, <1>6

\* An idle worker knows nothing and claims nothing.
LEMMA IdleKnowsNothing ==
  ASSUME NEW s \in Requests, req'[s] = Idle
  PROVE  /\ RequestComplete(s)' /\ FloorCommitted(s)'
         /\ NumberFollows(s)' /\ SavedIsStored(s)'
         /\ req'[s].pc \in {"numbered", "saved"} => req'[s].number > req'[s].floor
BY DEF Idle, RequestComplete, FloorCommitted, NumberFollows, SavedIsStored

\* What a save in flight knows stays true at every step.
LEMMA RequestStep ==
  IInv /\ [Next]_vars => RequestInv' /\ LaterSaveHasLargerNumber'
<1> SUFFICES ASSUME IInv, [Next]_vars, NEW s \in Requests
             PROVE  /\ RequestComplete(s)' /\ FloorCommitted(s)'
                    /\ NumberFollows(s)' /\ SavedIsStored(s)'
                    /\ req'[s].pc \in {"numbered", "saved"} => req'[s].number > req'[s].floor
  BY DEF RequestInv, LaterSaveHasLargerNumber
<1> DEFINE Goal == /\ RequestComplete(s)' /\ FloorCommitted(s)'
                   /\ NumberFollows(s)' /\ SavedIsStored(s)'
                   /\ req'[s].pc \in {"numbered", "saved"} => req'[s].number > req'[s].floor
<1>1. /\ TypeOK /\ RequestInv /\ LaterSaveHasLargerNumber /\ AckedDurable
      /\ rows \subseteq rows' /\ req \in [Requests -> Request]
  BY RowsGrow DEF IInv, TypeOK
<1> USE <1>1
<1>2. CASE req'[s] = req[s]
  BY <1>2, BystanderKeeps
<1>3. CASE req'[s] # req[s]
  <2>1. ASSUME NEW u \in Users, NEW p \in Projects, BeginSave(s, u, p)
        PROVE  Goal
    <3>1. PICK m \in AckedNumbers(p) \cup {0} :
            req'[s] = [Idle EXCEPT !.pc = "pricing", !.user = u, !.project = p, !.floor = m]
      BY <2>1 DEF BeginSave
    <3>2. /\ req'[s].pc = "pricing" /\ req'[s].user = u
          /\ req'[s].project = p /\ req'[s].floor = m
      BY <3>1 DEF Idle
    <3>3. m = 0 \/ m \in NumbersOf(p)'
      BY <2>1, <3>1 DEF BeginSave, AckedNumbers, AckedDurable, NumbersOf, VersionsOf
    <3>4. QED
      BY <3>2, <3>3 DEF RequestComplete, FloorCommitted, NumberFollows, SavedIsStored, NumbersOf, VersionsOf
  <2>2. ASSUME NEW e \in Estimates, Price(s, e)
        PROVE  Goal
    <3>1. req'[s] = [req[s] EXCEPT !.pc = "priced", !.estimate = e]
      BY <2>2 DEF Price
    <3>2. /\ req'[s].pc = "priced" /\ req'[s].estimate = e /\ req'[s].user = req[s].user
          /\ req'[s].project = req[s].project /\ req'[s].floor = req[s].floor
      BY <3>1 DEF Request
    <3>3. req[s].pc # "idle" /\ rows' = rows
      BY <2>2 DEF Price
    <3>4. QED
      BY <3>2, <3>3 DEF RequestInv, RequestComplete, FloorCommitted, NumberFollows,
                        SavedIsStored, NumbersOf, VersionsOf
  <2>3. ASSUME ReadNumber(s)
        PROVE  Goal
    <3>1. PICK m \in NumbersOf(req[s].project) \cup {0} :
            /\ IsMaxOrZero(m, NumbersOf(req[s].project))
            /\ req'[s] = [req[s] EXCEPT !.pc = "numbered", !.number = m + 1]
      BY <2>3 DEF ReadNumber
    <3>2. req[s].pc = "priced" /\ rows' = rows
      BY <2>3 DEF ReadNumber
    <3>3. req[s].project \in Projects
      BY <3>2 DEF RequestInv, RequestComplete
    <3>4. m \in Nat /\ NumbersOf(req[s].project) \subseteq Nat \ {0}
      BY <3>3, NumbersAreNat
    <3>5. /\ req'[s].pc = "numbered" /\ req'[s].number = m + 1 /\ req'[s].user = req[s].user
          /\ req'[s].project = req[s].project /\ req'[s].floor = req[s].floor
          /\ req'[s].estimate = req[s].estimate
      BY <3>1 DEF Request
    <3>6. RequestComplete(s)'
      BY <3>2, <3>4, <3>5 DEF RequestInv, RequestComplete
    <3>8. FloorCommitted(s)'
      BY <3>2, <3>5 DEF RequestInv, FloorCommitted, NumbersOf, VersionsOf
    <3>9. m = 0 \/ m \in NumbersOf(req[s].project)
      BY <3>1
    <3>10. m + 1 = 1 \/ (m + 1) - 1 \in NumbersOf(req[s].project)
      BY <3>4, <3>9
    <3>11. NumberFollows(s)'
      BY <3>2, <3>5, <3>10 DEF NumberFollows, NumbersOf, VersionsOf
    <3>12. SavedIsStored(s)'
      BY <3>5 DEF SavedIsStored
    <3>13. req[s].floor = 0 \/ req[s].floor \in NumbersOf(req[s].project)
      BY <3>2 DEF RequestInv, FloorCommitted
    <3>14. req[s].floor <= m /\ req[s].floor \in Nat
      BY <3>1, <3>4, <3>13 DEF IsMaxOrZero
    <3>15. req'[s].number > req'[s].floor
      BY <3>4, <3>5, <3>14
    <3>16. QED
      BY <3>6, <3>8, <3>11, <3>12, <3>15
  <2>4. ASSUME CommitVersion(s)
        PROVE  Goal
    <3>1. req'[s] = [req[s] EXCEPT !.pc = "saved"] /\ req[s].pc = "numbered"
          /\ NewRow(s) \in rows'
      BY <2>4 DEF CommitVersion
    <3>2. /\ req'[s].pc = "saved" /\ req'[s].number = req[s].number /\ req'[s].user = req[s].user
          /\ req'[s].project = req[s].project /\ req'[s].floor = req[s].floor
          /\ req'[s].estimate = req[s].estimate
      BY <3>1 DEF Request
    <3>3. RequestComplete(s)' /\ NumberFollows(s)'
      BY <3>1, <3>2 DEF RequestInv, RequestComplete, NumberFollows
    <3>4. FloorCommitted(s)'
      BY <3>1, <3>2, NumbersGrow DEF RequestInv, FloorCommitted, NumbersOf, VersionsOf
    <3>5. SavedIsStored(s)'
      BY <3>1, <3>2 DEF SavedIsStored, NewRow
    <3>6. req'[s].number > req'[s].floor
      BY <3>1, <3>2 DEF LaterSaveHasLargerNumber
    <3>7. QED
      BY <3>3, <3>4, <3>5, <3>6
  <2>5. CASE AnswerSave(s) \/ Abandon(s)
    <3>1. req'[s] = Idle
      BY <2>5 DEF AnswerSave, Abandon
    <3>2. QED
      BY <3>1, IdleKnowsNothing
  <2>6. QED
    BY <1>3, <2>1, <2>2, <2>3, <2>4, <2>5
       DEF Next, vars, SaveStep, BeginSave, Price, ReadNumber, CommitVersion, AnswerSave,
           Abandon, DayPasses, PurgeAudit
<1>4. QED
  BY <1>2, <1>3

\* The numbers of a project after a commit are the old ones and, for the
\* project of the save, the number it had read.
LEMMA NumbersAfterCommit ==
  ASSUME NEW r \in Requests, NEW p, CommitVersion(r), NEW n \in NumbersOf(p)'
  PROVE  n \in NumbersOf(p) \/ (p = req[r].project /\ n = req[r].number)
BY DEF CommitVersion, NumbersOf, VersionsOf, NewRow

\* No step leaves a gap in the numbers of a project.
LEMMA ContiguousStep == IInv /\ [Next]_vars => VersionsContiguous'
<1> SUFFICES ASSUME IInv, [Next]_vars, NEW p \in Projects, NEW n \in NumbersOf(p)'
             PROVE  n = 1 \/ n - 1 \in NumbersOf(p)'
  BY DEF VersionsContiguous
<1>1. NumbersOf(p) \subseteq NumbersOf(p)'
  BY RowsGrow, NumbersGrow
<1>2. CASE n \in NumbersOf(p)
  BY <1>1, <1>2 DEF IInv, VersionsContiguous
<1>3. ASSUME NEW r \in Requests, CommitVersion(r), n \notin NumbersOf(p)
      PROVE  n = 1 \/ n - 1 \in NumbersOf(p)'
  <2>1. p = req[r].project /\ n = req[r].number
    BY <1>3, NumbersAfterCommit
  <2>2. NumberFollows(r) /\ req[r].pc = "numbered"
    BY <1>3 DEF IInv, RequestInv, CommitVersion
  <2>3. QED
    BY <1>1, <2>1, <2>2 DEF NumberFollows
<1>4. CASE rows' = rows
  BY <1>4 DEF IInv, VersionsContiguous, NumbersOf, VersionsOf
<1>5. QED
  BY <1>2, <1>3, <1>4
     DEF Next, vars, SaveStep, BeginSave, Price, ReadNumber, AnswerSave, Abandon,
         DayPasses, PurgeAudit

\* No step takes an acknowledged version away.
LEMMA DurableStep == IInv /\ [Next]_vars => AckedDurable'
<1> SUFFICES ASSUME IInv, [Next]_vars PROVE acked' \subseteq rows'
  BY DEF AckedDurable
<1>1. rows \subseteq rows' /\ acked \subseteq rows /\ RequestInv
  BY RowsGrow DEF IInv, AckedDurable
<1>2. ASSUME NEW r \in Requests, AnswerSave(r) PROVE acked' \subseteq rows'
  BY <1>1, <1>2 DEF AnswerSave, RequestInv, SavedIsStored
<1>3. QED
  BY <1>1, <1>2 DEF Next, vars, SaveStep, BeginSave, Price, ReadNumber,
                    CommitVersion, Abandon, DayPasses, PurgeAudit

-----------------------------------------------------------------------------
\* IInv is an invariant of the specification.
THEOREM Inductive == Spec => []IInv
<1>1. IInv /\ [Next]_vars => IInv'
  <2>1. IInv => TypeOK /\ RequestInv
    BY DEF IInv
  <2>2. QED
    BY <2>1, TypeStep, RequestStep, ContiguousStep, DurableStep DEF IInv
<1>2. QED
  BY InitInv, <1>1, PTL DEF Spec

\* The state of the store is always typed.
THEOREM TypeCorrect == Spec => []TypeOK
<1>1. IInv => TypeOK
  BY DEF IInv
<1>2. QED
  BY <1>1, Inductive, PTL

\* Version numbers never skip, whatever saves overlap, fail or are abandoned.
THEOREM Contiguous == Spec => []VersionsContiguous
<1>1. IInv => VersionsContiguous
  BY DEF IInv
<1>2. QED
  BY <1>1, Inductive, PTL

\* A save that begins after an acknowledged one takes a larger number.
THEOREM RealTimeOrder == Spec => []LaterSaveHasLargerNumber
<1>1. IInv => LaterSaveHasLargerNumber
  BY DEF IInv
<1>2. QED
  BY <1>1, Inductive, PTL

\* An acknowledged version is stored, and stays so.
THEOREM Durable == Spec => []AckedDurable
<1>1. IInv => AckedDurable
  BY DEF IInv
<1>2. QED
  BY <1>1, Inductive, PTL

\* A version is stored with its audit rows, and only rows past the retention
\* period are removed.
THEOREM RetentionHonoured == Spec => AuditKeptForRetention
<1> DEFINE Kept == /\ \A row \in rows' \ rows : row.estimate \in audit'
                   /\ \A e \in audit \ audit' : age[e] > RetentionDays
<1>1. TypeOK /\ [Next]_vars => [Kept]_vars
  <2> SUFFICES ASSUME TypeOK, Next PROVE Kept
    BY DEF vars
  <2>1. ASSUME NEW r \in Requests, CommitVersion(r) PROVE Kept
    BY <2>1 DEF CommitVersion, NewRow
  <2>2. ASSUME PurgeAudit PROVE Kept
    BY <2>2, VersionsAssumption DEF PurgeAudit, TypeOK
  <2>3. CASE rows' = rows /\ audit' = audit
    BY <2>3
  <2>4. QED
    BY <2>1, <2>2, <2>3 DEF Next, SaveStep, BeginSave, Price, ReadNumber, AnswerSave,
                            Abandon, DayPasses
<1>2. QED
  BY <1>1, TypeCorrect, PTL DEF Spec, AuditKeptForRetention

-----------------------------------------------------------------------------
(* The version rows implement the append-only history. *)

\* The abstract value the refinement mapping gives the history.
MappedHistory == [p \in Projects |-> {<<row.version, row.estimate>> : row \in VersionsOf(p)}]

\* The numbers of the mapped history are the version numbers of the table.
LEMMA MappedNumbers ==
  ASSUME NEW p \in Projects
  PROVE  History!Numbers(p) = NumbersOf(p)
<1> DEFINE entries == {<<row.version, row.estimate>> : row \in VersionsOf(p)}
<1>1. History!Numbers(p) = {entry[1] : entry \in entries}
  BY DEF History!Numbers
<1>2. ASSUME NEW n \in NumbersOf(p) PROVE n \in {entry[1] : entry \in entries}
  <2>1. PICK row \in VersionsOf(p) : n = row.version
    BY <1>2 DEF NumbersOf
  <2>2. <<row.version, row.estimate>> \in entries /\ <<row.version, row.estimate>>[1] = n
    BY <2>1
  <2>3. QED
    BY <2>2
<1>3. ASSUME NEW entry \in entries PROVE entry[1] \in NumbersOf(p)
  <2>1. PICK row \in VersionsOf(p) : entry = <<row.version, row.estimate>>
    OBVIOUS
  <2>2. QED
    BY <2>1 DEF NumbersOf
<1>4. QED
  BY <1>1, <1>2, <1>3

\* Committing a version adds exactly one entry to the mapped history.
LEMMA CommitAddsEntry ==
  ASSUME NEW r \in Requests, CommitVersion(r),
         NEW p0 \in Projects, req[r].project = p0,
         NEW n0, req[r].number = n0, NEW e0, req[r].estimate = e0
  PROVE  MappedHistory' = [MappedHistory EXCEPT ![p0] = @ \cup {<<n0, e0>>}]
<1> DEFINE entry(row) == <<row.version, row.estimate>>
<1>1. ASSUME NEW p \in Projects, p # p0
      PROVE  MappedHistory'[p] = MappedHistory[p]
  <2>1. VersionsOf(p)' = VersionsOf(p)
    BY <1>1 DEF CommitVersion, NewRow, VersionsOf
  <2>2. QED
    BY <2>1 DEF MappedHistory
<1>2. PICK new : /\ new.project = p0 /\ entry(new) = <<n0, e0>>
                 /\ rows' = rows \cup {new}
  BY DEF CommitVersion, NewRow
<1>3. VersionsOf(p0)' = VersionsOf(p0) \cup {new}
  BY <1>2 DEF VersionsOf
<1>4. {entry(row) : row \in VersionsOf(p0) \cup {new}}
        = {entry(row) : row \in VersionsOf(p0)} \cup {entry(new)}
  OBVIOUS
<1>5. MappedHistory'[p0] = MappedHistory[p0] \cup {<<n0, e0>>}
  BY <1>2, <1>3, <1>4 DEF MappedHistory
<1>6. QED
  BY <1>1, <1>5 DEF MappedHistory

\* Every step is a step of the abstract history or leaves it unchanged.
LEMMA StepRefines ==
  IInv /\ [Next]_vars =>
    \/ \E p \in Projects, e \in Estimates : History!AppendAtMostNext(p, e)
    \/ MappedHistory' = MappedHistory
<1> SUFFICES ASSUME IInv, [Next]_vars
             PROVE  \/ \E p \in Projects, e \in Estimates : History!AppendAtMostNext(p, e)
                    \/ MappedHistory' = MappedHistory
  OBVIOUS
<1>1. ASSUME NEW r \in Requests, CommitVersion(r)
      PROVE  \E p \in Projects, e \in Estimates : History!AppendAtMostNext(p, e)
  <2>1. /\ req[r].pc = "numbered" /\ req[r].project \in Projects /\ req[r].estimate \in Estimates
        /\ req[r].number \in Nat \ {0} /\ NumberFollows(r)
    BY <1>1 DEF IInv, RequestInv, RequestComplete, CommitVersion
  <2>2. PICK p0 \in Projects, e0 \in Estimates, n0 \in Nat \ {0} :
          req[r].project = p0 /\ req[r].estimate = e0 /\ req[r].number = n0
    BY <2>1
  <2>3. n0 \in {k + 1 : k \in NumbersOf(p0) \cup {0}}
    <3>1. CASE n0 = 1
      <4>1. 0 \in NumbersOf(p0) \cup {0} /\ n0 = 0 + 1
        BY <3>1
      <4>2. QED
        BY <4>1
    <3>2. CASE n0 - 1 \in NumbersOf(p0)
      <4>1. n0 = (n0 - 1) + 1
        OBVIOUS
      <4>2. QED
        BY <3>2, <4>1
    <3>3. QED
      BY <2>1, <2>2, <3>1, <3>2 DEF NumberFollows
  <2>4. MappedHistory' = [MappedHistory EXCEPT ![p0] = @ \cup {<<n0, e0>>}]
    BY <1>1, <2>2, CommitAddsEntry
  <2>5. History!AppendAtMostNext(p0, e0)
    BY <2>3, <2>4, MappedNumbers DEF History!AppendAtMostNext, MappedHistory
  <2>6. QED
    BY <2>5
<1>2. CASE rows' = rows
  BY <1>2 DEF MappedHistory, VersionsOf
<1>3. QED
  BY <1>1, <1>2
     DEF Next, vars, SaveStep, BeginSave, Price, ReadNumber, AnswerSave, Abandon,
         DayPasses, PurgeAudit

\* Overlapping saves keep the history append-only, and a new number is at most
\* the next one: the detailed specification implements the abstract one.
THEOREM Refinement == Spec => AppendOnly
<1>1. Init => History!Init
  BY DEF Init, History!Init, VersionsOf
<1>2. IInv /\ [Next]_vars =>
        [\E p \in Projects, e \in Estimates : History!AppendAtMostNext(p, e)]_MappedHistory
  BY StepRefines
<1>3. QED
  BY <1>1, <1>2, Inductive, PTL DEF Spec, AppendOnly, History!LooseSpec, MappedHistory

-----------------------------------------------------------------------------
(* Saves that do not overlap on a project.  Two that do may read the same  *)
(* maximum, commit the same number and leave two rows that cannot be       *)
(* reloaded: what the documentation promises of "every save" holds for as  *)
(* long as no project has two saves under way, however many workers there  *)
(* are and whatever fails.                                                 *)

\* The number a save is about to commit is larger than every committed one.
NumberFresh(r) ==
  req[r].pc = "numbered" => \A k \in NumbersOf(req[r].project) : k < req[r].number

\* No two rows of a project share a number.
NumbersUnique ==
  \A a, b \in rows : a.project = b.project /\ a.version = b.version => a = b

SerialInv ==
  /\ \A r \in Requests : NumberFresh(r)
  /\ NumbersUnique

\* A step without another save of the project under way keeps the numbers fresh.
LEMMA FreshStep ==
  ASSUME IInv, SerialInv, OneSavePerProject, [Next]_vars, NEW s \in Requests
  PROVE  NumberFresh(s)'
<1> SUFFICES ASSUME (req[s].pc = "numbered")'
             PROVE  (\A k \in NumbersOf(req[s].project) : k < req[s].number)'
  BY DEF NumberFresh
<1> USE DEF IInv, TypeOK
<1>1. ASSUME NEW r \in Requests, CommitVersion(r)
      PROVE  (\A k \in NumbersOf(req[s].project) : k < req[s].number)'
  <2>1. r # s /\ req[s]' = req[s]
    BY <1>1 DEF CommitVersion
  <2>2. req[r].project # req[s].project
    BY <1>1, <2>1 DEF CommitVersion, OneSavePerProject
  <2>3. NumbersOf(req[s].project)' = NumbersOf(req[s].project)
    BY <1>1, <2>1, <2>2 DEF CommitVersion, NewRow, NumbersOf, VersionsOf
  <2>4. QED
    BY <2>1, <2>3 DEF SerialInv, NumberFresh
<1>2. ASSUME ReadNumber(s)
      PROVE  (\A k \in NumbersOf(req[s].project) : k < req[s].number)'
  <2>1. req[s].project \in Projects
    BY <1>2 DEF ReadNumber, RequestInv, RequestComplete
  <2>2. PICK m \in NumbersOf(req[s].project) \cup {0} :
          /\ IsMaxOrZero(m, NumbersOf(req[s].project))
          /\ req' = [req EXCEPT ![s].pc = "numbered", ![s].number = m + 1]
    BY <1>2 DEF ReadNumber
  <2>3. req'[s].number = m + 1 /\ req'[s].project = req[s].project
    BY <2>2 DEF Request
  <2>4. NumbersOf(req[s].project)' = NumbersOf(req[s].project)
    BY <1>2, <2>3 DEF ReadNumber, NumbersOf, VersionsOf
  <2>5. \A k \in NumbersOf(req[s].project) : k < m + 1
    BY <2>1, <2>2, NumbersAreNat DEF IsMaxOrZero
  <2>6. QED
    BY <2>3, <2>4, <2>5
<1>3. CASE rows' = rows /\ req'[s] = req[s]
  BY <1>3 DEF SerialInv, NumberFresh, NumbersOf, VersionsOf
<1>4. ASSUME NEW r \in Requests, r # s,
             SaveStep(r) \/ Abandon(r), ~CommitVersion(r)
      PROVE  rows' = rows /\ req'[s] = req[s]
  BY <1>4 DEF SaveStep, BeginSave, Price, ReadNumber, AnswerSave, Abandon
<1>5. ASSUME SaveStep(s) \/ Abandon(s)
      PROVE  ReadNumber(s)
  <2>1. ASSUME NEW u \in Users, NEW p \in Projects, BeginSave(s, u, p) PROVE FALSE
    BY <2>1 DEF BeginSave, Idle
  <2>2. ASSUME NEW e \in Estimates, Price(s, e) PROVE FALSE
    BY <2>2 DEF Price, Request
  <2>3. ~CommitVersion(s) /\ ~AnswerSave(s) /\ ~Abandon(s)
    BY DEF CommitVersion, AnswerSave, Abandon, Idle, Request
  <2>4. QED
    BY <1>5, <2>1, <2>2, <2>3 DEF SaveStep
<1>6. QED
  BY <1>1, <1>2, <1>3, <1>4, <1>5 DEF Next, vars, DayPasses, PurgeAudit

\* A fresh number is not that of another row.
LEMMA UniqueStep ==
  IInv /\ SerialInv /\ [Next]_vars => NumbersUnique'
<1> SUFFICES ASSUME IInv, SerialInv, [Next]_vars PROVE NumbersUnique'
  OBVIOUS
<1>1. ASSUME NEW r \in Requests, CommitVersion(r) PROVE NumbersUnique'
  <2>1. PICK new : /\ new.project = req[r].project /\ new.version = req[r].number
                   /\ rows' = rows \cup {new}
    BY <1>1 DEF CommitVersion, NewRow
  <2>2. ASSUME NEW row \in rows, row.project = new.project PROVE row.version < new.version
    BY <1>1, <2>1, <2>2, RowNumber DEF IInv, SerialInv, NumberFresh, CommitVersion
  <2>3. ASSUME NEW row \in rows, row.project = new.project PROVE row.version # new.version
    BY <2>2, <2>3, RowNumber DEF IInv
  <2>4. QED
    BY <2>1, <2>3 DEF SerialInv, NumbersUnique
<1>2. CASE rows' = rows
  BY <1>2 DEF SerialInv, NumbersUnique
<1>3. QED
  BY <1>1, <1>2
     DEF Next, vars, SaveStep, BeginSave, Price, ReadNumber, AnswerSave, Abandon,
         DayPasses, PurgeAudit

\* While saves do not overlap on a project, its rows have numbers of their own.
THEOREM SerialInductive == Spec /\ []OneSavePerProject => []SerialInv
<1>1. Init => SerialInv
  BY DEF Init, SerialInv, NumberFresh, NumbersUnique, Idle
<1>2. IInv /\ OneSavePerProject /\ SerialInv /\ [Next]_vars => SerialInv'
  BY FreshStep, UniqueStep DEF SerialInv
<1>3. QED
  BY <1>1, <1>2, Inductive, PTL DEF Spec

\* A version answered with 201 can be reloaded, and reloading gives exactly what
\* was saved, while saves do not overlap on a project.
THEOREM SerialReload == Spec => ReloadsWhileApart
<1>1. IInv /\ SerialInv => AckedVersionsReload
  <2> SUFFICES ASSUME IInv, SerialInv, NEW row \in acked PROVE Reloads(row)
    BY DEF AckedVersionsReload
  <2>1. row \in rows
    BY DEF IInv, AckedDurable
  <2>2. QED
    BY <2>1 DEF SerialInv, NumbersUnique, Reloads, Matches, VersionsOf
<1>2. QED
  BY <1>1, Inductive, SerialInductive, PTL DEF ReloadsWhileApart

\* While saves do not overlap on a project, every save creates the next number.
THEOREM SerialNumbers == Spec /\ []OneSavePerProject => AutoIncrementing
<1>1. Init => History!Init
  BY DEF Init, History!Init, VersionsOf
<1>2. IInv /\ SerialInv /\ [Next]_vars =>
        [\E p \in Projects, e \in Estimates : History!AppendNext(p, e)]_MappedHistory
  <2> SUFFICES ASSUME IInv, SerialInv, [Next]_vars
               PROVE  \/ \E p \in Projects, e \in Estimates : History!AppendNext(p, e)
                      \/ MappedHistory' = MappedHistory
    OBVIOUS
  <2>1. ASSUME NEW r \in Requests, CommitVersion(r)
        PROVE  \E p \in Projects, e \in Estimates : History!AppendNext(p, e)
    <3>1. /\ req[r].pc = "numbered" /\ req[r].project \in Projects /\ req[r].estimate \in Estimates
          /\ req[r].number \in Nat \ {0} /\ NumberFollows(r) /\ NumberFresh(r)
      BY <2>1 DEF IInv, RequestInv, RequestComplete, CommitVersion, SerialInv
    <3>2. PICK p0 \in Projects, e0 \in Estimates, n0 \in Nat \ {0} :
            req[r].project = p0 /\ req[r].estimate = e0 /\ req[r].number = n0
      BY <3>1
    <3>3. n0 = 1 \/ n0 - 1 \in NumbersOf(p0)
      BY <3>1, <3>2 DEF NumberFollows
    <3>4. n0 \in {k + 1 : k \in NumbersOf(p0) \cup {0}}
      <4>1. n0 - 1 \in NumbersOf(p0) \cup {0} /\ n0 = (n0 - 1) + 1
        BY <3>3
      <4>2. QED
        BY <4>1
    <3>5. \A k \in NumbersOf(p0) : k < n0
      BY <3>1, <3>2 DEF NumberFresh
    <3>6. MappedHistory' = [MappedHistory EXCEPT ![p0] = @ \cup {<<n0, e0>>}]
      BY <2>1, <3>2, CommitAddsEntry
    <3>7. History!IsNext(p0, n0)
      BY <3>3, <3>5, MappedNumbers DEF History!IsNext
    <3>8. History!AppendNext(p0, e0)
      BY <3>4, <3>6, <3>7, MappedNumbers DEF History!AppendNext, MappedHistory
    <3>9. QED
      BY <3>8
  <2>2. CASE rows' = rows
    BY <2>2 DEF MappedHistory, VersionsOf
  <2>3. QED
    BY <2>1, <2>2
       DEF Next, vars, SaveStep, BeginSave, Price, ReadNumber, AnswerSave, Abandon,
           DayPasses, PurgeAudit
<1>3. QED
  BY <1>1, <1>2, Inductive, SerialInductive, PTL
     DEF Spec, AutoIncrementing, History!StrictSpec, MappedHistory
=============================================================================
