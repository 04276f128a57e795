-------------------------- MODULE Migration_proofs --------------------------
(***************************************************************************)
(* Theorems about Migration and the ledger of its actions, for any plans,  *)
(* processes and links.                                                    *)
(***************************************************************************)
EXTENDS Migration, JobTable_proofs

-----------------------------------------------------------------------------
(***************************************************************************)
(* The ledger of actions, for any jobs, actions and destinations.          *)
(***************************************************************************)
ActionRow == [state : ActionState, id : Identity \cup {NoOne}]

LEMMA ActionExcept ==
    ASSUME NEW r \in ActionRow, NEW to \in ActionState
    PROVE  /\ [r EXCEPT !.state = to] \in ActionRow
           /\ [r EXCEPT !.state = to].state = to /\ [r EXCEPT !.state = to].id = r.id
BY DEF ActionRow

WriteCell(j, i, r) == actions' = [actions EXCEPT ![j] = [actions[j] EXCEPT ![i] = r]]

\* Two indices deep: one cell of the table changes.
LEMMA CellWrites ==
    ASSUME LedgerTypeOK, NEW j \in Job, NEW i \in Index, NEW r \in ActionRow,
           WriteCell(j, i, r)
    PROVE  /\ LedgerTypeOK'
           /\ actions'[j][i] = r
           /\ \A k \in Job, m \in Index : k # j \/ m # i => actions'[k][m] = actions[k][m]
<1>1. actions \in [Job -> [Index -> ActionRow]]
  BY DEF LedgerTypeOK, ActionRow
<1>2. actions[j] \in [Index -> ActionRow]
  BY <1>1
<1> DEFINE f == [actions[j] EXCEPT ![i] = r]
<1>3. f \in [Index -> ActionRow] /\ f[i] = r /\ \A m \in Index : m # i => f[m] = actions[j][m]
  BY <1>2
<1>4. actions' = [actions EXCEPT ![j] = f]
  BY DEF WriteCell
<1> HIDE DEF f
<1>5. actions' \in [Job -> [Index -> ActionRow]] /\ actions'[j] = f
      /\ \A k \in Job : k # j => actions'[k] = actions[k]
  BY <1>1, <1>3, <1>4
<1> QED BY <1>3, <1>5 DEF LedgerTypeOK, ActionRow

LEMMA RegisterWrites ==
    ASSUME LedgerTypeOK, NEW j \in Job, NEW i \in Index, NEW id \in Identity,
           RegisterAction(j, i, id)
    PROVE  /\ LedgerTypeOK'
           /\ Registered(j, i) => UNCHANGED actions /\ actions[j][i].id = id
           /\ ~Registered(j, i) => /\ actions'[j][i] = [state |-> "PLANNED", id |-> id]
                                   /\ ~Reserved(KeyOf[id])
           /\ \A k \in Job, m \in Index : k # j \/ m # i => actions'[k][m] = actions[k][m]
<1>1. CASE Registered(j, i)
  BY <1>1 DEF RegisterAction, MayRegister, LedgerTypeOK
<1>2. CASE ~Registered(j, i)
  <2> DEFINE r == [state |-> "PLANNED", id |-> id]
  <2>1. r \in ActionRow
    BY DEF ActionRow, ActionState
  <2>2. WriteCell(j, i, r)
    BY <1>2 DEF RegisterAction, WriteCell
  <2> HIDE DEF r
  <2>3. /\ LedgerTypeOK' /\ actions'[j][i] = r
        /\ \A k \in Job, m \in Index : k # j \/ m # i => actions'[k][m] = actions[k][m]
    BY <2>1, <2>2, CellWrites
  <2>4. ~Reserved(KeyOf[id])
    BY <1>2 DEF RegisterAction, MayRegister
  <2> QED BY <1>2, <2>3, <2>4 DEF r
<1> QED BY <1>1, <1>2

LEMMA SetWrites ==
    ASSUME LedgerTypeOK, NEW j \in Job, NEW i \in Index, NEW expected, NEW next,
           SetActionState(j, i, expected, next)
    PROVE  /\ LedgerTypeOK'
           /\ Registered(j, i) /\ actions[j][i].state \in {expected, next}
           /\ <<expected, next>> \in ActionStep
           /\ actions'[j][i].state = next /\ actions'[j][i].id = actions[j][i].id
           /\ \A k \in Job, m \in Index : k # j \/ m # i => actions'[k][m] = actions[k][m]
<1>1. /\ <<expected, next>> \in ActionStep /\ actions[j][i].state \in {expected, next}
      /\ actions' = [actions EXCEPT ![j] = [actions[j] EXCEPT ![i].state = next]]
  BY DEF SetActionState, MaySetAction
<1>2. expected \in ActionState \ {"NONE"} /\ next \in ActionState \ {"NONE"}
  BY <1>1 DEF ActionStep, ActionState
<1> DEFINE r == [actions[j][i] EXCEPT !.state = next]
<1>3. actions[j][i] \in ActionRow
  BY DEF LedgerTypeOK, ActionRow
<1>4. r \in ActionRow /\ r.state = next /\ r.id = actions[j][i].id
  BY <1>2, <1>3, ActionExcept
<1>5. WriteCell(j, i, r)
  BY <1>1 DEF WriteCell
<1> HIDE DEF r
<1>6. /\ LedgerTypeOK' /\ actions'[j][i] = r
      /\ \A k \in Job, m \in Index : k # j \/ m # i => actions'[k][m] = actions[k][m]
  BY <1>4, <1>5, CellWrites
<1> QED BY <1>1, <1>2, <1>4, <1>6 DEF Registered

LEMMA LedgerTyped ==
    ASSUME LedgerTypeOK, [LedgerNext]_actions
    PROVE  LedgerTypeOK'
<1>1. ASSUME NEW j \in Job, NEW i \in Index, NEW id \in Identity, RegisterAction(j, i, id)
      PROVE  LedgerTypeOK'
  BY <1>1, RegisterWrites
<1>2. ASSUME NEW j \in Job, NEW i \in Index, NEW expected, NEW next,
             SetActionState(j, i, expected, next)
      PROVE  LedgerTypeOK'
  BY <1>2, SetWrites
<1>3. CASE UNCHANGED actions
  BY <1>3 DEF LedgerTypeOK
<1> QED BY <1>1, <1>2, <1>3 DEF LedgerNext

LEMMA ReservationKept ==
    ASSUME LedgerTypeOK, OneReservation, [LedgerNext]_actions
    PROVE  OneReservation'
<1>1. ASSUME NEW j \in Job, NEW i \in Index, NEW id \in Identity, RegisterAction(j, i, id),
             ~Registered(j, i)
      PROVE  OneReservation'
  <2> DEFINE r == [state |-> "PLANNED", id |-> id]
  <2>0. /\ actions'[j][i] = r /\ ~Reserved(KeyOf[id])
        /\ \A k \in Job, m \in Index : k # j \/ m # i => actions'[k][m] = actions[k][m]
    <3> HIDE DEF r
    <3>1. ~Registered(j, i) => actions'[j][i] = r /\ ~Reserved(KeyOf[id])
      BY <1>1, RegisterWrites, Zenon DEF r
    <3>2. \A k \in Job, m \in Index : k # j \/ m # i => actions'[k][m] = actions[k][m]
      BY <1>1, RegisterWrites, Zenon
    <3> QED BY <1>1, <3>1, <3>2
  <2>1. /\ actions'[j][i].id = id
        /\ \A k \in Job, m \in Index : k # j \/ m # i => actions'[k][m] = actions[k][m]
    BY <2>0
  <2>2. \A k \in Job, m \in Index : Registered(k, m) => KeyOf[actions[k][m].id] # KeyOf[id]
    BY <2>0 DEF Reserved
  <2>3. SUFFICES ASSUME NEW j1 \in Job, NEW j2 \in Job, NEW i1 \in Index, NEW i2 \in Index,
                        Registered(j1, i1)', Registered(j2, i2)',
                        KeyOf[actions'[j1][i1].id] = KeyOf[actions'[j2][i2].id]
                 PROVE  j1 = j2 /\ i1 = i2
    BY DEF OneReservation
  <2>4. CASE j1 = j /\ i1 = i /\ (j2 # j \/ i2 # i)
    <3>1. actions'[j2][i2] = actions[j2][i2]
      BY <2>1, <2>4
    <3>2. Registered(j2, i2)
      BY <2>3, <3>1 DEF Registered
    <3>3. KeyOf[actions[j2][i2].id] = KeyOf[id]
      BY <2>1, <2>3, <2>4, <3>1
    <3> QED BY <2>2, <3>2, <3>3
  <2>5. CASE j2 = j /\ i2 = i /\ (j1 # j \/ i1 # i)
    <3>1. actions'[j1][i1] = actions[j1][i1]
      BY <2>1, <2>5
    <3>2. Registered(j1, i1)
      BY <2>3, <3>1 DEF Registered
    <3>3. KeyOf[actions[j1][i1].id] = KeyOf[id]
      BY <2>1, <2>3, <2>5, <3>1
    <3> QED BY <2>2, <3>2, <3>3
  <2>6. CASE (j1 # j \/ i1 # i) /\ (j2 # j \/ i2 # i)
    BY <2>1, <2>3, <2>6 DEF Registered, OneReservation
  <2> QED BY <2>4, <2>5, <2>6
<1>2. ASSUME NEW j \in Job, NEW i \in Index, NEW expected, NEW next,
             SetActionState(j, i, expected, next)
      PROVE  OneReservation'
  <2>1. /\ Registered(j, i) /\ actions'[j][i].id = actions[j][i].id
        /\ \A k \in Job, m \in Index : k # j \/ m # i => actions'[k][m] = actions[k][m]
    BY <1>2, SetWrites
  <2>2. \A k \in Job, m \in Index : /\ Registered(k, m)' => Registered(k, m)
                                     /\ actions'[k][m].id = actions[k][m].id
    BY <2>1 DEF Registered
  <2> QED BY <2>2 DEF OneReservation
<1>3. CASE UNCHANGED actions
  BY <1>3 DEF OneReservation, Registered
<1>4. ASSUME NEW j \in Job, NEW i \in Index, NEW id \in Identity, RegisterAction(j, i, id)
      PROVE  OneReservation'
  <2>1. CASE Registered(j, i)
    BY <1>3, <1>4, <2>1, RegisterWrites
  <2> QED BY <1>1, <1>4, <2>1
<1> QED BY <1>2, <1>3, <1>4 DEF LedgerNext

\* Whatever jobs register and whatever states their actions reach, one destination
\* is reserved by at most one action of all jobs (state.rs:86-92, 266-313).
THEOREM DestinationsReservedOnce == LedgerSpec => [](LedgerTypeOK /\ OneReservation)
<1>1. LedgerInit => LedgerTypeOK /\ OneReservation
  BY DEF LedgerInit, LedgerTypeOK, OneReservation, Registered, NoAction, ActionState
<1>2. LedgerTypeOK /\ OneReservation /\ [LedgerNext]_actions => (LedgerTypeOK /\ OneReservation)'
  BY LedgerTyped, ReservationKept
<1> QED BY <1>1, <1>2, PTL DEF LedgerSpec

-----------------------------------------------------------------------------
(***************************************************************************)
(* Type correctness.  Inductive together with the fact that a process that *)
(* is off stands at the first action of the first item of any plan.        *)
(***************************************************************************)
AtStart == \A p \in Owner : pc[p] = "off" => item[p] = 1 /\ idx[p] = 1

TypeInv == TypeOK /\ AtStart

LEMMA PlaceOf ==
    ASSUME NEW b \in Plan, NEW k \in DOMAIN JobsOf[b]
    PROVE  /\ k \in Nat /\ 1 \in DOMAIN JobsOf[b]
           /\ JobsOf[b][k] \in Job
           /\ 1 \in DOMAIN ActionsOf[JobsOf[b][k]]
           /\ k < Len(JobsOf[b]) => k + 1 \in DOMAIN JobsOf[b]
<1>1. JobsOf[b] \in Seq(Job) /\ JobsOf[b] # <<>>
  BY PlanAssumption
<1>2. JobsOf[b][k] \in Job
  BY <1>1
<1>3. ActionsOf[JobsOf[b][k]] \in Seq(FileAction) /\ ActionsOf[JobsOf[b][k]] # <<>>
  BY <1>2, PlanAssumption
<1> QED BY <1>1, <1>2, <1>3

LEMMA ActionOf ==
    ASSUME NEW j \in Job, NEW i \in DOMAIN ActionsOf[j]
    PROVE  /\ i \in Nat /\ i \in Index
           /\ ActionsOf[j][i] \in FileAction
           /\ ActionsOf[j][i].source \in Source /\ ActionsOf[j][i].target \in Target
           /\ i < Len(ActionsOf[j]) => i + 1 \in DOMAIN ActionsOf[j]
<1>1. ActionsOf[j] \in Seq(FileAction) /\ DOMAIN ActionsOf[j] \subseteq Index
  BY PlanAssumption
<1>2. ActionsOf[j][i] \in FileAction
  BY <1>1
<1> QED BY <1>1, <1>2 DEF FileAction

LEMMA PlanTyped == AnyPlan \in Plan
BY PlanAssumption DEF AnyPlan

\* The present place of a process, and what it finds there.
LEMMA Here ==
    ASSUME TypeOK, NEW p \in Owner
    PROVE  /\ plan[p] \in Plan /\ item[p] \in DOMAIN JobsOf[plan[p]]
           /\ J(p) \in Job /\ idx[p] \in DOMAIN ActionsOf[J(p)]
           /\ idx[p] \in Index /\ A(p) \in Identity
           /\ A(p).source \in Source /\ A(p).target \in Target
           /\ S(p) \in File /\ T(p) \in File /\ Want(p) \in File
<1>1. plan[p] \in Plan /\ item[p] \in DOMAIN JobsOf[plan[p]] /\ idx[p] \in DOMAIN Acts(p)
  BY DEF TypeOK
<1>2. J(p) \in Job
  BY <1>1, PlaceOf DEF J
<1>3. idx[p] \in Index /\ A(p) \in FileAction /\ A(p).source \in Source /\ A(p).target \in Target
  BY <1>1, <1>2, ActionOf DEF A, Acts
<1>4. S(p) \in File /\ T(p) \in File /\ Want(p) \in File
  BY <1>3 DEF TypeOK, S, T, Want, File, Content
<1> QED BY <1>1, <1>2, <1>3, <1>4, PlanAssumption DEF Acts

\* The steps of a process by what they write: the state store, the files, or
\* nothing but the place of the process itself.
StoreAction(p) ==
    \/ ClaimJob(p) \/ Register(p) \/ ToStaging(p) \/ ToVerified(p) \/ ToRemoving(p)
    \/ RenewToPromote(p) \/ RenewToRemove(p) \/ SetPromoted(p) \/ SetRemoved(p)
    \/ Commit(p) \/ FailJob(p)

FileWrite(p) ==
    \/ ServerRename(p) \/ HardLink(p) \/ Upload(p) \/ Protect(p) \/ Publish(p)
    \/ Cleanup(p) \/ Remove(p)

CheckOnly(p) ==
    \/ Preflight(p) \/ Recheck(p) \/ Look(p) \/ CheckTarget(p) \/ RenameCheck(p)
    \/ RenameRecheck(p) \/ Stream(p) \/ StageCopy(p) \/ Verify(p) \/ VerifyAll(p)
    \/ LookToRemove(p) \/ CheckSource(p) \/ FinalVerify(p)

Outside(p) == IoError(p) \/ Crash(p) \/ \E b \in Plan : Start(p, b)

LEMMA Steps ==
    ASSUME [Next]_vars
    PROVE  \/ \E p \in Owner : StoreAction(p) \/ FileWrite(p) \/ CheckOnly(p) \/ Outside(p)
           \/ \E j \in Job : LeaseRunsOut(j)
           \/ Edit
           \/ UNCHANGED vars
<1>1. \A p \in Owner : Run(p) => StoreAction(p) \/ FileWrite(p) \/ CheckOnly(p)
  BY DEF Run, Promote, RemoveSources, StoreAction, FileWrite, CheckOnly
<1> QED BY <1>1 DEF Next, Outside

LEMMA LooksOnly == ASSUME NEW p \in Owner, CheckOnly(p) PROVE UNCHANGED <<tableVars, fileVars>>
BY DEF CheckOnly, Preflight, Recheck, Look, CheckTarget, RenameCheck, RenameRecheck, Stream,
       StageCopy, Verify, VerifyAll, VerifyEach, LookToRemove, CheckSource, FinalVerify,
       Require, tableVars, fileVars

LEMMA OutsideOnly == ASSUME NEW p \in Owner, Outside(p) PROVE UNCHANGED <<tableVars, fileVars>>
BY DEF Outside, IoError, Crash, Start, tableVars, fileVars

LEMMA FileWritesOnly == ASSUME NEW p \in Owner, FileWrite(p) PROVE UNCHANGED tableVars
BY DEF FileWrite, ServerRename, HardLink, Upload, Protect, Publish, Cleanup, Remove, tableVars

LEMMA StoreActionsOnly == ASSUME NEW p \in Owner, StoreAction(p) PROVE UNCHANGED fileVars
BY DEF StoreAction, ClaimJob, Register, ToStaging, ToVerified, ToRemoving, Advance,
       RenewToPromote, RenewToRemove, RenewLease, SetPromoted, SetRemoved, Commit, FailJob,
       fileVars

-----------------------------------------------------------------------------
(***************************************************************************)
(* The store                                                               *)
(***************************************************************************)
StoreTyped == TableTypeOK /\ LedgerTypeOK

LEMMA StatesNamed ==
    /\ {"STAGING", "VERIFIED", "REMOVING_SOURCE", "COMMITTED", "FAILED"} \subseteq JobState
    /\ {"PLANNED", "PROMOTED", "SOURCE_REMOVED"} \subseteq ActionState
BY DEF JobState, ActionState

LEMMA FailWrites ==
    ASSUME TableTypeOK, NEW j \in Job, NEW o \in Owner, Fail(j, o)
    PROVE  TableTypeOK'
BY StatesNamed, TransitionWrites DEF Fail

LEMMA JobActionsTyped ==
    ASSUME TypeOK, NEW p \in Owner, NEW from, NEW to \in JobState,
           \/ Claim(J(p), p) \/ Renew(J(p), p) \/ Transition(J(p), p, from, to)
           \/ Fail(J(p), p) \/ UNCHANGED jobs
    PROVE  TableTypeOK'
<1>1. J(p) \in Job /\ TableTypeOK
  BY Here DEF TypeOK
<1>2. CASE UNCHANGED jobs
  BY <1>1, <1>2 DEF TableTypeOK
<1>3. CASE Claim(J(p), p)
  BY <1>1, <1>3, ClaimWrites
<1>4. CASE Renew(J(p), p)
  BY <1>1, <1>4, RenewWrites
<1>5. CASE Transition(J(p), p, from, to)
  BY <1>1, <1>5, TransitionWrites
<1>6. CASE Fail(J(p), p)
  BY <1>1, <1>6, FailWrites
<1> QED BY <1>2, <1>3, <1>4, <1>5, <1>6

LEMMA ActionWritesTyped ==
    ASSUME TypeOK, NEW p \in Owner, NEW expected, NEW next,
           \/ RegisterAction(J(p), idx[p], A(p))
           \/ SetActionState(J(p), idx[p], expected, next)
           \/ UNCHANGED actions
    PROVE  LedgerTypeOK'
<1>1. J(p) \in Job /\ idx[p] \in Index /\ A(p) \in Identity /\ LedgerTypeOK
  BY Here DEF TypeOK
<1>2. CASE UNCHANGED actions
  BY <1>1, <1>2 DEF LedgerTypeOK
<1>3. CASE RegisterAction(J(p), idx[p], A(p))
  BY <1>1, <1>3, RegisterWrites
<1>4. CASE SetActionState(J(p), idx[p], expected, next)
  BY <1>1, <1>4, SetWrites
<1> QED BY <1>2, <1>3, <1>4

LEMMA StoreTypedKept == ASSUME TypeOK, [Next]_vars PROVE StoreTyped'
<1>1. ASSUME NEW p \in Owner, StoreAction(p) PROVE StoreTyped'
  <2>1. CASE ClaimJob(p)
    <3>1. UNCHANGED jobs \/ Claim(J(p), p)
      BY <2>1 DEF ClaimJob, tableVars
    <3>2. UNCHANGED actions
      BY <2>1 DEF ClaimJob, tableVars
    <3> QED BY <3>1, <3>2, JobActionsTyped, ActionWritesTyped, StatesNamed DEF StoreTyped
  <2>2. CASE Register(p)
    <3>1. UNCHANGED jobs /\ (UNCHANGED actions \/ RegisterAction(J(p), idx[p], A(p)))
      BY <2>2 DEF Register
    <3> QED BY <3>1, JobActionsTyped, ActionWritesTyped, StatesNamed DEF StoreTyped
  <2>3. ASSUME NEW at, NEW from, NEW to \in JobState, NEW next, Advance(p, at, from, to, next)
        PROVE  StoreTyped'
    <3>1. UNCHANGED actions /\ (UNCHANGED jobs \/ Transition(J(p), p, from, to))
      BY <2>3 DEF Advance
    <3> QED BY <3>1, JobActionsTyped, ActionWritesTyped DEF StoreTyped
  <2>4. CASE ToStaging(p) \/ ToVerified(p) \/ ToRemoving(p)
    BY <2>3, <2>4, StatesNamed DEF ToStaging, ToVerified, ToRemoving
  <2>5. ASSUME NEW at, NEW next, RenewLease(p, at, next) PROVE StoreTyped'
    <3>1. UNCHANGED actions /\ (UNCHANGED jobs \/ Renew(J(p), p))
      BY <2>5 DEF RenewLease
    <3> QED BY <3>1, JobActionsTyped, ActionWritesTyped, StatesNamed DEF StoreTyped
  <2>6. CASE RenewToPromote(p) \/ RenewToRemove(p)
    BY <2>5, <2>6 DEF RenewToPromote, RenewToRemove
  <2>7. CASE SetPromoted(p)
    <3>1. /\ UNCHANGED jobs
          /\ UNCHANGED actions \/ SetActionState(J(p), idx[p], "PLANNED", "PROMOTED")
      BY <2>7 DEF SetPromoted
    <3> QED BY <3>1, JobActionsTyped, ActionWritesTyped, StatesNamed DEF StoreTyped
  <2>8. CASE SetRemoved(p)
    <3>1. /\ UNCHANGED jobs
          /\ UNCHANGED actions \/ SetActionState(J(p), idx[p], "PROMOTED", "SOURCE_REMOVED")
      BY <2>8 DEF SetRemoved
    <3> QED BY <3>1, JobActionsTyped, ActionWritesTyped, StatesNamed DEF StoreTyped
  <2>9. CASE Commit(p)
    <3>1. UNCHANGED actions
          /\ (UNCHANGED jobs \/ Transition(J(p), p, "REMOVING_SOURCE", "COMMITTED"))
      BY <2>9 DEF Commit
    <3> QED BY <3>1, JobActionsTyped, ActionWritesTyped, StatesNamed DEF StoreTyped
  <2>10. CASE FailJob(p)
    <3>1. UNCHANGED actions /\ (UNCHANGED jobs \/ Fail(J(p), p))
      BY <2>10 DEF FailJob
    <3> QED BY <3>1, JobActionsTyped, ActionWritesTyped, StatesNamed DEF StoreTyped
  <2> QED BY <1>1, <2>1, <2>2, <2>4, <2>6, <2>7, <2>8, <2>9, <2>10 DEF StoreAction
<1>2. ASSUME NEW j \in Job, LeaseRunsOut(j) PROVE StoreTyped'
  <2>1. {j} \in SUBSET Job /\ ExpireAll({j}) /\ UNCHANGED actions
    BY <1>2 DEF LeaseRunsOut, Expire
  <2>2. TableTypeOK'
    BY <2>1, ExpireWrites DEF TypeOK
  <2> QED BY <2>1, <2>2 DEF StoreTyped, TypeOK, LedgerTypeOK
<1>3. ASSUME UNCHANGED tableVars PROVE StoreTyped'
  BY <1>3 DEF StoreTyped, tableVars, TypeOK, TableTypeOK, LedgerTypeOK
<1>4. CASE Edit
  BY <1>3, <1>4 DEF Edit
<1>5. CASE UNCHANGED vars
  BY <1>3, <1>5 DEF vars, tableVars
<1>6. ASSUME NEW p \in Owner, FileWrite(p) \/ CheckOnly(p) \/ Outside(p) PROVE StoreTyped'
  BY <1>3, <1>6, LooksOnly, OutsideOnly, FileWritesOnly
<1> QED BY <1>1, <1>2, <1>4, <1>5, <1>6, Steps

-----------------------------------------------------------------------------
(***************************************************************************)
(* The files, and what a process holds of them                             *)
(***************************************************************************)
FilesTyped == src \in [Source -> File] /\ dst \in [Target -> File] /\ bak \in [Owner -> File]

LocalTyped == seen \in [Owner -> ActionState] /\ buf \in [Owner -> File]

WorldTyped == link \in Links /\ faults \in 0..MaxFaults /\ edits \in 0..MaxEdits

LEMMA AbsentFile == Absent \in File /\ Foreign \in File /\ Torn \in File
BY DEF File, Content

LEMMA FilesTypedKept == ASSUME TypeOK, [Next]_vars PROVE FilesTyped'
<1>1. FilesTyped /\ LocalTyped
  BY DEF TypeOK, FilesTyped, LocalTyped
<1>2. ASSUME NEW p \in Owner, FileWrite(p) PROVE FilesTyped'
  <2>1. /\ S(p) \in File /\ T(p) \in File /\ buf[p] \in File /\ bak[p] \in File
        /\ Absent \in File
    BY <1>1, Here, AbsentFile DEF LocalTyped, FilesTyped
  <2>2. CASE ServerRename(p)
    BY <1>1, <2>1, <2>2 DEF ServerRename, FilesTyped
  <2>3. CASE HardLink(p)
    BY <1>1, <2>1, <2>3 DEF HardLink, FilesTyped
  <2>4. CASE Upload(p)
    BY <1>1, <2>1, <2>4 DEF Upload, FilesTyped
  <2>5. CASE Protect(p)
    BY <1>1, <2>1, <2>5 DEF Protect, FilesTyped
  <2>6. CASE Publish(p)
    BY <1>1, <2>1, <2>6 DEF Publish, FilesTyped
  <2>7. CASE Cleanup(p)
    BY <1>1, <2>1, <2>7 DEF Cleanup, FilesTyped
  <2>8. CASE Remove(p)
    BY <1>1, <2>1, <2>8 DEF Remove, FilesTyped
  <2> QED BY <1>2, <2>2, <2>3, <2>4, <2>5, <2>6, <2>7, <2>8 DEF FileWrite
<1>3. ASSUME UNCHANGED fileVars PROVE FilesTyped'
  BY <1>1, <1>3 DEF fileVars, FilesTyped
<1>4. ASSUME NEW p \in Owner, StoreAction(p) \/ CheckOnly(p) \/ Outside(p) PROVE FilesTyped'
  BY <1>3, <1>4, LooksOnly, OutsideOnly, StoreActionsOnly DEF fileVars
<1>5. ASSUME NEW j \in Job, LeaseRunsOut(j) PROVE FilesTyped'
  BY <1>3, <1>5 DEF LeaseRunsOut
<1>6. CASE Edit
  BY <1>1, <1>6, AbsentFile DEF Edit, FilesTyped
<1>7. CASE UNCHANGED vars
  BY <1>3, <1>7 DEF vars, fileVars
<1> QED BY <1>2, <1>4, <1>5, <1>6, <1>7, Steps

\* Faults and edits stay within their bounds, and a run keeps its endpoints.
LEMMA WorldTypedKept == ASSUME TypeOK, [Next]_vars PROVE WorldTyped'
<1>1. WorldTyped /\ MaxFaults \in Nat /\ MaxEdits \in Nat
  BY FileAssumption DEF TypeOK, WorldTyped
<1>2. ASSUME Fault \/ UNCHANGED worldVars PROVE WorldTyped'
  BY <1>1, <1>2 DEF Fault, worldVars, WorldTyped
<1>3. ASSUME NEW p \in Owner, StoreAction(p) PROVE UNCHANGED worldVars
  BY <1>3 DEF StoreAction, ClaimJob, Register, ToStaging, ToVerified, ToRemoving, Advance,
       RenewToPromote, RenewToRemove, RenewLease, SetPromoted, SetRemoved, Commit, FailJob,
       worldVars
<1>4. ASSUME NEW p \in Owner, FileWrite(p) PROVE Fault \/ UNCHANGED worldVars
  BY <1>4 DEF FileWrite, ServerRename, HardLink, Upload, Protect, Publish, Cleanup, Remove,
       worldVars
<1>5. ASSUME NEW p \in Owner, CheckOnly(p) PROVE Fault \/ UNCHANGED worldVars
  BY <1>5 DEF CheckOnly, Preflight, Recheck, Look, CheckTarget, RenameCheck, RenameRecheck,
       Stream, StageCopy, Verify, VerifyAll, VerifyEach, LookToRemove, CheckSource,
       FinalVerify, Require, worldVars
<1>6. ASSUME NEW p \in Owner, Outside(p) PROVE Fault \/ UNCHANGED worldVars
  BY <1>6 DEF Outside, IoError, Crash, Start, worldVars
<1>7. ASSUME NEW j \in Job, LeaseRunsOut(j) PROVE UNCHANGED worldVars
  BY <1>7 DEF LeaseRunsOut
<1>8. CASE Edit
  BY <1>1, <1>8 DEF Edit, WorldTyped
<1>9. CASE UNCHANGED vars
  BY <1>2, <1>9 DEF vars, worldVars
<1> QED BY <1>2, <1>3, <1>4, <1>5, <1>6, <1>7, <1>8, <1>9, Steps

-----------------------------------------------------------------------------
(***************************************************************************)
(* The place of every process                                              *)
(***************************************************************************)
Working == PC \ {"off"}

PlacesTyped ==
    /\ pc \in [Owner -> PC] /\ plan \in [Owner -> Plan]
    /\ item \in [Owner -> Nat] /\ idx \in [Owner -> Nat]
    /\ \A p \in Owner : item[p] \in DOMAIN JobsOf[plan[p]] /\ idx[p] \in DOMAIN Acts(p)
    /\ AtStart

\* A process moves to some place of some plan, and the others stay.
LEMMA MovesTo ==
    ASSUME PlacesTyped, NEW p \in Owner, NEW next \in PC, NEW b \in Plan,
           NEW k \in DOMAIN JobsOf[b], NEW i \in DOMAIN ActionsOf[JobsOf[b][k]],
           Goto(p, next),
           plan' = [plan EXCEPT ![p] = b], item' = [item EXCEPT ![p] = k],
           idx' = [idx EXCEPT ![p] = i],
           next = "off" => k = 1 /\ i = 1
    PROVE  PlacesTyped'
<1>1. k \in Nat /\ i \in Nat
  BY PlaceOf, ActionOf
<1>2. /\ pc' \in [Owner -> PC] /\ plan' \in [Owner -> Plan]
      /\ item' \in [Owner -> Nat] /\ idx' \in [Owner -> Nat]
  BY <1>1 DEF PlacesTyped, Goto
<1>3. ASSUME NEW q \in Owner
      PROVE  /\ item'[q] \in DOMAIN JobsOf[plan'[q]]
             /\ idx'[q] \in DOMAIN ActionsOf[JobsOf[plan'[q]][item'[q]]]
             /\ pc'[q] = "off" => item'[q] = 1 /\ idx'[q] = 1
  <2>1. CASE q = p
    <3>1. pc'[q] = next /\ plan'[q] = b /\ item'[q] = k /\ idx'[q] = i
      BY <2>1 DEF PlacesTyped, Goto
    <3> QED BY <3>1
  <2>2. CASE q # p
    <3>1. pc'[q] = pc[q] /\ plan'[q] = plan[q] /\ item'[q] = item[q] /\ idx'[q] = idx[q]
      BY <2>2 DEF PlacesTyped, Goto
    <3> QED BY <3>1 DEF PlacesTyped, AtStart, Acts, J
  <2> QED BY <2>1, <2>2
<1> QED BY <1>2, <1>3 DEF PlacesTyped, AtStart, Acts, J

\* Where a process stands.
LEMMA Stands ==
    ASSUME PlacesTyped, NEW p \in Owner
    PROVE  /\ plan[p] \in Plan /\ item[p] \in DOMAIN JobsOf[plan[p]]
           /\ J(p) = JobsOf[plan[p]][item[p]] /\ J(p) \in Job
           /\ idx[p] \in DOMAIN ActionsOf[J(p)] /\ 1 \in DOMAIN ActionsOf[J(p)]
           /\ plan = [plan EXCEPT ![p] = plan[p]]
           /\ item = [item EXCEPT ![p] = item[p]]
           /\ idx = [idx EXCEPT ![p] = idx[p]]
<1>1. plan[p] \in Plan /\ item[p] \in DOMAIN JobsOf[plan[p]] /\ idx[p] \in DOMAIN Acts(p)
  BY DEF PlacesTyped
<1>2. J(p) = JobsOf[plan[p]][item[p]] /\ J(p) \in Job /\ 1 \in DOMAIN ActionsOf[J(p)]
  BY <1>1, PlaceOf DEF J
<1>3. /\ plan = [plan EXCEPT ![p] = plan[p]]
      /\ item = [item EXCEPT ![p] = item[p]]
      /\ idx = [idx EXCEPT ![p] = idx[p]]
  BY DEF PlacesTyped
<1> QED BY <1>1, <1>2, <1>3 DEF Acts

LEMMA StayPlaced ==
    ASSUME PlacesTyped, NEW p \in Owner, NEW next \in Working, Goto(p, next),
           UNCHANGED placeVars
    PROVE  PlacesTyped'
<1>1. next \in PC /\ next # "off"
  BY DEF Working
<1>2. plan' = plan /\ item' = item /\ idx' = idx
  BY DEF placeVars
<1>3. /\ plan[p] \in Plan /\ item[p] \in DOMAIN JobsOf[plan[p]]
      /\ idx[p] \in DOMAIN ActionsOf[JobsOf[plan[p]][item[p]]]
  BY Stands
<1>4. /\ plan' = [plan EXCEPT ![p] = plan[p]] /\ item' = [item EXCEPT ![p] = item[p]]
      /\ idx' = [idx EXCEPT ![p] = idx[p]]
  BY <1>2, Stands
<1> QED BY <1>1, <1>3, <1>4, MovesTo

LEMMA NextActionPlaced ==
    ASSUME PlacesTyped, NEW p \in Owner, NEW again \in Working, NEW after \in Working,
           NextAction(p, again, after), UNCHANGED <<plan, item>>
    PROVE  PlacesTyped'
<1>1. again \in PC /\ again # "off" /\ after \in PC /\ after # "off"
  BY DEF Working
<1> DEFINE j == JobsOf[plan[p]][item[p]]
<1>4. /\ J(p) = j /\ j \in Job /\ plan[p] \in Plan /\ item[p] \in DOMAIN JobsOf[plan[p]]
      /\ idx[p] \in DOMAIN ActionsOf[j] /\ 1 \in DOMAIN ActionsOf[j]
      /\ plan' = [plan EXCEPT ![p] = plan[p]] /\ item' = [item EXCEPT ![p] = item[p]]
  BY Stands
<1>2. CASE idx[p] < Len(Acts(p))
  <2>1. idx[p] + 1 \in DOMAIN ActionsOf[j]
    BY <1>2, <1>4, ActionOf DEF Acts
  <2>2. Goto(p, again) /\ idx' = [idx EXCEPT ![p] = idx[p] + 1]
    BY <1>2 DEF NextAction
  <2> QED BY <1>1, <1>4, <2>1, <2>2, MovesTo
<1>3. CASE ~(idx[p] < Len(Acts(p)))
  <2>1. Goto(p, after) /\ idx' = [idx EXCEPT ![p] = 1]
    BY <1>3 DEF NextAction
  <2> QED BY <1>1, <1>4, <2>1, MovesTo
<1> QED BY <1>2, <1>3

LEMMA ExitPlaced ==
    ASSUME PlacesTyped, LocalTyped, NEW p \in Owner, Exit(p)
    PROVE  PlacesTyped' /\ LocalTyped'
<1>1. 1 \in DOMAIN JobsOf[AnyPlan] /\ 1 \in DOMAIN ActionsOf[JobsOf[AnyPlan][1]]
  <2>1. JobsOf[AnyPlan] \in Seq(Job) /\ JobsOf[AnyPlan] # <<>>
    BY PlanTyped, PlanAssumption
  <2>2. 1 \in DOMAIN JobsOf[AnyPlan]
    BY <2>1
  <2> QED BY <2>2, PlanTyped, PlaceOf
<1>2. PlacesTyped'
  BY <1>1, PlanTyped, MovesTo DEF Exit, PC
<1>3. LocalTyped'
  BY AbsentFile DEF Exit, LocalTyped, ActionState
<1> QED BY <1>2, <1>3

LEMMA NextItemPlaced ==
    ASSUME PlacesTyped, LocalTyped, NEW p \in Owner, NextItem(p)
    PROVE  PlacesTyped' /\ LocalTyped'
<1>1. CASE item[p] < Len(JobsOf[plan[p]])
  <2>1. item[p] + 1 \in DOMAIN JobsOf[plan[p]]
    BY <1>1, Stands, PlaceOf
  <2>2. 1 \in DOMAIN ActionsOf[JobsOf[plan[p]][item[p] + 1]]
    BY <2>1, Stands, PlaceOf
  <2>3. /\ Goto(p, "claim") /\ item' = [item EXCEPT ![p] = item[p] + 1]
        /\ idx' = [idx EXCEPT ![p] = 1] /\ UNCHANGED <<plan, seen, buf>>
    BY <1>1 DEF NextItem
  <2>4. "claim" \in PC /\ "claim" # "off"
    BY DEF PC
  <2> QED BY <2>1, <2>2, <2>3, <2>4, Stands, MovesTo DEF LocalTyped
<1>2. CASE ~(item[p] < Len(JobsOf[plan[p]]))
  BY <1>2, ExitPlaced DEF NextItem
<1> QED BY <1>1, <1>2

LEMMA RequirePlaced ==
    ASSUME PlacesTyped, LocalTyped, NEW p \in Owner, NEW condition, NEW next \in Working,
           Require(p, condition, next)
    PROVE  PlacesTyped' /\ LocalTyped'
<1>1. "failing" \in Working
  BY DEF Working, PC
<1>2. UNCHANGED placeVars /\ UNCHANGED seen /\ UNCHANGED buf
  BY DEF Require
<1>3. Goto(p, next) \/ Goto(p, "failing")
  BY DEF Require
<1> QED BY <1>1, <1>2, <1>3, StayPlaced DEF LocalTyped

LEMMA ChecksPlaced ==
    ASSUME TypeOK, PlacesTyped, LocalTyped, NEW p \in Owner, CheckOnly(p)
    PROVE  PlacesTyped' /\ LocalTyped'
<1>1. S(p) \in File /\ Torn \in File /\ J(p) \in Job /\ idx[p] \in Index
  BY Here, AbsentFile
<1>2. {"failing", "preflight", "claim", "recheck", "renew_promote", "verify_all", "check_target",
       "rename_check", "rename", "rename_recheck", "stream", "hard_link", "stage_copy",
       "upload", "verify", "set_promoted", "to_verified", "check_source", "remove",
       "set_removed", "commit", "final_verify"} \subseteq Working
  BY DEF Working, PC
<1>3. ASSUME NEW next \in Working, Goto(p, next), UNCHANGED placeVars PROVE PlacesTyped'
  BY <1>3, StayPlaced
<1>4. ASSUME UNCHANGED <<seen, buf>> PROVE LocalTyped'
  BY <1>4 DEF LocalTyped
<1>5. CASE Preflight(p)
  <2>1. CASE ~PreflightOk(p)
    BY <1>5, <2>1, ExitPlaced DEF Preflight
  <2>2. CASE PreflightOk(p) /\ idx[p] < Len(Acts(p))
    <3>1. NextAction(p, "preflight", "preflight") /\ UNCHANGED <<plan, item>>
      BY <1>5, <2>2 DEF Preflight, NextAction
    <3>2. UNCHANGED <<seen, buf>>
      BY <1>5, <2>2 DEF Preflight
    <3> QED BY <1>2, <1>4, <3>1, <3>2, NextActionPlaced
  <2>3. CASE PreflightOk(p) /\ ~(idx[p] < Len(Acts(p))) /\ item[p] < Len(JobsOf[plan[p]])
    <3>1. /\ Goto(p, "preflight") /\ idx' = [idx EXCEPT ![p] = 1]
          /\ item' = [item EXCEPT ![p] = item[p] + 1] /\ UNCHANGED <<plan, seen, buf>>
      BY <1>5, <2>3 DEF Preflight
    <3>2. /\ item[p] + 1 \in DOMAIN JobsOf[plan[p]]
          /\ 1 \in DOMAIN ActionsOf[JobsOf[plan[p]][item[p] + 1]]
      BY <2>3, Stands, PlaceOf
    <3>3. "preflight" \in PC /\ "preflight" # "off" /\ plan[p] \in Plan
          /\ plan' = [plan EXCEPT ![p] = plan[p]]
      BY <1>2, <3>1, Stands DEF Working
    <3>4. PlacesTyped'
      BY <3>1, <3>2, <3>3, MovesTo
    <3> QED BY <1>4, <3>1, <3>4
  <2>4. CASE PreflightOk(p) /\ ~(idx[p] < Len(Acts(p))) /\ ~(item[p] < Len(JobsOf[plan[p]]))
    <3>1. /\ Goto(p, "claim") /\ idx' = [idx EXCEPT ![p] = 1]
          /\ item' = [item EXCEPT ![p] = 1] /\ UNCHANGED <<plan, seen, buf>>
      BY <1>5, <2>4 DEF Preflight
    <3>2. 1 \in DOMAIN JobsOf[plan[p]] /\ 1 \in DOMAIN ActionsOf[JobsOf[plan[p]][1]]
      <4>1. 1 \in DOMAIN JobsOf[plan[p]]
        BY Stands, PlaceOf
      <4> QED BY <4>1, Stands, PlaceOf
    <3>3. "claim" \in PC /\ "claim" # "off" /\ plan[p] \in Plan
          /\ plan' = [plan EXCEPT ![p] = plan[p]]
      BY <1>2, <3>1, Stands DEF Working
    <3>4. PlacesTyped'
      BY <3>1, <3>2, <3>3, MovesTo
    <3> QED BY <1>4, <3>1, <3>4
  <2> QED BY <2>1, <2>2, <2>3, <2>4
<1>6. CASE Recheck(p)
  <2>1. CASE T(p) = Want(p) /\ idx[p] < Len(Acts(p))
    <3>1. NextAction(p, "recheck", "recheck") /\ UNCHANGED <<plan, item>>
          /\ UNCHANGED <<seen, buf>>
      BY <1>6, <2>1 DEF Recheck
    <3> QED BY <1>2, <1>4, <3>1, NextActionPlaced
  <2>2. CASE T(p) = Want(p) /\ ~(idx[p] < Len(Acts(p)))
    BY <1>6, <2>2, NextItemPlaced DEF Recheck
  <2>3. CASE T(p) # Want(p)
    <3>1. Goto(p, "failing") /\ UNCHANGED placeVars /\ UNCHANGED <<seen, buf>>
      BY <1>6, <2>3 DEF Recheck
    <3> QED BY <1>2, <1>3, <1>4, <3>1
  <2> QED BY <2>1, <2>2, <2>3
<1>7. CASE Look(p)
  <2>1. UNCHANGED <<plan, item>> /\ UNCHANGED <<seen, buf>>
    BY <1>7 DEF Look
  <2>2. \/ Goto(p, "check_target") /\ UNCHANGED idx
        \/ Goto(p, "failing") /\ UNCHANGED idx
        \/ NextAction(p, "renew_promote", "verify_all")
    BY <1>7 DEF Look
  <2>3. UNCHANGED idx => UNCHANGED placeVars
    BY <2>1 DEF placeVars
  <2> QED BY <1>2, <1>3, <1>4, <2>1, <2>2, <2>3, NextActionPlaced
<1>8. FirstTransport \in Working
  <2>1. link \in Link
    BY FileAssumption DEF TypeOK
  <2> QED BY <1>2, <2>1 DEF FirstTransport, Link
<1>9. CASE CheckTarget(p)
  <2>1. \E condition : \/ Require(p, condition, "set_promoted")
                       \/ Require(p, condition, FirstTransport)
    BY <1>9 DEF CheckTarget
  <2> QED BY <1>2, <1>8, <2>1, RequirePlaced
<1>10. CASE RenameCheck(p)
  <2>1. Goto(p, "rename") \/ Goto(p, "rename_recheck")
    BY <1>10 DEF RenameCheck
  <2>2. UNCHANGED placeVars /\ UNCHANGED <<seen, buf>>
    BY <1>10 DEF RenameCheck
  <2> QED BY <1>2, <1>3, <1>4, <2>1, <2>2
<1>11. CASE RenameRecheck(p)
  <2>1. Goto(p, "stream") \/ Goto(p, "verify") \/ Goto(p, "failing")
    BY <1>11 DEF RenameRecheck
  <2>2. UNCHANGED placeVars /\ UNCHANGED <<seen, buf>>
    BY <1>11 DEF RenameRecheck
  <2> QED BY <1>2, <1>3, <1>4, <2>1, <2>2
<1>12. CASE Stream(p) \/ StageCopy(p)
  <2>1. UNCHANGED placeVars /\ UNCHANGED seen
    BY <1>12 DEF Stream, StageCopy
  <2>2. Goto(p, "upload") \/ Goto(p, "failing")
    BY <1>12 DEF Stream, StageCopy, Fill
  <2>3. UNCHANGED buf \/ \E content \in File : buf' = [buf EXCEPT ![p] = content]
    BY <1>1, <1>12 DEF Stream, StageCopy, Fill
  <2>4. LocalTyped'
    BY <2>1, <2>3 DEF LocalTyped
  <2> QED BY <1>2, <1>3, <2>1, <2>2, <2>4
<1>13. CASE Verify(p) \/ CheckSource(p)
  <2>1. \E condition : \/ Require(p, condition, "set_promoted")
                       \/ Require(p, condition, "set_removed")
                       \/ Require(p, condition, "remove")
    BY <1>13 DEF Verify, CheckSource
  <2> QED BY <1>2, <2>1, RequirePlaced
<1>14. ASSUME NEW at, NEW after \in Working, VerifyEach(p, at, after), at \in Working
       PROVE  PlacesTyped' /\ LocalTyped'
  <2>1. UNCHANGED <<plan, item>> /\ UNCHANGED <<seen, buf>>
    BY <1>14 DEF VerifyEach
  <2>2. \/ Goto(p, "failing") /\ UNCHANGED idx
        \/ NextAction(p, at, after)
    BY <1>14 DEF VerifyEach
  <2>3. UNCHANGED idx => UNCHANGED placeVars
    BY <2>1 DEF placeVars
  <2> QED BY <1>2, <1>3, <1>4, <1>14, <2>1, <2>2, <2>3, NextActionPlaced
<1>15. CASE VerifyAll(p) \/ FinalVerify(p)
  BY <1>2, <1>14, <1>15 DEF VerifyAll, FinalVerify
<1>16. CASE LookToRemove(p)
  <2>1. UNCHANGED placeVars /\ UNCHANGED buf
        /\ seen' = [seen EXCEPT ![p] = actions[J(p)][idx[p]].state]
    BY <1>16 DEF LookToRemove
  <2>2. Goto(p, "check_source") \/ Goto(p, "failing")
    BY <1>16 DEF LookToRemove
  <2>3. actions[J(p)][idx[p]].state \in ActionState
    BY <1>1 DEF TypeOK, LedgerTypeOK
  <2>4. LocalTyped'
    BY <2>1, <2>3 DEF LocalTyped
  <2> QED BY <1>2, <1>3, <2>1, <2>2, <2>4
<1> QED BY <1>5, <1>6, <1>7, <1>9, <1>10, <1>11, <1>12, <1>13, <1>15, <1>16 DEF CheckOnly

LEMMA FileWritesPlaced ==
    ASSUME TypeOK, PlacesTyped, LocalTyped, NEW p \in Owner, FileWrite(p)
    PROVE  PlacesTyped' /\ LocalTyped'
<1>1. S(p) \in File /\ Absent \in File
  BY Here, AbsentFile
<1>2. {"verify", "rename_recheck", "upload", "failing", "publish", "protect", "cleanup",
       "set_removed"} \subseteq Working
  BY DEF Working, PC
<1>3. UNCHANGED placeVars /\ UNCHANGED seen
  BY DEF FileWrite, ServerRename, HardLink, Upload, Protect, Publish, Cleanup, Remove
<1>4. \E next \in Working : Goto(p, next)
  <2>1. ServerRename(p) => Goto(p, "verify") \/ Goto(p, "rename_recheck")
    BY DEF ServerRename
  <2>2. HardLink(p) => Goto(p, "verify") \/ Goto(p, "upload") \/ Goto(p, "failing")
    BY DEF HardLink, Fill
  <2>3. Upload(p) => Goto(p, "publish") \/ Goto(p, "protect") \/ Goto(p, "verify")
    BY DEF Upload
  <2>4. Protect(p) => Goto(p, "failing") \/ Goto(p, "publish")
    BY DEF Protect
  <2>5. Publish(p) => Goto(p, "verify") \/ Goto(p, "cleanup") \/ Goto(p, "failing")
    BY DEF Publish
  <2>6. Cleanup(p) => Goto(p, "verify")
    BY DEF Cleanup
  <2>7. Remove(p) => Goto(p, "failing") \/ Goto(p, "set_removed")
    BY DEF Remove
  <2> QED BY <1>2, <2>1, <2>2, <2>3, <2>4, <2>5, <2>6, <2>7 DEF FileWrite
<1>5. UNCHANGED buf \/ \E content \in File : buf' = [buf EXCEPT ![p] = content]
  BY <1>1 DEF FileWrite, ServerRename, HardLink, Fill, Upload, Protect, Publish, Cleanup, Remove
<1>6. LocalTyped'
  BY <1>3, <1>5 DEF LocalTyped
<1> QED BY <1>3, <1>4, <1>6, StayPlaced

LEMMA StoreActionsPlaced ==
    ASSUME TypeOK, PlacesTyped, LocalTyped, NEW p \in Owner, StoreAction(p)
    PROVE  PlacesTyped' /\ LocalTyped'
<1>1. {"recheck", "register", "failing", "to_staging", "renew_promote", "to_removing",
       "renew_remove", "look", "look_remove", "verify_all", "final_verify"} \subseteq Working
  BY DEF Working, PC
<1>2. ASSUME NEW next \in Working, Goto(p, next), UNCHANGED placeVars PROVE PlacesTyped'
  BY <1>2, StayPlaced
<1>3. ASSUME UNCHANGED <<seen, buf>> PROVE LocalTyped'
  BY <1>3 DEF LocalTyped
<1>4. UNCHANGED <<plan, item>> /\ UNCHANGED idx => UNCHANGED placeVars
  BY DEF placeVars
<1>5. CASE ClaimJob(p)
  <2>1. UNCHANGED placeVars /\ UNCHANGED <<seen, buf>>
    BY <1>5 DEF ClaimJob
  <2>2. Goto(p, "recheck") \/ Goto(p, "register") \/ Goto(p, "failing")
    BY <1>5 DEF ClaimJob
  <2> QED BY <1>1, <1>2, <1>3, <2>1, <2>2
<1>6. CASE Register(p)
  <2>1. UNCHANGED <<plan, item>> /\ UNCHANGED <<seen, buf>>
    BY <1>6 DEF Register
  <2>2. \/ NextAction(p, "register", "to_staging")
        \/ Goto(p, "failing") /\ UNCHANGED idx
    BY <1>6 DEF Register
  <2> QED BY <1>1, <1>2, <1>3, <1>4, <2>1, <2>2, NextActionPlaced
<1>7. ASSUME NEW at, NEW from, NEW to, NEW next \in Working, Advance(p, at, from, to, next)
      PROVE  PlacesTyped' /\ LocalTyped'
  <2>1. UNCHANGED placeVars /\ UNCHANGED <<seen, buf>> /\ (Goto(p, next) \/ Goto(p, "failing"))
    BY <1>7 DEF Advance
  <2> QED BY <1>1, <1>2, <1>3, <2>1
<1>8. CASE ToStaging(p) \/ ToVerified(p) \/ ToRemoving(p)
  BY <1>1, <1>7, <1>8 DEF ToStaging, ToVerified, ToRemoving
<1>9. ASSUME NEW at, NEW next \in Working, RenewLease(p, at, next)
      PROVE  PlacesTyped' /\ LocalTyped'
  <2>1. UNCHANGED placeVars /\ UNCHANGED <<seen, buf>> /\ (Goto(p, next) \/ Goto(p, "failing"))
    BY <1>9 DEF RenewLease
  <2> QED BY <1>1, <1>2, <1>3, <2>1
<1>10. CASE RenewToPromote(p) \/ RenewToRemove(p)
  BY <1>1, <1>9, <1>10 DEF RenewToPromote, RenewToRemove
<1>11. CASE SetPromoted(p)
  <2>1. UNCHANGED <<plan, item>> /\ UNCHANGED <<seen, buf>>
    BY <1>11 DEF SetPromoted
  <2>2. \/ NextAction(p, "renew_promote", "verify_all")
        \/ Goto(p, "failing") /\ UNCHANGED idx
    BY <1>11 DEF SetPromoted
  <2> QED BY <1>1, <1>2, <1>3, <1>4, <2>1, <2>2, NextActionPlaced
<1>12. CASE SetRemoved(p)
  <2>1. UNCHANGED <<plan, item>> /\ UNCHANGED buf /\ seen' = [seen EXCEPT ![p] = "NONE"]
    BY <1>12 DEF SetRemoved
  <2>2. \/ NextAction(p, "renew_remove", "final_verify")
        \/ Goto(p, "failing") /\ UNCHANGED idx
    BY <1>12 DEF SetRemoved
  <2>3. LocalTyped'
    BY <2>1 DEF LocalTyped, ActionState
  <2> QED BY <1>1, <1>2, <1>4, <2>1, <2>2, <2>3, NextActionPlaced
<1>13. CASE Commit(p)
  <2>1. \/ NextItem(p)
        \/ Goto(p, "failing") /\ UNCHANGED placeVars /\ UNCHANGED <<seen, buf>>
    BY <1>13 DEF Commit
  <2> QED BY <1>1, <1>2, <1>3, <2>1, NextItemPlaced
<1>14. CASE FailJob(p)
  BY <1>14, ExitPlaced DEF FailJob
<1> QED BY <1>5, <1>6, <1>8, <1>10, <1>11, <1>12, <1>13, <1>14 DEF StoreAction

LEMMA OutsidePlaced ==
    ASSUME PlacesTyped, LocalTyped, NEW p \in Owner, Outside(p)
    PROVE  PlacesTyped' /\ LocalTyped'
<1>1. {"failing", "preflight"} \subseteq Working
  BY DEF Working, PC
<1>2. CASE IoError(p)
  <2>1. Exit(p) \/ (Goto(p, "failing") /\ UNCHANGED <<placeVars, seen, buf>>)
    BY <1>2 DEF IoError
  <2>2. CASE Exit(p)
    BY <2>2, ExitPlaced
  <2>3. CASE Goto(p, "failing") /\ UNCHANGED <<placeVars, seen, buf>>
    <3>1. LocalTyped'
      BY <2>3 DEF LocalTyped
    <3> QED BY <1>1, <2>3, <3>1, StayPlaced
  <2> QED BY <2>1, <2>2, <2>3
<1>3. CASE Crash(p)
  BY <1>3, ExitPlaced DEF Crash
<1>4. ASSUME NEW b \in Plan, Start(p, b) PROVE PlacesTyped' /\ LocalTyped'
  <2>1. item[p] = 1 /\ idx[p] = 1
    BY <1>4 DEF Start, PlacesTyped, AtStart
  <2>2. /\ Goto(p, "preflight") /\ plan' = [plan EXCEPT ![p] = b]
        /\ item' = item /\ idx' = idx /\ UNCHANGED <<seen, buf>>
    BY <1>4 DEF Start
  <2>3. item' = [item EXCEPT ![p] = 1] /\ idx' = [idx EXCEPT ![p] = 1]
    BY <2>1, <2>2, Stands
  <2>4. 1 \in DOMAIN JobsOf[b] /\ 1 \in DOMAIN ActionsOf[JobsOf[b][1]]
    <3>1. JobsOf[b] \in Seq(Job) /\ JobsOf[b] # <<>>
      BY PlanAssumption
    <3>2. 1 \in DOMAIN JobsOf[b]
      BY <3>1
    <3> QED BY <3>2, PlaceOf
  <2>5. "preflight" \in PC /\ "preflight" # "off"
    BY <1>1 DEF Working
  <2>6. PlacesTyped'
    BY <2>2, <2>3, <2>4, <2>5, MovesTo
  <2>7. LocalTyped'
    BY <2>2 DEF LocalTyped
  <2> QED BY <2>6, <2>7
<1> QED BY <1>2, <1>3, <1>4 DEF Outside

-----------------------------------------------------------------------------
\* TypeInv, cut into what the lemmas above keep.
LEMMA TypeInvParts ==
    TypeInv <=> StoreTyped /\ FilesTyped /\ LocalTyped /\ WorldTyped /\ PlacesTyped
BY DEF TypeInv, TypeOK, StoreTyped, FilesTyped, LocalTyped, WorldTyped, PlacesTyped

LEMMA TypeInvKept == TypeInv /\ [Next]_vars => TypeInv'
<1> SUFFICES ASSUME TypeInv, [Next]_vars PROVE TypeInv'
  OBVIOUS
<1>1. TypeOK /\ PlacesTyped /\ LocalTyped
  BY TypeInvParts DEF TypeInv
<1>2. StoreTyped' /\ FilesTyped' /\ WorldTyped'
  BY <1>1, StoreTypedKept, FilesTypedKept, WorldTypedKept
<1>3. ASSUME plan' = plan, item' = item, idx' = idx, pc' = pc, seen' = seen, buf' = buf
      PROVE  PlacesTyped' /\ LocalTyped'
  BY <1>1, <1>3 DEF PlacesTyped, LocalTyped, AtStart, Acts, J
<1>4. ASSUME NEW j \in Job, LeaseRunsOut(j) PROVE PlacesTyped' /\ LocalTyped'
  BY <1>3, <1>4 DEF LeaseRunsOut, placeVars
<1>5. ASSUME Edit PROVE PlacesTyped' /\ LocalTyped'
  BY <1>3, <1>5 DEF Edit, placeVars
<1>6. ASSUME UNCHANGED vars PROVE PlacesTyped' /\ LocalTyped'
  BY <1>3, <1>6 DEF vars
<1>7. ASSUME NEW p \in Owner, StoreAction(p) \/ FileWrite(p) \/ CheckOnly(p) \/ Outside(p)
      PROVE  PlacesTyped' /\ LocalTyped'
  BY <1>1, <1>7, ChecksPlaced, FileWritesPlaced, StoreActionsPlaced, OutsidePlaced
<1>8. PlacesTyped' /\ LocalTyped'
  BY <1>4, <1>5, <1>6, <1>7, Steps
<1>9. TypeInv' <=> (StoreTyped /\ FilesTyped /\ LocalTyped /\ WorldTyped /\ PlacesTyped)'
  BY DEF TypeInv, TypeOK, StoreTyped, FilesTyped, LocalTyped, WorldTyped, PlacesTyped
<1> QED BY <1>2, <1>8, <1>9

LEMMA InitTyped == Init => TypeInv
<1> SUFFICES ASSUME Init PROVE TypeInv
  OBVIOUS
<1>1. StoreTyped
  BY DEF Init, StoreTyped, TableInit, TableTypeOK, NoJob, JobState,
         LedgerInit, LedgerTypeOK, NoAction, ActionState
<1>2. FilesTyped
  BY AbsentFile, FileAssumption DEF Init, FilesTyped, File, Content
<1>3. LocalTyped
  BY AbsentFile DEF Init, LocalTyped, ActionState
<1>4. WorldTyped
  BY FileAssumption DEF Init, WorldTyped
<1>5. 1 \in DOMAIN JobsOf[AnyPlan] /\ 1 \in DOMAIN ActionsOf[JobsOf[AnyPlan][1]]
  <2>1. JobsOf[AnyPlan] \in Seq(Job) /\ JobsOf[AnyPlan] # <<>>
    BY PlanTyped, PlanAssumption
  <2>2. 1 \in DOMAIN JobsOf[AnyPlan]
    BY <2>1
  <2> QED BY <2>2, PlanTyped, PlaceOf
<1>6. PlacesTyped
  BY <1>5, PlanTyped DEF Init, PlacesTyped, AtStart, Acts, J, PC
<1> QED BY <1>1, <1>2, <1>3, <1>4, <1>6, TypeInvParts

\* Wherever processes of any number of plans are interrupted, fail, lose their
\* leases or run beside each other, every process stands at an action of an item
\* of its plan, and store and files hold only what their types allow
\* (executor.rs:37-285).
THEOREM TypeCorrect == Spec => []TypeOK
<1>1. TypeInv => TypeOK
  BY DEF TypeInv
<1> QED BY InitTyped, TypeInvKept, <1>1, PTL DEF Spec

-----------------------------------------------------------------------------
(***************************************************************************)
(* The processes keep the promises of the store's tables.                  *)
(***************************************************************************)
LEMMA TableStep ==
    ASSUME TypeOK, [Next]_vars
    PROVE  [TableNext]_jobs
<1>1. ASSUME NEW p \in Owner, StoreAction(p) PROVE [TableNext]_jobs
  <2>1. J(p) \in Job
    BY Here
  <2>2. /\ <<"CLAIMED", "STAGING">> \in MigrationStep \cup SubtitleStep
        /\ <<"STAGING", "VERIFIED">> \in MigrationStep \cup SubtitleStep
        /\ <<"VERIFIED", "REMOVING_SOURCE">> \in MigrationStep \cup SubtitleStep
        /\ <<"REMOVING_SOURCE", "COMMITTED">> \in MigrationStep \cup SubtitleStep
    BY DEF MigrationStep
  <2>3. ASSUME NEW from, NEW to, <<from, to>> \in MigrationStep \cup SubtitleStep,
               Transition(J(p), p, from, to)
        PROVE  TableNext
    <3> DEFINE step == <<from, to>>
    <3>1. step \in MigrationStep \cup SubtitleStep /\ step[1] = from /\ step[2] = to
      BY <2>3
    <3>2. Transition(J(p), p, step[1], step[2])
      BY <2>3, <3>1
    <3> HIDE DEF step
    <3> QED BY <2>1, <3>1, <3>2 DEF TableNext
  <2>4. CASE ClaimJob(p)
    BY <2>1, <2>4 DEF ClaimJob, TableNext, tableVars
  <2>5. CASE Register(p) \/ SetPromoted(p) \/ SetRemoved(p)
    BY <2>5 DEF Register, SetPromoted, SetRemoved
  <2>6. CASE ToStaging(p)
    BY <2>2, <2>3, <2>6 DEF ToStaging, Advance
  <2>7. CASE ToVerified(p)
    BY <2>2, <2>3, <2>7 DEF ToVerified, Advance
  <2>8. CASE ToRemoving(p)
    BY <2>2, <2>3, <2>8 DEF ToRemoving, Advance
  <2>9. CASE RenewToPromote(p) \/ RenewToRemove(p)
    BY <2>1, <2>9 DEF RenewToPromote, RenewToRemove, RenewLease, TableNext
  <2>10. CASE Commit(p)
    BY <2>2, <2>3, <2>10 DEF Commit
  <2>11. CASE FailJob(p)
    BY <2>1, <2>11 DEF FailJob, TableNext
  <2> QED BY <1>1, <2>4, <2>5, <2>6, <2>7, <2>8, <2>9, <2>10, <2>11 DEF StoreAction
<1>2. ASSUME NEW j \in Job, LeaseRunsOut(j) PROVE TableNext
  <2>1. {j} \in SUBSET Job /\ ExpireAll({j})
    BY <1>2 DEF LeaseRunsOut, Expire
  <2> QED BY <2>1 DEF TableNext
<1>3. ASSUME UNCHANGED tableVars PROVE UNCHANGED jobs
  BY <1>3 DEF tableVars
<1>4. ASSUME Edit \/ UNCHANGED vars PROVE UNCHANGED jobs
  BY <1>4 DEF Edit, tableVars, vars
<1>5. ASSUME NEW p \in Owner, FileWrite(p) \/ CheckOnly(p) \/ Outside(p) PROVE UNCHANGED jobs
  BY <1>3, <1>5, LooksOnly, OutsideOnly, FileWritesOnly
<1> QED BY <1>1, <1>2, <1>4, <1>5, Steps

LEMMA LedgerStep ==
    ASSUME TypeOK, [Next]_vars
    PROVE  [LedgerNext]_actions
<1>1. ASSUME NEW p \in Owner, StoreAction(p) PROVE [LedgerNext]_actions
  <2>1. J(p) \in Job /\ idx[p] \in Index /\ A(p) \in Identity
    BY Here
  <2>2. CASE Register(p)
    BY <2>1, <2>2 DEF Register, LedgerNext
  <2>3. CASE SetPromoted(p)
    BY <2>1, <2>3, StatesNamed DEF SetPromoted, LedgerNext
  <2>4. CASE SetRemoved(p)
    BY <2>1, <2>4, StatesNamed DEF SetRemoved, LedgerNext
  <2>5. CASE \/ ClaimJob(p) \/ ToStaging(p) \/ ToVerified(p) \/ ToRemoving(p)
             \/ RenewToPromote(p) \/ RenewToRemove(p) \/ Commit(p) \/ FailJob(p)
    BY <2>5 DEF ClaimJob, ToStaging, ToVerified, ToRemoving, Advance, RenewToPromote,
                RenewToRemove, RenewLease, Commit, FailJob, tableVars
  <2> QED BY <1>1, <2>2, <2>3, <2>4, <2>5 DEF StoreAction
<1>2. ASSUME UNCHANGED tableVars PROVE UNCHANGED actions
  BY <1>2 DEF tableVars
<1>3. ASSUME NEW j \in Job, LeaseRunsOut(j) PROVE UNCHANGED actions
  BY <1>3 DEF LeaseRunsOut
<1>4. ASSUME Edit \/ UNCHANGED vars PROVE UNCHANGED actions
  BY <1>4 DEF Edit, tableVars, vars
<1>5. ASSUME NEW p \in Owner, FileWrite(p) \/ CheckOnly(p) \/ Outside(p) PROVE UNCHANGED actions
  BY <1>2, <1>5, LooksOnly, OutsideOnly, FileWritesOnly
<1> QED BY <1>1, <1>3, <1>4, <1>5, Steps

\* Every behaviour of the processes is one of the two tables', so that what holds
\* of the tables alone holds here: no destination is ever reserved twice, also
\* not by two plans (state.rs:86-92), and an unfinished job always has an owner
\* whose lease can be waited for (state.rs:222-232).
THEOREM TablesRespected ==
    Spec => TableSpec /\ LedgerSpec /\ [](OneReservation /\ OwnedWhileOpen)
<1>1. Init => TableInit /\ LedgerInit
  BY DEF Init
<1>2. TypeInv /\ [Next]_vars => [TableNext]_jobs /\ [LedgerNext]_actions
  BY TableStep, LedgerStep DEF TypeInv
<1>3. Spec => TableSpec /\ LedgerSpec
  BY <1>1, <1>2, InitTyped, TypeInvKept, PTL DEF Spec, TableSpec, LedgerSpec
<1>4. TableSpec => []OwnedWhileOpen
  BY OwnersMatchStates, PTL
<1>5. LedgerSpec => []OneReservation
  BY DestinationsReservedOnce, PTL
<1> QED BY <1>3, <1>4, <1>5, PTL
=============================================================================
