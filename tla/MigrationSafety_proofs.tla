----------------------- MODULE MigrationSafety_proofs -----------------------
(***************************************************************************)
(* The safety properties of Migration as theorems, for any plans,          *)
(* processes and faults.                                                   *)
(*                                                                         *)
(* LedgerTruthful, where a working process keeps its lease and no other    *)
(* program edits the files (SafeInv): a process between its claim and its  *)
(* commit holds its job alone (Holder); an action it is bringing to its    *)
(* destination is registered and not promoted yet (Reserver, Writer); so   *)
(* no other action, promoted or on its way, has that destination           *)
(* (OneReservation).  Hence what a process has verified is still so when   *)
(* it records it (Witnessed), and what has been recorded is not written    *)
(* over.                                                                   *)
(*                                                                         *)
(* ForeignKept, where nobody acts between a check and its use              *)
(* (ForeignInv).  NoDataLoss, whoever outstays his lease, where no cut     *)
(* stream passes for a whole one (BookInv, LossInv), and with cut streams  *)
(* under the conditions of LedgerTruthful (FreeInv).  ImplementsMover      *)
(* under these and where no file is planned to go to two places (MoveInv). *)
(***************************************************************************)
EXTENDS Migration_proofs

\* Between the claim of a job and its commit.
AtJob == PC \ {"off", "preflight", "claim", "recheck", "failing"}

\* Between the look at an action that is not promoted and the record that it is.
Promoting == {"check_target", "rename_check", "rename", "rename_recheck", "stream", "hard_link",
              "stage_copy", "upload", "protect", "publish", "cleanup", "verify", "set_promoted"}

HeldBy(j, p) == jobs[j].owner = p /\ jobs[j].live = TRUE

Holder(p) == pc[p] \in AtJob => HeldBy(J(p), p)

Reserver(p) ==
    /\ pc[p] = "claim" => idx[p] = 1
    /\ pc[p] = "register" => \A i \in DOMAIN Acts(p) : i < idx[p] => Registered(J(p), i)
    /\ pc[p] \in AtJob \ {"register"} => \A i \in DOMAIN Acts(p) : Registered(J(p), i)

Writer(p) == pc[p] \in Promoting => actions[J(p)][idx[p]].state = "PLANNED"

Witnessed(p) ==
    /\ pc[p] = "set_promoted" => T(p) = Want(p)
    /\ pc[p] = "set_removed" => S(p) = Absent

Local(p) == Holder(p) /\ Reserver(p) /\ Writer(p) /\ Witnessed(p)

\* A row of the ledger is about the action of its job with its index.
AsPlanned ==
    \A j \in Job, i \in Index :
        Registered(j, i) => i \in DOMAIN ActionsOf[j] /\ actions[j][i].id = ActionsOf[j][i]

\* What holds of the ledger whatever happens to leases and files.
BookInv == TypeInv /\ OneReservation /\ AsPlanned /\ \A p \in Owner : Reserver(p)

SafeInv ==
    /\ TypeInv /\ OneReservation /\ AsPlanned
    /\ \A p \in Owner : Local(p)
    /\ LedgerTruthful

Step(p) == StoreAction(p) \/ FileWrite(p) \/ CheckOnly(p) \/ Outside(p)

-----------------------------------------------------------------------------
(***************************************************************************)
(* What a step of one process leaves alone.                                *)
(***************************************************************************)
Elsewhere(q) ==
    \A p \in Owner : p # q => /\ pc'[p] = pc[p] /\ plan'[p] = plan[p]
                              /\ item'[p] = item[p] /\ idx'[p] = idx[p]

\* A process that only goes on moves nobody else.
LEMMA GotoElsewhere ==
    ASSUME PlacesTyped, NEW q \in Owner, NEW next, Goto(q, next), UNCHANGED placeVars
    PROVE  Elsewhere(q)
BY DEF PlacesTyped, Goto, placeVars, Elsewhere

\* Nor does the end of one round of a loop over actions,
LEMMA NextActionElsewhere ==
    ASSUME PlacesTyped, NEW q \in Owner, NEW again, NEW after, NextAction(q, again, after),
           UNCHANGED <<plan, item>>
    PROVE  Elsewhere(q)
BY DEF PlacesTyped, Goto, NextAction, Elsewhere

\* the end of a run,
LEMMA ExitElsewhere ==
    ASSUME PlacesTyped, NEW q \in Owner, Exit(q)
    PROVE  Elsewhere(q)
BY DEF PlacesTyped, Goto, Exit, Elsewhere

\* or the end of an item.
LEMMA NextItemElsewhere ==
    ASSUME PlacesTyped, NEW q \in Owner, NextItem(q)
    PROVE  Elsewhere(q)
<1>1. CASE item[q] < Len(JobsOf[plan[q]])
  BY <1>1 DEF PlacesTyped, Goto, NextItem, Elsewhere
<1>2. CASE ~(item[q] < Len(JobsOf[plan[q]]))
  BY <1>2, ExitElsewhere DEF NextItem
<1> QED BY <1>1, <1>2

\* A check moves only the process that makes it.
LEMMA ChecksElsewhere ==
    ASSUME PlacesTyped, NEW q \in Owner, CheckOnly(q)
    PROVE  Elsewhere(q)
<1>1. CASE Preflight(q)
  <2>1. CASE ~PreflightOk(q)
    BY <1>1, <2>1, ExitElsewhere DEF Preflight
  <2>2. CASE PreflightOk(q)
    BY <1>1, <2>2 DEF Preflight, Goto, PlacesTyped, Elsewhere
  <2> QED BY <2>1, <2>2
<1>2. CASE Recheck(q)
  <2>1. \/ NextAction(q, "recheck", "recheck") /\ UNCHANGED <<plan, item>>
        \/ NextItem(q)
        \/ Goto(q, "failing") /\ UNCHANGED placeVars
    BY <1>2 DEF Recheck
  <2> QED BY <2>1, NextActionElsewhere, NextItemElsewhere, GotoElsewhere
<1>3. CASE Look(q)
  <2>1. \/ NextAction(q, "renew_promote", "verify_all") /\ UNCHANGED <<plan, item>>
        \/ (\E next : Goto(q, next)) /\ UNCHANGED placeVars
    BY <1>3 DEF Look, placeVars
  <2> QED BY <2>1, NextActionElsewhere, GotoElsewhere
<1>4. CASE VerifyAll(q) \/ FinalVerify(q)
  <2>1. \/ (\E again, after : NextAction(q, again, after)) /\ UNCHANGED <<plan, item>>
        \/ (\E next : Goto(q, next)) /\ UNCHANGED placeVars
    BY <1>4 DEF VerifyAll, FinalVerify, VerifyEach, placeVars
  <2> QED BY <2>1, NextActionElsewhere, GotoElsewhere
<1>5. CASE \/ CheckTarget(q) \/ RenameCheck(q) \/ RenameRecheck(q) \/ Stream(q) \/ StageCopy(q)
           \/ Verify(q) \/ LookToRemove(q) \/ CheckSource(q)
  <2>1. (\E next : Goto(q, next)) /\ UNCHANGED placeVars
    BY <1>5 DEF CheckTarget, RenameCheck, RenameRecheck, Stream, StageCopy, Verify,
                LookToRemove, CheckSource, Require, Fill
  <2> QED BY <2>1, GotoElsewhere
<1> QED BY <1>1, <1>2, <1>3, <1>4, <1>5 DEF CheckOnly

\* A step of a process moves no other process.
LEMMA StepElsewhere ==
    ASSUME PlacesTyped, NEW q \in Owner, Step(q)
    PROVE  Elsewhere(q)
<1>1. CASE FileWrite(q)
  <2>1. (\E next : Goto(q, next)) /\ UNCHANGED placeVars
    BY <1>1 DEF FileWrite, ServerRename, HardLink, Fill, Upload, Protect, Publish, Cleanup,
                Remove
  <2> QED BY <2>1, GotoElsewhere
<1>2. CASE StoreAction(q)
  <2>1. CASE Register(q) \/ SetPromoted(q) \/ SetRemoved(q)
    <3>1. \/ (\E again, after : NextAction(q, again, after)) /\ UNCHANGED <<plan, item>>
          \/ (\E next : Goto(q, next)) /\ UNCHANGED placeVars
      BY <2>1 DEF Register, SetPromoted, SetRemoved, placeVars
    <3> QED BY <3>1, NextActionElsewhere, GotoElsewhere
  <2>2. CASE \/ ClaimJob(q) \/ ToStaging(q) \/ ToVerified(q) \/ ToRemoving(q)
             \/ RenewToPromote(q) \/ RenewToRemove(q)
    <3>1. (\E next : Goto(q, next)) /\ UNCHANGED placeVars
      BY <2>2 DEF ClaimJob, ToStaging, ToVerified, ToRemoving, Advance, RenewToPromote,
                  RenewToRemove, RenewLease
    <3> QED BY <3>1, GotoElsewhere
  <2>3. CASE Commit(q)
    <3>1. NextItem(q) \/ (Goto(q, "failing") /\ UNCHANGED placeVars)
      BY <2>3 DEF Commit
    <3> QED BY <3>1, NextItemElsewhere, GotoElsewhere
  <2>4. CASE FailJob(q)
    BY <2>4, ExitElsewhere DEF FailJob
  <2> QED BY <1>2, <2>1, <2>2, <2>3, <2>4 DEF StoreAction
<1>3. CASE Outside(q)
  <2>1. CASE IoError(q)
    <3>1. Exit(q) \/ (Goto(q, "failing") /\ UNCHANGED placeVars)
      BY <2>1 DEF IoError
    <3> QED BY <3>1, ExitElsewhere, GotoElsewhere
  <2>2. CASE Crash(q)
    BY <2>2, ExitElsewhere DEF Crash
  <2>3. ASSUME NEW b \in Plan, Start(q, b) PROVE Elsewhere(q)
    BY <2>3 DEF Start, Goto, PlacesTyped, Elsewhere
  <2> QED BY <1>3, <2>1, <2>2, <2>3 DEF Outside
<1> QED BY <1>1, <1>2, <1>3, ChecksElsewhere DEF Step

\* A job held by one process is not touched in the table by another.
LEMMA HoldKept ==
    ASSUME TypeOK, NEW q \in Owner, NEW p \in Owner, p # q, NEW j \in Job, HeldBy(j, p), Step(q)
    PROVE  HeldBy(j, p)'
<1>1. TableTypeOK /\ J(q) \in Job /\ p # NoOne
  BY Here, OwnerAssumption DEF TypeOK
<1>2. CASE UNCHANGED jobs
  BY <1>2 DEF HeldBy
<1>3. ASSUME J(q) # j, \A k \in Job : k # J(q) => jobs'[k] = jobs[k] PROVE HeldBy(j, p)'
  BY <1>3 DEF HeldBy
<1>4. CASE Claim(J(q), q)
  <2>1. J(q) # j
    BY <1>1, <1>4 DEF Claim, Leased, HeldBy
  <2> QED BY <1>1, <1>3, <1>4, <2>1, ClaimWrites
<1>5. CASE Renew(J(q), q)
  <2>1. J(q) # j
    BY <1>5 DEF Renew, HeldBy
  <2> QED BY <1>1, <1>3, <1>5, <2>1, RenewWrites
<1>6. ASSUME NEW from, NEW to \in JobState, Transition(J(q), q, from, to) PROVE HeldBy(j, p)'
  <2>1. J(q) # j
    BY <1>6 DEF Transition, MayTransition, HeldBy
  <2> QED BY <1>1, <1>3, <1>6, <2>1, TransitionWrites
<1>7. CASE Fail(J(q), q)
  BY <1>6, <1>7, StatesNamed DEF Fail
<1>8. CASE StoreAction(q)
  <2>1. CASE ClaimJob(q)
    BY <1>2, <1>4, <2>1 DEF ClaimJob, tableVars
  <2>2. CASE Register(q) \/ SetPromoted(q) \/ SetRemoved(q)
    BY <1>2, <2>2 DEF Register, SetPromoted, SetRemoved
  <2>3. CASE ToStaging(q) \/ ToVerified(q) \/ ToRemoving(q) \/ Commit(q)
    <3>1. UNCHANGED jobs \/ \E from, to \in JobState : Transition(J(q), q, from, to)
      <4>1. {"CLAIMED", "STAGING", "VERIFIED", "REMOVING_SOURCE", "COMMITTED"} \subseteq JobState
        BY DEF JobState
      <4> QED BY <2>3, <4>1 DEF ToStaging, ToVerified, ToRemoving, Advance, Commit
    <3> QED BY <1>2, <1>6, <3>1
  <2>4. CASE RenewToPromote(q) \/ RenewToRemove(q)
    BY <1>2, <1>5, <2>4 DEF RenewToPromote, RenewToRemove, RenewLease
  <2>5. CASE FailJob(q)
    BY <1>2, <1>7, <2>5 DEF FailJob
  <2> QED BY <1>8, <2>1, <2>2, <2>3, <2>4, <2>5 DEF StoreAction
<1>9. CASE FileWrite(q) \/ CheckOnly(q) \/ Outside(q)
  BY <1>2, <1>9, LooksOnly, OutsideOnly, FileWritesOnly DEF tableVars
<1> QED BY <1>8, <1>9 DEF Step

\* What a step writes in the ledger.
LedgerWrite(q) ==
    \/ UNCHANGED actions
    \/ pc[q] = "register" /\ RegisterAction(J(q), idx[q], A(q))
    \/ pc[q] = "set_promoted" /\ SetActionState(J(q), idx[q], "PLANNED", "PROMOTED")
    \/ pc[q] = "set_removed" /\ SetActionState(J(q), idx[q], "PROMOTED", "SOURCE_REMOVED")

\* Only registering and the two recordings write the ledger.
LEMMA LedgerWrites == ASSUME NEW q \in Owner, Step(q) PROVE LedgerWrite(q)
<1>1. CASE StoreAction(q)
  BY <1>1 DEF StoreAction, ClaimJob, Register, ToStaging, ToVerified, ToRemoving, Advance,
     RenewToPromote, RenewToRemove, RenewLease, SetPromoted, SetRemoved, Commit, FailJob,
     tableVars, LedgerWrite
<1>2. CASE FileWrite(q) \/ CheckOnly(q) \/ Outside(q)
  BY <1>2, LooksOnly, OutsideOnly, FileWritesOnly DEF tableVars, LedgerWrite
<1> QED BY <1>1, <1>2 DEF Step

\* A step changes at most the row of the action it is at, and keeps what is
\* registered.
LEMMA LedgerFrame ==
    ASSUME TypeOK, NEW q \in Owner, LedgerWrite(q), NEW j \in Job, NEW i \in Index
    PROVE  /\ Registered(j, i) => Registered(j, i)' /\ actions'[j][i].id = actions[j][i].id
           /\ \/ actions'[j][i] = actions[j][i]
              \/ j = J(q) /\ i = idx[q] /\ pc[q] \in {"register", "set_promoted", "set_removed"}
           /\ Registered(j, i)' => \/ Registered(j, i)
                                   \/ /\ j = J(q) /\ i = idx[q] /\ pc[q] = "register"
                                      /\ actions'[j][i] = [state |-> "PLANNED", id |-> A(q)]
<1>1. LedgerTypeOK /\ J(q) \in Job /\ idx[q] \in Index /\ A(q) \in Identity
  BY Here DEF TypeOK
<1>2. CASE UNCHANGED actions
  BY <1>2 DEF Registered
<1>3. CASE pc[q] = "register" /\ RegisterAction(J(q), idx[q], A(q))
  <2>1. /\ Registered(J(q), idx[q]) => UNCHANGED actions
        /\ ~Registered(J(q), idx[q])
             => actions'[J(q)][idx[q]] = [state |-> "PLANNED", id |-> A(q)]
        /\ j # J(q) \/ i # idx[q] => actions'[j][i] = actions[j][i]
    BY <1>1, <1>3, RegisterWrites
  <2>2. CASE j # J(q) \/ i # idx[q]
    BY <2>1, <2>2 DEF Registered
  <2>3. CASE j = J(q) /\ i = idx[q]
    BY <1>3, <2>1, <2>3 DEF Registered
  <2> QED BY <2>2, <2>3
<1>4. ASSUME NEW expected, NEW next, SetActionState(J(q), idx[q], expected, next),
             pc[q] \in {"set_promoted", "set_removed"}
      PROVE  /\ Registered(j, i) <=> Registered(j, i)'
             /\ actions'[j][i].id = actions[j][i].id
             /\ actions'[j][i] = actions[j][i] \/ (j = J(q) /\ i = idx[q])
  <2>1. /\ Registered(J(q), idx[q]) /\ <<expected, next>> \in ActionStep
        /\ actions'[J(q)][idx[q]].state = next
        /\ actions'[J(q)][idx[q]].id = actions[J(q)][idx[q]].id
        /\ j # J(q) \/ i # idx[q] => actions'[j][i] = actions[j][i]
    BY <1>1, <1>4, SetWrites
  <2>2. next # "NONE"
    BY <2>1 DEF ActionStep
  <2> QED BY <2>1, <2>2 DEF Registered
<1>5. CASE \/ pc[q] = "set_promoted" /\ SetActionState(J(q), idx[q], "PLANNED", "PROMOTED")
           \/ pc[q] = "set_removed" /\ SetActionState(J(q), idx[q], "PROMOTED", "SOURCE_REMOVED")
  BY <1>4, <1>5
<1> QED BY <1>2, <1>3, <1>5 DEF LedgerWrite

\* A step writes no destination but that of the action it is promoting, and
\* brings no source back.
LEMMA FileFrame ==
    ASSUME TypeOK, NEW q \in Owner, Step(q)
    PROVE  /\ \A t \in Target : \/ dst'[t] = dst[t]
                                \/ /\ pc[q] \in Promoting \ {"set_promoted"}
                                   /\ t = A(q).target
           /\ \A s \in Source : src'[s] = src[s] \/ src'[s] = Absent
<1>1. /\ src \in [Source -> File] /\ dst \in [Target -> File]
      /\ A(q).source \in Source /\ A(q).target \in Target
  BY Here DEF TypeOK
<1>2. CASE FileWrite(q)
  <2>1. \A s \in Source : src'[s] = src[s] \/ src'[s] = Absent
    <3>1. src' = src \/ src' = [src EXCEPT ![A(q).source] = Absent]
      BY <1>2 DEF FileWrite, ServerRename, HardLink, Upload, Protect, Publish, Cleanup, Remove
    <3> QED BY <1>1, <3>1
  <2>2. \/ dst' = dst
        \/ /\ pc[q] \in Promoting \ {"set_promoted"}
           /\ \E f : dst' = [dst EXCEPT ![A(q).target] = f]
    BY <1>2 DEF FileWrite, ServerRename, HardLink, Upload, Protect, Publish, Cleanup, Remove,
       Promoting
  <2> QED BY <1>1, <2>1, <2>2
<1>3. CASE StoreAction(q) \/ CheckOnly(q) \/ Outside(q)
  BY <1>3, LooksOnly, OutsideOnly, StoreActionsOnly DEF fileVars
<1> QED BY <1>2, <1>3 DEF Step

-----------------------------------------------------------------------------
(***************************************************************************)
(* Where a process goes.                                                   *)
(***************************************************************************)
LEMMA Goes ==
    ASSUME PlacesTyped, NEW q \in Owner
    PROVE  /\ \A next : Goto(q, next) => pc'[q] = next
           /\ \A condition, next : Require(q, condition, next) =>
                 \/ condition /\ pc'[q] = next
                 \/ ~condition /\ pc'[q] = "failing"
           /\ \A again, after : NextAction(q, again, after) =>
                 \/ pc'[q] = again /\ idx[q] < Len(Acts(q)) /\ idx'[q] = idx[q] + 1
                 \/ pc'[q] = after /\ ~(idx[q] < Len(Acts(q))) /\ idx'[q] = 1
           /\ Exit(q) => pc'[q] = "off"
           /\ NextItem(q) => pc'[q] = "off" \/ (pc'[q] = "claim" /\ idx'[q] = 1)
<1>1. \A next : Goto(q, next) => pc'[q] = next
  BY DEF PlacesTyped, Goto
<1>2. Exit(q) => pc'[q] = "off"
  BY DEF PlacesTyped, Goto, Exit
<1>3. NextItem(q) => pc'[q] = "off" \/ (pc'[q] = "claim" /\ idx'[q] = 1)
  BY <1>1, <1>2 DEF PlacesTyped, NextItem
<1>4. ASSUME NEW again, NEW after, NextAction(q, again, after)
      PROVE  \/ pc'[q] = again /\ idx[q] < Len(Acts(q)) /\ idx'[q] = idx[q] + 1
             \/ pc'[q] = after /\ ~(idx[q] < Len(Acts(q))) /\ idx'[q] = 1
  BY <1>1, <1>4 DEF PlacesTyped, NextAction
<1>5. ASSUME NEW condition, NEW next, Require(q, condition, next)
      PROVE  \/ condition /\ pc'[q] = next
             \/ ~condition /\ pc'[q] = "failing"
  <2>1. CASE condition
    <3>1. Goto(q, next)
      BY <1>5, <2>1 DEF Require
    <3> QED BY <1>1, <2>1, <3>1
  <2>2. CASE ~condition
    <3>1. Goto(q, "failing")
      BY <1>5, <2>2 DEF Require
    <3> QED BY <1>1, <2>2, <3>1
  <2> QED BY <2>1, <2>2
<1> QED BY <1>1, <1>2, <1>3, <1>4, <1>5

\* The transport that is tried first is one of the four.
LEMMA FirstTransports ==
    ASSUME TypeOK
    PROVE  FirstTransport \in {"rename_check", "stream", "hard_link", "stage_copy"}
<1>1. link \in Link
  BY FileAssumption DEF TypeOK
<1> QED BY <1>1 DEF FirstTransport, Link

\* A job is claimed from the first of its actions on.
LEMMA EntersClaim ==
    ASSUME TypeOK, PlacesTyped, NEW q \in Owner, Step(q), pc'[q] = "claim"
    PROVE  idx'[q] = 1
<1>1. ASSUME NEW next, Goto(q, next) PROVE next = "claim"
  BY <1>1, Goes
<1>2. ASSUME NEW again, NEW after, NextAction(q, again, after)
      PROVE  again = "claim" \/ after = "claim"
  BY <1>2, Goes
<1>3. ~Exit(q)
  BY Goes
<1>4. CASE StoreAction(q)
  <2>1. Commit(q)
    BY <1>1, <1>2, <1>3, <1>4 DEF StoreAction, ClaimJob, Register, ToStaging, ToVerified,
       ToRemoving, Advance, RenewToPromote, RenewToRemove, RenewLease, SetPromoted, SetRemoved,
       FailJob
  <2> QED BY <1>1, <2>1, Goes DEF Commit
<1>5. ~FileWrite(q)
  BY <1>1 DEF FileWrite, ServerRename, HardLink, Fill, Upload, Protect, Publish, Cleanup, Remove
<1>6. CASE CheckOnly(q)
  <2>1. CASE Preflight(q)
    BY <1>1, <1>3, <2>1, Goes DEF Preflight, PlacesTyped
  <2>2. CASE Recheck(q)
    BY <1>1, <1>2, <2>2, Goes DEF Recheck
  <2>3. ~CheckTarget(q)
    BY FirstTransports, Goes DEF CheckTarget
  <2>4. ~(Look(q) \/ VerifyAll(q) \/ FinalVerify(q))
    BY <1>1, <1>2 DEF Look, VerifyAll, FinalVerify, VerifyEach
  <2>5. ~(\/ RenameCheck(q) \/ RenameRecheck(q) \/ Stream(q) \/ StageCopy(q) \/ Verify(q)
          \/ LookToRemove(q) \/ CheckSource(q))
    BY <1>1 DEF RenameCheck, RenameRecheck, Stream, StageCopy, Fill, Verify, LookToRemove,
       CheckSource, Require
  <2> QED BY <1>6, <2>1, <2>2, <2>3, <2>4, <2>5 DEF CheckOnly
<1>7. ~Outside(q)
  BY <1>1, <1>3 DEF Outside, IoError, Crash, Start
<1> QED BY <1>4, <1>5, <1>6, <1>7 DEF Step

\* A process comes to work on a job by claiming it.
LEMMA EntersJob ==
    ASSUME TypeOK, PlacesTyped, NEW q \in Owner, Step(q), pc[q] \notin AtJob, pc'[q] \in AtJob
    PROVE  /\ pc[q] = "claim" /\ pc'[q] = "register"
           /\ Claim(J(q), q) /\ UNCHANGED placeVars /\ UNCHANGED actions
<1>1. pc[q] \in {"off", "preflight", "claim", "recheck", "failing"}
  BY DEF PlacesTyped, AtJob
<1>2. pc'[q] \notin {"off", "preflight", "claim", "recheck", "failing"}
  BY DEF AtJob
<1>3. ~NextItem(q) /\ ~Exit(q) /\ ~Goto(q, "failing") /\ ~Goto(q, "preflight")
      /\ ~Goto(q, "claim") /\ ~Goto(q, "recheck") /\ ~NextAction(q, "recheck", "recheck")
  BY <1>2, Goes
<1>4. ~Preflight(q) /\ ~Recheck(q) /\ ~FailJob(q) /\ ~Outside(q)
  BY <1>3 DEF Preflight, Recheck, FailJob, Outside, IoError, Crash, Start
<1>5. ~FileWrite(q)
  BY <1>1 DEF FileWrite, ServerRename, HardLink, Upload, Protect, Publish, Cleanup, Remove
<1>6. ~CheckOnly(q)
  BY <1>1, <1>4 DEF CheckOnly, Look, CheckTarget, RenameCheck, RenameRecheck, Stream, StageCopy,
     Verify, VerifyAll, VerifyEach, LookToRemove, CheckSource, FinalVerify
<1>7. ClaimJob(q)
  BY <1>1, <1>4, <1>5, <1>6 DEF Step, StoreAction, Register, ToStaging, ToVerified, ToRemoving,
     Advance, RenewToPromote, RenewToRemove, RenewLease, SetPromoted, SetRemoved, Commit
<1> QED BY <1>3, <1>7, Goes DEF ClaimJob

\* The states of a job that is being worked on.
LEMMA OpenStates ==
    /\ {"STAGING", "VERIFIED", "REMOVING_SOURCE"} \subseteq JobState
    /\ {"STAGING", "VERIFIED", "REMOVING_SOURCE"} \cap Terminal = {}
BY DEF JobState, Terminal

\* Until it commits the job, fails or dies, a process stays at it and holds it.
LEMMA StaysAtJob ==
    ASSUME TypeOK, PlacesTyped, NEW q \in Owner, Step(q), pc[q] \in AtJob, pc'[q] \in AtJob
    PROVE  /\ plan'[q] = plan[q] /\ item'[q] = item[q]
           /\ HeldBy(J(q), q) => HeldBy(J(q), q)'
<1>1. pc[q] \notin {"off", "preflight", "claim", "recheck", "failing"}
  BY DEF AtJob
<1>2. pc'[q] \notin {"off", "preflight", "claim", "recheck", "failing"}
  BY DEF AtJob
<1>3. ~NextItem(q) /\ ~Exit(q) /\ ~Goto(q, "failing")
  BY <1>2, Goes
<1>4. J(q) \in Job /\ TableTypeOK
  BY Here DEF TypeOK
<1>5. UNCHANGED <<plan, item>>
  <2>1. CASE StoreAction(q)
    BY <1>1, <1>3, <2>1 DEF StoreAction, ClaimJob, Register, ToStaging, ToVerified, ToRemoving,
       Advance, RenewToPromote, RenewToRemove, RenewLease, SetPromoted, SetRemoved, Commit,
       FailJob, placeVars
  <2>2. CASE FileWrite(q)
    BY <2>2 DEF FileWrite, ServerRename, HardLink, Upload, Protect, Publish, Cleanup, Remove,
       placeVars
  <2>3. CASE CheckOnly(q)
    BY <1>1, <2>3 DEF CheckOnly, Preflight, Recheck, Look, CheckTarget, RenameCheck,
       RenameRecheck, Stream, StageCopy, Verify, VerifyAll, VerifyEach, LookToRemove,
       CheckSource, FinalVerify, Require, placeVars
  <2>4. ~Outside(q)
    BY <1>1, <1>3 DEF Outside, IoError, Crash, Start
  <2> QED BY <2>1, <2>2, <2>3, <2>4 DEF Step
<1>6. plan'[q] = plan[q] /\ item'[q] = item[q] /\ J(q)' = J(q)
  BY <1>5 DEF J
<1>7. UNCHANGED jobs \/ Renew(J(q), q) \/ \E from : \E to \in {"STAGING", "VERIFIED",
         "REMOVING_SOURCE"} : Transition(J(q), q, from, to)
  <2>1. CASE StoreAction(q)
    <3>1. ~ClaimJob(q) /\ ~FailJob(q)
      BY <1>1 DEF ClaimJob, FailJob
    <3>2. Commit(q) => UNCHANGED jobs
      BY <1>3 DEF Commit
    <3>3. ToStaging(q) \/ ToVerified(q) \/ ToRemoving(q) =>
            \/ UNCHANGED jobs
            \/ \E from : \E to \in {"STAGING", "VERIFIED", "REMOVING_SOURCE"} :
                  Transition(J(q), q, from, to)
      BY DEF ToStaging, ToVerified, ToRemoving, Advance
    <3>4. RenewToPromote(q) \/ RenewToRemove(q) => UNCHANGED jobs \/ Renew(J(q), q)
      BY DEF RenewToPromote, RenewToRemove, RenewLease
    <3>5. Register(q) \/ SetPromoted(q) \/ SetRemoved(q) => UNCHANGED jobs
      BY DEF Register, SetPromoted, SetRemoved
    <3> QED BY <2>1, <3>1, <3>2, <3>3, <3>4, <3>5 DEF StoreAction
  <2>2. CASE FileWrite(q) \/ CheckOnly(q) \/ Outside(q)
    BY <2>2, LooksOnly, OutsideOnly, FileWritesOnly DEF tableVars
  <2> QED BY <2>1, <2>2 DEF Step
<1>8. ASSUME HeldBy(J(q), q) PROVE jobs'[J(q)].owner = q /\ jobs'[J(q)].live = TRUE
  <2>1. CASE UNCHANGED jobs
    BY <1>8, <2>1 DEF HeldBy
  <2>2. CASE Renew(J(q), q)
    BY <1>4, <1>8, <2>2, RenewWrites DEF HeldBy
  <2>3. ASSUME NEW from, NEW to \in {"STAGING", "VERIFIED", "REMOVING_SOURCE"},
               Transition(J(q), q, from, to)
        PROVE  jobs'[J(q)].owner = q /\ jobs'[J(q)].live = TRUE
    BY <1>4, <1>8, <2>3, OpenStates, TransitionWrites DEF HeldBy
  <2> QED BY <1>7, <2>1, <2>2, <2>3
<1>9. HeldBy(J(q), q) => HeldBy(J(q), q)'
  BY <1>6, <1>8 DEF HeldBy
<1> QED BY <1>6, <1>9

\* The registration loop leaves no action out and ends after the last.
LEMMA Registers ==
    ASSUME TypeOK, PlacesTyped, NEW q \in Owner, Step(q), pc[q] = "register", pc'[q] \in AtJob
    PROVE  /\ RegisterAction(J(q), idx[q], A(q))
           /\ \/ pc'[q] = "register" /\ idx'[q] = idx[q] + 1
              \/ pc'[q] = "to_staging" /\ ~(idx[q] < Len(Acts(q)))
<1>1. ~Goto(q, "failing") /\ ~Exit(q)
  BY Goes DEF AtJob
<1>2. ~Outside(q)
  BY <1>1 DEF Outside, IoError, Crash, Start
<1>3. ~FileWrite(q)
  BY DEF FileWrite, ServerRename, HardLink, Upload, Protect, Publish, Cleanup, Remove
<1>4. ~CheckOnly(q)
  BY DEF CheckOnly, Preflight, Recheck, Look, CheckTarget, RenameCheck, RenameRecheck, Stream,
     StageCopy, Verify, VerifyAll, VerifyEach, LookToRemove, CheckSource, FinalVerify
<1>5. Register(q)
  BY <1>2, <1>3, <1>4 DEF Step, StoreAction, ClaimJob, ToStaging, ToVerified, ToRemoving,
     Advance, RenewToPromote, RenewToRemove, RenewLease, SetPromoted, SetRemoved, Commit, FailJob
<1>6. RegisterAction(J(q), idx[q], A(q)) /\ NextAction(q, "register", "to_staging")
  BY <1>1, <1>5 DEF Register
<1> QED BY <1>6, Goes

\* An action is brought to its destination without a word to the store.
LEMMA Promotes ==
    ASSUME TypeOK, PlacesTyped, NEW q \in Owner, Step(q), pc'[q] \in Promoting
    PROVE  /\ UNCHANGED actions /\ UNCHANGED placeVars
           /\ \/ pc[q] \in Promoting
              \/ pc[q] = "look" /\ ~Promoted(J(q), idx[q])
<1>1. /\ \A next : Goto(q, next) => next \in Promoting
      /\ \A again, after : NextAction(q, again, after) =>
            again \in Promoting \/ after \in Promoting
  BY Goes
<1>2. ~Exit(q) /\ ~NextItem(q)
  BY Goes DEF Promoting
<1>3. ~StoreAction(q)
  BY <1>1, <1>2 DEF Promoting, StoreAction, ClaimJob, Register, ToStaging, ToVerified,
     ToRemoving, Advance, RenewToPromote, RenewToRemove, RenewLease, SetPromoted, SetRemoved,
     Commit, FailJob
<1>4. ~Outside(q)
  BY <1>1, <1>2 DEF Promoting, Outside, IoError, Crash, Start
<1>5. CASE FileWrite(q)
  <2>1. ~Remove(q)
    BY <1>1 DEF Remove, Promoting
  <2>2. UNCHANGED placeVars /\ pc[q] \in Promoting
    BY <1>5, <2>1 DEF FileWrite, ServerRename, HardLink, Upload, Protect, Publish, Cleanup,
       Promoting
  <2> QED BY <1>5, <2>2, FileWritesOnly DEF tableVars
<1>6. CASE CheckOnly(q)
  <2>1. ~Preflight(q)
    <3>1. Preflight(q) => Goto(q, "preflight") \/ Goto(q, "claim") \/ Exit(q)
      BY DEF Preflight
    <3> QED BY <1>1, <1>2, <3>1 DEF Promoting
  <2>2. ~Recheck(q) /\ ~VerifyAll(q) /\ ~FinalVerify(q)
    BY <1>1, <1>2 DEF Recheck, VerifyAll, FinalVerify, VerifyEach, Promoting
  <2>3. ~LookToRemove(q)
    BY <1>1 DEF LookToRemove, Promoting
  <2>4. ~CheckSource(q)
    BY Goes DEF CheckSource, Promoting
  <2>5. Look(q) => pc[q] = "look" /\ ~Promoted(J(q), idx[q]) /\ UNCHANGED placeVars
    BY <1>1 DEF Look, Promoting, placeVars
  <2>6. \/ CheckTarget(q) \/ RenameCheck(q) \/ RenameRecheck(q) \/ Stream(q) \/ StageCopy(q)
        \/ Verify(q)
        => pc[q] \in Promoting /\ UNCHANGED placeVars
    BY DEF CheckTarget, RenameCheck, RenameRecheck, Stream, StageCopy, Verify, Require, Promoting
  <2>7. UNCHANGED actions
    BY <1>6, LooksOnly DEF tableVars
  <2> QED BY <1>6, <2>1, <2>2, <2>3, <2>4, <2>5, <2>6, <2>7 DEF CheckOnly
<1> QED BY <1>3, <1>4, <1>5, <1>6 DEF Step

\* What a process is about to record it has just seen, or done.
LEMMA Witnesses ==
    ASSUME TypeOK, PlacesTyped, NEW q \in Owner, Step(q)
    PROVE  /\ pc'[q] = "set_promoted" =>
                 T(q) = Want(q) /\ UNCHANGED fileVars /\ UNCHANGED placeVars
           /\ pc'[q] = "set_removed" =>
                 src'[A(q).source] = Absent /\ UNCHANGED placeVars
<1>1. ASSUME pc'[q] \in {"set_promoted", "set_removed"}
      PROVE  CheckTarget(q) \/ Verify(q) \/ CheckSource(q) \/ Remove(q)
  <2>1. /\ \A next : Goto(q, next) => next \in {"set_promoted", "set_removed"}
        /\ \A again, after : NextAction(q, again, after) =>
              \/ again \in {"set_promoted", "set_removed"}
              \/ after \in {"set_promoted", "set_removed"}
    BY <1>1, Goes
  <2>2. ~Exit(q) /\ ~NextItem(q)
    BY <1>1, Goes
  <2>3. ~StoreAction(q) /\ ~Outside(q)
    BY <2>1, <2>2 DEF StoreAction, ClaimJob, Register, ToStaging, ToVerified, ToRemoving,
       Advance, RenewToPromote, RenewToRemove, RenewLease, SetPromoted, SetRemoved, Commit,
       FailJob, Outside, IoError, Crash, Start
  <2>4. FileWrite(q) => Remove(q)
    BY <2>1 DEF FileWrite, ServerRename, HardLink, Fill, Upload, Protect, Publish, Cleanup
  <2>5. ~Preflight(q)
    <3>1. Preflight(q) => Goto(q, "preflight") \/ Goto(q, "claim") \/ Exit(q)
      BY DEF Preflight
    <3> QED BY <2>1, <2>2, <3>1
  <2>6. ~(\/ Recheck(q) \/ VerifyAll(q) \/ FinalVerify(q) \/ Look(q) \/ RenameCheck(q)
          \/ RenameRecheck(q) \/ Stream(q) \/ StageCopy(q) \/ LookToRemove(q))
    BY <2>1, <2>2 DEF Recheck, VerifyAll, FinalVerify, VerifyEach, Look, RenameCheck,
       RenameRecheck, Stream, StageCopy, Fill, LookToRemove
  <2> QED BY <2>3, <2>4, <2>5, <2>6 DEF Step, CheckOnly
<1>2. src \in [Source -> File] /\ A(q).source \in Source
  BY Here DEF TypeOK
<1>3. CASE CheckTarget(q)
  <2>1. UNCHANGED fileVars /\ UNCHANGED placeVars
    BY <1>3 DEF CheckTarget, Require
  <2>2. pc'[q] = "set_promoted" => T(q) = Want(q)
    BY <1>3, FirstTransports, Goes DEF CheckTarget
  <2>3. pc'[q] # "set_removed"
    BY <1>3, FirstTransports, Goes DEF CheckTarget
  <2> QED BY <2>1, <2>2, <2>3
<1>4. CASE Verify(q)
  <2>1. UNCHANGED fileVars /\ UNCHANGED placeVars
    BY <1>4 DEF Verify, Require
  <2>2. pc'[q] # "set_removed" /\ (pc'[q] = "set_promoted" => T(q) = Want(q))
    BY <1>4, Goes DEF Verify
  <2> QED BY <2>1, <2>2
<1>5. CASE CheckSource(q)
  <2>1. UNCHANGED fileVars /\ UNCHANGED placeVars
    BY <1>5 DEF CheckSource, Require
  <2>2. pc'[q] # "set_promoted" /\ (pc'[q] = "set_removed" => S(q) = Absent)
    BY <1>5, Goes DEF CheckSource
  <2> QED BY <2>1, <2>2 DEF S, fileVars
<1>6. CASE Remove(q)
  <2>1. UNCHANGED placeVars /\ pc'[q] # "set_promoted"
    BY <1>6, Goes DEF Remove
  <2>2. pc'[q] = "set_removed" => src' = [src EXCEPT ![A(q).source] = Absent]
    BY <1>6, Goes DEF Remove
  <2> QED BY <1>2, <2>1, <2>2
<1> QED BY <1>1, <1>3, <1>4, <1>5, <1>6

-----------------------------------------------------------------------------
(***************************************************************************)
(* What a process knows of its own job after a step of its own.            *)
(***************************************************************************)
LEMMA SafeParts ==
    ASSUME SafeInv
    PROVE  /\ BookInv /\ TypeInv /\ TypeOK /\ PlacesTyped /\ LedgerTypeOK
           /\ OneReservation /\ AsPlanned /\ LedgerTruthful
           /\ \A p \in Owner : Holder(p) /\ Reserver(p) /\ Writer(p) /\ Witnessed(p)
BY TypeInvParts DEF SafeInv, BookInv, TypeInv, TypeOK, Local

LEMMA BookParts ==
    ASSUME BookInv
    PROVE  /\ TypeInv /\ TypeOK /\ PlacesTyped /\ LedgerTypeOK /\ OneReservation /\ AsPlanned
           /\ \A p \in Owner : Reserver(p)
BY TypeInvParts DEF BookInv, TypeInv, TypeOK

\* Promotion is part of the work on a job, after all actions are registered.
LEMMA PromotingAtJob == Promoting \subseteq AtJob \ {"register"}
BY DEF Promoting, AtJob, PC

\* A process keeps to what it has registered.
LEMMA ReserverKept ==
    ASSUME BookInv, NEW q \in Owner, Step(q)
    PROVE  Reserver(q)'
<1>1. TypeOK /\ PlacesTyped /\ Reserver(q) /\ LedgerTypeOK
  BY BookParts
<1>2. CASE pc'[q] \notin AtJob
  <2>1. pc'[q] # "register"
    BY <1>2 DEF AtJob, PC
  <2> QED BY <1>1, <1>2, <2>1, EntersClaim DEF Reserver
<1>3. CASE pc[q] \notin AtJob /\ pc'[q] \in AtJob
  <2>1. pc[q] = "claim" /\ pc'[q] = "register" /\ UNCHANGED placeVars
    BY <1>1, <1>3, EntersJob
  <2>2. idx'[q] = 1
    BY <1>1, <2>1 DEF Reserver, placeVars
  <2>3. J(q)' = J(q) /\ J(q) \in Job
    BY <1>1, <2>1, Here DEF placeVars, J
  <2>4. ASSUME NEW i \in DOMAIN Acts(q)' PROVE ~(i < 1)
    <3>1. Acts(q)' \in Seq(FileAction)
      BY <2>3, PlanAssumption DEF Acts
    <3> QED BY <2>4, <3>1
  <2> QED BY <2>1, <2>2, <2>4 DEF Reserver
<1>4. CASE pc[q] \in AtJob /\ pc'[q] \in AtJob
  <2>1. J(q)' = J(q) /\ J(q) \in Job
    BY <1>1, <1>4, StaysAtJob, Here DEF J
  <2>2. Acts(q)' = Acts(q)
    BY <2>1 DEF Acts
  <2>3. pc'[q] # "claim"
    BY <1>4 DEF AtJob
  <2>4. \A i \in DOMAIN Acts(q) : i \in Nat /\ i \in Index
    BY <2>1, ActionOf DEF Acts
  <2>5. \A i \in DOMAIN Acts(q) : Registered(J(q), i) => Registered(J(q), i)'
    BY <1>1, <2>1, <2>4, LedgerWrites, LedgerFrame
  <2>6. CASE pc[q] # "register"
    <3>1. \A i \in DOMAIN Acts(q) : Registered(J(q), i)
      BY <1>1, <1>4, <2>6 DEF Reserver
    <3>2. \A i \in DOMAIN Acts(q)' : Registered(J(q), i)'
      BY <2>2, <2>5, <3>1
    <3> QED BY <2>3, <3>2 DEF Reserver
  <2>7. CASE pc[q] = "register"
    <3>1. /\ RegisterAction(J(q), idx[q], A(q))
          /\ \/ pc'[q] = "register" /\ idx'[q] = idx[q] + 1
             \/ pc'[q] = "to_staging" /\ ~(idx[q] < Len(Acts(q)))
      BY <1>1, <1>4, <2>7, Registers
    <3>2. idx[q] \in Index /\ A(q) \in Identity /\ idx[q] \in Nat
      BY <1>1, Here DEF TypeOK
    <3>3. actions'[J(q)][idx[q]].state # "NONE"
      <4>1. /\ Registered(J(q), idx[q]) => UNCHANGED actions
            /\ ~Registered(J(q), idx[q])
                 => actions'[J(q)][idx[q]] = [state |-> "PLANNED", id |-> A(q)]
        BY <1>1, <2>1, <3>1, <3>2, RegisterWrites
      <4> QED BY <4>1 DEF Registered
    <3>4. \A i \in DOMAIN Acts(q) : i < idx[q] => Registered(J(q), i)
      BY <1>1, <2>7 DEF Reserver
    <3>5. \A i \in DOMAIN Acts(q) : i < idx[q] + 1 => Registered(J(q), i)'
      <4>1. \A i \in DOMAIN Acts(q) : i < idx[q] => Registered(J(q), i)'
        BY <2>5, <3>4
      <4>2. \A i : Registered(J(q), i)' <=> actions'[J(q)][i].state # "NONE"
        BY <2>1 DEF Registered
      <4> QED BY <2>4, <3>2, <3>3, <4>1, <4>2
    <3>6. CASE pc'[q] = "register" /\ idx'[q] = idx[q] + 1
      BY <2>2, <3>5, <3>6 DEF Reserver
    <3>7. CASE pc'[q] = "to_staging" /\ ~(idx[q] < Len(Acts(q)))
      <4>1. Acts(q) \in Seq(FileAction)
        BY <2>1, PlanAssumption DEF Acts
      <4>2. \A i \in DOMAIN Acts(q) : i < idx[q] + 1
        BY <2>4, <3>2, <3>7, <4>1
      <4> QED BY <2>2, <3>5, <3>7, <4>2 DEF Reserver
    <3> QED BY <3>1, <3>6, <3>7
  <2> QED BY <2>6, <2>7
<1> QED BY <1>2, <1>3, <1>4

\* After a step of its own a process knows as much as before.
LEMMA SelfKept ==
    ASSUME SafeInv, NEW q \in Owner, Step(q)
    PROVE  Local(q)'
<1>1. /\ TypeOK /\ PlacesTyped /\ Holder(q) /\ Reserver(q) /\ Writer(q) /\ LedgerTypeOK
      /\ TableTypeOK /\ J(q) \in Job /\ idx[q] \in Index /\ idx[q] \in DOMAIN Acts(q)
  BY SafeParts, Here DEF TypeOK
<1>2. Holder(q)'
  <2>1. CASE pc'[q] \notin AtJob
    BY <2>1 DEF Holder
  <2>2. CASE pc[q] \notin AtJob /\ pc'[q] \in AtJob
    <3>1. Claim(J(q), q) /\ J(q)' = J(q)
      BY <1>1, <2>2, EntersJob DEF placeVars, J
    <3> QED BY <1>1, <3>1, ClaimWrites DEF Holder, HeldBy
  <2>3. CASE pc[q] \in AtJob /\ pc'[q] \in AtJob
    BY <1>1, <2>3, StaysAtJob DEF Holder
  <2> QED BY <2>1, <2>2, <2>3
<1>3. Writer(q)'
  <2> SUFFICES ASSUME pc'[q] \in Promoting PROVE actions'[J(q)'][idx'[q]].state = "PLANNED"
    BY DEF Writer
  <2>1. /\ UNCHANGED actions /\ J(q)' = J(q) /\ idx'[q] = idx[q]
        /\ \/ pc[q] \in Promoting
           \/ pc[q] = "look" /\ ~Promoted(J(q), idx[q])
    BY <1>1, Promotes DEF placeVars, J
  <2>2. CASE pc[q] \in Promoting
    BY <1>1, <2>1, <2>2 DEF Writer
  <2>3. CASE pc[q] = "look" /\ ~Promoted(J(q), idx[q])
    <3>1. Registered(J(q), idx[q])
      BY <1>1, <2>3 DEF Reserver, AtJob, PC
    <3>2. actions[J(q)][idx[q]].state \in ActionState
      BY <1>1 DEF LedgerTypeOK
    <3> QED BY <2>1, <2>3, <3>1, <3>2 DEF Registered, Promoted, ActionState
  <2> QED BY <2>1, <2>2, <2>3
<1>4. Witnessed(q)'
  <2>1. ASSUME UNCHANGED placeVars PROVE A(q)' = A(q) /\ Want(q)' = Want(q)
    BY <2>1 DEF placeVars, A, Acts, J, Want
  <2>2. pc'[q] = "set_promoted" => T(q)' = Want(q)'
    BY <1>1, <2>1, Witnesses DEF fileVars, T
  <2>3. pc'[q] = "set_removed" => S(q)' = Absent
    BY <1>1, <2>1, Witnesses DEF S
  <2> QED BY <2>2, <2>3 DEF Witnessed
<1>5. Reserver(q)' BY SafeParts, ReserverKept
<1> QED BY <1>2, <1>3, <1>4, <1>5 DEF Local

-----------------------------------------------------------------------------
(***************************************************************************)
(* What a step of one process does to the others and to the ledger.        *)
(***************************************************************************)
LEMMA TargetOnce ==
    ASSUME BookInv, NEW j1 \in Job, NEW j2 \in Job, NEW i1 \in Index, NEW i2 \in Index,
           Registered(j1, i1), Registered(j2, i2),
           ActionsOf[j1][i1].target = ActionsOf[j2][i2].target
    PROVE  j1 = j2 /\ i1 = i2
<1>1. /\ i1 \in DOMAIN ActionsOf[j1] /\ actions[j1][i1].id = ActionsOf[j1][i1]
      /\ i2 \in DOMAIN ActionsOf[j2] /\ actions[j2][i2].id = ActionsOf[j2][i2]
  BY BookParts DEF AsPlanned
<1>2. ActionsOf[j1][i1] \in FileAction /\ ActionsOf[j2][i2] \in FileAction
  BY <1>1, ActionOf
<1>3. KeyOf[actions[j1][i1].id] = KeyOf[actions[j2][i2].id]
  BY <1>1, <1>2, PlanAssumption
<1> QED BY <1>3, BookParts DEF OneReservation

\* The destination a process may write is reserved by the action it is at, which
\* is not promoted.
LEMMA WritesOwnTarget ==
    ASSUME SafeInv, NEW q \in Owner, pc[q] \in Promoting, NEW j \in Job, NEW i \in Index,
           Registered(j, i), ActionsOf[j][i].target = A(q).target
    PROVE  j = J(q) /\ i = idx[q] /\ actions[j][i].state = "PLANNED"
<1>1. J(q) \in Job /\ idx[q] \in Index /\ actions[J(q)][idx[q]].state = "PLANNED"
  BY SafeParts, Here DEF Writer
<1>2. Registered(J(q), idx[q])
  BY <1>1 DEF Registered
<1>3. j = J(q) /\ i = idx[q]
  BY <1>1, <1>2, SafeParts, TargetOnce DEF A, Acts
<1> QED BY <1>1, <1>3

\* What one process has registered stays registered at the steps of another.
LEMMA OthersReserve ==
    ASSUME BookInv, NEW q \in Owner, Step(q), NEW p \in Owner, p # q
    PROVE  Reserver(p)'
<1>1. TypeOK /\ PlacesTyped /\ Reserver(p) /\ LedgerWrite(q) /\ J(p) \in Job
  BY BookParts, LedgerWrites, Here
<1>2. pc'[p] = pc[p] /\ plan'[p] = plan[p] /\ item'[p] = item[p] /\ idx'[p] = idx[p]
  BY <1>1, StepElsewhere DEF Elsewhere
<1>3. J(p)' = J(p) /\ Acts(p)' = Acts(p)
  BY <1>2 DEF J, Acts
<1>4. \A i \in DOMAIN Acts(p) : i \in Index
  BY <1>1, ActionOf DEF Acts
<1>5. \A i \in DOMAIN Acts(p) : Registered(J(p), i) => actions'[J(p)][i].state # "NONE"
  BY <1>1, <1>4, LedgerFrame DEF Registered
<1>6. \A i \in DOMAIN Acts(p) : Registered(J(p), i) => Registered(J(p), i)'
  BY <1>3, <1>5 DEF Registered
<1> QED BY <1>1, <1>2, <1>3, <1>6 DEF Reserver

\* A step of one process takes nothing from what another one knows.
LEMMA OthersKept ==
    ASSUME SafeInv, NEW q \in Owner, Step(q), NEW p \in Owner, p # q
    PROVE  Local(p)'
<1>1. /\ TypeOK /\ PlacesTyped /\ Holder(p) /\ Holder(q) /\ Reserver(p) /\ Writer(p)
      /\ Witnessed(p) /\ LedgerWrite(q)
  BY SafeParts, LedgerWrites
<1>2. /\ J(p) \in Job /\ idx[p] \in Index /\ idx[p] \in DOMAIN ActionsOf[J(p)]
      /\ A(p).source \in Source /\ A(p).target \in Target /\ J(q) \in Job
  BY <1>1, Here
<1>3. pc'[p] = pc[p] /\ plan'[p] = plan[p] /\ item'[p] = item[p] /\ idx'[p] = idx[p]
  BY <1>1, StepElsewhere DEF Elsewhere
<1>4. J(p)' = J(p) /\ Acts(p)' = Acts(p) /\ A(p)' = A(p) /\ Want(p)' = Want(p)
  BY <1>3 DEF J, Acts, A, Want
<1>5. Holder(p)'
  <2> SUFFICES ASSUME pc[p] \in AtJob
               PROVE  jobs'[J(p)].owner = p /\ jobs'[J(p)].live = TRUE
    BY <1>3, <1>4 DEF Holder, HeldBy
  <2>1. HeldBy(J(p), p)
    BY <1>1 DEF Holder
  <2>2. ASSUME NEW j \in Job, j = J(p) PROVE jobs'[j].owner = p /\ jobs'[j].live = TRUE
    BY <1>1, <2>1, <2>2, HoldKept DEF HeldBy
  <2> QED BY <1>2, <2>2
<1>7. Reserver(p)'
  BY SafeParts, OthersReserve
<1>8. Writer(p)'
  <2> SUFFICES ASSUME pc[p] \in Promoting PROVE actions'[J(p)][idx[p]].state = "PLANNED"
    BY <1>3, <1>4 DEF Writer
  <2>1. HeldBy(J(p), p)
    BY <1>1, PromotingAtJob DEF Holder
  <2>2. pc[q] \in {"register", "set_promoted", "set_removed"} => HeldBy(J(q), q)
    BY <1>1 DEF Holder, AtJob, PC
  <2>3. \/ actions'[J(p)][idx[p]] = actions[J(p)][idx[p]]
        \/ J(p) = J(q) /\ pc[q] \in {"register", "set_promoted", "set_removed"}
    BY <1>1, <1>2, LedgerFrame
  <2>4. actions'[J(p)][idx[p]] = actions[J(p)][idx[p]]
    BY <2>1, <2>2, <2>3 DEF HeldBy
  <2> QED BY <1>1, <2>4 DEF Writer
<1>9. ASSUME pc[p] = "set_promoted" PROVE dst'[A(p).target] = A(p).source
  <2>1. dst[A(p).target] = A(p).source /\ pc[p] \in Promoting
    BY <1>1, <1>9 DEF Witnessed, T, Want, Promoting
  <2>2. HeldBy(J(p), p) /\ Registered(J(p), idx[p])
    BY <1>1, <2>1, PromotingAtJob DEF Holder, Writer, Registered
  <2>3. pc[q] \in Promoting => HeldBy(J(q), q)
    BY <1>1, PromotingAtJob DEF Holder
  <2>4. pc[q] \in Promoting /\ A(p).target = A(q).target => J(p) = J(q)
    BY <1>2, <2>2, WritesOwnTarget DEF A, Acts
  <2>5. ~(pc[q] \in Promoting /\ A(p).target = A(q).target)
    BY <2>2, <2>3, <2>4 DEF HeldBy
  <2> QED BY <1>1, <1>2, <2>1, <2>5, FileFrame
<1>10. ASSUME pc[p] = "set_removed" PROVE src'[A(p).source] = Absent
  BY <1>1, <1>2, <1>10, FileFrame DEF Witnessed, S
<1>11. Witnessed(p)'
  <2>1. pc'[p] = "set_promoted" => T(p)' = Want(p)'
    BY <1>3, <1>4, <1>9 DEF T, Want
  <2>2. pc'[p] = "set_removed" => S(p)' = Absent
    BY <1>3, <1>4, <1>10 DEF S
  <2> QED BY <2>1, <2>2 DEF Witnessed
<1> QED BY <1>5, <1>7, <1>8, <1>11 DEF Local

\* The ledger's rows stay about the planned actions.
LEMMA AsPlannedKept ==
    ASSUME BookInv, NEW q \in Owner, Step(q)
    PROVE  AsPlanned'
<1>1. TypeOK /\ LedgerWrite(q)
  BY BookParts, LedgerWrites
<1>2. ASSUME NEW j \in Job, NEW i \in Index, Registered(j, i)'
      PROVE  i \in DOMAIN ActionsOf[j] /\ actions'[j][i].id = ActionsOf[j][i]
  <2>1. CASE Registered(j, i)
    <3>1. actions'[j][i].id = actions[j][i].id
      BY <1>1, <2>1, LedgerFrame
    <3>2. i \in DOMAIN ActionsOf[j] /\ actions[j][i].id = ActionsOf[j][i]
      BY <2>1, BookParts DEF AsPlanned
    <3> QED BY <3>1, <3>2
  <2>2. CASE /\ j = J(q) /\ i = idx[q]
             /\ actions'[j][i] = [state |-> "PLANNED", id |-> A(q)]
    <3>1. actions'[j][i].id = A(q) /\ idx[q] \in DOMAIN ActionsOf[J(q)]
      BY <1>1, <2>2, Here
    <3> QED BY <2>2, <3>1 DEF A, Acts
  <2> QED BY <1>1, <1>2, <2>1, <2>2, LedgerFrame
<1> QED BY <1>2 DEF AsPlanned

\* A recording sets the state of the action the process is at.
LEMMA SetHere ==
    ASSUME TypeOK, NEW q \in Owner, NEW expected, NEW next,
           SetActionState(J(q), idx[q], expected, next)
    PROVE  <<expected, next>> \in ActionStep /\ actions'[J(q)][idx[q]].state = next
<1>1. LedgerTypeOK /\ J(q) \in Job /\ idx[q] \in Index
  BY Here DEF TypeOK
<1> QED BY <1>1, SetWrites

\* What is recorded stays true: the row of an action changes only at a process
\* that has the evidence, and a promoted action's destination is nobody's to write.
LEMMA TruthKept ==
    ASSUME SafeInv, NEW q \in Owner, Step(q)
    PROVE  LedgerTruthful'
<1>1. /\ TypeOK /\ LedgerTypeOK /\ LedgerWrite(q) /\ Witnessed(q)
      /\ J(q) \in Job /\ idx[q] \in Index /\ A(q) \in Identity
  BY SafeParts, LedgerWrites, Here
<1>2. ASSUME NEW j \in Job, NEW i \in DOMAIN ActionsOf[j]
      PROVE  /\ Promoted(j, i)' => dst'[ActionsOf[j][i].target] = ActionsOf[j][i].source
             /\ actions'[j][i].state = "SOURCE_REMOVED" => src'[ActionsOf[j][i].source] = Absent
  <2> DEFINE a == ActionsOf[j][i]
  <2>1. i \in Index /\ a.target \in Target /\ a.source \in Source
    BY ActionOf
  <2>2. /\ Promoted(j, i) => dst[a.target] = a.source
        /\ actions[j][i].state = "SOURCE_REMOVED" => src[a.source] = Absent
    BY SafeParts DEF LedgerTruthful, Placed
  <2>3. ASSUME Promoted(j, i) PROVE dst'[a.target] = a.source
    <3>1. Registered(j, i) /\ actions[j][i].state # "PLANNED"
      BY <2>3 DEF Promoted, Registered
    <3>2. ~(pc[q] \in Promoting /\ a.target = A(q).target)
      BY <2>1, <3>1, WritesOwnTarget
    <3> QED BY <1>1, <2>1, <2>2, <2>3, <3>2, FileFrame
  <2>4. ASSUME actions[j][i].state = "SOURCE_REMOVED" PROVE src'[a.source] = Absent
    BY <1>1, <2>1, <2>2, <2>4, FileFrame
  <2>5. CASE actions'[j][i] = actions[j][i]
    BY <2>3, <2>4, <2>5 DEF Promoted
  <2>6. CASE /\ j = J(q) /\ i = idx[q]
             /\ pc[q] = "register" /\ RegisterAction(J(q), idx[q], A(q))
    <3>1. \/ UNCHANGED actions
          \/ actions'[j][i] = [state |-> "PLANNED", id |-> A(q)]
      BY <1>1, <2>6, RegisterWrites
    <3>2. CASE UNCHANGED actions
      BY <2>5, <3>2
    <3>3. CASE actions'[j][i] = [state |-> "PLANNED", id |-> A(q)]
      BY <3>3 DEF Promoted
    <3> QED BY <3>1, <3>2, <3>3
  <2>7. CASE /\ j = J(q) /\ i = idx[q] /\ pc[q] = "set_promoted"
             /\ SetActionState(J(q), idx[q], "PLANNED", "PROMOTED")
    <3>1. actions'[j][i].state = "PROMOTED"
      <4>1. SetActionState(J(q), idx[q], "PLANNED", "PROMOTED")
        BY <2>7
      <4>2. /\ <<"PLANNED", "PROMOTED">> \in ActionStep
            /\ actions'[J(q)][idx[q]].state = "PROMOTED"
        BY <1>1, <4>1, SetHere
      <4> QED BY <2>7, <4>2
    <3>2. dst[a.target] = a.source
      BY <1>1, <2>7 DEF Witnessed, T, Want, A, Acts
    <3>3. dst'[a.target] = a.source
      BY <1>1, <2>1, <2>7, <3>2, FileFrame
    <3> QED BY <3>1, <3>3
  <2>8. CASE /\ j = J(q) /\ i = idx[q] /\ pc[q] = "set_removed"
             /\ SetActionState(J(q), idx[q], "PROMOTED", "SOURCE_REMOVED")
    <3>1. Promoted(j, i)
      BY <1>1, <2>8, SetWrites DEF Promoted
    <3>2. src[a.source] = Absent
      BY <1>1, <2>8 DEF Witnessed, S, A, Acts
    <3> QED BY <1>1, <2>1, <2>3, <3>1, <3>2, FileFrame
  <2> QED BY <1>1, <2>1, <2>5, <2>6, <2>7, <2>8, LedgerFrame DEF LedgerWrite
<1> QED BY <1>2 DEF LedgerTruthful, Placed

-----------------------------------------------------------------------------
(***************************************************************************)
(* Time, other programs, and the theorem                                   *)
(***************************************************************************)

\* A lease runs out only under a process that is gone.
LEMMA ExpiryKept ==
    ASSUME SafeInv, Overruns = FALSE, NEW j \in Job, LeaseRunsOut(j)
    PROVE  /\ AsPlanned' /\ LedgerTruthful'
           /\ \A p \in Owner : Local(p)'
<1>1. UNCHANGED <<actions, src, dst, plan, item, idx, pc>>
  BY DEF LeaseRunsOut, fileVars, placeVars
<1>2. AsPlanned' /\ LedgerTruthful'
  BY <1>1, SafeParts DEF AsPlanned, LedgerTruthful, Registered, Promoted, Placed
<1>3. ASSUME NEW p \in Owner PROVE Local(p)'
  <2>1. J(p)' = J(p) /\ Acts(p)' = Acts(p) /\ T(p)' = T(p) /\ S(p)' = S(p) /\ Want(p)' = Want(p)
    BY <1>1 DEF J, Acts, T, S, A, Want
  <2>2. Reserver(p)' /\ Writer(p)' /\ Witnessed(p)'
    BY <1>1, <2>1, SafeParts DEF Reserver, Writer, Witnessed, Registered
  <2>3. ASSUME pc[p] \in AtJob PROVE HeldBy(J(p), p)'
    <3>1. HeldBy(J(p), p) /\ J(p) \in Job /\ TableTypeOK
      BY <2>3, SafeParts, Here DEF Holder, TypeOK
    <3>2. J(p) # j
      <4>1. pc[p] # "off" /\ ~AtWork(j)
        BY <2>3 DEF AtJob, LeaseRunsOut
      <4> QED BY <3>1, <4>1 DEF AtWork, HeldBy
    <3>3. {j} \in SUBSET Job /\ ExpireAll({j})
      BY DEF LeaseRunsOut, Expire
    <3>4. jobs'[J(p)] = jobs[J(p)]
      BY <3>1, <3>2, <3>3, ExpireWrites
    <3> QED BY <2>1, <3>1, <3>4 DEF HeldBy
  <2>4. Holder(p)'
    BY <1>1, <2>3 DEF Holder
  <2> QED BY <2>2, <2>4 DEF Local
<1> QED BY <1>2, <1>3

\* The invariant holds when nothing has run yet.
LEMMA SafeInit == Init => SafeInv
<1> SUFFICES ASSUME Init PROVE SafeInv
  OBVIOUS
<1>1. TypeInv
  BY InitTyped
<1>2. \A j \in Job, i \in Index : actions[j][i].state = "NONE"
  BY DEF Init, LedgerInit, NoAction
<1>3. \A j \in Job : \A i \in DOMAIN ActionsOf[j] : i \in Index
  BY ActionOf
<1>4. OneReservation /\ AsPlanned /\ LedgerTruthful
  BY <1>2, <1>3 DEF OneReservation, AsPlanned, LedgerTruthful, Registered, Promoted
<1>5. \A p \in Owner : Local(p)
  BY DEF Init, Local, Holder, Reserver, Writer, Witnessed, AtJob, Promoting
<1> QED BY <1>1, <1>4, <1>5 DEF SafeInv

\* The invariant is inductive.
LEMMA SafeKept ==
    ASSUME Overruns = FALSE, MaxEdits = 0
    PROVE  SafeInv /\ [Next]_vars => SafeInv'
<1> SUFFICES ASSUME SafeInv, [Next]_vars PROVE SafeInv'
  OBVIOUS
<1>1. TypeInv' /\ OneReservation'
  <2>1. TypeInv /\ TypeOK /\ LedgerTypeOK /\ OneReservation
    BY SafeParts
  <2> QED BY <2>1, TypeInvKept, LedgerStep, ReservationKept
<1>2. ASSUME NEW q \in Owner, Step(q) PROVE SafeInv'
  <2>1. \A p \in Owner : Local(p)'
    BY <1>2, SelfKept, OthersKept
  <2>2. AsPlanned'
    BY <1>2, SafeParts, AsPlannedKept
  <2> QED BY <1>1, <1>2, <2>1, <2>2, TruthKept DEF SafeInv
<1>3. ASSUME NEW j \in Job, LeaseRunsOut(j) PROVE SafeInv'
  BY <1>1, <1>3, ExpiryKept DEF SafeInv
<1>4. ~Edit
  <2>1. edits \in 0..0
    BY SafeParts DEF TypeOK
  <2> QED BY <2>1 DEF Edit
<1>5. CASE UNCHANGED vars
  <2>1. UNCHANGED <<jobs, actions, src, dst, plan, item, idx, pc>>
    BY <1>5 DEF vars
  <2>2. AsPlanned' /\ LedgerTruthful'
    BY <2>1, SafeParts DEF AsPlanned, LedgerTruthful, Registered, Promoted, Placed
  <2>3. ASSUME NEW p \in Owner PROVE Local(p)'
    <3>1. /\ J(p)' = J(p) /\ Acts(p)' = Acts(p) /\ T(p)' = T(p) /\ S(p)' = S(p)
          /\ Want(p)' = Want(p)
      BY <2>1 DEF J, Acts, T, S, A, Want
    <3>2. Holder(p)' /\ Reserver(p)'
      BY <2>1, <3>1, SafeParts DEF Holder, HeldBy, Reserver, Registered
    <3>3. Writer(p)' /\ Witnessed(p)'
      BY <2>1, <3>1, SafeParts DEF Writer, Witnessed
    <3> QED BY <3>2, <3>3 DEF Local
  <2> QED BY <1>1, <2>2, <2>3 DEF SafeInv
<1> QED BY <1>2, <1>3, <1>4, <1>5, Steps DEF Step

\* For any plans, even plans of the same files, any number of processes, and
\* whatever they are interrupted by: as long as a working process keeps its lease
\* and no other program edits the trees, the ledger never claims more than the
\* files show (executor.rs:216-217, 256-273).
THEOREM LedgerKept ==
    ASSUME Overruns = FALSE, MaxEdits = 0
    PROVE  Spec => []LedgerTruthful
<1>1. SafeInv /\ [Next]_vars => SafeInv'
  BY SafeKept
<1>2. SafeInv => LedgerTruthful
  BY DEF SafeInv
<1> QED BY SafeInit, <1>1, <1>2, PTL DEF Spec

-----------------------------------------------------------------------------
(***************************************************************************)
(* The steps by what they do to files, and to what a process holds.        *)
(***************************************************************************)

\* From the look at a free destination to the write of it.
Carrying == {"rename_check", "rename", "rename_recheck", "stream", "hard_link", "stage_copy",
             "upload", "protect", "publish"}

\* At most a process lets go of what it holds.
Lightened(q) == \A p \in Owner : buf'[p] = buf[p] \/ (p = q /\ buf'[p] = Absent)

\* A step that writes no file and goes nowhere near one.
Aside(q) ==
    /\ UNCHANGED fileVars
    /\ Lightened(q)
    /\ pc'[q] \notin Carrying \cup {"cleanup", "check_source", "remove"}
    /\ \/ pc'[q] \in {"failing", "off"} \/ bak[q] = Absent
       \/ pc[q] \notin {"publish", "cleanup", "failing", "off"}

\* Nor is any place of a step aside one of these.
LEMMA AsidePlaces ==
    {"off", "preflight", "claim", "recheck", "register", "to_staging", "renew_promote", "look",
     "check_target", "verify", "set_promoted", "verify_all", "to_verified", "to_removing",
     "renew_remove", "look_remove", "set_removed", "final_verify", "commit", "failing"}
      \cap (Carrying \cup {"cleanup", "check_source", "remove"}) = {}
BY DEF Carrying

\* The end of a run drops what was held.
LEMMA ExitDrops ==
    ASSUME TypeOK, PlacesTyped, NEW q \in Owner, Exit(q)
    PROVE  Lightened(q)
BY DEF TypeOK, Exit, Lightened

\* So do the steps that are about the store, the ends of runs, and the checks
\* that are not about the file to be brought or removed.
LEMMA StepsAside ==
    ASSUME TypeOK, PlacesTyped, NEW q \in Owner,
           \/ StoreAction(q) \/ Outside(q)
           \/ Preflight(q) \/ Recheck(q) \/ Look(q) \/ Verify(q) \/ VerifyAll(q) \/ FinalVerify(q)
    PROVE  Aside(q)
<1> DEFINE Far(next) == next \notin Carrying \cup {"cleanup", "check_source", "remove"}
<1>0. UNCHANGED fileVars
  BY StoreActionsOnly, OutsideOnly, LooksOnly DEF CheckOnly
<1>1. ASSUME UNCHANGED buf PROVE Lightened(q)
  BY <1>1 DEF Lightened
<1>2. ASSUME Exit(q) PROVE Aside(q)
  BY <1>0, <1>2, ExitDrops, AsidePlaces, Goes DEF Aside
<1>3. ASSUME UNCHANGED buf, NEW next, Goto(q, next), Far(next),
             next = "failing" \/ pc[q] \notin {"publish", "cleanup", "failing", "off"}
      PROVE  Aside(q)
  BY <1>0, <1>1, <1>3, Goes DEF Aside
<1>4. ASSUME UNCHANGED buf, NEW again, NEW after, NextAction(q, again, after),
             Far(again), Far(after), pc[q] \notin {"publish", "cleanup", "failing", "off"}
      PROVE  Aside(q)
  BY <1>0, <1>1, <1>4, Goes DEF Aside
<1>5. ASSUME NextItem(q), pc[q] \notin {"publish", "cleanup", "failing", "off"} PROVE Aside(q)
  <2>1. CASE item[q] < Len(JobsOf[plan[q]])
    BY <1>3, <1>5, <2>1, AsidePlaces DEF NextItem
  <2>2. CASE ~(item[q] < Len(JobsOf[plan[q]]))
    BY <1>2, <1>5, <2>2 DEF NextItem
  <2> QED BY <2>1, <2>2
<1>6. CASE StoreAction(q)
  <2>1. CASE ClaimJob(q) \/ ToStaging(q) \/ ToVerified(q) \/ ToRemoving(q)
             \/ RenewToPromote(q) \/ RenewToRemove(q)
    BY <1>3, <2>1, AsidePlaces DEF ClaimJob, ToStaging, ToVerified, ToRemoving, Advance,
       RenewToPromote, RenewToRemove, RenewLease
  <2>2. CASE Register(q) \/ SetPromoted(q) \/ SetRemoved(q)
    BY <1>3, <1>4, <2>2, AsidePlaces DEF Register, SetPromoted, SetRemoved
  <2>3. CASE Commit(q)
    BY <1>3, <1>5, <2>3, AsidePlaces DEF Commit
  <2>4. CASE FailJob(q)
    BY <1>2, <2>4 DEF FailJob
  <2> QED BY <1>6, <2>1, <2>2, <2>3, <2>4 DEF StoreAction
<1>7. CASE Outside(q)
  <2>1. CASE IoError(q)
    BY <1>2, <1>3, <2>1, AsidePlaces DEF IoError
  <2>2. CASE Crash(q)
    BY <1>2, <2>2 DEF Crash
  <2>3. ASSUME NEW b \in Plan, Start(q, b) PROVE Aside(q)
    BY <1>0, <1>1, <2>3, AsidePlaces, Goes DEF Start, Aside
  <2> QED BY <1>7, <2>1, <2>2, <2>3 DEF Outside
<1>8. CASE Preflight(q)
  <2>1. CASE ~PreflightOk(q)
    BY <1>2, <1>8, <2>1 DEF Preflight
  <2>2. CASE PreflightOk(q)
    BY <1>3, <1>8, <2>2, AsidePlaces DEF Preflight
  <2> QED BY <2>1, <2>2
<1>9. CASE Recheck(q)
  BY <1>3, <1>4, <1>5, <1>9, AsidePlaces DEF Recheck
<1>10. CASE Look(q)
  BY <1>3, <1>4, <1>10, AsidePlaces DEF Look
<1>11. CASE Verify(q)
  <2>1. UNCHANGED buf /\ pc[q] = "verify" /\ (Goto(q, "set_promoted") \/ Goto(q, "failing"))
    BY <1>11 DEF Verify, Require
  <2> QED BY <1>3, <2>1, AsidePlaces
<1>12. CASE VerifyAll(q) \/ FinalVerify(q)
  BY <1>3, <1>4, <1>12, AsidePlaces DEF VerifyAll, FinalVerify, VerifyEach
<1> QED BY <1>6, <1>7, <1>8, <1>9, <1>10, <1>11, <1>12

\* The checks of the files: what they have seen when they lead on.
Sees(q) ==
    /\ UNCHANGED fileVars /\ UNCHANGED placeVars /\ UNCHANGED buf
    /\ \/ /\ pc[q] \in {"check_target", "rename_check", "rename", "rename_recheck", "stream",
                        "hard_link", "stage_copy", "look_remove", "check_source", "remove",
                        "protect"}
          /\ pc'[q] \in {"set_promoted", "set_removed", "verify", "failing"}
       \/ /\ pc[q] = "check_target" /\ T(q) = Absent /\ S(q) = Want(q)
          /\ pc'[q] \in {"rename_check", "stream", "hard_link", "stage_copy"}
       \/ pc[q] = "rename_check" /\ pc'[q] = "rename_recheck"
       \/ pc[q] = "rename_check" /\ pc'[q] = "rename" /\ T(q) = Absent
       \/ pc[q] = "rename" /\ pc'[q] = "rename_recheck"
       \/ pc[q] = "rename_recheck" /\ pc'[q] = "stream" /\ S(q) # Absent /\ T(q) = Absent
       \/ pc[q] = "upload" /\ pc'[q] \in {"publish", "protect"}
             /\ (pc'[q] = "protect" => T(q) # Absent)
       \/ pc[q] = "look_remove" /\ pc'[q] = "check_source" /\ T(q) = Want(q)
       \/ pc[q] = "check_source" /\ pc'[q] = "remove" /\ S(q) = Want(q)

\* The temporary file of an upload is filled.
Fills(q) ==
    /\ UNCHANGED fileVars /\ UNCHANGED placeVars
    /\ pc[q] \in {"stream", "hard_link", "stage_copy"} /\ pc'[q] = "upload" /\ S(q) # Absent
    /\ \/ buf' = [buf EXCEPT ![q] = S(q)]
       \/ CutStreams /\ buf' = [buf EXCEPT ![q] = Torn]

WritesTarget(q, content) == dst' = [dst EXCEPT ![A(q).target] = content]

TakesSource(q) == src' = [src EXCEPT ![A(q).source] = Absent]

\* A file is written or removed.
Does(q) ==
    /\ UNCHANGED placeVars
    /\ Lightened(q)
    /\ \/ /\ pc[q] = "rename" /\ pc'[q] \in {"verify", "rename_recheck"} /\ S(q) # Absent
          /\ WritesTarget(q, S(q)) /\ TakesSource(q) /\ bak' = bak
       \/ /\ pc[q] = "hard_link" /\ pc'[q] = "verify" /\ S(q) # Absent /\ T(q) = Absent
          /\ WritesTarget(q, S(q)) /\ src' = src /\ bak' = bak
       \/ /\ pc[q] = "upload" /\ pc'[q] = "verify"
          /\ WritesTarget(q, buf[q]) /\ src' = src /\ bak' = bak
       \/ /\ pc[q] = "protect" /\ pc'[q] = "publish" /\ buf' = buf
          /\ bak' = [bak EXCEPT ![q] = T(q)] /\ WritesTarget(q, Absent) /\ src' = src
       \/ /\ pc[q] = "publish" /\ src' = src /\ bak' = bak /\ WritesTarget(q, buf[q])
          /\ \/ pc'[q] = "verify" /\ bak[q] = Absent
             \/ pc'[q] = "cleanup" /\ bak[q] # Absent
             \/ pc'[q] = "failing"
       \/ /\ pc[q] = "publish" /\ pc'[q] = "failing" /\ bak[q] # Absent /\ src' = src
          /\ WritesTarget(q, bak[q]) /\ bak' = [bak EXCEPT ![q] = Absent]
       \/ pc[q] = "publish" /\ pc'[q] = "failing" /\ UNCHANGED fileVars
       \/ /\ pc[q] = "cleanup" /\ pc'[q] = "verify" /\ src' = src /\ dst' = dst
          /\ bak' = [bak EXCEPT ![q] = Absent]
       \/ /\ pc[q] = "remove" /\ pc'[q] = "set_removed"
          /\ TakesSource(q) /\ dst' = dst /\ bak' = bak

\* These are the steps there are.
LEMMA Deeds ==
    ASSUME TypeOK, PlacesTyped, NEW q \in Owner, Step(q)
    PROVE  Aside(q) \/ Sees(q) \/ Fills(q) \/ Does(q)
<1>0. UNCHANGED buf \/ buf' = [buf EXCEPT ![q] = Absent] => Lightened(q)
  BY DEF TypeOK, Lightened
<1>1. CASE CheckTarget(q)
  <2>1. /\ UNCHANGED fileVars /\ UNCHANGED placeVars /\ UNCHANGED buf /\ pc[q] = "check_target"
    BY <1>1 DEF CheckTarget, Require
  <2>2. \/ pc'[q] \in {"set_promoted", "failing"}
        \/ T(q) = Absent /\ S(q) = Want(q) /\ pc'[q] = FirstTransport
    BY <1>1, Goes DEF CheckTarget
  <2> QED BY <2>1, <2>2, FirstTransports DEF Sees
<1>2. CASE RenameCheck(q)
  <2>1. \/ T(q) = Absent /\ Goto(q, "rename")
        \/ Goto(q, "rename_recheck")
    BY <1>2 DEF RenameCheck
  <2> QED BY <1>2, <2>1, Goes DEF RenameCheck, Sees
<1>3. CASE RenameRecheck(q)
  <2>1. \/ S(q) # Absent /\ T(q) = Absent /\ Goto(q, "stream")
        \/ Goto(q, "verify") \/ Goto(q, "failing")
    BY <1>3 DEF RenameRecheck
  <2> QED BY <1>3, <2>1, Goes DEF RenameRecheck, Sees
<1>4. CASE Stream(q) \/ StageCopy(q)
  <2>1. /\ pc[q] \in {"stream", "stage_copy"} /\ UNCHANGED fileVars /\ UNCHANGED placeVars
        /\ \/ Goto(q, "failing") /\ UNCHANGED buf
           \/ S(q) # Absent /\ Fill(q, S(q))
           \/ S(q) # Absent /\ CutStreams /\ Fill(q, Torn)
    <3>1. Want(q) # Absent
      BY Here, FileAssumption DEF Want
    <3> QED BY <1>4, <3>1 DEF Stream, StageCopy
  <2>2. CASE Goto(q, "failing") /\ UNCHANGED buf
    BY <2>1, <2>2, Goes DEF Sees
  <2>3. CASE S(q) # Absent /\ (Fill(q, S(q)) \/ (CutStreams /\ Fill(q, Torn)))
    BY <2>1, <2>3, Goes DEF Fill, Fills
  <2> QED BY <2>1, <2>2, <2>3
<1>5. CASE LookToRemove(q)
  <2>1. (T(q) = Want(q) /\ Goto(q, "check_source")) \/ Goto(q, "failing")
    BY <1>5 DEF LookToRemove
  <2> QED BY <1>5, <2>1, Goes DEF LookToRemove, Sees
<1>6. CASE CheckSource(q)
  <2>1. /\ UNCHANGED fileVars /\ UNCHANGED placeVars /\ UNCHANGED buf /\ pc[q] = "check_source"
    BY <1>6 DEF CheckSource, Require
  <2>2. pc'[q] \in {"set_removed", "failing"} \/ (S(q) = Want(q) /\ pc'[q] = "remove")
    BY <1>6, Goes DEF CheckSource
  <2> QED BY <2>1, <2>2 DEF Sees
<1>7. CASE ServerRename(q)
  BY <1>0, <1>7, Goes DEF ServerRename, Sees, Does, WritesTarget, TakesSource, fileVars
<1>8. CASE HardLink(q)
  <2>1. CASE Goto(q, "failing") /\ UNCHANGED <<dst, buf>>
    BY <1>8, <2>1, Goes DEF HardLink, Sees, fileVars
  <2>2. CASE /\ S(q) # Absent /\ T(q) = Absent
             /\ WritesTarget(q, S(q)) /\ Goto(q, "verify") /\ UNCHANGED buf
    BY <1>0, <1>8, <2>2, Goes DEF HardLink, Does
  <2>3. CASE S(q) # Absent /\ Fill(q, S(q)) /\ UNCHANGED dst
    BY <1>8, <2>3, Goes DEF HardLink, Fill, Fills, fileVars
  <2> QED BY <1>8, <2>1, <2>2, <2>3 DEF HardLink, WritesTarget
<1>9. CASE Upload(q)
  <2>1. CASE ToFtp
    <3>1. /\ pc[q] = "upload" /\ UNCHANGED fileVars /\ UNCHANGED placeVars /\ UNCHANGED buf
      BY <1>9, <2>1 DEF Upload, fileVars
    <3>2. Goto(q, "publish") \/ (T(q) # Absent /\ Goto(q, "protect"))
      BY <1>9, <2>1 DEF Upload
    <3> QED BY <3>1, <3>2, Goes DEF Sees
  <2>2. CASE ~ToFtp
    BY <1>0, <1>9, <2>2, Goes DEF Upload, Does, WritesTarget
  <2> QED BY <2>1, <2>2
<1>10. CASE Protect(q)
  <2>1. CASE T(q) = Absent
    BY <1>10, <2>1, Goes DEF Protect, Sees, fileVars
  <2>2. CASE T(q) # Absent
    BY <1>0, <1>10, <2>2, Goes DEF Protect, Does, WritesTarget
  <2> QED BY <2>1, <2>2
<1>11. CASE Publish(q)
  <2>1. /\ pc[q] = "publish" /\ UNCHANGED placeVars /\ src' = src
        /\ Lightened(q)
    BY <1>0, <1>11 DEF Publish
  <2>2. CASE /\ WritesTarget(q, buf[q]) /\ UNCHANGED bak
             /\ Goto(q, IF bak[q] = Absent THEN "verify" ELSE "cleanup")
    BY <2>1, <2>2, Goes DEF Does
  <2>3. CASE /\ Goto(q, "failing")
             /\ \/ UNCHANGED <<dst, bak>>
                \/ WritesTarget(q, buf[q]) /\ UNCHANGED bak
                \/ /\ bak[q] # Absent /\ WritesTarget(q, bak[q])
                   /\ bak' = [bak EXCEPT ![q] = Absent]
    BY <2>1, <2>3, Goes DEF Does, fileVars
  <2> QED BY <1>11, <2>2, <2>3 DEF Publish, WritesTarget
<1>12. CASE Cleanup(q)
  BY <1>0, <1>12, Goes DEF Cleanup, Does
<1>13. CASE Remove(q)
  <2>1. CASE S(q) = Absent
    BY <1>13, <2>1, Goes DEF Remove, Sees, fileVars
  <2>2. CASE S(q) # Absent
    BY <1>0, <1>13, <2>2, Goes DEF Remove, Does, TakesSource
  <2> QED BY <2>1, <2>2
<1> QED BY <1>1, <1>2, <1>3, <1>4, <1>5, <1>6, <1>7, <1>8, <1>9, <1>10, <1>11, <1>12, <1>13,
          StepsAside DEF Step, CheckOnly, FileWrite

\* What one process holds, another one's step does not touch.
LEMMA HandsElsewhere ==
    ASSUME TypeOK, PlacesTyped, NEW q \in Owner, Step(q), NEW p \in Owner, p # q
    PROVE  buf'[p] = buf[p] /\ bak'[p] = bak[p]
<1>1. bak \in [Owner -> File] /\ buf \in [Owner -> File]
  BY DEF TypeOK
<1> QED BY <1>1, Deeds DEF Aside, Sees, Fills, Does, Lightened, fileVars

-----------------------------------------------------------------------------
(***************************************************************************)
(* ForeignKept.  Nobody acts between a check and the write that relies on  *)
(* it, so a process in the window has foreign content neither before it    *)
(* nor in its hands.                                                       *)
(***************************************************************************)
ForeignLocal(p) ==
    /\ pc[p] \in Carrying => T(p) # Foreign /\ S(p) # Foreign
    /\ pc[p] = "remove" => S(p) # Foreign
    /\ buf[p] # Foreign /\ bak[p] # Foreign

ForeignInv == \A p \in Owner : ForeignLocal(p)

\* The foreign files are the same ones after a step of the program.
ForeignSame ==
    /\ \A t \in Target : dst'[t] = Foreign <=> dst[t] = Foreign
    /\ \A s \in Source : src'[s] = Foreign <=> src[s] = Foreign

LEMMA ForeignFrame ==
    ASSUME TypeOK, PlacesTyped, NEW q \in Owner, ForeignLocal(q), Step(q)
    PROVE  ForeignSame
<1>1. /\ src \in [Source -> File] /\ dst \in [Target -> File]
      /\ A(q).source \in Source /\ A(q).target \in Target /\ Absent # Foreign
  BY Here, FileAssumption DEF TypeOK
<1>2. ASSUME UNCHANGED src \/ (TakesSource(q) /\ S(q) # Foreign)
      PROVE  \A s \in Source : src'[s] = Foreign <=> src[s] = Foreign
  BY <1>1, <1>2 DEF TakesSource, S
<1>3. ASSUME NEW content, content # Foreign, T(q) # Foreign,
             UNCHANGED dst \/ WritesTarget(q, content)
      PROVE  \A t \in Target : dst'[t] = Foreign <=> dst[t] = Foreign
  BY <1>1, <1>3 DEF WritesTarget, T
<1>4. UNCHANGED dst => \A t \in Target : dst'[t] = Foreign <=> dst[t] = Foreign
  OBVIOUS
<1>5. CASE Aside(q) \/ Sees(q) \/ Fills(q)
  BY <1>2, <1>4, <1>5 DEF Aside, Sees, Fills, ForeignSame, fileVars
<1>6. CASE Does(q)
  <2>1. buf[q] # Foreign /\ bak[q] # Foreign
    BY DEF ForeignLocal
  <2>2. pc[q] \in {"rename", "hard_link", "upload", "protect", "publish"}
          => T(q) # Foreign /\ S(q) # Foreign
    BY DEF ForeignLocal, Carrying
  <2>3. pc[q] = "remove" => S(q) # Foreign
    BY DEF ForeignLocal
  <2>4. UNCHANGED src \/ (TakesSource(q) /\ S(q) # Foreign)
    BY <1>6, <2>2, <2>3 DEF Does, fileVars
  <2>5. \/ UNCHANGED dst
        \/ T(q) # Foreign /\ \E content \in {S(q), buf[q], bak[q], Absent} :
              content # Foreign /\ WritesTarget(q, content)
    BY <1>1, <1>6, <2>1, <2>2 DEF Does, fileVars
  <2> QED BY <1>2, <1>3, <1>4, <2>4, <2>5 DEF ForeignSame
<1> QED BY <1>5, <1>6, Deeds

\* A step of a process leaves it, and every other, with nothing foreign.
LEMMA ForeignLocalKept ==
    ASSUME TypeOK, PlacesTyped, ForeignInv, NEW q \in Owner, Step(q), NEW p \in Owner
    PROVE  ForeignLocal(p)'
<1>1. /\ ForeignLocal(p) /\ ForeignLocal(q) /\ ForeignSame
      /\ A(p).source \in Source /\ A(p).target \in Target
      /\ bak \in [Owner -> File] /\ buf \in [Owner -> File]
      /\ Absent # Foreign /\ Torn # Foreign /\ Want(p) # Foreign
  BY ForeignFrame, Here, FileAssumption DEF ForeignInv, TypeOK, Want
<1>2. CASE p # q
  <2>1. pc'[p] = pc[p] /\ A(p)' = A(p)
    BY <1>2, StepElsewhere DEF Elsewhere, A, Acts, J
  <2>2. buf'[p] = buf[p] /\ bak'[p] = bak[p]
    BY <1>2, HandsElsewhere
  <2> QED BY <1>1, <2>1, <2>2 DEF ForeignLocal, ForeignSame, T, S
<1>3. CASE p = q
  <2>1. UNCHANGED placeVars => A(p)' = A(p)
    BY DEF placeVars, A, Acts, J
  <2>2. UNCHANGED placeVars /\ T(p) # Foreign /\ S(p) # Foreign
          => dst'[A(p)'.target] # Foreign /\ src'[A(p)'.source] # Foreign
    BY <1>1, <2>1 DEF ForeignSame, T, S
  <2>3. UNCHANGED placeVars /\ S(p) # Foreign => src'[A(p)'.source] # Foreign
    BY <1>1, <2>1 DEF ForeignSame, S
  <2>4. CASE Aside(q)
    BY <1>1, <1>3, <2>4 DEF Aside, Lightened, ForeignLocal, fileVars, Carrying
  <2>5. CASE Sees(q)
    <3>1. buf'[p] # Foreign /\ bak'[p] # Foreign
      BY <1>1, <2>5 DEF Sees, ForeignLocal, fileVars
    <3>2. pc'[p] \in Carrying => T(p) # Foreign /\ S(p) # Foreign
      BY <1>1, <1>3, <2>5 DEF Sees, ForeignLocal, Carrying
    <3>3. pc'[p] = "remove" => S(p) # Foreign
      BY <1>1, <1>3, <2>5 DEF Sees
    <3> QED BY <2>2, <2>3, <2>5, <3>1, <3>2, <3>3 DEF Sees, ForeignLocal, T, S
  <2>6. CASE Fills(q)
    <3>1. T(p) # Foreign /\ S(p) # Foreign
      BY <1>1, <1>3, <2>6 DEF Fills, ForeignLocal, Carrying
    <3>2. buf'[p] # Foreign /\ bak'[p] # Foreign
      BY <1>1, <1>3, <2>6, <3>1 DEF Fills, ForeignLocal, fileVars
    <3> QED BY <2>2, <2>6, <3>1, <3>2 DEF Fills, ForeignLocal, T, S
  <2>7. CASE Does(q)
    <3>1. pc'[p] \in Carrying => pc[p] \in Carrying
      BY <1>3, <2>7 DEF Does, Carrying
    <3>2. pc'[p] # "remove"
      BY <1>3, <2>7 DEF Does
    <3>3. buf'[p] # Foreign
      BY <1>1, <2>7 DEF Does, Lightened, ForeignLocal
    <3>4. bak'[p] # Foreign
      <4>1. pc[p] = "protect" => T(p) # Foreign
        BY <1>1 DEF ForeignLocal, Carrying
      <4> QED BY <1>1, <1>3, <2>7, <4>1 DEF Does, ForeignLocal, fileVars
    <3> QED BY <1>1, <2>2, <2>7, <3>1, <3>2, <3>3, <3>4 DEF Does, ForeignLocal, T, S
  <2> QED BY <1>3, <2>4, <2>5, <2>6, <2>7, Deeds
<1> QED BY <1>2, <1>3

ForeignStep ==
    /\ \A t \in Target : edits' = edits /\ dst[t] = Foreign => dst'[t] = Foreign
    /\ \A s \in Source : edits' = edits /\ src[s] = Foreign => src'[s] = Foreign

LEMMA ForeignKeeps ==
    ASSUME EditRaces = FALSE, TypeInv, ForeignInv, [Next]_vars
    PROVE  ForeignInv' /\ ForeignStep
<1>1. TypeOK /\ PlacesTyped
  BY TypeInvParts DEF TypeInv
<1>2. ASSUME NEW q \in Owner, Step(q) PROVE ForeignInv' /\ ForeignStep
  <2>1. ForeignSame
    BY <1>1, <1>2, ForeignFrame DEF ForeignInv
  <2>2. \A p \in Owner : ForeignLocal(p)'
    BY <1>1, <1>2, ForeignLocalKept
  <2> QED BY <2>1, <2>2 DEF ForeignInv, ForeignSame, ForeignStep
<1>3. ASSUME UNCHANGED <<plan, item, idx, pc, buf, bak>> PROVE
         /\ \A p \in Owner : J(p)' = J(p) /\ Acts(p)' = Acts(p) /\ A(p)' = A(p)
         /\ UNCHANGED <<src, dst>> => ForeignInv' /\ ForeignStep
  <2>1. \A p \in Owner : J(p)' = J(p) /\ Acts(p)' = Acts(p) /\ A(p)' = A(p)
    BY <1>3 DEF J, Acts, A
  <2>2. ASSUME UNCHANGED <<src, dst>> PROVE ForeignInv' /\ ForeignStep
    BY <1>3, <2>1, <2>2 DEF ForeignInv, ForeignLocal, ForeignStep, T, S
  <2> QED BY <2>1, <2>2
<1>4. ASSUME NEW j \in Job, LeaseRunsOut(j) PROVE ForeignInv' /\ ForeignStep
  BY <1>3, <1>4 DEF LeaseRunsOut, fileVars, placeVars
<1>5. CASE Edit
  <2>1. edits' # edits
    BY <1>1, <1>5, FileAssumption DEF Edit, TypeOK
  <2>2. \A p \in Owner : pc[p] \notin Carrying /\ pc[p] # "remove"
    BY <1>5 DEF Edit, Window, Carrying
  <2>3. UNCHANGED <<pc, buf, bak>>
    BY <1>5 DEF Edit
  <2> QED BY <2>1, <2>2, <2>3 DEF ForeignInv, ForeignLocal, ForeignStep
<1>6. CASE UNCHANGED vars
  BY <1>3, <1>6 DEF vars
<1> QED BY <1>2, <1>4, <1>5, <1>6, Steps DEF Step

\* Whatever plans run, crash, lose their leases or cut their streams: content that
\* was not planned is not replaced, moved or deleted, as long as other programs
\* leave alone the moment between a check and its use (executor.rs:292-299, 394-424).
THEOREM ForeignIsKept ==
    ASSUME EditRaces = FALSE
    PROVE  Spec => ForeignKept
<1>1. Init => ForeignInv
  BY FileAssumption DEF Init, ForeignInv, ForeignLocal, Carrying
<1>2. TypeInv /\ ForeignInv /\ [Next]_vars => ForeignInv'
  BY ForeignKeeps
<1>3. TypeInv /\ ForeignInv /\ [Next]_vars => [ForeignStep]_vars
  BY ForeignKeeps
<1>4. ForeignKept <=> [][ForeignStep]_vars
  BY DEF ForeignKept, ForeignStep
<1> QED BY <1>1, <1>2, <1>3, <1>4, InitTyped, TypeInvKept, PTL DEF Spec

-----------------------------------------------------------------------------
(***************************************************************************)
(* NoDataLoss, where leases run out as they like and a stream is not cut   *)
(* unnoticed.  A destination is reserved for one action for good, so all   *)
(* who write it bring the same bytes, or hold them in a backup.            *)
(***************************************************************************)
LEMMA BookInit == Init => BookInv
BY SafeInit, SafeParts

LEMMA BookKept ==
    ASSUME BookInv, [Next]_vars
    PROVE  BookInv'
<1>1. TypeInv' /\ OneReservation'
  BY BookParts, TypeInvKept, LedgerStep, ReservationKept
<1>2. ASSUME NEW q \in Owner, Step(q) PROVE BookInv'
  <2>1. AsPlanned' /\ \A p \in Owner : Reserver(p)'
    BY <1>2, AsPlannedKept, ReserverKept, OthersReserve
  <2> QED BY <1>1, <2>1 DEF BookInv
<1>3. ASSUME UNCHANGED <<actions, plan, item, idx, pc>> PROVE BookInv'
  <2>1. AsPlanned'
    BY <1>3, BookParts DEF AsPlanned, Registered
  <2>2. ASSUME NEW p \in Owner PROVE Reserver(p)'
    <3>1. J(p)' = J(p) /\ Acts(p)' = Acts(p)
      BY <1>3 DEF J, Acts
    <3> QED BY <1>3, <3>1, BookParts DEF Reserver, Registered
  <2> QED BY <1>1, <2>1, <2>2 DEF BookInv
<1>4. ASSUME NEW j \in Job, LeaseRunsOut(j) PROVE BookInv'
  BY <1>3, <1>4 DEF LeaseRunsOut, placeVars
<1>5. CASE Edit
  BY <1>3, <1>5 DEF Edit, placeVars, tableVars
<1>6. CASE UNCHANGED vars
  BY <1>3, <1>6 DEF vars
<1> QED BY <1>2, <1>4, <1>5, <1>6, Steps DEF Step

\* Two processes that bring files to one destination are at the same action.
LEMMA SameAction ==
    ASSUME BookInv, NEW p \in Owner, NEW q \in Owner, pc[p] \in Carrying, pc[q] \in Carrying,
           A(p).target = A(q).target
    PROVE  J(p) = J(q) /\ A(p) = A(q)
<1>1. Carrying \subseteq AtJob \ {"register"}
  BY DEF Carrying, AtJob, PC
<1>2. /\ J(p) \in Job /\ idx[p] \in DOMAIN Acts(p) /\ idx[p] \in Index
      /\ J(q) \in Job /\ idx[q] \in DOMAIN Acts(q) /\ idx[q] \in Index
  BY BookParts, Here DEF Acts
<1>3. Registered(J(p), idx[p]) /\ Registered(J(q), idx[q])
  BY <1>1, <1>2, BookParts DEF Reserver
<1>4. J(p) = J(q) /\ idx[p] = idx[q]
  BY <1>2, <1>3, TargetOnce DEF A, Acts
<1> QED BY <1>4 DEF A, Acts

\* The planned bytes are at a destination planned for them, or in a backup that
\* is not about to be deleted.
Arrived(s) ==
    \/ \E a \in PlannedActions : a.source = s /\ Placed(a)
    \/ \E p \in Owner : bak[p] = s /\ pc[p] # "cleanup"

\* At the places where no upload is under way or has just failed.
Unbacked == PC \ {"publish", "cleanup", "failing", "off"}

Carried(p) ==
    /\ pc[p] \in Carrying => T(p) \in {Absent, Want(p)}
    /\ pc[p] \in {"upload", "protect", "publish"} => buf[p] = Want(p)
    /\ pc[p] \in {"publish", "cleanup"} => bak[p] \in {Absent, Want(p)}
    /\ pc[p] \in Unbacked => bak[p] = Absent
    /\ pc[p] \in {"cleanup", "check_source", "remove"} => Arrived(Want(p))

\* Nobody but the program has touched the sources.
Pristine == \A s \in Source : src[s] \in {s, Absent}

LossInv == Pristine /\ \A p \in Owner : Carried(p)

LEMMA PlannedHere ==
    ASSUME TypeOK, NEW p \in Owner
    PROVE  /\ A(p) \in PlannedActions /\ A(p).source \in Source /\ A(p).target \in Target
           /\ Want(p) = A(p).source /\ Want(p) # Absent /\ Want(p) \in Source
           /\ A(p) = [source |-> A(p).source, target |-> A(p).target]
<1>1. /\ J(p) \in Job /\ idx[p] \in DOMAIN ActionsOf[J(p)] /\ A(p).source \in Source
      /\ A(p).target \in Target
  BY Here
<1>2. A(p) \in FileAction
  BY <1>1, ActionOf DEF A, Acts
<1> QED BY <1>1, <1>2, FileAssumption DEF A, Acts, PlannedActions, Want, FileAction

LEMMA PlannedTyped ==
    ASSUME NEW a \in PlannedActions
    PROVE  /\ a.source \in Source /\ a.target \in Target
           /\ a = [source |-> a.source, target |-> a.target]
<1>1. PICK j \in Job : \E i \in DOMAIN ActionsOf[j] : a = ActionsOf[j][i]
  BY DEF PlannedActions
<1>2. a \in FileAction
  BY <1>1, ActionOf
<1> QED BY <1>2 DEF FileAction

\* What a process brings to its destination is what was planned for it, or it
\* takes the same away to bring it back.
LEMMA Brings ==
    ASSUME BookInv, LossInv, NEW q \in Owner, Does(q)
    PROVE  /\ \/ dst' = dst
              \/ pc[q] \in Carrying /\ WritesTarget(q, Want(q))
              \/ pc[q] = "protect" /\ WritesTarget(q, Absent)
           /\ \/ src' = src
              \/ pc[q] = "rename" /\ TakesSource(q) /\ WritesTarget(q, Want(q))
              \/ pc[q] = "remove" /\ TakesSource(q)
<1>1. TypeOK /\ Carried(q)
  BY BookParts DEF LossInv
<1>2. S(q) # Absent => S(q) = Want(q)
  BY <1>1, PlannedHere DEF LossInv, Pristine, S
<1>3. pc[q] \in {"upload", "publish"} => buf[q] = Want(q)
  BY <1>1 DEF Carried
<1>4. pc[q] = "publish" /\ bak[q] # Absent => bak[q] = Want(q)
  BY <1>1 DEF Carried
<1>5. {"rename", "hard_link", "upload", "publish"} \subseteq Carrying
  BY DEF Carrying
<1> QED BY <1>2, <1>3, <1>4, <1>5 DEF Does, fileVars

\* What has arrived stays.
LEMMA ArrivedStays ==
    ASSUME BookInv, LossInv, NEW q \in Owner, Step(q), NEW s \in Source, Arrived(s)
    PROVE  Arrived(s)'
<1>1. /\ TypeOK /\ PlacesTyped /\ Carried(q) /\ s # Absent
      /\ dst \in [Target -> File] /\ bak \in [Owner -> File] /\ pc \in [Owner -> PC]
  BY BookParts, FileAssumption DEF LossInv, TypeOK
<1>2. /\ A(q) \in PlannedActions /\ A(q).target \in Target /\ Want(q) = A(q).source
      /\ A(q) = [source |-> A(q).source, target |-> A(q).target]
  BY <1>1, PlannedHere
<1>3. ASSUME NEW a \in PlannedActions, dst'[a.target] = a.source, a.source = s
      PROVE  Arrived(s)'
  BY <1>3 DEF Arrived, Placed, PlannedActions
<1>4. ASSUME NEW p \in Owner, bak'[p] = s, pc'[p] # "cleanup" PROVE Arrived(s)'
  BY <1>4 DEF Arrived
<1>5. ASSUME Want(q) = s, WritesTarget(q, Want(q)) PROVE Arrived(s)'
  BY <1>1, <1>2, <1>3, <1>5 DEF WritesTarget
<1>6. ASSUME NEW a \in PlannedActions, a.source = s, dst[a.target] = s PROVE Arrived(s)'
  <2>1. a.target \in Target /\ a = [source |-> a.source, target |-> a.target]
    BY PlannedTyped
  <2>2. CASE dst'[a.target] = dst[a.target]
    BY <1>3, <1>6, <2>2
  <2>3. CASE dst'[a.target] # dst[a.target]
    <3>1. Does(q)
      BY <1>1, <2>3, Deeds DEF Aside, Sees, Fills, fileVars
    <3>2. A(q).target = a.target /\ pc[q] \in Carrying
      BY <1>1, <2>1, <2>3, <3>1, Brings DEF WritesTarget, Carrying
    <3>3. Want(q) = s
      BY <1>1, <1>6, <3>2 DEF Carried, T
    <3>4. CASE WritesTarget(q, Want(q))
      BY <1>5, <3>3, <3>4
    <3>5. CASE pc[q] = "protect"
      <4>1. bak'[q] = T(q) /\ pc'[q] = "publish"
        BY <1>1, <3>1, <3>5 DEF Does
      <4> QED BY <1>4, <1>6, <3>2, <4>1 DEF T
    <3> QED BY <2>3, <3>1, <3>4, <3>5, Brings
  <2> QED BY <2>2, <2>3
<1>7. ASSUME NEW p \in Owner, bak[p] = s, pc[p] # "cleanup" PROVE Arrived(s)'
  <2>1. CASE p # q
    <3>1. bak'[p] = bak[p] /\ pc'[p] = pc[p]
      BY <1>1, <2>1, HandsElsewhere, StepElsewhere DEF Elsewhere
    <3> QED BY <1>4, <1>7, <3>1
  <2>2. CASE p = q
    <3>1. pc[q] \in {"publish", "failing", "off"}
      BY <1>1, <1>7, <2>2 DEF Carried, Unbacked
    <3>2. pc[q] = "publish" => Want(q) = s
      BY <1>1, <1>7, <2>2 DEF Carried
    <3>3. CASE Does(q)
      <4>1. WritesTarget(q, buf[q]) \/ WritesTarget(q, bak[q]) \/ (bak' = bak /\ pc'[q] = "failing")
        BY <3>1, <3>3 DEF Does, fileVars
      <4>2. pc[q] = "publish" /\ buf[q] = Want(q)
        BY <1>1, <3>1, <3>3 DEF Does, Carried
      <4> QED BY <1>4, <1>5, <1>7, <2>2, <3>2, <4>1, <4>2
    <3>4. CASE Aside(q) \/ Sees(q) \/ Fills(q)
      BY <1>4, <1>7, <2>2, <3>1, <3>4 DEF Aside, Sees, Fills, fileVars
    <3> QED BY <1>1, <3>3, <3>4, Deeds
  <2> QED BY <2>1, <2>2
<1> QED BY <1>6, <1>7 DEF Arrived, Placed

\* A destination that is free for a process, or holds its bytes, stays so.
LEMMA TargetClean ==
    ASSUME BookInv, LossInv, NEW q \in Owner, Step(q), NEW p \in Owner,
           pc[p] \in Carrying, T(p) \in {Absent, Want(p)}
    PROVE  dst'[A(p).target] \in {Absent, Want(p)}
<1>1. /\ TypeOK /\ PlacesTyped /\ dst \in [Target -> File] /\ A(p).target \in Target
      /\ A(q).target \in Target
  BY BookParts, Here DEF TypeOK
<1>2. CASE dst'[A(p).target] = dst[A(p).target]
  BY <1>2 DEF T
<1>3. CASE dst'[A(p).target] # dst[A(p).target]
  <2>1. Does(q)
    BY <1>1, <1>3, Deeds DEF Aside, Sees, Fills, fileVars
  <2>2. /\ pc[q] \in Carrying /\ A(q).target = A(p).target
        /\ dst'[A(p).target] \in {Absent, Want(q)}
    BY <1>1, <1>3, <2>1, Brings DEF WritesTarget, Carrying
  <2>3. A(p) = A(q)
    BY <2>2, SameAction
  <2> QED BY <2>2, <2>3 DEF Want
<1> QED BY <1>2, <1>3

LEMMA CarriedElsewhere ==
    ASSUME BookInv, LossInv, NEW q \in Owner, Step(q), NEW p \in Owner, p # q
    PROVE  Carried(p)'
<1>1. TypeOK /\ PlacesTyped /\ Carried(p) /\ Want(p) \in Source
  BY BookParts, PlannedHere DEF LossInv
<1>2. pc'[p] = pc[p] /\ A(p)' = A(p) /\ Want(p)' = Want(p)
  BY <1>1, StepElsewhere DEF Elsewhere, A, Acts, J, Want
<1>3. buf'[p] = buf[p] /\ bak'[p] = bak[p]
  BY <1>1, HandsElsewhere
<1>4. pc[p] \in Carrying => T(p)' \in {Absent, Want(p)}
  BY <1>1, <1>2, TargetClean DEF Carried, T
<1>5. ASSUME pc[p] \in {"cleanup", "check_source", "remove"} PROVE Arrived(Want(p))'
  <2>1. ASSUME NEW s \in Source, s = Want(p) PROVE Arrived(s)'
    BY <1>1, <1>5, <2>1, ArrivedStays DEF Carried
  <2> QED BY <1>1, <1>2, <2>1
<1> QED BY <1>1, <1>2, <1>3, <1>4, <1>5 DEF Carried

LEMMA CarriedHere ==
    ASSUME CutStreams = FALSE, BookInv, LossInv, NEW q \in Owner, Step(q)
    PROVE  Carried(q)'
<1>1. /\ TypeOK /\ PlacesTyped /\ Carried(q) /\ Want(q) \in Source /\ pc[q] \in PC
      /\ pc'[q] \in PC
      /\ dst \in [Target -> File] /\ bak \in [Owner -> File] /\ buf \in [Owner -> File]
  <2>1. TypeInv /\ Next
    BY BookParts DEF Step, StoreAction, FileWrite, CheckOnly, Outside, Next, Run, Promote,
       RemoveSources
  <2>2. TypeInv'
    BY <2>1, TypeInvKept
  <2> QED BY <2>2, BookParts, PlannedHere DEF LossInv, TypeInv, TypeOK
<1>2. /\ A(q) \in PlannedActions /\ A(q).target \in Target /\ Want(q) = A(q).source
  BY <1>1, PlannedHere
<1>3. S(q) # Absent => S(q) = Want(q)
  BY <1>1, PlannedHere DEF LossInv, Pristine, S
<1>4. ASSUME UNCHANGED placeVars PROVE A(q)' = A(q) /\ Want(q)' = Want(q)
  BY <1>4 DEF placeVars, A, Acts, J, Want
<1>5. ASSUME UNCHANGED fileVars, UNCHANGED placeVars PROVE T(q)' = T(q)
  BY <1>4, <1>5 DEF fileVars, T
<1>6. ASSUME NEW s \in Source, s = Want(q), Arrived(s), UNCHANGED placeVars
      PROVE  Arrived(Want(q))'
  <2>1. Arrived(s)'
    BY <1>6, ArrivedStays
  <2> QED BY <1>4, <1>6, <2>1
<1>7. ASSUME dst'[A(q).target] = Want(q), UNCHANGED placeVars PROVE Arrived(Want(q))'
  BY <1>2, <1>4, <1>7 DEF Arrived, Placed, PlannedActions
<1>8. CASE Aside(q)
  <2>1. pc'[q] \in Unbacked => bak'[q] = Absent
    BY <1>1, <1>8 DEF Aside, Carried, Unbacked, fileVars
  <2>2. pc'[q] \notin {"upload", "protect", "publish"}
    BY <1>8 DEF Aside, Carrying
  <2> QED BY <1>8, <2>1, <2>2 DEF Aside, Carried
<1>9. CASE Sees(q)
  <2>1. UNCHANGED fileVars /\ UNCHANGED placeVars /\ UNCHANGED buf
    BY <1>9 DEF Sees
  <2>2. pc'[q] \in Carrying => T(q) \in {Absent, Want(q)}
    BY <1>1, <1>9 DEF Sees, Carried, Carrying
  <2>3. pc'[q] \in {"upload", "protect", "publish"} => buf[q] = Want(q)
    BY <1>1, <1>9 DEF Sees, Carried
  <2>4. /\ pc'[q] \in {"publish", "cleanup"} => bak[q] \in {Absent, Want(q)}
        /\ pc'[q] \in Unbacked => bak[q] = Absent
    BY <1>1, <1>9 DEF Sees, Carried, Unbacked
  <2>5. ASSUME pc'[q] \in {"cleanup", "check_source", "remove"} PROVE Arrived(Want(q))'
    <3>1. CASE T(q) = Want(q)
      BY <1>7, <2>1, <3>1 DEF T, fileVars
    <3>2. CASE pc[q] = "check_source"
      BY <1>1, <1>6, <2>1, <3>2 DEF Carried
    <3> QED BY <1>9, <2>5, <3>1, <3>2 DEF Sees
  <2> QED BY <1>4, <1>5, <2>1, <2>2, <2>3, <2>4, <2>5 DEF Carried, fileVars
<1>10. CASE Fills(q)
  <2>1. /\ UNCHANGED fileVars /\ UNCHANGED placeVars /\ pc'[q] = "upload"
        /\ pc[q] \in {"stream", "hard_link", "stage_copy"}
    BY <1>10 DEF Fills
  <2>2. buf'[q] = Want(q)
    BY <1>1, <1>3, <1>10 DEF Fills
  <2>3. T(q) \in {Absent, Want(q)} /\ bak[q] = Absent
    BY <1>1, <2>1 DEF Carried, Carrying, Unbacked
  <2> QED BY <1>4, <1>5, <2>1, <2>2, <2>3 DEF Carried, fileVars
<1>11. CASE Does(q)
  <2>1. UNCHANGED placeVars
    BY <1>11 DEF Does
  <2>2. pc'[q] \in Carrying => T(q)' \in {Absent, Want(q)}
    <3>1. pc'[q] \in Carrying => pc[q] \in Carrying
      BY <1>11 DEF Does, Carrying
    <3> QED BY <1>1, <1>4, <2>1, <3>1, TargetClean DEF Carried, T
  <2>3. pc'[q] \in {"upload", "protect", "publish"} => buf'[q] = Want(q)
    BY <1>1, <1>11 DEF Does, Carried
  <2>4. /\ pc'[q] \in {"publish", "cleanup"} => bak'[q] \in {Absent, Want(q)}
        /\ pc'[q] \in Unbacked => bak'[q] = Absent
    <3>1. pc[q] = "protect" => T(q) \in {Absent, Want(q)}
      BY <1>1 DEF Carried, Carrying
    <3> QED BY <1>1, <1>11, <3>1 DEF Does, Carried, Unbacked, fileVars
  <2>5. ASSUME pc'[q] \in {"cleanup", "check_source", "remove"} PROVE Arrived(Want(q))'
    <3>1. pc[q] = "publish" /\ WritesTarget(q, buf[q])
      BY <1>11, <2>5 DEF Does
    <3>2. dst'[A(q).target] = Want(q)
      BY <1>1, <1>2, <3>1 DEF Carried, WritesTarget
    <3> QED BY <1>7, <2>1, <3>2
  <2> QED BY <1>4, <2>1, <2>2, <2>3, <2>4, <2>5 DEF Carried
<1> QED BY <1>1, <1>8, <1>9, <1>10, <1>11, Deeds

\* The step that makes the property: nothing is lost.
LEMMA KeptStays ==
    ASSUME BookInv, LossInv, NEW q \in Owner, Step(q), NEW s \in Source, Kept(s)
    PROVE  Kept(s)'
<1>1. /\ TypeOK /\ PlacesTyped /\ \A p \in Owner : Carried(p) /\ s # Absent
      /\ src \in [Source -> File] /\ dst \in [Target -> File]
  BY BookParts, FileAssumption DEF LossInv, TypeOK
<1>2. /\ A(q) \in PlannedActions /\ A(q).target \in Target /\ Want(q) = A(q).source
      /\ A(q).source \in Source
  BY <1>1, PlannedHere
<1>3. ASSUME Arrived(s)' PROVE Kept(s)'
  BY <1>3 DEF Arrived, Kept, Placed, PlannedActions
<1>4. CASE Arrived(s)
  BY <1>3, <1>4, ArrivedStays
<1>5. ASSUME NEW p \in Owner, bak[p] = s PROVE Kept(s)'
  <2>1. CASE pc[p] # "cleanup"
    BY <1>4, <1>5, <2>1 DEF Arrived
  <2>2. CASE pc[p] = "cleanup"
    <3>1. Want(p) = s /\ Arrived(Want(p))
      BY <1>1, <1>5, <2>2 DEF Carried
    <3> QED BY <1>4, <3>1
  <2> QED BY <2>1, <2>2
<1>6. CASE src[s] = s
  <2>1. CASE src'[s] = s
    BY <2>1 DEF Kept
  <2>2. CASE src'[s] # s
    <3>1. Does(q)
      BY <1>1, <1>6, <2>2, Deeds DEF Aside, Sees, Fills, fileVars
    <3>2. A(q).source = s /\ Want(q) = s
      BY <1>1, <1>2, <1>6, <2>2, <3>1, Brings DEF TakesSource
    <3>3. CASE pc[q] = "remove"
      <4>1. Arrived(Want(q))
        BY <1>1, <3>3 DEF Carried
      <4> QED BY <1>4, <3>2, <4>1
    <3>4. CASE WritesTarget(q, Want(q))
      <4>1. dst'[A(q).target] = s
        BY <1>1, <1>2, <3>2, <3>4 DEF WritesTarget
      <4> QED BY <1>2, <3>2, <4>1 DEF Kept, Placed, PlannedActions
    <3> QED BY <1>6, <2>2, <3>1, <3>3, <3>4, Brings
  <2> QED BY <2>1, <2>2
<1> QED BY <1>4, <1>5, <1>6 DEF Kept, Arrived

LossStep == \A s \in Source : edits' = 0 /\ Kept(s) => Kept(s)'

LEMMA LossKept ==
    ASSUME CutStreams = FALSE, BookInv, edits = 0 => LossInv, [Next]_vars
    PROVE  (edits' = 0 => LossInv') /\ LossStep
<1>1. TypeOK /\ PlacesTyped /\ edits \in Nat
  <2>1. edits \in 0..MaxEdits /\ MaxEdits \in Nat
    BY BookParts, FileAssumption DEF TypeOK
  <2> QED BY <2>1, BookParts
<1> SUFFICES ASSUME edits' = 0 PROVE LossInv' /\ LossStep
  BY DEF LossStep
<1>2. ASSUME NEW q \in Owner, Step(q) PROVE LossInv' /\ LossStep
  <2>1. edits = 0
    <3>1. UNCHANGED edits
      BY <1>2 DEF Step, StoreAction, FileWrite, CheckOnly, Outside, ClaimJob, Register, ToStaging,
         ToVerified, ToRemoving, Advance, RenewToPromote, RenewToRemove, RenewLease, SetPromoted,
         SetRemoved, Commit, FailJob, ServerRename, HardLink, Upload, Protect, Publish, Cleanup,
         Remove, Preflight, Recheck, Look, CheckTarget, RenameCheck, RenameRecheck, Stream,
         StageCopy, Verify, VerifyAll, VerifyEach, LookToRemove, CheckSource, FinalVerify,
         Require, IoError, Crash, Start, Fault, worldVars
    <3> QED BY <3>1
  <2>2. LossInv
    BY <2>1
  <2>3. Pristine'
    <3>1. \A s \in Source : src'[s] = src[s] \/ src'[s] = Absent
      BY <1>1, <1>2, FileFrame
    <3> QED BY <2>2, <3>1 DEF LossInv, Pristine
  <2>4. \A p \in Owner : Carried(p)'
    BY <1>2, <2>2, CarriedHere, CarriedElsewhere
  <2>5. LossStep
    BY <1>2, <2>2, KeptStays DEF LossStep
  <2> QED BY <2>3, <2>4, <2>5 DEF LossInv
<1>3. ASSUME UNCHANGED <<src, dst, bak, plan, item, idx, pc, buf, edits>>
      PROVE  LossInv' /\ LossStep
  <2>1. \A s : (Arrived(s)' <=> Arrived(s)) /\ (Kept(s)' <=> Kept(s))
    BY <1>3 DEF Arrived, Kept, Placed, PlannedActions
  <2>2. \A p \in Owner : T(p)' = T(p) /\ Want(p)' = Want(p)
    BY <1>3 DEF T, Want, A, Acts, J
  <2>3. Pristine'
    BY <1>3 DEF LossInv, Pristine
  <2>4. \A p \in Owner : Arrived(Want(p))' <=> Arrived(Want(p))
    BY <2>1, <2>2 DEF Arrived, Placed, PlannedActions
  <2>5. \A p \in Owner : Carried(p)'
    BY <1>3, <2>2, <2>4 DEF LossInv, Carried
  <2> QED BY <2>1, <2>3, <2>5 DEF LossInv, LossStep
<1>4. ASSUME NEW j \in Job, LeaseRunsOut(j) PROVE LossInv' /\ LossStep
  BY <1>3, <1>4 DEF LeaseRunsOut, fileVars, placeVars, worldVars
<1>5. ~Edit
  BY <1>1 DEF Edit
<1>6. CASE UNCHANGED vars
  BY <1>3, <1>6 DEF vars
<1> QED BY <1>2, <1>4, <1>5, <1>6, Steps DEF Step

\* Whatever plans run, even of the same files, wherever they crash and however
\* long they outstay their leases: the last copy of a planned file is never lost,
\* as long as no cut stream passes for a whole one (executor.rs:144-285,
\* storage/ftp.rs:542-610).
THEOREM NothingIsLost ==
    ASSUME CutStreams = FALSE
    PROVE  Spec => NoDataLoss
<1> DEFINE SafeYet == edits = 0 => LossInv
<1>1. Init => SafeYet
  BY FileAssumption DEF Init, LossInv, Pristine, Carried, Carrying, Unbacked
<1>2. BookInv /\ SafeYet /\ [Next]_vars => SafeYet'
  BY LossKept
<1>3. BookInv /\ SafeYet /\ [Next]_vars => [LossStep]_vars
  BY LossKept
<1>4. BookInv /\ [Next]_vars => BookInv'
  BY BookKept
<1>5. NoDataLoss <=> [][LossStep]_vars
  BY DEF NoDataLoss, LossStep
<1> HIDE DEF SafeYet
<1> QED BY <1>1, <1>2, <1>3, <1>4, <1>5, BookInit, PTL DEF Spec

-----------------------------------------------------------------------------
(***************************************************************************)
(* The refinement of Mover, where a working process keeps its lease and no *)
(* other program edits the files.  The loops over the actions: what lies   *)
(* behind a process is recorded, and stays recorded.                       *)
(***************************************************************************)
Gone(j, i) == actions[j][i].state = "SOURCE_REMOVED"

Bringing == Promoting \cup {"renew_promote", "look"}

Removing == {"renew_remove", "look_remove", "check_source", "remove", "set_removed"}

\* After the promotion loop and before the commit.
Brought == Removing \cup {"verify_all", "to_verified", "to_removing", "final_verify", "commit"}

Onward(p) ==
    /\ pc[p] \in {"to_staging", "to_verified", "to_removing"} => idx[p] = 1
    /\ pc[p] \in Bringing => \A i \in DOMAIN Acts(p) : i < idx[p] => Promoted(J(p), i)
    /\ pc[p] \in Brought => \A i \in DOMAIN Acts(p) : Promoted(J(p), i)
    /\ pc[p] \in Removing => \A i \in DOMAIN Acts(p) : i < idx[p] => Gone(J(p), i)
    /\ pc[p] \in {"final_verify", "commit"} => \A i \in DOMAIN Acts(p) : Gone(J(p), i)
    /\ pc[p] \in {"check_source", "remove", "set_removed"} /\ seen[p] = "SOURCE_REMOVED"
         => Gone(J(p), idx[p])

\* A loop over the actions goes on, or ends after the last.
Loops(q, again, after) ==
    /\ UNCHANGED <<plan, item>>
    /\ \/ pc'[q] = again /\ idx'[q] = idx[q] + 1
       \/ pc'[q] = after /\ idx'[q] = 1 /\ ~(idx[q] < Len(Acts(q)))

\* How a process comes to a place of the two loops.
Marches(q) ==
    \/ pc'[q] \notin Bringing \cup Brought \cup {"to_staging"}
    \/ pc[q] = "register" /\ pc'[q] = "to_staging" /\ idx'[q] = 1
    \/ pc[q] = "to_staging" /\ pc'[q] = "renew_promote" /\ UNCHANGED placeVars
    \/ pc[q] \in Bringing /\ pc'[q] \in Bringing /\ UNCHANGED placeVars
    \/ /\ pc[q] = "look" /\ Promoted(J(q), idx[q])
       /\ Loops(q, "renew_promote", "verify_all")
    \/ /\ pc[q] = "set_promoted" /\ Loops(q, "renew_promote", "verify_all")
       /\ SetActionState(J(q), idx[q], "PLANNED", "PROMOTED")
    \/ /\ pc[q] = "verify_all" /\ pc'[q] \in {"verify_all", "to_verified"}
       /\ UNCHANGED <<plan, item>> /\ (pc'[q] = "to_verified" => idx'[q] = 1)
    \/ pc[q] = "to_verified" /\ pc'[q] = "to_removing" /\ UNCHANGED placeVars
    \/ pc[q] = "to_removing" /\ pc'[q] = "renew_remove" /\ UNCHANGED placeVars
    \/ pc[q] = "renew_remove" /\ pc'[q] = "look_remove" /\ UNCHANGED placeVars
    \/ /\ pc[q] = "look_remove" /\ pc'[q] = "check_source" /\ UNCHANGED placeVars
       /\ seen'[q] = actions[J(q)][idx[q]].state
    \/ /\ pc[q] \in {"check_source", "remove"} /\ pc'[q] \in {"remove", "set_removed"}
       /\ UNCHANGED placeVars /\ seen'[q] = seen[q]
    \/ /\ pc[q] = "set_removed" /\ Loops(q, "renew_remove", "final_verify")
       /\ \/ SetActionState(J(q), idx[q], "PROMOTED", "SOURCE_REMOVED")
          \/ seen[q] = "SOURCE_REMOVED"
    \/ /\ pc[q] = "final_verify" /\ pc'[q] \in {"final_verify", "commit"}
       /\ UNCHANGED <<plan, item>>

LEMMA LoopsOn ==
    ASSUME PlacesTyped, NEW q \in Owner, NEW again, NEW after, NextAction(q, again, after),
           UNCHANGED <<plan, item>>
    PROVE  Loops(q, again, after)
BY Goes DEF Loops

\* Elsewhere than in the loops nothing is claimed of a process.
LEMMA FarFromLoops ==
    {"off", "preflight", "claim", "recheck", "register", "failing"}
      \cap (Bringing \cup Brought \cup {"to_staging"}) = {}
BY DEF Bringing, Brought, Removing, Promoting

LEMMA Marching ==
    ASSUME TypeOK, PlacesTyped, NEW q \in Owner, Step(q)
    PROVE  Marches(q)
<1> DEFINE Away(next) == next \notin Bringing \cup Brought \cup {"to_staging"}
<1>1. ASSUME Exit(q) \/ NextItem(q) \/ Goto(q, "failing") PROVE Marches(q)
  <2>1. pc'[q] \in {"off", "claim", "failing"}
    BY <1>1, Goes
  <2> QED BY <2>1, FarFromLoops DEF Marches
<1>2. ASSUME Goto(q, "recheck") \/ Goto(q, "register") \/ Goto(q, "preflight") \/ Goto(q, "claim")
      PROVE  Marches(q)
  <2>1. pc'[q] \in {"recheck", "register", "preflight", "claim"}
    BY <1>2, Goes
  <2> QED BY <2>1, FarFromLoops DEF Marches
<1>3. CASE StoreAction(q)
  <2>1. CASE ClaimJob(q)
    BY <1>1, <1>2, <2>1 DEF ClaimJob
  <2>2. CASE Register(q)
    <3>1. CASE NextAction(q, "register", "to_staging")
      <4>1. pc'[q] = "register" \/ (pc'[q] = "to_staging" /\ idx'[q] = 1)
        BY <3>1, Goes
      <4> QED BY <2>2, <4>1, FarFromLoops DEF Register, Marches
    <3> QED BY <1>1, <2>2, <3>1 DEF Register
  <2>3. CASE ToStaging(q) \/ ToVerified(q) \/ ToRemoving(q)
    BY <1>1, <2>3, Goes DEF ToStaging, ToVerified, ToRemoving, Advance, Marches
  <2>4. CASE RenewToPromote(q) \/ RenewToRemove(q)
    BY <1>1, <2>4, Goes DEF RenewToPromote, RenewToRemove, RenewLease, Marches, Bringing
  <2>5. CASE SetPromoted(q)
    BY <1>1, <2>5, LoopsOn DEF SetPromoted, Marches
  <2>6. CASE SetRemoved(q)
    BY <1>1, <2>6, LoopsOn DEF SetRemoved, Marches
  <2>7. CASE Commit(q) \/ FailJob(q)
    BY <1>1, <2>7 DEF Commit, FailJob
  <2> QED BY <1>3, <2>1, <2>2, <2>3, <2>4, <2>5, <2>6, <2>7 DEF StoreAction
<1>4. CASE FileWrite(q)
  <2>1. CASE Remove(q)
    <3>1. CASE Goto(q, "set_removed")
      BY <2>1, <3>1, Goes DEF Remove, Marches
    <3> QED BY <1>1, <2>1, <3>1 DEF Remove
  <2>2. CASE ~Remove(q)
    <3>1. /\ UNCHANGED placeVars /\ pc[q] \in Bringing
          /\ \/ \E next \in Bringing : Goto(q, next)
             \/ Goto(q, "failing")
      BY <1>4, <2>2 DEF FileWrite, ServerRename, HardLink, Upload, Protect, Publish, Cleanup,
         Fill, Bringing, Promoting
    <3> QED BY <1>1, <3>1, Goes DEF Marches
  <2> QED BY <2>1, <2>2
<1>5. CASE CheckOnly(q)
  <2>1. CASE Preflight(q)
    BY <1>1, <1>2, <2>1 DEF Preflight
  <2>2. CASE Recheck(q)
    <3>1. CASE NextAction(q, "recheck", "recheck")
      <4>1. pc'[q] = "recheck"
        BY <3>1, Goes
      <4> QED BY <4>1, FarFromLoops DEF Marches
    <3> QED BY <1>1, <2>2, <3>1 DEF Recheck
  <2>3. CASE Look(q)
    <3>1. CASE Goto(q, "check_target") /\ UNCHANGED idx
      BY <2>3, <3>1, Goes DEF Look, Marches, Bringing, Promoting, placeVars
    <3>2. CASE Promoted(J(q), idx[q]) /\ NextAction(q, "renew_promote", "verify_all")
      BY <2>3, <3>2, LoopsOn DEF Look, Marches
    <3> QED BY <1>1, <2>3, <3>1, <3>2 DEF Look
  <2>4. CASE CheckTarget(q) \/ RenameCheck(q) \/ RenameRecheck(q) \/ Stream(q) \/ StageCopy(q)
             \/ Verify(q)
    <3>1. UNCHANGED placeVars /\ pc[q] \in Bringing
      BY <2>4 DEF CheckTarget, RenameCheck, RenameRecheck, Stream, StageCopy, Verify, Require,
         Bringing, Promoting
    <3>2. pc'[q] \in Bringing \cup {"failing"}
      BY <2>4, Goes, FirstTransports DEF CheckTarget, RenameCheck, RenameRecheck, Stream,
         StageCopy, Verify, Fill, Bringing, Promoting
    <3> QED BY <3>1, <3>2, FarFromLoops DEF Marches
  <2>5. CASE VerifyAll(q) \/ FinalVerify(q)
    BY <1>1, <2>5, Goes DEF VerifyAll, FinalVerify, VerifyEach, Marches
  <2>6. CASE LookToRemove(q)
    <3>1. seen'[q] = actions[J(q)][idx[q]].state
      BY <2>6 DEF LookToRemove, TypeOK
    <3> QED BY <1>1, <2>6, <3>1, Goes DEF LookToRemove, Marches
  <2>7. CASE CheckSource(q)
    <3>1. pc'[q] \in {"set_removed", "remove", "failing"}
      BY <2>7, Goes DEF CheckSource
    <3>2. UNCHANGED placeVars /\ UNCHANGED seen /\ pc[q] = "check_source"
      BY <2>7 DEF CheckSource, Require
    <3> QED BY <3>1, <3>2, FarFromLoops DEF Marches
  <2> QED BY <1>5, <2>1, <2>2, <2>3, <2>4, <2>5, <2>6, <2>7 DEF CheckOnly
<1>6. CASE Outside(q)
  BY <1>1, <1>2, <1>6 DEF Outside, IoError, Crash, Start
<1> QED BY <1>3, <1>4, <1>5, <1>6 DEF Step

\* What the ledger has recorded it keeps.
LEMMA LedgerGrows ==
    ASSUME TypeOK, NEW q \in Owner, Step(q), NEW j \in Job, NEW i \in Index
    PROVE  /\ Promoted(j, i) => Promoted(j, i)'
           /\ Gone(j, i) => Gone(j, i)'
<1>1. LedgerTypeOK /\ J(q) \in Job /\ idx[q] \in Index /\ A(q) \in Identity /\ LedgerWrite(q)
  BY Here, LedgerWrites DEF TypeOK
<1>2. CASE UNCHANGED actions
  BY <1>2 DEF Promoted, Gone
<1>3. CASE RegisterAction(J(q), idx[q], A(q))
  <2>1. Promoted(j, i) \/ Gone(j, i) => Registered(j, i)
    BY DEF Promoted, Gone, Registered
  <2>2. Registered(j, i) => actions'[j][i] = actions[j][i]
    BY <1>1, <1>3, RegisterWrites
  <2> QED BY <2>1, <2>2 DEF Promoted, Gone
<1>4. ASSUME NEW expected, NEW next, <<expected, next>> \in ActionStep,
             SetActionState(J(q), idx[q], expected, next)
      PROVE  /\ Promoted(j, i) => Promoted(j, i)'
             /\ Gone(j, i) => Gone(j, i)'
  <2>1. /\ actions[J(q)][idx[q]].state \in {expected, next}
        /\ actions'[J(q)][idx[q]].state = next
        /\ j # J(q) \/ i # idx[q] => actions'[j][i] = actions[j][i]
    BY <1>1, <1>4, SetWrites
  <2>2. next \in {"PROMOTED", "SOURCE_REMOVED"} /\ expected # "SOURCE_REMOVED"
    BY <1>4 DEF ActionStep
  <2> QED BY <2>1, <2>2 DEF Promoted, Gone
<1> QED BY <1>1, <1>2, <1>3, <1>4 DEF LedgerWrite, ActionStep

\* Onward after a step that leaves the process at its job.
PromotedNext(j, i) == actions'[j][i].state \in {"PROMOTED", "SOURCE_REMOVED"}

GoneNext(j, i) == actions'[j][i].state = "SOURCE_REMOVED"

OnwardNext(p) ==
    /\ pc'[p] \in {"to_staging", "to_verified", "to_removing"} => idx'[p] = 1
    /\ pc'[p] \in Bringing => \A i \in DOMAIN Acts(p) : i < idx'[p] => PromotedNext(J(p), i)
    /\ pc'[p] \in Brought => \A i \in DOMAIN Acts(p) : PromotedNext(J(p), i)
    /\ pc'[p] \in Removing => \A i \in DOMAIN Acts(p) : i < idx'[p] => GoneNext(J(p), i)
    /\ pc'[p] \in {"final_verify", "commit"} => \A i \in DOMAIN Acts(p) : GoneNext(J(p), i)
    /\ pc'[p] \in {"check_source", "remove", "set_removed"} /\ seen'[p] = "SOURCE_REMOVED"
         => GoneNext(J(p), idx'[p])

LEMMA OnwardAfter ==
    ASSUME NEW p \in Owner, plan'[p] = plan[p], item'[p] = item[p], OnwardNext(p)
    PROVE  Onward(p)'
<1>1. J(p)' = J(p) /\ Acts(p)' = Acts(p)
  BY DEF J, Acts
<1> QED BY <1>1 DEF Onward, OnwardNext, Promoted, PromotedNext, Gone, GoneNext

\* Where a loop goes on, one action more lies behind, and at its end all do.
LEMMA OneFurther ==
    ASSUME TypeOK, NEW q \in Owner, NEW again, NEW after, Loops(q, again, after), again # after
    PROVE  /\ pc'[q] = again =>
                 \A i \in DOMAIN Acts(q) : i < idx'[q] => i < idx[q] \/ i = idx[q]
           /\ pc'[q] = after =>
                 /\ \A i \in DOMAIN Acts(q) : i < idx[q] \/ i = idx[q]
                 /\ \A i \in DOMAIN Acts(q) : ~(i < idx'[q])
<1>1. J(q) \in Job /\ idx[q] \in Nat
  BY Here, ActionOf
<1>2. \A i \in DOMAIN Acts(q) : i \in Nat /\ i >= 1 /\ i <= Len(Acts(q)) /\ Len(Acts(q)) \in Nat
  <2>1. Acts(q) \in Seq(FileAction)
    BY <1>1, PlanAssumption DEF Acts
  <2> QED BY <2>1
<1> QED BY <1>1, <1>2 DEF Loops

LEMMA OnwardHere ==
    ASSUME TypeOK, PlacesTyped, NEW q \in Owner, Step(q), Onward(q)
    PROVE  Onward(q)'
<1>1. /\ J(q) \in Job /\ idx[q] \in Index /\ idx[q] \in DOMAIN Acts(q)
      /\ \A i \in DOMAIN Acts(q) : i \in Index /\ i \in Nat /\ i >= 1
  <2>1. J(q) \in Job /\ idx[q] \in Index /\ idx[q] \in DOMAIN Acts(q)
    BY Here DEF Acts
  <2>2. Acts(q) \in Seq(FileAction)
    BY <2>1, PlanAssumption DEF Acts
  <2> QED BY <2>1, <2>2, ActionOf DEF Acts
<1>2. \A i \in DOMAIN Acts(q) : /\ Promoted(J(q), i) => PromotedNext(J(q), i)
                                /\ Gone(J(q), i) => GoneNext(J(q), i)
  BY <1>1, LedgerGrows DEF Promoted, Gone, PromotedNext, GoneNext
<1>3. ASSUME UNCHANGED <<plan, item>>, OnwardNext(q) PROVE Onward(q)'
  BY <1>3, OnwardAfter
<1>4. ASSUME UNCHANGED placeVars, OnwardNext(q) PROVE Onward(q)'
  BY <1>3, <1>4 DEF placeVars
<1>5. CASE pc'[q] \notin Bringing \cup Brought \cup {"to_staging"}
  BY <1>5 DEF Onward, Brought, Removing
<1>6. CASE pc[q] = "register" /\ pc'[q] = "to_staging" /\ idx'[q] = 1
  BY <1>6 DEF Onward, Bringing, Brought, Removing, Promoting
<1>7. CASE pc[q] = "to_staging" /\ pc'[q] = "renew_promote" /\ UNCHANGED placeVars
  <2>1. idx'[q] = 1
    BY <1>7 DEF Onward, placeVars
  <2> QED BY <1>1, <1>4, <1>7, <2>1 DEF OnwardNext, Brought, Removing
<1>8. CASE pc[q] \in Bringing /\ pc'[q] \in Bringing /\ UNCHANGED placeVars
  <2>1. /\ pc'[q] \notin Brought
        /\ pc'[q] \notin {"to_staging", "to_verified", "to_removing", "final_verify", "commit"}
        /\ pc'[q] \notin Removing
    BY <1>8 DEF Bringing, Brought, Removing, Promoting
  <2> QED BY <1>2, <1>4, <1>8, <2>1 DEF Onward, OnwardNext, Removing, placeVars
<1>9. ASSUME Loops(q, "renew_promote", "verify_all"), PromotedNext(J(q), idx[q]),
             pc[q] \in Bringing
      PROVE  Onward(q)'
  <2>1. \A i \in DOMAIN Acts(q) : i < idx[q] => PromotedNext(J(q), i)
    BY <1>2, <1>9 DEF Onward
  <2>2. CASE pc'[q] = "renew_promote"
    <3>1. \A i \in DOMAIN Acts(q) : i < idx'[q] => PromotedNext(J(q), i)
      BY <1>9, <2>1, <2>2, OneFurther
    <3> QED BY <1>3, <1>9, <2>2, <3>1 DEF Loops, OnwardNext, Brought, Removing
  <2>3. CASE pc'[q] = "verify_all"
    <3>1. \A i \in DOMAIN Acts(q) : PromotedNext(J(q), i)
      BY <1>9, <2>1, <2>3, OneFurther
    <3> QED BY <1>3, <1>9, <2>3, <3>1 DEF Loops, OnwardNext, Bringing, Promoting, Removing
  <2> QED BY <1>9, <2>2, <2>3 DEF Loops
<1>10. CASE pc[q] = "look" /\ Promoted(J(q), idx[q]) /\ Loops(q, "renew_promote", "verify_all")
  BY <1>1, <1>2, <1>9, <1>10 DEF Bringing
<1>11. CASE /\ pc[q] = "set_promoted" /\ Loops(q, "renew_promote", "verify_all")
            /\ SetActionState(J(q), idx[q], "PLANNED", "PROMOTED")
  <2>1. PromotedNext(J(q), idx[q])
    BY <1>11, SetHere DEF PromotedNext
  <2> QED BY <1>9, <1>11, <2>1 DEF Bringing, Promoting
<1>12. CASE /\ pc[q] = "verify_all" /\ pc'[q] \in {"verify_all", "to_verified"}
            /\ UNCHANGED <<plan, item>> /\ (pc'[q] = "to_verified" => idx'[q] = 1)
  <2>1. \A i \in DOMAIN Acts(q) : PromotedNext(J(q), i)
    BY <1>2, <1>12 DEF Onward, Brought
  <2> QED BY <1>3, <1>12, <2>1 DEF OnwardNext, Bringing, Promoting, Removing
<1>13. CASE \/ pc[q] = "to_verified" /\ pc'[q] = "to_removing" /\ UNCHANGED placeVars
            \/ pc[q] = "to_removing" /\ pc'[q] = "renew_remove" /\ UNCHANGED placeVars
  <2>1. idx'[q] = 1 /\ \A i \in DOMAIN Acts(q) : PromotedNext(J(q), i)
    BY <1>2, <1>13 DEF Onward, Brought, placeVars
  <2> QED BY <1>1, <1>4, <1>13, <2>1 DEF OnwardNext, Bringing, Promoting, Removing
<1>14. ASSUME pc[q] \in Removing \ {"set_removed"}, pc'[q] \in Removing \ {"renew_remove"},
              UNCHANGED placeVars,
              \/ pc'[q] = "look_remove" 
              \/ seen'[q] = "SOURCE_REMOVED" => Gone(J(q), idx[q])
       PROVE  Onward(q)'
  <2>1. /\ \A i \in DOMAIN Acts(q) : PromotedNext(J(q), i)
        /\ \A i \in DOMAIN Acts(q) : i < idx'[q] => GoneNext(J(q), i)
    BY <1>2, <1>14 DEF Onward, Brought, placeVars
  <2>2. pc'[q] # "look_remove" /\ seen'[q] = "SOURCE_REMOVED" => GoneNext(J(q), idx'[q])
    BY <1>1, <1>2, <1>14 DEF placeVars
  <2> QED BY <1>4, <1>14, <2>1, <2>2 DEF OnwardNext, Bringing, Promoting, Removing
<1>15. CASE pc[q] = "renew_remove" /\ pc'[q] = "look_remove" /\ UNCHANGED placeVars
  BY <1>14, <1>15 DEF Removing
<1>16. CASE /\ pc[q] = "look_remove" /\ pc'[q] = "check_source" /\ UNCHANGED placeVars
            /\ seen'[q] = actions[J(q)][idx[q]].state
  BY <1>14, <1>16 DEF Removing, Gone
<1>17. CASE /\ pc[q] \in {"check_source", "remove"} /\ pc'[q] \in {"remove", "set_removed"}
            /\ UNCHANGED placeVars /\ seen'[q] = seen[q]
  BY <1>14, <1>17 DEF Removing, Onward
<1>18. CASE /\ pc[q] = "set_removed" /\ Loops(q, "renew_remove", "final_verify")
            /\ \/ SetActionState(J(q), idx[q], "PROMOTED", "SOURCE_REMOVED")
               \/ seen[q] = "SOURCE_REMOVED"
  <2>1. /\ \A i \in DOMAIN Acts(q) : PromotedNext(J(q), i)
        /\ \A i \in DOMAIN Acts(q) : i < idx[q] => GoneNext(J(q), i)
    BY <1>2, <1>18 DEF Onward, Brought, Removing
  <2>2. GoneNext(J(q), idx[q])
    <3>1. CASE SetActionState(J(q), idx[q], "PROMOTED", "SOURCE_REMOVED")
      <4>1. /\ <<"PROMOTED", "SOURCE_REMOVED">> \in ActionStep
            /\ actions'[J(q)][idx[q]].state = "SOURCE_REMOVED"
        BY <3>1, SetHere
      <4> QED BY <4>1 DEF GoneNext
    <3>2. CASE seen[q] = "SOURCE_REMOVED"
      BY <1>1, <1>2, <1>18, <3>2 DEF Onward
    <3> QED BY <1>18, <3>1, <3>2
  <2>3. CASE pc'[q] = "renew_remove"
    <3>1. \A i \in DOMAIN Acts(q) : i < idx'[q] => GoneNext(J(q), i)
      BY <1>18, <2>1, <2>2, <2>3, OneFurther
    <3> QED BY <1>3, <1>18, <2>1, <2>3, <3>1 DEF Loops, OnwardNext, Bringing, Promoting
  <2>4. CASE pc'[q] = "final_verify"
    <3>1. \A i \in DOMAIN Acts(q) : GoneNext(J(q), i)
      BY <1>18, <2>1, <2>2, <2>4, OneFurther
    <3> QED BY <1>3, <1>18, <2>1, <2>4, <3>1 DEF Loops, OnwardNext, Bringing, Promoting, Removing
  <2> QED BY <1>18, <2>3, <2>4 DEF Loops
<1>19. CASE /\ pc[q] = "final_verify" /\ pc'[q] \in {"final_verify", "commit"}
            /\ UNCHANGED <<plan, item>>
  <2>1. /\ \A i \in DOMAIN Acts(q) : PromotedNext(J(q), i)
        /\ \A i \in DOMAIN Acts(q) : GoneNext(J(q), i)
    BY <1>2, <1>19 DEF Onward, Brought
  <2> QED BY <1>3, <1>19, <2>1 DEF OnwardNext, Bringing, Promoting, Removing
<1> QED BY <1>5, <1>6, <1>7, <1>8, <1>10, <1>11, <1>12, <1>13, <1>15, <1>16, <1>17, <1>18, <1>19,
          Marching DEF Marches

\* A process notes what it has read; nobody else does.
LEMMA SeenElsewhere ==
    ASSUME TypeOK, PlacesTyped, NEW q \in Owner, Step(q), NEW p \in Owner, p # q
    PROVE  seen'[p] = seen[p]
<1>1. UNCHANGED seen \/ \E to : seen' = [seen EXCEPT ![q] = to]
  <2>1. Exit(q) => \E to : seen' = [seen EXCEPT ![q] = to]
    BY DEF Exit
  <2>2. NextItem(q) => UNCHANGED seen \/ \E to : seen' = [seen EXCEPT ![q] = to]
    BY <2>1 DEF NextItem
  <2>3. CASE StoreAction(q)
    BY <2>1, <2>2, <2>3 DEF StoreAction, ClaimJob, Register, ToStaging, ToVerified, ToRemoving,
       Advance, RenewToPromote, RenewToRemove, RenewLease, SetPromoted, SetRemoved, Commit,
       FailJob
  <2>4. CASE FileWrite(q)
    BY <2>4 DEF FileWrite, ServerRename, HardLink, Upload, Protect, Publish, Cleanup, Remove
  <2>5. CASE CheckOnly(q)
    BY <2>1, <2>2, <2>5 DEF CheckOnly, Preflight, Recheck, Look, CheckTarget, RenameCheck,
       RenameRecheck, Stream, StageCopy, Verify, VerifyAll, VerifyEach, LookToRemove,
       CheckSource, FinalVerify, Require
  <2>6. CASE Outside(q)
    BY <2>1, <2>6 DEF Outside, IoError, Crash, Start
  <2> QED BY <2>3, <2>4, <2>5, <2>6 DEF Step
<1> QED BY <1>1 DEF TypeOK

LEMMA OnwardElsewhere ==
    ASSUME TypeOK, PlacesTyped, NEW q \in Owner, Step(q), NEW p \in Owner, p # q, Onward(p)
    PROVE  Onward(p)'
<1>1. /\ pc'[p] = pc[p] /\ plan'[p] = plan[p] /\ item'[p] = item[p] /\ idx'[p] = idx[p]
      /\ seen'[p] = seen[p]
  BY StepElsewhere, SeenElsewhere DEF Elsewhere
<1>2. /\ J(p) \in Job /\ idx[p] \in DOMAIN Acts(p)
      /\ \A i \in DOMAIN Acts(p) : i \in Index
  BY Here, ActionOf DEF Acts
<1>3. \A i \in DOMAIN Acts(p) : /\ Promoted(J(p), i) => PromotedNext(J(p), i)
                                /\ Gone(J(p), i) => GoneNext(J(p), i)
  BY <1>2, LedgerGrows DEF Promoted, Gone, PromotedNext, GoneNext
<1>4. OnwardNext(p)
  BY <1>1, <1>2, <1>3 DEF Onward, OnwardNext
<1> QED BY <1>1, <1>4, OnwardAfter

-----------------------------------------------------------------------------
(***************************************************************************)
(* The files of a process on its way: its destination stays free and its   *)
(* source in place until it writes the one and takes the other, so nothing *)
(* is ever put aside in a backup.                                          *)
(***************************************************************************)
Fresh == {"rename_check", "rename", "stream", "hard_link", "stage_copy", "upload", "publish"}

Free(p) ==
    /\ pc[p] \in Fresh => T(p) = Absent
    /\ pc[p] \in {"upload", "publish"} => buf[p] \in {Want(p), Torn}
    /\ pc[p] \notin {"protect", "cleanup"} /\ bak[p] = Absent

InPlace(p) == pc[p] \in Fresh => S(p) = Want(p)

\* Each planned file goes to one place, whichever plans have it.
SourcesApart == \A a, b \in PlannedActions : a.source = b.source => a = b

FreeInv ==
    /\ SafeInv /\ Pristine
    /\ \A p \in Owner : Free(p) /\ Onward(p)

MoveInv == FreeInv /\ \A p \in Owner : InPlace(p)

\* A process on its way to a destination is alone there.
LEMMA AloneThere ==
    ASSUME SafeInv, NEW p \in Owner, NEW q \in Owner, p # q,
           pc[p] \in Promoting, pc[q] \in AtJob \ {"register"}
    PROVE  A(p).target # A(q).target
<1>1. /\ TypeOK /\ Holder(p) /\ Holder(q) /\ Reserver(q)
      /\ J(q) \in Job /\ idx[q] \in Index /\ idx[q] \in DOMAIN Acts(q)
  BY SafeParts, Here DEF Acts
<1>2. HeldBy(J(p), p) /\ HeldBy(J(q), q) /\ Registered(J(q), idx[q])
  BY <1>1, PromotingAtJob DEF Holder, Reserver
<1>3. J(p) # J(q)
  BY <1>2 DEF HeldBy
<1> QED BY <1>1, <1>2, <1>3, WritesOwnTarget DEF A, Acts

LEMMA AloneFrom ==
    ASSUME SourcesApart, SafeInv, NEW p \in Owner, NEW q \in Owner, p # q,
           pc[p] \in Promoting, pc[q] \in AtJob \ {"register"}
    PROVE  A(p).source # A(q).source
<1>1. A(p) \in PlannedActions /\ A(q) \in PlannedActions
  BY SafeParts, PlannedHere
<1> QED BY <1>1, AloneThere DEF SourcesApart

LEMMA FreshPlaces ==
    /\ Fresh \subseteq Promoting
    /\ Fresh \subseteq Carrying
    /\ {"rename", "hard_link", "upload", "protect", "publish", "cleanup"} \subseteq Promoting
    /\ Promoting \cup {"remove"} \subseteq AtJob \ {"register"}
BY DEF Fresh, Promoting, Carrying, AtJob, PC

\* Nobody writes the destination that another one is bringing a file to, or
\* takes the source.
LEMMA TargetElsewhere ==
    ASSUME SafeInv, NEW q \in Owner, Step(q), NEW p \in Owner, p # q, pc[p] \in Promoting
    PROVE  dst'[A(p).target] = dst[A(p).target]
<1>1. TypeOK /\ A(p).target \in Target
  BY SafeParts, Here
<1>2. pc[q] \in Promoting => A(p).target # A(q).target
  BY AloneThere, FreshPlaces
<1> QED BY <1>1, <1>2, FileFrame

LEMMA SourceElsewhere ==
    ASSUME SourcesApart, SafeInv, NEW q \in Owner, Step(q), NEW p \in Owner, p # q,
           pc[p] \in Promoting
    PROVE  src'[A(p).source] = src[A(p).source]
<1>1. /\ TypeOK /\ PlacesTyped /\ A(p).source \in Source
      /\ A(q).source \in Source /\ src \in [Source -> File]
  BY SafeParts, Here DEF TypeOK
<1>2. src' = src \/ (pc[q] \in {"rename", "remove"} /\ TakesSource(q))
  BY <1>1, Deeds DEF Aside, Sees, Fills, Does, fileVars
<1>3. pc[q] \in {"rename", "remove"} => A(p).source # A(q).source
  BY AloneFrom, FreshPlaces
<1> QED BY <1>1, <1>2, <1>3 DEF TakesSource

LEMMA FreeElsewhere ==
    ASSUME SafeInv, NEW q \in Owner, Step(q), NEW p \in Owner, p # q, Free(p)
    PROVE  /\ Free(p)'
           /\ SourcesApart /\ InPlace(p) => InPlace(p)'
<1>1. TypeOK /\ PlacesTyped
  BY SafeParts
<1>2. pc'[p] = pc[p] /\ A(p)' = A(p) /\ Want(p)' = Want(p)
  BY <1>1, StepElsewhere DEF Elsewhere, A, Acts, J, Want
<1>3. buf'[p] = buf[p] /\ bak'[p] = bak[p]
  BY <1>1, HandsElsewhere
<1>4. pc[p] \in Fresh => T(p)' = T(p)
  BY <1>2, TargetElsewhere, FreshPlaces DEF T
<1>5. SourcesApart /\ pc[p] \in Fresh => S(p)' = S(p)
  BY <1>2, SourceElsewhere, FreshPlaces DEF S
<1> QED BY <1>2, <1>3, <1>4, <1>5 DEF Free, InPlace

LEMMA FreeHere ==
    ASSUME SafeInv, Pristine, NEW q \in Owner, Step(q), Free(q)
    PROVE  /\ Free(q)'
           /\ InPlace(q) => InPlace(q)'
<1>1. /\ TypeOK /\ PlacesTyped /\ Want(q) # Absent /\ Want(q) = A(q).source
      /\ buf \in [Owner -> File] /\ bak \in [Owner -> File] /\ pc \in [Owner -> PC]
  BY SafeParts, PlannedHere DEF TypeOK
<1>2. S(q) # Absent => S(q) = Want(q)
  BY <1>1, PlannedHere DEF Pristine, S
<1>3. ASSUME UNCHANGED placeVars PROVE A(q)' = A(q) /\ Want(q)' = Want(q)
  BY <1>3 DEF placeVars, A, Acts, J, Want
<1>4. ASSUME UNCHANGED placeVars, UNCHANGED fileVars PROVE T(q)' = T(q) /\ S(q)' = S(q)
  BY <1>3, <1>4 DEF fileVars, T, S
<1>5. CASE Aside(q)
  <2>1. pc'[q] \notin Fresh \cup {"protect", "cleanup"}
    BY <1>5 DEF Aside, Carrying, Fresh
  <2>2. bak'[q] = Absent
    BY <1>5 DEF Aside, fileVars, Free
  <2> QED BY <2>1, <2>2 DEF Free, InPlace, Fresh
<1>6. CASE Sees(q)
  <2>1. UNCHANGED fileVars /\ UNCHANGED placeVars /\ UNCHANGED buf
    BY <1>6 DEF Sees
  <2>2. /\ pc'[q] \in Fresh => T(q) = Absent
        /\ pc'[q] \in Fresh /\ InPlace(q) => S(q) = Want(q)
    BY <1>2, <1>6 DEF Sees, Free, InPlace, Fresh
  <2>3. pc'[q] \in {"upload", "publish"} => buf[q] \in {Want(q), Torn}
    BY <1>6 DEF Sees, Free
  <2>4. pc'[q] \notin {"protect", "cleanup"}
    BY <1>6 DEF Sees, Free, Fresh
  <2> QED BY <1>3, <1>4, <2>1, <2>2, <2>3, <2>4 DEF Free, InPlace, fileVars
<1>7. CASE Fills(q)
  <2>1. /\ UNCHANGED fileVars /\ UNCHANGED placeVars /\ pc'[q] = "upload" /\ pc[q] \in Fresh
        /\ S(q) # Absent
    BY <1>7 DEF Fills, Fresh
  <2>2. buf'[q] \in {Want(q), Torn}
    BY <1>1, <1>2, <1>7, <2>1 DEF Fills
  <2> QED BY <1>2, <1>3, <1>4, <2>1, <2>2 DEF Free, InPlace, fileVars
<1>8. CASE Does(q)
  <2>1. /\ UNCHANGED placeVars
        /\ pc'[q] \in {"verify", "rename_recheck", "failing", "set_removed"} /\ bak' = bak
    BY <1>8 DEF Does, Free, fileVars
  <2> QED BY <2>1 DEF Free, InPlace, Fresh
<1> QED BY <1>1, <1>5, <1>6, <1>7, <1>8, Deeds

LEMMA FreeInit == Init => FreeInv /\ MoveInv
<1> SUFFICES ASSUME Init PROVE FreeInv /\ MoveInv
  OBVIOUS
<1>1. SafeInv
  BY SafeInit
<1>2. Pristine /\ \A p \in Owner : Free(p) /\ InPlace(p) /\ Onward(p)
  BY DEF Init, Pristine, Free, InPlace, Onward, Fresh, Bringing, Brought, Removing, Promoting
<1> QED BY <1>1, <1>2 DEF FreeInv, MoveInv

LEMMA FreeParts ==
    ASSUME FreeInv
    PROVE  /\ SafeInv /\ Pristine /\ TypeOK /\ PlacesTyped /\ LedgerTruthful
           /\ \A p \in Owner : Free(p) /\ Onward(p)
BY SafeParts DEF FreeInv

LEMMA FreeKept ==
    ASSUME Overruns = FALSE, MaxEdits = 0
    PROVE  FreeInv /\ [Next]_vars =>
             /\ FreeInv'
             /\ SourcesApart /\ MoveInv => MoveInv'
<1> SUFFICES ASSUME FreeInv, [Next]_vars
             PROVE  FreeInv' /\ (SourcesApart /\ MoveInv => MoveInv')
  OBVIOUS
<1>1. SafeInv' /\ TypeOK /\ PlacesTyped
  BY SafeKept, FreeParts
<1>2. ASSUME NEW q \in Owner, Step(q) PROVE FreeInv' /\ (SourcesApart /\ MoveInv => MoveInv')
  <2>1. Pristine'
    BY <1>1, <1>2, FileFrame, FreeParts DEF Pristine
  <2>2. \A p \in Owner : Free(p)' /\ (SourcesApart /\ InPlace(p) => InPlace(p)')
    BY <1>2, FreeHere, FreeElsewhere, FreeParts
  <2>3. \A p \in Owner : Onward(p)'
    BY <1>1, <1>2, OnwardHere, OnwardElsewhere, FreeParts
  <2> QED BY <1>1, <2>1, <2>2, <2>3 DEF FreeInv, MoveInv
<1>3. ASSUME UNCHANGED <<actions, src, dst, bak, plan, item, idx, pc, seen, buf>>
      PROVE  FreeInv' /\ (SourcesApart /\ MoveInv => MoveInv')
  <2>1. ASSUME NEW p \in Owner PROVE Free(p)' /\ (InPlace(p) => InPlace(p)') /\ Onward(p)'
    <3>1. /\ J(p)' = J(p) /\ Acts(p)' = Acts(p) /\ T(p)' = T(p) /\ S(p)' = S(p)
          /\ Want(p)' = Want(p)
      BY <1>3 DEF J, Acts, T, S, A, Want
    <3>2. Free(p)' /\ (InPlace(p) => InPlace(p)')
      BY <1>3, <3>1, FreeParts DEF Free, InPlace
    <3>3. Onward(p)'
      BY <1>3, <3>1, FreeParts DEF Onward, Promoted, Gone
    <3> QED BY <3>2, <3>3
  <2> QED BY <1>1, <1>3, <2>1, FreeParts DEF FreeInv, MoveInv, Pristine
<1>4. ASSUME NEW j \in Job, LeaseRunsOut(j)
      PROVE  FreeInv' /\ (SourcesApart /\ MoveInv => MoveInv')
  BY <1>3, <1>4 DEF LeaseRunsOut, fileVars, placeVars
<1>5. ~Edit
  <2>1. edits \in 0..0
    BY <1>1 DEF TypeOK
  <2> QED BY <2>1 DEF Edit
<1>6. CASE UNCHANGED vars
  BY <1>3, <1>6 DEF vars
<1> QED BY <1>2, <1>4, <1>5, <1>6, Steps DEF Step

-----------------------------------------------------------------------------
(***************************************************************************)
(* The steps of Mover.                                                     *)
(***************************************************************************)
LeftNow == {a.source : a \in {b \in PlannedActions : src[b.source] = b.source}}

PlacedNow == {a \in PlannedActions : Placed(a)}

DoneNow == {j \in Job : jobs[j].state = "COMMITTED"}

\* A job is committed once, by the process at its end.
Commits(q) == pc[q] = "commit" /\ Transition(J(q), q, "REMOVING_SOURCE", "COMMITTED")

LEMMA DoneFrame ==
    ASSUME TypeOK, NEW q \in Owner, Step(q), ~Commits(q)
    PROVE  DoneNow' = DoneNow
<1>1. TableTypeOK /\ J(q) \in Job /\ KindOf[J(q)] = "migration"
  BY Here, PlanAssumption DEF TypeOK
<1> SUFFICES \A j \in Job : jobs'[j].state = "COMMITTED" <=> jobs[j].state = "COMMITTED"
  BY DEF DoneNow
<1>2. CASE UNCHANGED jobs
  BY <1>2
<1>3. CASE Claim(J(q), q)
  <2>1. jobs[J(q)].state # "COMMITTED"
    BY <1>1, <1>3 DEF Claim, AlreadyComplete, CompleteState
  <2> QED BY <1>1, <1>3, <2>1, ClaimWrites
<1>4. CASE Renew(J(q), q)
  BY <1>1, <1>4, RenewWrites
<1>5. ASSUME NEW from, NEW to \in JobState, Transition(J(q), q, from, to), to # "COMMITTED"
      PROVE  \A j \in Job : jobs'[j].state = "COMMITTED" <=> jobs[j].state = "COMMITTED"
  <2>1. from # "COMMITTED"
    BY <1>5 DEF Transition, MayTransition, ValidTransition, MigrationStep, SubtitleStep
  <2>2. /\ jobs[J(q)].state = from /\ jobs'[J(q)].state = to
        /\ \A k \in Job : k # J(q) => jobs'[k] = jobs[k]
    BY <1>1, <1>5, TransitionWrites
  <2> QED BY <1>1, <1>5, <2>1, <2>2
<1>6. CASE Fail(J(q), q)
  BY <1>5, <1>6, StatesNamed DEF Fail
<1>7. CASE StoreAction(q)
  <2>1. CASE ClaimJob(q)
    BY <1>2, <1>3, <2>1 DEF ClaimJob, tableVars
  <2>2. CASE Register(q) \/ SetPromoted(q) \/ SetRemoved(q)
    BY <1>2, <2>2 DEF Register, SetPromoted, SetRemoved
  <2>3. CASE ToStaging(q) \/ ToVerified(q) \/ ToRemoving(q)
    <3>1. \/ UNCHANGED jobs
          \/ \E from : \E to \in {"STAGING", "VERIFIED", "REMOVING_SOURCE"} :
                Transition(J(q), q, from, to)
      BY <2>3 DEF ToStaging, ToVerified, ToRemoving, Advance
    <3> QED BY <1>2, <1>5, <3>1, OpenStates
  <2>4. CASE RenewToPromote(q) \/ RenewToRemove(q)
    BY <1>2, <1>4, <2>4 DEF RenewToPromote, RenewToRemove, RenewLease
  <2>5. CASE Commit(q)
    BY <1>2, <2>5 DEF Commit, Commits
  <2>6. CASE FailJob(q)
    BY <1>2, <1>6, <2>6 DEF FailJob
  <2> QED BY <1>7, <2>1, <2>2, <2>3, <2>4, <2>5, <2>6 DEF StoreAction
<1>8. CASE FileWrite(q) \/ CheckOnly(q) \/ Outside(q)
  BY <1>2, <1>8, LooksOnly, OutsideOnly, FileWritesOnly DEF tableVars
<1> QED BY <1>7, <1>8 DEF Step

LEMMA CommitFrame ==
    ASSUME TypeOK, NEW q \in Owner, Step(q), Commits(q)
    PROVE  DoneNow' = DoneNow \cup {J(q)} /\ UNCHANGED fileVars
<1>1. TableTypeOK /\ J(q) \in Job /\ "COMMITTED" \in JobState
  BY Here, StatesNamed DEF TypeOK
<1>2. UNCHANGED fileVars
  <2>1. ~FileWrite(q)
    BY DEF FileWrite, ServerRename, HardLink, Upload, Protect, Publish, Cleanup, Remove, Commits
  <2> QED BY <2>1, LooksOnly, OutsideOnly, StoreActionsOnly DEF Step
<1>3. /\ jobs'[J(q)].state = "COMMITTED"
      /\ \A k \in Job : k # J(q) => jobs'[k] = jobs[k]
  BY <1>1, TransitionWrites DEF Commits
<1> QED BY <1>1, <1>2, <1>3 DEF DoneNow

\* What a write of a free destination, and the removal of a source, do.
LEMMA PlacedAfter ==
    ASSUME TypeOK, NEW q \in Owner, T(q) = Absent, NEW content, WritesTarget(q, content)
    PROVE  /\ content = Want(q) => PlacedNow' = PlacedNow \cup {A(q)}
           /\ content \notin Source => PlacedNow' = PlacedNow
<1>1. /\ A(q) \in PlannedActions /\ A(q).target \in Target /\ Want(q) = A(q).source
      /\ A(q) = [source |-> A(q).source, target |-> A(q).target]
      /\ dst \in [Target -> File]
  BY PlannedHere DEF TypeOK
<1>2. ASSUME NEW a \in PlannedActions
      PROVE  /\ a.source \in Source /\ a.source # Absent /\ a.target \in Target
             /\ a = [source |-> a.source, target |-> a.target]
  BY PlannedTyped, FileAssumption
<1>3. ASSUME NEW a \in PlannedActions
      PROVE  /\ a.target # A(q).target => dst'[a.target] = dst[a.target]
             /\ a.target = A(q).target => dst'[a.target] = content /\ dst[a.target] = Absent
  BY <1>1, <1>2 DEF WritesTarget, T
<1>4. ASSUME content = Want(q), NEW a \in PlannedActions
      PROVE  dst'[a.target] = a.source <=> dst[a.target] = a.source \/ a = A(q)
  BY <1>1, <1>2, <1>3, <1>4
<1>5. ASSUME content \notin Source, NEW a \in PlannedActions
      PROVE  dst'[a.target] = a.source <=> dst[a.target] = a.source
  BY <1>1, <1>2, <1>3, <1>5
<1> QED BY <1>1, <1>4, <1>5 DEF PlacedNow, Placed, PlannedActions

LEMMA LeftAfter ==
    ASSUME TypeOK, NEW q \in Owner, TakesSource(q)
    PROVE  LeftNow' = LeftNow \ {A(q).source}
<1>1. A(q).source \in Source /\ src \in [Source -> File]
  BY PlannedHere DEF TypeOK
<1>2. ASSUME NEW a \in PlannedActions
      PROVE  src'[a.source] = a.source <=> src[a.source] = a.source /\ a.source # A(q).source
  <2>1. a.source \in Source /\ a.source # Absent
    BY PlannedTyped, FileAssumption
  <2> QED BY <1>1, <2>1 DEF TakesSource
<1> QED BY <1>2 DEF LeftNow, PlannedActions

\* The action a process is at, as Mover speaks of it, and those before it.
LEMMA ArrivedThere ==
    ASSUME FreeInv, NEW q \in Owner
    PROVE  /\ J(q) \in Job /\ idx[q] \in DOMAIN ActionsOf[J(q)]
           /\ A(q) = ActionsOf[J(q)][idx[q]]
           /\ pc[q] \in Bringing => Move!ArrivedBefore(J(q), idx[q])
           /\ pc[q] \in Brought => Move!AllArrived(J(q))
<1>1. TypeOK /\ Onward(q) /\ LedgerTruthful
  BY FreeParts
<1>2. /\ J(q) \in Job /\ idx[q] \in DOMAIN ActionsOf[J(q)] /\ idx[q] \in Nat
      /\ A(q) = ActionsOf[J(q)][idx[q]]
  BY <1>1, Here, ActionOf DEF A, Acts
<1>3. /\ ActionsOf[J(q)] \in Seq(FileAction) /\ Len(ActionsOf[J(q)]) \in Nat
      /\ DOMAIN ActionsOf[J(q)] = 1..Len(ActionsOf[J(q)])
  BY <1>2, PlanAssumption
<1>4. \A i \in DOMAIN ActionsOf[J(q)] :
         Promoted(J(q), i) => ActionsOf[J(q)][i] \in PlacedNow
  BY <1>1, <1>2 DEF LedgerTruthful, PlacedNow, PlannedActions
<1>5. ASSUME pc[q] \in Bringing PROVE Move!ArrivedBefore(J(q), idx[q])
  <2>1. ASSUME NEW k \in 1..(idx[q] - 1) PROVE ActionsOf[J(q)][k] \in PlacedNow
    <3>1. k \in DOMAIN ActionsOf[J(q)] /\ k < idx[q]
      BY <1>2, <1>3
    <3>2. Promoted(J(q), k)
      BY <1>1, <1>5, <3>1 DEF Onward, Acts
    <3> QED BY <1>4, <3>1, <3>2
  <2> QED BY <2>1 DEF Move!ArrivedBefore, PlacedNow
<1>6. ASSUME pc[q] \in Brought PROVE Move!AllArrived(J(q))
  <2>1. ASSUME NEW k \in 1..(Len(ActionsOf[J(q)]) + 1 - 1)
        PROVE  ActionsOf[J(q)][k] \in PlacedNow
    <3>1. k \in DOMAIN ActionsOf[J(q)]
      BY <1>3
    <3>2. Promoted(J(q), k)
      BY <1>1, <1>6, <3>1 DEF Onward, Acts
    <3> QED BY <1>4, <3>1, <3>2
  <2> QED BY <2>1 DEF Move!AllArrived, Move!ArrivedBefore, PlacedNow
<1> QED BY <1>2, <1>5, <1>6

\* Every step of a process is one of Mover, or none.
LEMMA StepMoves ==
    ASSUME MoveInv, NEW q \in Owner, Step(q)
    PROVE  Move!MoverNext \/ UNCHANGED <<LeftNow, PlacedNow, DoneNow>>
<1>1. /\ FreeInv /\ TypeOK /\ PlacesTyped /\ LedgerTruthful /\ Free(q) /\ InPlace(q) /\ Onward(q)
      /\ Want(q) = A(q).source /\ Want(q) # Absent /\ A(q) \in PlannedActions
      /\ A(q).source \in Source
  BY FreeParts, PlannedHere DEF MoveInv
<1>2. /\ J(q) \in Job /\ idx[q] \in DOMAIN ActionsOf[J(q)]
      /\ A(q) = ActionsOf[J(q)][idx[q]]
  BY <1>1, ArrivedThere
<1>3. src' = src => LeftNow' = LeftNow
  BY DEF LeftNow, PlannedActions
<1>4. dst' = dst => PlacedNow' = PlacedNow
  BY DEF PlacedNow, PlannedActions, Placed
<1>5. S(q) = Want(q) => A(q).source \in LeftNow
  BY <1>1 DEF LeftNow, S
<1>6. T(q) = Absent => A(q) \notin PlacedNow
  BY <1>1 DEF PlacedNow, Placed, T
<1>7. CASE Commits(q)
  <2>1. DoneNow' = DoneNow \cup {J(q)} /\ LeftNow' = LeftNow /\ PlacedNow' = PlacedNow
    BY <1>1, <1>3, <1>4, <1>7, CommitFrame DEF fileVars
  <2>2. Move!AllArrived(J(q))
    BY <1>1, <1>7, ArrivedThere DEF Commits, Brought
  <2>3. \A i \in DOMAIN ActionsOf[J(q)] : ActionsOf[J(q)][i].source \notin LeftNow
    <3>1. ASSUME NEW i \in DOMAIN ActionsOf[J(q)]
          PROVE  src[ActionsOf[J(q)][i].source] = Absent /\ ActionsOf[J(q)][i].source # Absent
      <4>1. actions[J(q)][i].state = "SOURCE_REMOVED"
        BY <1>1, <1>7 DEF Commits, Onward, Gone, Acts
      <4>2. ActionsOf[J(q)][i].source \in Source
        BY <1>2, ActionOf
      <4> QED BY <1>1, <1>2, <4>1, <4>2, FileAssumption DEF LedgerTruthful
    <3> QED BY <3>1 DEF LeftNow
  <2>4. Move!Finish(J(q))
    BY <2>1, <2>2, <2>3 DEF Move!Finish, LeftNow, PlacedNow, DoneNow
  <2> QED BY <1>2, <2>4 DEF Move!MoverNext, Move!Finish
<1>8. CASE ~Commits(q)
  <2>1. DoneNow' = DoneNow
    BY <1>1, <1>8, DoneFrame
  <2>2. CASE UNCHANGED fileVars
    BY <1>3, <1>4, <2>1, <2>2 DEF fileVars
  <2>3. ASSUME S(q) = Want(q), T(q) = Absent, WritesTarget(q, Want(q)), src' = src,
               pc[q] \in Promoting
        PROVE  Move!MoverNext
    <3>1. PlacedNow' = PlacedNow \cup {A(q)}
      BY <1>1, <2>3, PlacedAfter
    <3>2. Move!ArrivedBefore(J(q), idx[q])
      BY <1>1, <2>3, ArrivedThere DEF Bringing
    <3>3. Move!Copy(J(q), idx[q])
      BY <1>2, <1>3, <1>5, <2>1, <2>3, <3>1, <3>2 DEF Move!Copy, LeftNow, PlacedNow, DoneNow
    <3> QED BY <1>2, <3>3 DEF Move!MoverNext
  <2>4. ASSUME T(q) = Absent, WritesTarget(q, Torn), src' = src
        PROVE  UNCHANGED <<LeftNow, PlacedNow, DoneNow>>
    BY <1>1, <1>3, <2>1, <2>4, PlacedAfter, FileAssumption
  <2>5. CASE /\ pc[q] = "rename" /\ S(q) # Absent
             /\ WritesTarget(q, S(q)) /\ TakesSource(q)
    <3>1. S(q) = Want(q) /\ T(q) = Absent
      BY <1>1, <2>5 DEF Free, InPlace, Fresh
    <3>2. PlacedNow' = PlacedNow \cup {A(q)} /\ LeftNow' = LeftNow \ {A(q).source}
      BY <1>1, <2>5, <3>1, PlacedAfter, LeftAfter
    <3>3. Move!ArrivedBefore(J(q), idx[q])
      BY <1>1, <2>5, ArrivedThere DEF Bringing, Promoting
    <3>4. Move!Move(J(q), idx[q])
      BY <1>2, <1>5, <1>6, <2>1, <3>1, <3>2, <3>3 DEF Move!Move, LeftNow, PlacedNow, DoneNow
    <3> QED BY <1>2, <3>4 DEF Move!MoverNext, Move!Move
  <2>6. CASE pc[q] = "remove" /\ TakesSource(q) /\ dst' = dst
    <3>1. LeftNow' = LeftNow \ {A(q).source} /\ Move!AllArrived(J(q))
      BY <1>1, <2>6, LeftAfter, ArrivedThere DEF Brought, Removing
    <3>2. Move!Delete(J(q), idx[q])
      BY <1>2, <1>4, <2>1, <2>6, <3>1 DEF Move!Delete, LeftNow, PlacedNow, DoneNow
    <3> QED BY <1>2, <3>2 DEF Move!MoverNext, Move!Delete
  <2>7. CASE pc[q] \in {"upload", "publish"} /\ WritesTarget(q, buf[q]) /\ src' = src
    <3>1. S(q) = Want(q) /\ T(q) = Absent /\ buf[q] \in {Want(q), Torn}
      BY <1>1, <2>7 DEF Free, InPlace, Fresh
    <3>2. pc[q] \in Promoting
      BY <2>7 DEF Promoting
    <3> QED BY <2>3, <2>4, <2>7, <3>1, <3>2
  <2>8. CASE pc[q] = "hard_link" /\ S(q) # Absent /\ WritesTarget(q, S(q)) /\ src' = src
    <3>1. S(q) = Want(q) /\ T(q) = Absent
      BY <1>1, <2>8 DEF Free, InPlace, Fresh
    <3>2. pc[q] \in Promoting
      BY <2>8 DEF Promoting
    <3> QED BY <2>3, <2>8, <3>1, <3>2
  <2>9. CASE Does(q)
    <3>1. pc[q] \notin {"protect", "cleanup"} /\ bak[q] = Absent
      BY <1>1 DEF Free
    <3> QED BY <2>2, <2>5, <2>6, <2>7, <2>8, <2>9, <3>1 DEF Does
  <2> QED BY <1>1, <2>2, <2>9, Deeds DEF Aside, Sees, Fills
<1> QED BY <1>7, <1>8

\* Where each planned file goes to one place, a working process keeps its lease
\* and no other program edits the files, moving them with stores, leases, links,
\* uploads and crashes is nothing but copying, moving and deleting in the right
\* order: files arrive as they are planned, the video last, a source goes when all
\* files of its item have arrived, and a committed item has left nothing behind
\* (executor.rs:144-285, 354-438).
THEOREM MoverImplemented ==
    ASSUME SourcesApart, Overruns = FALSE, MaxEdits = 0
    PROVE  Spec => ImplementsMover
<1>1. Init => Move!MoverInit
  <2> SUFFICES ASSUME Init PROVE Move!MoverInit
    OBVIOUS
  <2>1. \A a \in PlannedActions : src[a.source] = a.source
    BY PlannedTyped DEF Init
  <2>2. DoneNow = {}
    BY DEF Init, TableInit, NoJob, DoneNow
  <2> QED BY <2>1, <2>2 DEF Move!MoverInit, Move!Every, PlannedActions, DoneNow
<1>2. MoveInv /\ [Next]_vars => [Move!MoverNext]_(Move!moverVars)
  <2> SUFFICES ASSUME MoveInv, [Next]_vars PROVE [Move!MoverNext]_(Move!moverVars)
    OBVIOUS
  <2>1. UNCHANGED <<LeftNow, PlacedNow, DoneNow>> => UNCHANGED Move!moverVars
    BY DEF Move!moverVars, LeftNow, PlacedNow, DoneNow
  <2>2. ASSUME NEW q \in Owner, Step(q) PROVE [Move!MoverNext]_(Move!moverVars)
    BY <2>1, <2>2, StepMoves
  <2>3. UNCHANGED <<src, dst, jobs>> => UNCHANGED <<LeftNow, PlacedNow, DoneNow>>
    BY DEF LeftNow, PlacedNow, DoneNow, Placed, PlannedActions
  <2>4. ASSUME NEW j \in Job, LeaseRunsOut(j) PROVE UNCHANGED <<LeftNow, PlacedNow, DoneNow>>
    <3>1. \A k \in Job : jobs'[k].state = jobs[k].state
      <4>1. TableTypeOK /\ {j} \in SUBSET Job /\ ExpireAll({j})
        BY <2>4, FreeParts DEF MoveInv, TypeOK, LeaseRunsOut, Expire
      <4> QED BY <4>1, ExpireWrites
    <3>2. DoneNow' = DoneNow
      BY <3>1 DEF DoneNow
    <3> QED BY <2>4, <3>2 DEF LeaseRunsOut, fileVars, LeftNow, PlacedNow, Placed, PlannedActions
  <2>5. ~Edit
    <3>1. edits \in 0..0
      BY FreeParts DEF MoveInv, TypeOK
    <3> QED BY <3>1 DEF Edit
  <2>6. CASE UNCHANGED vars
    BY <2>1, <2>3, <2>6 DEF vars
  <2> QED BY <2>1, <2>2, <2>4, <2>5, <2>6, Steps DEF Step
<1>3. MoveInv /\ [Next]_vars => MoveInv'
  BY FreeKept DEF MoveInv
<1>4. Init => MoveInv
  BY FreeInit
<1> QED BY <1>4, <1>1, <1>2, <1>3, PTL DEF Spec, ImplementsMover, Move!MoverSpec

-----------------------------------------------------------------------------
(***************************************************************************)
(* NoDataLoss once more, where streams may be cut and leases are kept.     *)
(***************************************************************************)
LEMMA KeptInTime ==
    ASSUME FreeInv, NEW q \in Owner, Step(q), NEW s \in Source, Kept(s)
    PROVE  Kept(s)'
<1>1. /\ TypeOK /\ PlacesTyped /\ LedgerTruthful /\ Free(q) /\ Onward(q) /\ s # Absent
      /\ src \in [Source -> File] /\ dst \in [Target -> File]
      /\ \A p \in Owner : bak[p] = Absent
  BY FreeParts, FileAssumption DEF TypeOK, Free
<1>2. /\ A(q) \in PlannedActions /\ A(q).target \in Target /\ Want(q) = A(q).source
      /\ A(q).source \in Source
  BY <1>1, PlannedHere
<1>3. S(q) # Absent => S(q) = Want(q)
  BY <1>2, FreeParts DEF Pristine, S
<1>4. /\ J(q) \in Job /\ idx[q] \in DOMAIN ActionsOf[J(q)]
      /\ A(q) = ActionsOf[J(q)][idx[q]]
  BY ArrivedThere
<1>5. /\ \/ dst' = dst
         \/ T(q) = Absent /\ \E content : WritesTarget(q, content)
      /\ \/ src' = src
         \/ pc[q] = "rename" /\ TakesSource(q) /\ WritesTarget(q, Want(q))
         \/ pc[q] = "remove" /\ TakesSource(q) /\ dst' = dst
  <2>1. CASE Does(q)
    <3>1. pc[q] \notin {"protect", "cleanup"} /\ bak[q] = Absent
      BY <1>1 DEF Free
    <3>2. pc[q] \in {"rename", "hard_link", "upload", "publish"} => T(q) = Absent
      BY <1>1 DEF Free, Fresh
    <3> QED BY <1>3, <2>1, <3>1, <3>2 DEF Does, fileVars
  <2> QED BY <1>1, <2>1, Deeds DEF Aside, Sees, Fills, fileVars
<1>6. ASSUME NEW a \in PlannedActions, a.source = s, dst[a.target] = s PROVE Kept(s)'
  <2>1. a.target \in Target
    BY PlannedTyped
  <2>2. dst'[a.target] = dst[a.target]
    BY <1>1, <1>2, <1>5, <1>6, <2>1 DEF WritesTarget, T
  <2> QED BY <1>6, <2>2 DEF Kept, Placed, PlannedActions
<1>7. CASE src[s] = s
  <2>1. CASE src'[s] = s
    BY <2>1 DEF Kept
  <2>2. CASE src'[s] # s
    <3>1. A(q).source = s
      BY <1>1, <1>2, <1>5, <1>7, <2>2 DEF TakesSource
    <3>2. CASE WritesTarget(q, Want(q))
      <4>1. dst'[A(q).target] = s
        BY <1>1, <1>2, <3>1, <3>2 DEF WritesTarget
      <4> QED BY <1>2, <3>1, <4>1 DEF Kept, Placed, PlannedActions
    <3>3. CASE pc[q] = "remove"
      <4>1. Promoted(J(q), idx[q])
        BY <1>1, <1>4, <3>3 DEF Onward, Brought, Removing, Acts
      <4>2. dst[A(q).target] = s
        BY <1>1, <1>4, <3>1, <4>1 DEF LedgerTruthful, Placed
      <4> QED BY <1>2, <1>6, <3>1, <4>2
    <3> QED BY <1>5, <1>7, <2>2, <3>2, <3>3
  <2> QED BY <2>1, <2>2
<1> QED BY <1>1, <1>6, <1>7 DEF Kept, Placed

\* As long as a working process keeps its lease, not even a cut stream that
\* passes for a whole one loses a file: a source goes after its destination has
\* been verified, and nobody writes there any more (executor.rs:216-273).
THEOREM NothingIsLostInTime ==
    ASSUME Overruns = FALSE, MaxEdits = 0
    PROVE  Spec => NoDataLoss
<1>1. FreeInv /\ [Next]_vars => [LossStep]_vars
  <2> SUFFICES ASSUME FreeInv, Next PROVE LossStep \/ UNCHANGED vars
    OBVIOUS
  <2>1. ASSUME NEW q \in Owner, Step(q) PROVE LossStep
    BY <2>1, KeptInTime DEF LossStep
  <2>2. ASSUME NEW j \in Job, LeaseRunsOut(j) PROVE LossStep
    BY <2>2 DEF LeaseRunsOut, fileVars, LossStep, Kept, Placed, PlannedActions
  <2>3. ~Edit
    <3>1. edits \in 0..0
      BY FreeParts DEF TypeOK
    <3> QED BY <3>1 DEF Edit
  <2> QED BY <2>1, <2>2, <2>3, Steps DEF Step
<1>2. FreeInv /\ [Next]_vars => FreeInv'
  BY FreeKept
<1>3. NoDataLoss <=> [][LossStep]_vars
  BY DEF NoDataLoss, LossStep
<1>4. Init => FreeInv
  BY FreeInit
<1> QED BY <1>1, <1>2, <1>3, <1>4, PTL DEF Spec
=============================================================================
