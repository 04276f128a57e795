----------------------------- MODULE Migration -----------------------------
(***************************************************************************)
(* Applying approved migration plans (src/migration/executor.rs) with the  *)
(* state store of JobTable and the local and FTP storages it moves files   *)
(* between.  Any number of processes run plans at the same time; a process *)
(* may meet an I/O error or die between any two of its steps, and the      *)
(* operator runs the plan again.                                           *)
(*                                                                         *)
(* File contents: a source path names the bytes the plan fingerprinted     *)
(* there (equal SHA-256 means equal content), so src[s] = s says that the  *)
(* planned bytes are still in place and dst[t] = s that they have arrived. *)
(***************************************************************************)
EXTENDS ActionLedger, Sequences

CONSTANTS
    Plan,       \* approved plans
    JobsOf,     \* the ready items of a plan, one job each, in plan order
    ActionsOf,  \* item.actions(): sidecars first, the video last
    Source,     \* paths below the source root
    Target,     \* lower-cased paths below the destination root
    Links,      \* the pairs of endpoint kinds a config may bind
    Absent,     \* no file at the path
    Foreign,    \* content no plan ever fingerprinted
    Torn,       \* a prefix of a file, left by a transfer that was cut
    Found,      \* what may be at a destination path before any plan runs
    MaxFaults,  \* bound on the I/O errors, crashes and cut transfers
    MaxEdits,   \* bound on the changes other programs make to the two trees
    CutStreams, \* whether a cut data connection may look like the end of the file
    Overruns,   \* whether a step of a live process may outlast its lease
    EditRaces   \* whether other programs may act between a check and its use

Content == Source \cup {Foreign, Torn}
File == Content \cup {Absent}

\* local and FTP endpoints; "same_ftp" is one FTP account on both sides.
Link == {"local_local", "local_ftp", "ftp_local", "ftp_ftp", "same_ftp"}

FileAction == [source : Source, target : Target]

ASSUME PlanAssumption ==
    /\ Index \subseteq Nat
    /\ Identity = FileAction
    /\ KeyOf = [id \in FileAction |-> id.target]
    /\ KindOf = [j \in Job |-> "migration"]
    /\ JobsOf \in [Plan -> Seq(Job)]
    /\ ActionsOf \in [Job -> Seq(FileAction)]
    /\ Plan # {} /\ \A b \in Plan : JobsOf[b] # <<>>
    /\ \A j \in Job : ActionsOf[j] # <<>> /\ DOMAIN ActionsOf[j] \subseteq Index
    \* a job id is the digest of the plan hash and the item's source path
    /\ \A b1, b2 \in Plan : \A k1 \in DOMAIN JobsOf[b1], k2 \in DOMAIN JobsOf[b2] :
          JobsOf[b1][k1] = JobsOf[b2][k2] => b1 = b2 /\ k1 = k2

ASSUME FileAssumption ==
    /\ Links \subseteq Link /\ Found \subseteq File
    /\ {Absent, Foreign, Torn} \cap Source = {}
    /\ Absent \notin {Foreign, Torn} /\ Foreign # Torn
    /\ MaxFaults \in Nat /\ MaxEdits \in Nat
    /\ {CutStreams, Overruns, EditRaces} \subseteq BOOLEAN

VARIABLES
    src, dst,   \* the file at each source and destination path
    bak,        \* the .subtrans-backup file a process's FTP upload has made
    link,       \* the endpoints of the config
    pc, plan, item, idx,  \* where each process is: plan, item, action
    seen,       \* the action state a process has read
    buf,        \* what its upload holds in the temporary file
    faults, edits

tableVars == <<jobs, actions>>
fileVars == <<src, dst, bak>>
placeVars == <<plan, item, idx>>
worldVars == <<link, faults, edits>>
vars == <<jobs, actions, src, dst, bak, link, pc, plan, item, idx, seen, buf,
          faults, edits>>

J(p) == JobsOf[plan[p]][item[p]]
Acts(p) == ActionsOf[J(p)]
A(p) == Acts(p)[idx[p]]
S(p) == src[A(p).source]
T(p) == dst[A(p).target]
Want(p) == A(p).source

AnyPlan == CHOOSE b \in Plan : TRUE

Fault == faults < MaxFaults /\ faults' = faults + 1 /\ UNCHANGED <<link, edits>>

Goto(p, next) == pc' = [pc EXCEPT ![p] = next]

\* Mutant: the loop runs once too often.
NextActionOffByOne(p, again, after) ==
    IF idx[p] <= Len(Acts(p))
    THEN Goto(p, again) /\ idx' = [idx EXCEPT ![p] = @ + 1]
    ELSE Goto(p, after) /\ idx' = [idx EXCEPT ![p] = 1]

\* One step of a loop over the item's actions.
NextAction(p, again, after) ==
    IF idx[p] < Len(Acts(p))
    THEN Goto(p, again) /\ idx' = [idx EXCEPT ![p] = @ + 1]
    ELSE Goto(p, after) /\ idx' = [idx EXCEPT ![p] = 1]

\* The `?` of a check that reads and changes nothing but the process's place.
Require(p, condition, next) ==
    /\ Goto(p, IF condition THEN next ELSE "failing")
    /\ UNCHANGED <<tableVars, fileVars, placeVars, worldVars, seen, buf>>

Exit(p) ==
    /\ Goto(p, "off")
    /\ plan' = [plan EXCEPT ![p] = AnyPlan]
    /\ item' = [item EXCEPT ![p] = 1]
    /\ idx' = [idx EXCEPT ![p] = 1]
    /\ seen' = [seen EXCEPT ![p] = "NONE"]
    /\ buf' = [buf EXCEPT ![p] = Absent]

\* The end of one round of `for item in &plan.items`.
NextItem(p) ==
    IF item[p] < Len(JobsOf[plan[p]])
    THEN /\ Goto(p, "claim")
         /\ item' = [item EXCEPT ![p] = @ + 1]
         /\ idx' = [idx EXCEPT ![p] = 1]
         /\ UNCHANGED <<plan, seen, buf>>
    ELSE Exit(p)

-----------------------------------------------------------------------------
(***************************************************************************)
(* Starting: hash, config and approval hold, so preflight_plan is next.    *)
(* process_owner() is new on every start: an owner in use is not reused.   *)
(***************************************************************************)
Start(p, b) ==
    /\ pc[p] = "off"
    /\ \A j \in Job : jobs[j].owner # p
    /\ bak[p] = Absent
    /\ Goto(p, "preflight")
    /\ plan' = [plan EXCEPT ![p] = b]
    /\ UNCHANGED <<tableVars, fileVars, worldVars, item, idx, seen, buf>>

PreflightOk(p) ==
    /\ S(p) # Absent \/ T(p) # Absent
    /\ S(p) \in {Absent, Want(p)}
    /\ T(p) \in {Absent, Want(p)}

Preflight(p) ==
    /\ pc[p] = "preflight"
    /\ IF ~PreflightOk(p) THEN Exit(p)
       ELSE /\ IF idx[p] < Len(Acts(p))
               THEN Goto(p, "preflight") /\ idx' = [idx EXCEPT ![p] = @ + 1] /\ UNCHANGED item
               ELSE /\ idx' = [idx EXCEPT ![p] = 1]
                    /\ IF item[p] < Len(JobsOf[plan[p]])
                       THEN Goto(p, "preflight") /\ item' = [item EXCEPT ![p] = @ + 1]
                       ELSE Goto(p, "claim") /\ item' = [item EXCEPT ![p] = 1]
            /\ UNCHANGED <<plan, seen, buf>>
    /\ UNCHANGED <<tableVars, fileVars, worldVars>>

-----------------------------------------------------------------------------
(***************************************************************************)
(* apply_item up to the STAGING state                                      *)
(***************************************************************************)
ClaimJob(p) ==
    /\ pc[p] = "claim"
    /\ \/ /\ AlreadyComplete(J(p))
          /\ Goto(p, "recheck")
          /\ UNCHANGED tableVars
       \/ /\ Claim(J(p), p)
          /\ Goto(p, "register")
          /\ UNCHANGED actions
       \/ /\ ~AlreadyComplete(J(p)) /\ Leased(J(p), p)
          /\ Goto(p, "failing")
          /\ UNCHANGED tableVars
    /\ UNCHANGED <<fileVars, placeVars, worldVars, seen, buf>>

\* verify_all_destinations of a job that is COMMITTED already.
Recheck(p) ==
    /\ pc[p] = "recheck"
    /\ IF T(p) = Want(p)
       THEN IF idx[p] < Len(Acts(p))
            THEN /\ NextAction(p, "recheck", "recheck")
                 /\ UNCHANGED <<plan, item, seen, buf>>
            ELSE NextItem(p)
       ELSE Goto(p, "failing") /\ UNCHANGED <<placeVars, seen, buf>>
    /\ UNCHANGED <<tableVars, fileVars, worldVars>>

Register(p) ==
    /\ pc[p] = "register"
    /\ \/ /\ RegisterAction(J(p), idx[p], A(p))
          /\ NextAction(p, "register", "to_staging")
       \/ /\ ~MayRegister(J(p), idx[p], A(p))
          /\ Goto(p, "failing")
          /\ UNCHANGED <<actions, idx>>
    /\ UNCHANGED <<jobs, fileVars, plan, item, worldVars, seen, buf>>

\* A transition of the job's state, whose error ends the run.
Advance(p, at, from, to, next) ==
    /\ pc[p] = at
    /\ \/ Transition(J(p), p, from, to) /\ Goto(p, next)
       \/ /\ Refused(J(p), p, from, to)
          /\ Goto(p, "failing")
          /\ UNCHANGED jobs
    /\ UNCHANGED <<actions, fileVars, placeVars, worldVars, seen, buf>>

ToStaging(p) == Advance(p, "to_staging", "CLAIMED", "STAGING", "renew_promote")

-----------------------------------------------------------------------------
(***************************************************************************)
(* The promotion loop                                                      *)
(***************************************************************************)
RenewLease(p, at, next) ==
    /\ pc[p] = at
    /\ \/ Renew(J(p), p) /\ Goto(p, next)
       \/ /\ jobs[J(p)].owner # p
          /\ Goto(p, "failing")
          /\ UNCHANGED jobs
    /\ UNCHANGED <<actions, fileVars, placeVars, worldVars, seen, buf>>

RenewToPromote(p) == RenewLease(p, "renew_promote", "look")

Promoted(j, i) == actions[j][i].state \in {"PROMOTED", "SOURCE_REMOVED"}

\* The action state is read; an action promoted before is verified and skipped.
Look(p) ==
    /\ pc[p] = "look"
    /\ IF ~Promoted(J(p), idx[p]) THEN Goto(p, "check_target") /\ UNCHANGED idx
       ELSE IF T(p) = Want(p) THEN NextAction(p, "renew_promote", "verify_all")
       ELSE Goto(p, "failing") /\ UNCHANGED idx
    /\ UNCHANGED <<tableVars, fileVars, plan, item, worldVars, seen, buf>>

FirstTransport ==
    CASE link = "same_ftp" -> "rename_check"
      [] link \in {"ftp_ftp", "ftp_local"} -> "stream"
      [] link = "local_local" -> "hard_link"
      [] link = "local_ftp" -> "stage_copy"

\* Mutant: nobody asks whether the destination exists.
CheckTargetBlind(p) ==
    /\ pc[p] = "check_target"
    /\ Require(p, S(p) = Want(p), FirstTransport)

\* Mutant: an existing destination is an error, whatever it holds.
CheckTargetStrict(p) ==
    /\ pc[p] = "check_target"
    /\ Require(p, T(p) = Absent /\ S(p) = Want(p), FirstTransport)

\* promote_action up to the choice of a transport.
CheckTarget(p) ==
    /\ pc[p] = "check_target"
    /\ IF T(p) # Absent
       THEN Require(p, T(p) = Want(p) /\ S(p) \in {Absent, Want(p)}, "set_promoted")
       ELSE Require(p, S(p) = Want(p), FirstTransport)

\* FtpStorage::rename asks for the target's metadata, then sends RNFR and RNTO.
RenameCheck(p) ==
    /\ pc[p] = "rename_check"
    /\ Goto(p, IF T(p) = Absent THEN "rename" ELSE "rename_recheck")
    /\ UNCHANGED <<tableVars, fileVars, placeVars, worldVars, seen, buf>>

\* The server may refuse (another volume), and its reply may be lost.
ServerRename(p) ==
    /\ pc[p] = "rename"
    /\ \/ /\ S(p) # Absent
          /\ dst' = [dst EXCEPT ![A(p).target] = S(p)]
          /\ src' = [src EXCEPT ![A(p).source] = Absent]
          /\ \/ Goto(p, "verify") /\ UNCHANGED worldVars
             \/ Goto(p, "rename_recheck") /\ Fault
       \/ Goto(p, "rename_recheck") /\ UNCHANGED <<src, dst, worldVars>>
    /\ UNCHANGED <<tableVars, bak, placeVars, seen, buf>>

RenameRecheck(p) ==
    /\ pc[p] = "rename_recheck"
    /\ Goto(p, IF S(p) # Absent /\ T(p) = Absent THEN "stream"
               ELSE IF S(p) = Absent /\ T(p) # Absent THEN "verify" ELSE "failing")
    /\ UNCHANGED <<tableVars, fileVars, placeVars, worldVars, seen, buf>>

\* Filling the temporary file of an upload.
Fill(p, content) ==
    /\ buf' = [buf EXCEPT ![p] = content]
    /\ Goto(p, "upload")

\* stream_to: the data connection is read until its end, whatever ended it.
Stream(p) ==
    /\ pc[p] = "stream"
    /\ \/ S(p) # Absent /\ Fill(p, S(p)) /\ UNCHANGED worldVars
       \/ S(p) # Absent /\ CutStreams /\ Fill(p, Torn) /\ Fault
       \/ S(p) = Absent /\ Goto(p, "failing") /\ UNCHANGED <<buf, worldVars>>
    /\ UNCHANGED <<tableVars, fileVars, placeVars, seen>>

\* A hard link never replaces a file.  Where links are not possible the source
\* is copied into the temporary file of a local upload.
HardLink(p) ==
    /\ pc[p] = "hard_link"
    /\ IF S(p) # Absent /\ T(p) = Absent
       THEN \/ /\ dst' = [dst EXCEPT ![A(p).target] = S(p)]
               /\ Goto(p, "verify")
               /\ UNCHANGED buf
            \/ Fill(p, S(p)) /\ UNCHANGED dst
       ELSE Goto(p, "failing") /\ UNCHANGED <<dst, buf>>
    /\ UNCHANGED <<tableVars, src, bak, placeVars, worldVars, seen>>

\* copy_and_verify: the staged copy is hashed before it is uploaded.
StageCopy(p) ==
    /\ pc[p] = "stage_copy"
    /\ IF S(p) = Want(p) THEN Fill(p, S(p)) ELSE Goto(p, "failing") /\ UNCHANGED buf
    /\ UNCHANGED <<tableVars, fileVars, placeVars, worldVars, seen>>

-----------------------------------------------------------------------------
(***************************************************************************)
(* upload_atomic: a rename that replaces the file on a local destination,  *)
(* and on an FTP server, which may not replace a file, a rename of the old *)
(* file to a backup name first.                                            *)
(***************************************************************************)
ToFtp == link \in {"local_ftp", "ftp_ftp", "same_ftp"}

\* The upload has filled the temporary file and its size has been compared.  A
\* server that cannot be asked for the final file counts as one without it.
Upload(p) ==
    /\ pc[p] = "upload"
    /\ IF ToFtp
       THEN /\ \/ Goto(p, IF T(p) = Absent THEN "publish" ELSE "protect") /\ UNCHANGED worldVars
               \/ T(p) # Absent /\ Goto(p, "publish") /\ Fault
            /\ UNCHANGED <<dst, buf>>
       ELSE /\ dst' = [dst EXCEPT ![A(p).target] = buf[p]]
            /\ buf' = [buf EXCEPT ![p] = Absent]
            /\ Goto(p, "verify")
            /\ UNCHANGED worldVars
    /\ UNCHANGED <<tableVars, src, bak, placeVars, seen>>

\* The existing final file becomes the backup file.
Protect(p) ==
    /\ pc[p] = "protect"
    /\ IF T(p) = Absent
       THEN Goto(p, "failing") /\ UNCHANGED <<dst, bak>>
       ELSE /\ bak' = [bak EXCEPT ![p] = T(p)]
            /\ dst' = [dst EXCEPT ![A(p).target] = Absent]
            /\ Goto(p, "publish")
    /\ UNCHANGED <<tableVars, src, placeVars, worldVars, seen, buf>>

\* The temporary file takes the final name; a server may refuse to replace a
\* file that has appeared there.  On an error the backup is put back, or is not:
\* the result of that rename is ignored.
Publish(p) ==
    /\ pc[p] = "publish"
    /\ \/ /\ dst' = [dst EXCEPT ![A(p).target] = buf[p]]
          /\ Goto(p, IF bak[p] = Absent THEN "verify" ELSE "cleanup")
          /\ UNCHANGED <<bak, worldVars>>
       \/ /\ Fault
          /\ Goto(p, "failing")
          /\ \/ UNCHANGED <<dst, bak>>
             \/ /\ bak[p] # Absent
                /\ dst' = [dst EXCEPT ![A(p).target] = bak[p]]
                /\ bak' = [bak EXCEPT ![p] = Absent]
             \/ /\ dst' = [dst EXCEPT ![A(p).target] = buf[p]]
                /\ UNCHANGED bak
       \/ /\ T(p) # Absent
          /\ Goto(p, "failing")
          /\ UNCHANGED <<dst, bak, worldVars>>
    /\ buf' = [buf EXCEPT ![p] = Absent]
    /\ UNCHANGED <<tableVars, src, placeVars, seen>>

\* The backup file is deleted, or is left behind with a warning: its name is of
\* this upload alone, so nobody comes back to it.
Cleanup(p) ==
    /\ pc[p] = "cleanup"
    /\ Goto(p, "verify")
    /\ bak' = [bak EXCEPT ![p] = Absent]
    /\ UNCHANGED <<tableVars, src, dst, placeVars, worldVars, seen, buf>>

\* Mutant: the destination only has to exist after a transport.
VerifyExists(p) == pc[p] = "verify" /\ Require(p, T(p) # Absent, "set_promoted")

\* verify_destination after a transport.
Verify(p) == pc[p] = "verify" /\ Require(p, T(p) = Want(p), "set_promoted")

\* Mutant: an action's source is removed as soon as the action is promoted.
SetPromotedThenRemove(p) ==
    /\ pc[p] = "set_promoted"
    /\ SetActionState(J(p), idx[p], "PLANNED", "PROMOTED")
    /\ Goto(p, "look_remove")
    /\ UNCHANGED <<jobs, fileVars, placeVars, worldVars, seen, buf>>

SetPromoted(p) ==
    /\ pc[p] = "set_promoted"
    /\ \/ /\ SetActionState(J(p), idx[p], "PLANNED", "PROMOTED")
          /\ NextAction(p, "renew_promote", "verify_all")
       \/ /\ ~MaySetAction(J(p), idx[p], "PLANNED", "PROMOTED")
          /\ Goto(p, "failing")
          /\ UNCHANGED <<actions, idx>>
    /\ UNCHANGED <<jobs, fileVars, plan, item, worldVars, seen, buf>>

-----------------------------------------------------------------------------
(***************************************************************************)
(* The removal loop and the commit                                         *)
(***************************************************************************)
VerifyEach(p, at, after) ==
    /\ pc[p] = at
    /\ IF T(p) = Want(p) THEN NextAction(p, at, after)
       ELSE Goto(p, "failing") /\ UNCHANGED idx
    /\ UNCHANGED <<tableVars, fileVars, plan, item, worldVars, seen, buf>>

VerifyAll(p) == VerifyEach(p, "verify_all", "to_verified")

ToVerified(p) == Advance(p, "to_verified", "STAGING", "VERIFIED", "to_removing")

ToRemoving(p) ==
    Advance(p, "to_removing", "VERIFIED", "REMOVING_SOURCE", "renew_remove")

RenewToRemove(p) == RenewLease(p, "renew_remove", "look_remove")

\* The action state is read before the destination is verified once more.
LookToRemove(p) ==
    /\ pc[p] = "look_remove"
    /\ seen' = [seen EXCEPT ![p] = actions[J(p)][idx[p]].state]
    /\ Goto(p, IF T(p) = Want(p) THEN "check_source" ELSE "failing")
    /\ UNCHANGED <<tableVars, fileVars, placeVars, worldVars, buf>>

CheckSource(p) ==
    /\ pc[p] = "check_source"
    /\ IF S(p) = Absent THEN Require(p, TRUE, "set_removed")
       ELSE Require(p, S(p) = Want(p), "remove")

Remove(p) ==
    /\ pc[p] = "remove"
    /\ IF S(p) = Absent
       THEN Goto(p, "failing") /\ UNCHANGED src
       ELSE Goto(p, "set_removed") /\ src' = [src EXCEPT ![A(p).source] = Absent]
    /\ UNCHANGED <<tableVars, dst, bak, placeVars, worldVars, seen, buf>>

SetRemoved(p) ==
    /\ pc[p] = "set_removed"
    /\ \/ /\ seen[p] = "PROMOTED"
          /\ SetActionState(J(p), idx[p], "PROMOTED", "SOURCE_REMOVED")
          /\ NextAction(p, "renew_remove", "final_verify")
       \/ /\ seen[p] = "SOURCE_REMOVED"
          /\ NextAction(p, "renew_remove", "final_verify")
          /\ UNCHANGED actions
       \/ /\ seen[p] = "PROMOTED" => ~MaySetAction(J(p), idx[p], "PROMOTED", "SOURCE_REMOVED")
          /\ seen[p] # "SOURCE_REMOVED"
          /\ Goto(p, "failing")
          /\ UNCHANGED <<actions, idx>>
    /\ seen' = [seen EXCEPT ![p] = "NONE"]
    /\ UNCHANGED <<jobs, fileVars, plan, item, worldVars, buf>>

FinalVerify(p) == VerifyEach(p, "final_verify", "commit")

Commit(p) ==
    /\ pc[p] = "commit"
    /\ \/ Transition(J(p), p, "REMOVING_SOURCE", "COMMITTED") /\ NextItem(p)
       \/ /\ Refused(J(p), p, "REMOVING_SOURCE", "COMMITTED")
          /\ Goto(p, "failing")
          /\ UNCHANGED <<jobs, placeVars, seen, buf>>
    /\ UNCHANGED <<actions, fileVars, worldVars>>

-----------------------------------------------------------------------------
(***************************************************************************)
(* Errors, crashes, time and other programs                                *)
(***************************************************************************)

\* `let _ = state.fail(..); return Err(error)`
FailJob(p) ==
    /\ pc[p] = "failing"
    /\ \/ Fail(J(p), p)
       \/ /\ \A from \in JobState \ {"NONE", "FAILED"} : Refused(J(p), p, from, "FAILED")
          /\ UNCHANGED jobs
    /\ Exit(p)
    /\ UNCHANGED <<actions, fileVars, worldVars>>

\* Any storage or database call of a step may return an error instead.
IoError(p) ==
    /\ pc[p] \notin {"off", "failing"}
    /\ Fault
    /\ IF pc[p] = "preflight" THEN Exit(p)
       ELSE Goto(p, "failing") /\ UNCHANGED <<placeVars, seen, buf>>
    /\ UNCHANGED <<tableVars, fileVars>>

Crash(p) ==
    /\ pc[p] # "off"
    /\ Fault
    /\ Exit(p)
    /\ UNCHANGED <<tableVars, fileVars>>

AtWork(j) == \E p \in Owner : pc[p] # "off" /\ jobs[j].owner = p

LeaseRunsOut(j) ==
    /\ Overruns \/ ~AtWork(j)
    /\ Expire(j)
    /\ UNCHANGED <<actions, fileVars, placeVars, worldVars, pc, seen, buf>>

\* From the check that a destination is free, or that a destination and a source
\* hold the planned bytes, to the write or the removal that relies on it.
Window == {"rename_check", "rename", "rename_recheck", "stream", "hard_link",
           "stage_copy", "upload", "protect", "publish", "check_source", "remove"}

\* Another program puts a file of its own at a path of either tree.
Edit ==
    /\ edits < MaxEdits
    /\ EditRaces \/ \A p \in Owner : pc[p] \notin Window
    /\ edits' = edits + 1
    /\ \/ \E t \in Target : dst' = [dst EXCEPT ![t] = Foreign] /\ UNCHANGED src
       \/ \E s \in Source : src' = [src EXCEPT ![s] = Foreign] /\ UNCHANGED dst
    /\ UNCHANGED <<tableVars, bak, link, faults, placeVars, pc, seen, buf>>

-----------------------------------------------------------------------------
Init ==
    /\ TableInit /\ LedgerInit
    /\ src = [s \in Source |-> s]
    /\ dst \in [Target -> Found]
    /\ bak = [p \in Owner |-> Absent]
    /\ link \in Links
    /\ pc = [p \in Owner |-> "off"]
    /\ plan = [p \in Owner |-> AnyPlan]
    /\ item = [p \in Owner |-> 1]
    /\ idx = [p \in Owner |-> 1]
    /\ seen = [p \in Owner |-> "NONE"]
    /\ buf = [p \in Owner |-> Absent]
    /\ faults = 0
    /\ edits = 0

Promote(p) ==
    \/ RenewToPromote(p) \/ Look(p) \/ CheckTarget(p)
    \/ RenameCheck(p) \/ ServerRename(p) \/ RenameRecheck(p)
    \/ Stream(p) \/ HardLink(p) \/ StageCopy(p)
    \/ Upload(p) \/ Protect(p) \/ Publish(p) \/ Cleanup(p)
    \/ Verify(p) \/ SetPromoted(p)

RemoveSources(p) ==
    \/ RenewToRemove(p) \/ LookToRemove(p) \/ CheckSource(p) \/ Remove(p)
    \/ SetRemoved(p)

\* The steps a process takes by itself once it has been started.
Run(p) ==
    \/ Preflight(p) \/ ClaimJob(p) \/ Recheck(p) \/ Register(p) \/ ToStaging(p)
    \/ Promote(p) \/ VerifyAll(p) \/ ToVerified(p) \/ ToRemoving(p)
    \/ RemoveSources(p) \/ FinalVerify(p) \/ Commit(p) \/ FailJob(p)

Next ==
    \/ \E p \in Owner : Run(p) \/ IoError(p) \/ Crash(p) \/ \E b \in Plan : Start(p, b)
    \/ \E j \in Job : LeaseRunsOut(j)
    \/ Edit

Spec == Init /\ [][Next]_vars

\* A started process goes on; the operator or the scheduler runs every approved
\* plan again and again; the clock passes the lease of a process that is gone.
FairSpec ==
    /\ Spec
    /\ \A p \in Owner : WF_vars(Run(p)) /\ \A b \in Plan : WF_vars(Start(p, b))
    /\ \A j \in Job : WF_vars(LeaseRunsOut(j))

-----------------------------------------------------------------------------
(***************************************************************************)
(* Properties                                                              *)
(***************************************************************************)
PC == {"off", "preflight", "claim", "recheck", "register", "to_staging",
       "renew_promote", "look", "check_target", "rename_check", "rename",
       "rename_recheck", "stream", "hard_link", "stage_copy", "upload",
       "protect", "publish", "cleanup", "verify", "set_promoted", "verify_all",
       "to_verified", "to_removing", "renew_remove", "look_remove",
       "check_source", "remove", "set_removed", "final_verify", "commit",
       "failing"}

TypeOK ==
    /\ TableTypeOK /\ LedgerTypeOK
    /\ src \in [Source -> File] /\ dst \in [Target -> File] /\ bak \in [Owner -> File]
    /\ link \in Links
    /\ pc \in [Owner -> PC] /\ plan \in [Owner -> Plan]
    /\ item \in [Owner -> Nat] /\ idx \in [Owner -> Nat]
    /\ \A p \in Owner : item[p] \in DOMAIN JobsOf[plan[p]] /\ idx[p] \in DOMAIN Acts(p)
    /\ seen \in [Owner -> ActionState] /\ buf \in [Owner -> File]
    /\ faults \in 0..MaxFaults /\ edits \in 0..MaxEdits

PlannedActions == UNION {{ActionsOf[j][i] : i \in DOMAIN ActionsOf[j]} : j \in Job}

Placed(a) == dst[a.target] = a.source

\* The store never says more than the storage can show: an action recorded as
\* promoted has its planned bytes at the destination, and one recorded as
\* source-removed has no source file left (executor.rs:216-217, 256-273).
LedgerTruthful ==
    \A j \in Job : \A i \in DOMAIN ActionsOf[j] :
        LET a == ActionsOf[j][i] IN
        /\ Promoted(j, i) => Placed(a)
        /\ actions[j][i].state = "SOURCE_REMOVED" => src[a.source] = Absent

\* The planned bytes are at the source, at a destination planned for them, or in
\* a backup file that an upload has made.
Kept(s) ==
    \/ src[s] = s
    \/ \E a \in PlannedActions : a.source = s /\ Placed(a)
    \/ \E p \in Owner : bak[p] = s

\* No step of the program loses the last copy of a planned file, whatever crashes,
\* lease expiries and concurrent runs have come before (executor.rs:144-285,
\* storage/ftp.rs:542-610), where no other program has touched the files.
NoDataLoss == [][\A s \in Source : edits' = 0 /\ Kept(s) => Kept(s)']_vars

\* Content the program did not plan is never replaced, moved or deleted by it, in
\* either tree (executor.rs:292-299, 394-424).
ForeignKept ==
    [][ /\ \A t \in Target : edits' = edits /\ dst[t] = Foreign => dst'[t] = Foreign
        /\ \A s \in Source : edits' = edits /\ src[s] = Foreign => src'[s] = Foreign ]_vars

\* Files arrive before sources go, the video goes last, and what has arrived stays.
Move == INSTANCE Mover WITH
    left <- {a.source : a \in {b \in PlannedActions : src[b.source] = b.source}},
    placed <- {a \in PlannedActions : Placed(a)},
    done <- {j \in Job : jobs[j].state = "COMMITTED"}

ImplementsMover == Move!MoverSpec

\* As long as no destination holds anything but planned bytes, running the plan
\* again and again commits every item, wherever earlier runs were interrupted.
Recoverable ==
    [](\A t \in Target : dst[t] \in Source \cup {Absent})
        => <>(\A j \in Job : jobs[j].state = "COMMITTED")

\* When one plan has been given up for another of the same files, as the documents
\* ask, running the other alone moves the files (ARCHITECTURE.md:24).
PlanDone(b) == \A k \in DOMAIN JobsOf[b] : jobs[JobsOf[b][k]].state = "COMMITTED"

Replannable ==
    \A b \in Plan :
        <>[](\A p \in Owner : pc[p] # "off" => plan[p] = b) => <>(\E c \in Plan : PlanDone(c))
=============================================================================
