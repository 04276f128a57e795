------------------------------ MODULE JobTable ------------------------------
(***************************************************************************)
(* What the jobs table of the SQLite state store (src/state.rs) promises   *)
(* the processes that share it: one row per job with a state, an owner and *)
(* a lease that is live or not.                                            *)
(*                                                                         *)
(* A lease is a flag here: live means lease_until >= now.  StateStore has  *)
(* the clock, the revision and the event log, and implements this module.  *)
(* Each operator is one transaction of the store that returns Ok.          *)
(***************************************************************************)
CONSTANTS
    Job,        \* job ids (digests of a plan or of an acquisition key)
    KindOf,     \* the kind each job is always claimed with
    Owner,      \* process_owner() of each process
    NoOne       \* owner IS NULL

ASSUME KindAssumption == KindOf \in [Job -> {"migration", "subtitle"}]
ASSUME OwnerAssumption == NoOne \notin Owner

VARIABLE jobs

JobState == {"NONE", "CLAIMED", "STAGING", "VERIFIED", "REMOVING_SOURCE",
             "COMMITTED", "ACQUIRING", "TRANSLATING", "READY", "FAILED"}

Terminal == {"COMMITTED", "READY", "FAILED"}

\* No row: the state "NONE" stands for a key the table does not hold.
NoJob == [state |-> "NONE", owner |-> NoOne, live |-> FALSE]

(***************************************************************************)
(* valid_transition                                                        *)
(***************************************************************************)
MigrationStep == {<<"CLAIMED", "STAGING">>, <<"STAGING", "VERIFIED">>,
                  <<"VERIFIED", "REMOVING_SOURCE">>, <<"REMOVING_SOURCE", "COMMITTED">>}

SubtitleStep == {<<"CLAIMED", "ACQUIRING">>, <<"ACQUIRING", "TRANSLATING">>,
                 <<"TRANSLATING", "VERIFIED">>, <<"VERIFIED", "READY">>}

ValidTransition(kind, from, to) ==
    \/ to = "FAILED" /\ from \notin {"COMMITTED", "READY"}
    \/ kind = "migration" /\ <<from, to>> \in MigrationStep
    \/ kind = "subtitle" /\ <<from, to>> \in SubtitleStep

\* The complete_state argument: a migration stops at COMMITTED; a subtitle job
\* passes a name no job ever has, so that an unusable artifact is made again.
CompleteState(kind) == IF kind = "migration" THEN "COMMITTED" ELSE "RECLAIM"

-----------------------------------------------------------------------------
Leased(j, o) == jobs[j].owner \notin {NoOne, o} /\ jobs[j].live

AlreadyComplete(j) == jobs[j].state = CompleteState(KindOf[j])

\* Whatever state the row is in, a claim starts the job again from CLAIMED.
Claim(j, o) ==
    /\ ~AlreadyComplete(j)
    /\ ~Leased(j, o)
    /\ jobs' = [jobs EXCEPT ![j] = [state |-> "CLAIMED", owner |-> o, live |-> TRUE]]

\* Only the owner column is compared: an expired lease nobody else has claimed
\* comes back to life.
Renew(j, o) ==
    /\ jobs[j].owner = o
    /\ jobs' = [jobs EXCEPT ![j].live = TRUE]

\* The lease is compared with a clock that was read before the write lock was
\* waited for, so a transition may still succeed just after its lease ran out,
\* and may be Refused; it never succeeds once somebody else holds the job.
MayTransition(j, o, from, to) ==
    /\ ValidTransition(KindOf[j], from, to)
    /\ jobs[j].state = from
    /\ jobs[j].owner = o

Refused(j, o, from, to) == ~(MayTransition(j, o, from, to) /\ jobs[j].live)

Transition(j, o, from, to) ==
    /\ MayTransition(j, o, from, to)
    /\ jobs' = [jobs EXCEPT ![j] =
                  IF to \in Terminal
                  THEN [state |-> to, owner |-> NoOne, live |-> FALSE]
                  ELSE [@ EXCEPT !.state = to]]

Fail(j, o) == \E from \in JobState \ {"NONE", "FAILED"} : Transition(j, o, from, "FAILED")

\* Time passes beyond lease_until, of several jobs at once when it comes to that.
ExpireAll(expired) ==
    /\ \A j \in expired : jobs[j].live
    /\ jobs' = [j \in Job |-> IF j \in expired THEN [jobs[j] EXCEPT !.live = FALSE] ELSE jobs[j]]

Expire(j) == ExpireAll({j})

-----------------------------------------------------------------------------
TableInit == jobs = [j \in Job |-> NoJob]

TableNext ==
    \/ \E expired \in SUBSET Job : ExpireAll(expired)
    \/ \E j \in Job, o \in Owner :
          \/ Claim(j, o) \/ Renew(j, o) \/ Fail(j, o)
          \/ \E step \in MigrationStep \cup SubtitleStep : Transition(j, o, step[1], step[2])

TableSpec == TableInit /\ [][TableNext]_jobs

-----------------------------------------------------------------------------
TableTypeOK ==
    jobs \in [Job -> [state : JobState, owner : Owner \cup {NoOne}, live : BOOLEAN]]

\* A job has an owner exactly while it is between a claim and a terminal state,
\* and only an owned job has a live lease: no caller can be locked out of a
\* finished job, and no unfinished job is without someone to wait for.
OwnedWhileOpen ==
    \A j \in Job :
        /\ jobs[j].owner = NoOne <=> jobs[j].state \in Terminal \cup {"NONE"}
        /\ jobs[j].live => jobs[j].owner # NoOne
=============================================================================
