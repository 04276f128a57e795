---------------------------- MODULE ActionLedger ----------------------------
(***************************************************************************)
(* The job_actions table of the state store (src/state.rs): one row per    *)
(* file action of a migration job, which says how far the action has come  *)
(* and reserves its destination.  Each operator is one call that returns   *)
(* Ok; no statement ever deletes a row.                                    *)
(***************************************************************************)
EXTENDS JobTable, Naturals

CONSTANTS
    Index,      \* action_index values
    Identity,   \* (source, destination, destination_key, sha256) of an action
    KeyOf       \* the destination_key of an identity

ASSUME IdentityAssumption == NoOne \notin Identity

VARIABLE actions

ActionState == {"NONE", "PLANNED", "PROMOTED", "SOURCE_REMOVED"}

NoAction == [state |-> "NONE", id |-> NoOne]

Registered(j, i) == actions[j][i].state # "NONE"

\* Mutant: the unique index is missing.
ReservedNever(key) == FALSE

\* idx_job_actions_destination is unique over all jobs.
Reserved(key) == \E j \in Job, i \in Index :
                    Registered(j, i) /\ KeyOf[actions[j][i].id] = key

MayRegister(j, i, id) ==
    IF Registered(j, i) THEN actions[j][i].id = id ELSE ~Reserved(KeyOf[id])

RegisterAction(j, i, id) ==
    /\ MayRegister(j, i, id)
    /\ actions' = IF Registered(j, i) THEN actions
                  ELSE [actions EXCEPT ![j][i] = [state |-> "PLANNED", id |-> id]]

ActionStep == {<<"PLANNED", "PROMOTED">>, <<"PROMOTED", "SOURCE_REMOVED">>}

\* The row must hold the expected state, or already the next one.  Neither the
\* owner nor the lease of the job is compared.
MaySetAction(j, i, expected, next) ==
    /\ <<expected, next>> \in ActionStep
    /\ actions[j][i].state \in {expected, next}

SetActionState(j, i, expected, next) ==
    /\ MaySetAction(j, i, expected, next)
    /\ actions' = [actions EXCEPT ![j][i].state = next]

-----------------------------------------------------------------------------
LedgerInit == actions = [j \in Job |-> [i \in Index |-> NoAction]]

LedgerNext ==
    \E j \in Job, i \in Index :
        \/ \E id \in Identity : RegisterAction(j, i, id)
        \/ \E expected, next \in ActionState : SetActionState(j, i, expected, next)

LedgerSpec == LedgerInit /\ [][LedgerNext]_actions

-----------------------------------------------------------------------------
LedgerTypeOK ==
    actions \in [Job -> [Index -> [state : ActionState, id : Identity \cup {NoOne}]]]

\* Over all jobs, finished or failed ones included, one destination is reserved
\* by at most one action (state.rs:86-92, 266-313).
OneReservation ==
    \A j1, j2 \in Job : \A i1, i2 \in Index :
        /\ Registered(j1, i1) /\ Registered(j2, i2)
        /\ KeyOf[actions[j1][i1].id] = KeyOf[actions[j2][i2].id]
        => j1 = j2 /\ i1 = i2
=============================================================================
