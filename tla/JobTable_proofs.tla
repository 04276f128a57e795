---------------------------- MODULE JobTable_proofs --------------------------
(***************************************************************************)
(* Theorems about the jobs table as its callers see it, for any jobs and   *)
(* processes: what each operation writes, and who owns a job.              *)
(***************************************************************************)
EXTENDS JobTable, TLAPS

JobRow == [state : JobState, owner : Owner \cup {NoOne}, live : BOOLEAN]

LEMMA LiveExcept ==
    ASSUME NEW r \in JobRow, NEW b \in BOOLEAN
    PROVE  /\ [r EXCEPT !.live = b] \in JobRow
           /\ [r EXCEPT !.live = b].state = r.state /\ [r EXCEPT !.live = b].owner = r.owner
           /\ [r EXCEPT !.live = b].live = b
BY DEF JobRow

LEMMA StateExcept ==
    ASSUME NEW r \in JobRow, NEW to \in JobState
    PROVE  /\ [r EXCEPT !.state = to] \in JobRow
           /\ [r EXCEPT !.state = to].state = to /\ [r EXCEPT !.state = to].owner = r.owner
           /\ [r EXCEPT !.state = to].live = r.live
BY DEF JobRow

\* What each operation on the jobs table writes, field by field.
LEMMA ClaimWrites ==
    ASSUME TableTypeOK, NEW j \in Job, NEW o \in Owner, Claim(j, o)
    PROVE  /\ TableTypeOK'
           /\ jobs'[j].state = "CLAIMED" /\ jobs'[j].owner = o /\ jobs'[j].live = TRUE
           /\ \A k \in Job : k # j => jobs'[k] = jobs[k]
<1> DEFINE r == [state |-> "CLAIMED", owner |-> o, live |-> TRUE]
<1>1. r \in JobRow /\ r.state = "CLAIMED" /\ r.owner = o /\ r.live = TRUE
  BY DEF JobRow, JobState
<1>2. jobs' = [jobs EXCEPT ![j] = r]
  BY DEF Claim
<1> HIDE DEF r
<1> QED BY <1>1, <1>2 DEF TableTypeOK, JobRow

LEMMA RenewWrites ==
    ASSUME TableTypeOK, NEW j \in Job, NEW o \in Owner, Renew(j, o)
    PROVE  /\ TableTypeOK'
           /\ jobs'[j].state = jobs[j].state /\ jobs'[j].owner = jobs[j].owner
           /\ jobs'[j].live = TRUE
           /\ \A k \in Job : k # j => jobs'[k] = jobs[k]
<1> DEFINE r == [jobs[j] EXCEPT !.live = TRUE]
<1>1. jobs[j] \in JobRow
  BY DEF TableTypeOK, JobRow
<1>2. r \in JobRow /\ r.state = jobs[j].state /\ r.owner = jobs[j].owner /\ r.live = TRUE
  BY <1>1, TRUE \in BOOLEAN, LiveExcept, Zenon
<1>3. jobs' = [jobs EXCEPT ![j] = r]
  BY DEF Renew
<1> HIDE DEF r
<1> QED BY <1>2, <1>3 DEF TableTypeOK, JobRow

LEMMA TransitionWrites ==
    ASSUME TableTypeOK, NEW j \in Job, NEW o \in Owner,
           NEW from, NEW to \in JobState, Transition(j, o, from, to)
    PROVE  /\ TableTypeOK'
           /\ jobs[j].state = from /\ jobs[j].owner = o
           /\ jobs'[j].state = to
           /\ to \in Terminal => jobs'[j].owner = NoOne /\ jobs'[j].live = FALSE
           /\ to \notin Terminal => jobs'[j].owner = o /\ jobs'[j].live = jobs[j].live
           /\ \A k \in Job : k # j => jobs'[k] = jobs[k]
<1> DEFINE r == IF to \in Terminal
                THEN [state |-> to, owner |-> NoOne, live |-> FALSE]
                ELSE [jobs[j] EXCEPT !.state = to]
<1>1. jobs[j] \in JobRow /\ jobs[j].state = from /\ jobs[j].owner = o
  BY DEF TableTypeOK, JobRow, Transition, MayTransition
<1>2. /\ r \in JobRow /\ r.state = to
      /\ to \in Terminal => r.owner = NoOne /\ r.live = FALSE
      /\ to \notin Terminal => r.owner = o /\ r.live = jobs[j].live
  <2>1. CASE to \in Terminal
    BY <2>1 DEF JobRow
  <2>2. CASE to \notin Terminal
    <3>1. r = [jobs[j] EXCEPT !.state = to]
      BY <2>2
    <3>2. /\ [jobs[j] EXCEPT !.state = to] \in JobRow
          /\ [jobs[j] EXCEPT !.state = to].state = to
          /\ [jobs[j] EXCEPT !.state = to].owner = jobs[j].owner
          /\ [jobs[j] EXCEPT !.state = to].live = jobs[j].live
      BY <1>1, StateExcept
    <3> HIDE DEF r
    <3> QED BY <1>1, <2>2, <3>1, <3>2
  <2> QED BY <2>1, <2>2
<1>3. jobs' = [jobs EXCEPT ![j] = r]
  BY DEF Transition
<1> HIDE DEF r
<1> QED BY <1>1, <1>2, <1>3 DEF TableTypeOK, JobRow

LEMMA ExpireWrites ==
    ASSUME TableTypeOK, NEW expired \in SUBSET Job, ExpireAll(expired)
    PROVE  /\ TableTypeOK'
           /\ \A k \in Job : /\ jobs'[k].state = jobs[k].state /\ jobs'[k].owner = jobs[k].owner
                             /\ k \in expired => jobs'[k].live = FALSE
                             /\ k \notin expired => jobs'[k] = jobs[k]
<1>1. \A k \in Job : jobs[k] \in JobRow
  BY DEF TableTypeOK, JobRow
<1>2. jobs' = [k \in Job |-> IF k \in expired THEN [jobs[k] EXCEPT !.live = FALSE] ELSE jobs[k]]
  BY DEF ExpireAll
<1>3. ASSUME NEW k \in Job
      PROVE  /\ jobs'[k] \in JobRow
             /\ jobs'[k].state = jobs[k].state /\ jobs'[k].owner = jobs[k].owner
             /\ k \in expired => jobs'[k].live = FALSE
             /\ k \notin expired => jobs'[k] = jobs[k]
  <2>1. CASE k \in expired
    <3>1. jobs'[k] = [jobs[k] EXCEPT !.live = FALSE]
      BY <1>2, <2>1
    <3>2. /\ [jobs[k] EXCEPT !.live = FALSE] \in JobRow
          /\ [jobs[k] EXCEPT !.live = FALSE].state = jobs[k].state
          /\ [jobs[k] EXCEPT !.live = FALSE].owner = jobs[k].owner
          /\ [jobs[k] EXCEPT !.live = FALSE].live = FALSE
      BY <1>1, LiveExcept
    <3> QED BY <2>1, <3>1, <3>2
  <2>2. CASE k \notin expired
    BY <1>1, <1>2, <2>2
  <2> QED BY <2>1, <2>2
<1>4. jobs' \in [Job -> JobRow]
  BY <1>2, <1>3
<1> QED BY <1>3, <1>4 DEF TableTypeOK, JobRow

LEMMA StepStates ==
    ASSUME NEW step \in MigrationStep \cup SubtitleStep
    PROVE  step[1] \in JobState /\ step[2] \in JobState
BY DEF MigrationStep, SubtitleStep, JobState

LEMMA TargetsExist ==
    ASSUME NEW kind, NEW from, NEW to, ValidTransition(kind, from, to)
    PROVE  to \in JobState \ {"NONE"}
BY DEF ValidTransition, MigrationStep, SubtitleStep, JobState

LEMMA TableTyped == TableTypeOK /\ [TableNext]_jobs => TableTypeOK'
<1> SUFFICES ASSUME TableTypeOK, TableNext PROVE TableTypeOK'
  BY DEF TableTypeOK
<1>1. ASSUME NEW expired \in SUBSET Job, ExpireAll(expired) PROVE TableTypeOK'
  BY <1>1, ExpireWrites
<1>2. ASSUME NEW j \in Job, NEW o \in Owner, Claim(j, o) PROVE TableTypeOK'
  BY <1>2, ClaimWrites
<1>3. ASSUME NEW j \in Job, NEW o \in Owner, Renew(j, o) PROVE TableTypeOK'
  BY <1>3, RenewWrites
<1>4. ASSUME NEW j \in Job, NEW o \in Owner, Fail(j, o) PROVE TableTypeOK'
  <2>1. "FAILED" \in JobState
    BY DEF JobState
  <2> QED BY <1>4, <2>1, TransitionWrites DEF Fail
<1>5. ASSUME NEW j \in Job, NEW o \in Owner, NEW step \in MigrationStep \cup SubtitleStep,
             Transition(j, o, step[1], step[2])
      PROVE  TableTypeOK'
  BY <1>5, StepStates, TransitionWrites
<1> QED BY <1>1, <1>2, <1>3, <1>4, <1>5 DEF TableNext

\* What one job keeps of OwnedWhileOpen.
OwnedRow(row) ==
    /\ row.owner = NoOne <=> row.state \in Terminal \cup {"NONE"}
    /\ row.live => row.owner # NoOne

LEMMA OwnedKept == TableTypeOK /\ OwnedWhileOpen /\ [TableNext]_jobs => OwnedWhileOpen'
<1> USE OwnerAssumption
<1> SUFFICES ASSUME TableTypeOK, OwnedWhileOpen, TableNext PROVE OwnedWhileOpen'
  BY DEF OwnedWhileOpen
<1>1. \A k \in Job : OwnedRow(jobs[k])
  BY DEF OwnedWhileOpen, OwnedRow
<1>2. SUFFICES ASSUME NEW k \in Job PROVE OwnedRow(jobs'[k])
  BY DEF OwnedWhileOpen, OwnedRow
<1>3. ASSUME NEW expired \in SUBSET Job, ExpireAll(expired) PROVE OwnedRow(jobs'[k])
  <2>1. /\ jobs'[k].state = jobs[k].state /\ jobs'[k].owner = jobs[k].owner
        /\ jobs'[k].live = FALSE \/ jobs'[k] = jobs[k]
    BY <1>3, ExpireWrites
  <2> QED BY <1>1, <2>1 DEF OwnedRow
<1>4. ASSUME NEW j \in Job, NEW o \in Owner, Claim(j, o) PROVE OwnedRow(jobs'[k])
  <2>1. /\ jobs'[j].state = "CLAIMED" /\ jobs'[j].owner = o
        /\ k # j => jobs'[k] = jobs[k]
    BY <1>4, ClaimWrites
  <2> QED BY <1>1, <2>1 DEF OwnedRow, Terminal
<1>5. ASSUME NEW j \in Job, NEW o \in Owner, Renew(j, o) PROVE OwnedRow(jobs'[k])
  <2>1. /\ jobs'[j].state = jobs[j].state /\ jobs'[j].owner = jobs[j].owner
        /\ k # j => jobs'[k] = jobs[k]
    BY <1>5, RenewWrites
  <2>2. jobs[j].owner = o
    BY <1>5 DEF Renew
  <2> QED BY <1>1, <2>1, <2>2 DEF OwnedRow
<1>6. ASSUME NEW j \in Job, NEW o \in Owner, NEW from, NEW to \in JobState \ {"NONE"},
             Transition(j, o, from, to)
      PROVE  OwnedRow(jobs'[k])
  <2>1. /\ jobs'[j].state = to
        /\ to \in Terminal => jobs'[j].owner = NoOne /\ jobs'[j].live = FALSE
        /\ to \notin Terminal => jobs'[j].owner = o
        /\ k # j => jobs'[k] = jobs[k]
    BY <1>6, TransitionWrites
  <2> QED BY <1>1, <2>1 DEF OwnedRow
<1>7. ASSUME NEW j \in Job, NEW o \in Owner, Fail(j, o) PROVE OwnedRow(jobs'[k])
  <2>1. "FAILED" \in JobState \ {"NONE"}
    BY DEF JobState
  <2> QED BY <1>6, <1>7, <2>1 DEF Fail
<1>8. ASSUME NEW j \in Job, NEW o \in Owner, NEW step \in MigrationStep \cup SubtitleStep,
             Transition(j, o, step[1], step[2])
      PROVE  OwnedRow(jobs'[k])
  <2>1. step[2] \in JobState \ {"NONE"}
    BY DEF MigrationStep, SubtitleStep, JobState
  <2> QED BY <1>6, <1>8, <2>1
<1> QED BY <1>3, <1>4, <1>5, <1>7, <1>8 DEF TableNext

\* However claims, renewals, failures, transitions and lease expiries of any
\* processes follow each other, a job has an owner exactly while it is open, and
\* only an owned job has a live lease (state.rs:108-264).
THEOREM OwnersMatchStates == TableSpec => [](TableTypeOK /\ OwnedWhileOpen)
<1>1. TableInit => TableTypeOK /\ OwnedWhileOpen
  BY OwnerAssumption DEF TableInit, TableTypeOK, OwnedWhileOpen, NoJob, JobState, Terminal
<1>2. TableTypeOK /\ OwnedWhileOpen /\ [TableNext]_jobs => (TableTypeOK /\ OwnedWhileOpen)'
  BY TableTyped, OwnedKept
<1> QED BY <1>1, <1>2, PTL DEF TableSpec

=============================================================================
