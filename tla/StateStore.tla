----------------------------- MODULE StateStore -----------------------------
(***************************************************************************)
(* The jobs and events tables of the state store (src/state.rs) as SQLite  *)
(* keeps them, under any number of processes that call it in any order.    *)
(*                                                                         *)
(* A call reads the clock first and only then waits, up to the busy        *)
(* timeout, for the write lock under which its transaction runs.  So each  *)
(* call is two steps: Begin reads the clock, and one of Claim, Renew,      *)
(* Transition or FailWrite is the transaction that uses the reading.       *)
(***************************************************************************)
EXTENDS Naturals, Sequences, FiniteSets

CONSTANTS
    Job, KindOf, Owner, NoOne,
    LeaseSeconds,   \* state.lease_seconds
    BusyTimeout,    \* how long a call may wait for the write lock
    MaxNow,         \* bound on the clock
    MaxEvents       \* bound on the rows of the events table

\* Both are 30 seconds at least and exactly: a lease outlives the wait for it.
ASSUME LeaseAssumption ==
    /\ LeaseSeconds \in Nat /\ BusyTimeout \in Nat /\ BusyTimeout <= LeaseSeconds
    /\ MaxNow \in Nat /\ MaxEvents \in Nat
    /\ KindOf \in [Job -> {"migration", "subtitle"}]
    /\ NoOne \notin Owner

VARIABLES
    rows,    \* the jobs table
    events,  \* the events table, by job
    now,     \* the clock of the host
    clock,   \* the reading a process's call works with, 0 between calls
    judged   \* the job and the state that a process's fail() has read

vars == <<rows, events, now, clock, judged>>

NoRow == [state |-> "NONE", owner |-> NoOne, until |-> 0, revision |-> 0]

\* The lease as other processes see it at this moment.
jobs == [j \in Job |-> [state |-> rows[j].state, owner |-> rows[j].owner,
                        live |-> rows[j].owner # NoOne /\ rows[j].until >= now]]

Table == INSTANCE JobTable

-----------------------------------------------------------------------------
\* The states in which a job has an owner.
Open == Table!JobState \ ({"NONE"} \cup Table!Terminal)

Begin(o) ==
    /\ clock[o] = 0
    /\ clock' = [clock EXCEPT ![o] = now]
    /\ UNCHANGED <<rows, events, now, judged>>

\* The call returns: its reading is used up.
Return(o) ==
    /\ clock' = [clock EXCEPT ![o] = 0]
    /\ judged' = [judged EXCEPT ![o] = <<>>]
    /\ UNCHANGED now

\* An error (the row does not match, the lock was not free in time, the store
\* could not be read or written) or the end of the process: nothing is written.
Abandon(o) ==
    /\ clock[o] # 0 \/ judged[o] # <<>>
    /\ Return(o)
    /\ UNCHANGED <<rows, events>>

Calling(o) == clock[o] # 0 /\ judged[o] = <<>>

\* append_event, in the transaction of the row that it tells about.
AppendEvent(j, from, to, o) ==
    /\ Cardinality(UNION {{k} \X DOMAIN events[k] : k \in Job}) < MaxEvents
    /\ events' = [events EXCEPT ![j] = Append(@, [from |-> from, to |-> to, by |-> o])]

\* Mutant: the last second of a lease counts as expired.
LeasedByOtherOffByOne(o, j) ==
    rows[j].owner \notin {NoOne, o} /\ rows[j].until > clock[o]

\* The lease of somebody else that has not run out, as far as the caller knows.
LeasedByOther(o, j) ==
    rows[j].owner \notin {NoOne, o} /\ rows[j].until >= clock[o]

Claim(o, j) ==
    /\ Calling(o)
    /\ rows[j].state # Table!CompleteState(KindOf[j])
    /\ ~LeasedByOther(o, j)
    /\ rows' = [rows EXCEPT ![j] = [state |-> "CLAIMED", owner |-> o,
                                    until |-> clock[o] + LeaseSeconds,
                                    revision |-> rows[j].revision + 1]]
    /\ AppendEvent(j, rows[j].state, "CLAIMED", o)
    /\ Return(o)

\* A single UPDATE that compares the owner, not the lease.
Renew(o, j) ==
    /\ Calling(o)
    /\ rows[j].owner = o
    /\ rows' = [rows EXCEPT ![j].until = clock[o] + LeaseSeconds]
    /\ Return(o)
    /\ UNCHANGED events

\* Mutant: WHERE without the owner.
MatchesAnyOwner(o, j, from) ==
    rows[j].state = from /\ rows[j].owner # NoOne /\ rows[j].until >= clock[o]

\* Mutant: WHERE without the state.
MatchesAnyState(o, j, from) ==
    rows[j].owner = o /\ rows[j].until >= clock[o]

\* state = ?3 AND owner = ?4 AND lease_until >= ?5
Matches(o, j, from) ==
    rows[j].state = from /\ rows[j].owner = o /\ rows[j].until >= clock[o]

\* Mutant: owner and lease survive a terminal state.
WriteKeepingOwner(o, j, from, to) ==
    /\ Table!ValidTransition(KindOf[j], from, to)
    /\ Matches(o, j, from)
    /\ rows' = [rows EXCEPT ![j].state = to, ![j].revision = @ + 1]
    /\ AppendEvent(j, from, to, o)
    /\ Return(o)

Write(o, j, from, to) ==
    /\ Table!ValidTransition(KindOf[j], from, to)
    /\ Matches(o, j, from)
    /\ rows' = [rows EXCEPT ![j] =
                  IF to \in Table!Terminal
                  THEN [state |-> to, owner |-> NoOne, until |-> 0,
                        revision |-> rows[j].revision + 1]
                  ELSE [rows[j] EXCEPT !.state = to, !.revision = rows[j].revision + 1]]
    /\ AppendEvent(j, from, to, o)
    /\ Return(o)

Transition(o, j, from, to) ==
    /\ Calling(o)
    /\ Write(o, j, from, to)

\* Mutant: a job that does not exist or is finished is failed like any other.
FailReadAny(o, j) ==
    /\ clock[o] = 0 /\ judged[o] = <<>>
    /\ judged' = [judged EXCEPT ![o] = <<j, rows[j].state>>]
    /\ UNCHANGED <<rows, events, now, clock>>

\* fail() reads the state in a statement of its own ...
FailRead(o, j) ==
    /\ clock[o] = 0 /\ judged[o] = <<>>
    /\ rows[j].state \in Open
    /\ judged' = [judged EXCEPT ![o] = <<j, rows[j].state>>]
    /\ UNCHANGED <<rows, events, now, clock>>

\* ... and expects it still to be there when its transition gets the lock.
FailWrite(o, j, from) ==
    /\ clock[o] # 0 /\ judged[o] = <<j, from>>
    /\ Write(o, j, from, "FAILED")

\* A call whose lock does not come in time has returned before the clock goes on.
Tick ==
    /\ now < MaxNow
    /\ \A o \in Owner : clock[o] # 0 => now < clock[o] + BusyTimeout
    /\ now' = now + 1
    /\ UNCHANGED <<rows, events, clock, judged>>

-----------------------------------------------------------------------------
Init ==
    /\ rows = [j \in Job |-> NoRow]
    /\ events = [j \in Job |-> <<>>]
    /\ now = 1
    /\ clock = [o \in Owner |-> 0]
    /\ judged = [o \in Owner |-> <<>>]

Next ==
    \/ Tick
    \/ \E o \in Owner :
          \/ Begin(o) \/ Abandon(o)
          \/ \E j \in Job :
                \/ Claim(o, j) \/ Renew(o, j) \/ FailRead(o, j)
                \/ \E from \in Open : FailWrite(o, j, from)
                \/ \E step \in Table!MigrationStep \cup Table!SubtitleStep :
                      Transition(o, j, step[1], step[2])

Spec == Init /\ [][Next]_vars

-----------------------------------------------------------------------------
Row == [state : Table!JobState, owner : Owner \cup {NoOne}, until : Nat, revision : Nat]

Event == [from : Table!JobState, to : Table!JobState, by : Owner]

FailCall == {<<>>} \cup (Job \X Open)

TypeOK ==
    /\ rows \in [Job -> Row]
    /\ events \in [Job -> Seq(Event)]
    /\ now \in Nat
    /\ clock \in [Owner -> Nat]
    /\ judged \in [Owner -> FailCall]

History(log, row) ==
    /\ row.revision = Len(log)
    /\ row.state = IF log = <<>> THEN "NONE" ELSE log[Len(log)].to
    /\ \A k \in DOMAIN log : log[k].from = IF k = 1 THEN "NONE" ELSE log[k - 1].to

\* The events of a job are its whole history: each starts where the one before it
\* ended, the last one ends in the state of the row, and the revision counts them,
\* whoever wrote them and however stale the state was that fail() had read
\* (state.rs:193-264, 364-378).
AuditTrail == \A j \in Job : History(events[j], rows[j])

Pipeline(kind) ==
    IF kind = "migration"
    THEN <<"CLAIMED", "STAGING", "VERIFIED", "REMOVING_SOURCE", "COMMITTED">>
    ELSE <<"CLAIMED", "ACQUIRING", "TRANSLATING", "VERIFIED", "READY">>

\* The last n events of a job are the first n states of its pipeline, all reached
\* by the process that wrote the last one.
OneRun(j, n) ==
    LET log == events[j] IN
    /\ Len(log) >= n
    /\ \A k \in 1..n :
          /\ log[Len(log) - n + k].to = Pipeline(KindOf[j])[k]
          /\ log[Len(log) - n + k].by = log[Len(log)].by

\* A finished job was taken through its whole pipeline by one process, without
\* anybody else's claim in between: the work of two runs is never committed as one
\* (state.rs:108-178, 193-247).
FinishedByOneRun ==
    \A j \in Job : rows[j].state \in {"COMMITTED", "READY"} => OneRun(j, 5)

\* While a lease is live nobody else gets the job, and its holder never shortens
\* it by a call that waited for the lock (state.rs:133-138, 180-191).
LeaseHonoured ==
    [][\A j \in Job :
          rows[j].owner # NoOne /\ rows[j].until >= now =>
              \/ rows'[j].owner = rows[j].owner /\ rows'[j].until >= rows[j].until
              \/ rows'[j].owner = NoOne /\ rows'[j].state \in Table!Terminal]_vars

\* What the callers rely on: JobTable, where a lease is a flag.
ImplementsTable == Table!TableSpec
=============================================================================
