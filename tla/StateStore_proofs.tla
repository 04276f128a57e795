-------------------------- MODULE StateStore_proofs --------------------------
(***************************************************************************)
(* Theorems about StateStore, for any jobs, processes, lease and busy      *)
(* timeout that satisfy LeaseAssumption, and for any bounds.               *)
(***************************************************************************)
EXTENDS StateStore, TLAPS

(***************************************************************************)
(* TypeOK is inductive by itself.                                          *)
(***************************************************************************)
LEMMA OpenStates == Open = {"CLAIMED", "STAGING", "VERIFIED", "REMOVING_SOURCE",
                            "ACQUIRING", "TRANSLATING"}
BY DEF Open, Table!JobState, Table!Terminal

LEMMA Lengths == LeaseSeconds \in Nat /\ BusyTimeout \in Nat /\ BusyTimeout <= LeaseSeconds
BY LeaseAssumption

LEMMA Moved ==
    ASSUME NEW r \in Row, NEW s \in Table!JobState, NEW n \in Nat
    PROVE  [r EXCEPT !.state = s, !.revision = n] \in Row
BY DEF Row

LEMMA Extended ==
    ASSUME NEW r \in Row, NEW n \in Nat
    PROVE  [r EXCEPT !.until = n] \in Row
BY DEF Row

\* What every writing transaction does to the rows, the events and the call.
LEMMA AppendTyped ==
    ASSUME TypeOK, NEW j \in Job, NEW o \in Owner,
           NEW from \in Table!JobState, NEW to \in Table!JobState,
           AppendEvent(j, from, to, o)
    PROVE  /\ events' \in [Job -> Seq(Event)]
           /\ events'[j] = Append(events[j], [from |-> from, to |-> to, by |-> o])
           /\ \A k \in Job : k # j => events'[k] = events[k]
<1> DEFINE e == [from |-> from, to |-> to, by |-> o]
<1>1. e \in Event
  BY DEF Event
<1>2. events' = [events EXCEPT ![j] = Append(events[j], e)]
  BY DEF AppendEvent
<1> QED
  <2> HIDE DEF e
  <2>1. Append(events[j], e) \in Seq(Event)
    BY <1>1 DEF TypeOK
  <2>2. events' \in [Job -> Seq(Event)]
    BY <1>2, <2>1 DEF TypeOK
  <2>3. events'[j] = Append(events[j], e) /\ \A k \in Job : k # j => events'[k] = events[k]
    BY <1>2 DEF TypeOK
  <2> QED BY <2>2, <2>3 DEF e

LEMMA ReturnTyped ==
    ASSUME TypeOK, NEW o \in Owner, Return(o)
    PROVE  /\ now' \in Nat /\ clock' \in [Owner -> Nat]
           /\ judged' \in [Owner -> FailCall]
<1>1. <<>> \in FailCall
  BY DEF FailCall
<1> QED BY <1>1 DEF TypeOK, Return

LEMMA WriteTyped ==
    ASSUME TypeOK, NEW j \in Job, NEW o \in Owner,
           NEW from \in Table!JobState, NEW to \in Table!JobState,
           Write(o, j, from, to)
    PROVE  TypeOK'
<1> DEFINE r == IF to \in Table!Terminal
                THEN [state |-> to, owner |-> NoOne, until |-> 0,
                      revision |-> rows[j].revision + 1]
                ELSE [rows[j] EXCEPT !.state = to, !.revision = rows[j].revision + 1]
<1>1. rows' \in [Job -> Row]
  <2>1. rows[j] \in Row
    BY DEF TypeOK
  <2>2. r \in Row
    <3>1. rows[j].revision + 1 \in Nat
      BY <2>1 DEF Row
    <3>2. CASE to \in Table!Terminal
      BY <3>1, <3>2 DEF Row
    <3>3. CASE to \notin Table!Terminal
      BY <2>1, <3>1, <3>3, Moved
    <3> QED BY <3>2, <3>3
  <2>3. rows' = [rows EXCEPT ![j] = r]
    BY DEF Write
  <2> HIDE DEF r
  <2> QED BY <2>2, <2>3 DEF TypeOK
<1>2. events' \in [Job -> Seq(Event)]
  BY AppendTyped DEF Write
<1> QED BY <1>1, <1>2, ReturnTyped DEF Write, TypeOK

LEMMA InitTyped == Init => TypeOK
<1> SUFFICES ASSUME Init PROVE TypeOK
  OBVIOUS
<1>1. \A S : <<>> \in Seq(S)
  OBVIOUS
<1>2. events \in [Job -> Seq(Event)]
  BY <1>1 DEF Init
<1>3. NoRow \in Row /\ <<>> \in FailCall
  BY DEF NoRow, Row, FailCall, Table!JobState
<1> QED BY <1>2, <1>3 DEF Init, TypeOK

LEMMA NextTyped == TypeOK /\ [Next]_vars => TypeOK'
<1> SUFFICES ASSUME TypeOK, [Next]_vars PROVE TypeOK'
  OBVIOUS
<1>1. CASE Tick
  BY <1>1 DEF TypeOK, Tick
<1>2. ASSUME NEW o \in Owner, Begin(o) PROVE TypeOK'
  BY <1>2 DEF TypeOK, Begin
<1>3. ASSUME NEW o \in Owner, Abandon(o) PROVE TypeOK'
  BY <1>3, ReturnTyped DEF TypeOK, Abandon
<1>4. ASSUME NEW o \in Owner, NEW j \in Job, Claim(o, j) PROVE TypeOK'
  <2>1. "CLAIMED" \in Table!JobState /\ rows[j].state \in Table!JobState
    BY DEF TypeOK, Row, Table!JobState
  <2> DEFINE r == [state |-> "CLAIMED", owner |-> o, until |-> clock[o] + LeaseSeconds,
                   revision |-> rows[j].revision + 1]
  <2>2. r \in Row
    <3>1. rows[j] \in Row /\ clock[o] \in Nat
      BY DEF TypeOK
    <3>2. rows[j].revision + 1 \in Nat /\ clock[o] + LeaseSeconds \in Nat
      BY <3>1, Lengths DEF Row
    <3> QED BY <2>1, <3>2 DEF Row
  <2>3. rows' \in [Job -> Row]
    <3>1. rows' = [rows EXCEPT ![j] = r]
      BY <1>4 DEF Claim
    <3> HIDE DEF r
    <3> QED BY <3>1, <2>2 DEF TypeOK
  <2>4. events' \in [Job -> Seq(Event)]
    BY <1>4, <2>1, AppendTyped DEF Claim
  <2> QED BY <1>4, <2>3, <2>4, ReturnTyped DEF Claim, TypeOK
<1>5. ASSUME NEW o \in Owner, NEW j \in Job, Renew(o, j) PROVE TypeOK'
  <2>1. [rows[j] EXCEPT !.until = clock[o] + LeaseSeconds] \in Row
    <3>1. rows[j] \in Row /\ clock[o] \in Nat
      BY DEF TypeOK
    <3>2. clock[o] + LeaseSeconds \in Nat
      BY <3>1, Lengths
    <3> QED BY <3>1, <3>2, Extended
  <2> DEFINE r == [rows[j] EXCEPT !.until = clock[o] + LeaseSeconds]
  <2>2. rows' \in [Job -> Row]
    <3>1. rows' = [rows EXCEPT ![j] = r]
      BY <1>5 DEF Renew
    <3> HIDE DEF r
    <3>2. r \in Row
      BY <2>1 DEF r
    <3> QED BY <3>1, <3>2 DEF TypeOK
  <2> QED BY <1>5, <2>2, ReturnTyped DEF Renew, TypeOK
<1>6. ASSUME NEW o \in Owner, NEW j \in Job, FailRead(o, j) PROVE TypeOK'
  <2>1. <<j, rows[j].state>> \in FailCall
    BY <1>6 DEF FailRead, FailCall
  <2> QED BY <1>6, <2>1 DEF FailRead, TypeOK
<1>7. ASSUME NEW o \in Owner, NEW j \in Job, NEW from \in Open, FailWrite(o, j, from)
      PROVE  TypeOK'
  <2>1. from \in Table!JobState /\ "FAILED" \in Table!JobState
    BY DEF Open, Table!JobState
  <2> QED BY <1>7, <2>1, WriteTyped DEF FailWrite
<1>8. ASSUME NEW o \in Owner, NEW j \in Job,
             NEW step \in Table!MigrationStep \cup Table!SubtitleStep,
             Transition(o, j, step[1], step[2])
      PROVE  TypeOK'
  <2>1. step[1] \in Table!JobState /\ step[2] \in Table!JobState
    BY DEF Table!MigrationStep, Table!SubtitleStep, Table!JobState
  <2> QED BY <1>8, <2>1, WriteTyped DEF Transition
<1>9. CASE UNCHANGED vars
  BY <1>9 DEF TypeOK, vars
<1> QED BY <1>1, <1>2, <1>3, <1>4, <1>5, <1>6, <1>7, <1>8, <1>9 DEF Next

\* Every row, event, clock reading and pending fail() has its type, and fail()
\* never carries a state that a job cannot be failed from.
THEOREM TypeCorrect == Spec => []TypeOK
BY InitTyped, NextTyped, PTL DEF Spec

-----------------------------------------------------------------------------
(***************************************************************************)
(* The event log                                                           *)
(***************************************************************************)
LEMMA HistoryGrows ==
    ASSUME NEW log \in Seq(Event), NEW row \in Row, NEW next \in Row, NEW e \in Event,
           History(log, row), e.from = row.state,
           next.state = e.to, next.revision = row.revision + 1
    PROVE  History(Append(log, e), next)
<1> DEFINE grown == Append(log, e)
<1>1. grown \in Seq(Event) /\ Len(grown) = Len(log) + 1 /\ Len(log) \in Nat
  OBVIOUS
<1>2. grown[Len(log) + 1] = e /\ \A k \in 1..Len(log) : grown[k] = log[k]
  OBVIOUS
<1>3. grown # <<>> /\ DOMAIN grown = 1..(Len(log) + 1) /\ DOMAIN log = 1..Len(log)
  BY <1>1
<1>4. row.revision = Len(log)
      /\ (log # <<>> => row.state = log[Len(log)].to)
      /\ (log = <<>> => row.state = "NONE")
      /\ \A k \in 1..Len(log) : log[k].from = IF k = 1 THEN "NONE" ELSE log[k - 1].to
  BY <1>3 DEF History
<1>5. ASSUME NEW k \in 1..(Len(log) + 1)
      PROVE  grown[k].from = IF k = 1 THEN "NONE" ELSE grown[k - 1].to
  <2>1. CASE k <= Len(log)
    <3>1. k \in 1..Len(log) /\ (k # 1 => k - 1 \in 1..Len(log))
      BY <1>1, <2>1
    <3> QED BY <1>2, <1>4, <3>1
  <2>2. CASE k = Len(log) + 1
    <3>1. CASE log = <<>>
      BY <1>2, <1>4, <2>2, <3>1
    <3>2. CASE log # <<>>
      <4>1. Len(log) \in 1..Len(log) /\ k # 1 /\ k - 1 = Len(log)
        BY <1>1, <2>2, <3>2
      <4> QED BY <1>2, <1>4, <2>2, <3>2, <4>1
    <3> QED BY <3>1, <3>2
  <2> QED BY <1>1, <2>1, <2>2
<1>6. next.revision = Len(grown) /\ next.state = grown[Len(grown)].to
  BY <1>1, <1>2, <1>4
<1> QED
  <2> HIDE DEF grown
  <2>1. History(grown, next)
    BY <1>3, <1>5, <1>6 DEF History
  <2> QED BY <2>1 DEF grown

\* A transaction appends one event to one job and moves that job's row with it.
LEMMA WriteEffect ==
    ASSUME TypeOK, NEW j \in Job, NEW o \in Owner,
           NEW from \in Table!JobState, NEW to \in Table!JobState,
           Write(o, j, from, to)
    PROVE  /\ rows[j].state = from /\ rows[j].owner = o
           /\ rows'[j].state = to /\ rows'[j].revision = rows[j].revision + 1
           /\ rows'[j].owner = IF to \in Table!Terminal THEN NoOne ELSE o
           /\ rows'[j].until = IF to \in Table!Terminal THEN 0 ELSE rows[j].until
           /\ \A k \in Job : k # j => rows'[k] = rows[k]
<1>1. rows \in [Job -> Row] /\ rows[j] \in Row
  BY DEF TypeOK
<1>2. rows[j].state = from /\ rows[j].owner = o
  BY DEF Write, Matches
<1>3. \A k \in Job : k # j => rows'[k] = rows[k]
  BY <1>1 DEF Write
<1>4. CASE to \in Table!Terminal
  <2>1. rows'[j] = [state |-> to, owner |-> NoOne, until |-> 0,
                    revision |-> rows[j].revision + 1]
    BY <1>1, <1>4 DEF Write
  <2> QED BY <1>2, <1>3, <1>4, <2>1
<1>5. CASE to \notin Table!Terminal
  <2>1. rows'[j] = [rows[j] EXCEPT !.state = to, !.revision = rows[j].revision + 1]
    BY <1>1, <1>5 DEF Write
  <2> QED BY <1>1, <1>2, <1>3, <1>5, <2>1 DEF Row
<1> QED BY <1>4, <1>5

LEMMA ClaimEffect ==
    ASSUME TypeOK, NEW j \in Job, NEW o \in Owner, Claim(o, j)
    PROVE  /\ rows'[j].state = "CLAIMED" /\ rows'[j].owner = o
           /\ rows'[j].until = clock[o] + LeaseSeconds
           /\ rows'[j].revision = rows[j].revision + 1
           /\ \A k \in Job : k # j => rows'[k] = rows[k]
<1>1. rows' = [rows EXCEPT ![j] = [state |-> "CLAIMED", owner |-> o,
                                   until |-> clock[o] + LeaseSeconds,
                                   revision |-> rows[j].revision + 1]]
  BY DEF Claim
<1> QED BY <1>1 DEF TypeOK

LEMMA RenewEffect ==
    ASSUME TypeOK, NEW j \in Job, NEW o \in Owner, Renew(o, j)
    PROVE  /\ rows'[j].state = rows[j].state /\ rows'[j].owner = rows[j].owner
           /\ rows'[j].revision = rows[j].revision
           /\ rows'[j].until = clock[o] + LeaseSeconds
           /\ \A k \in Job : k # j => rows'[k] = rows[k]
<1>1. rows \in [Job -> Row] /\ rows[j] \in Row
  BY DEF TypeOK
<1>2. rows' = [rows EXCEPT ![j] = [rows[j] EXCEPT !.until = clock[o] + LeaseSeconds]]
  BY DEF Renew
<1> QED BY <1>1, <1>2 DEF Row

\* Every step leaves the two tables alone or is one of their three writers.
LEMMA Writers ==
    ASSUME [Next]_vars
    PROVE  \/ UNCHANGED <<rows, events>>
           \/ \E o \in Owner, j \in Job : Renew(o, j)
           \/ \E o \in Owner, j \in Job : Claim(o, j)
           \/ \E o \in Owner, j \in Job : \E from, to \in Table!JobState : Write(o, j, from, to)
<1>1. CASE Tick \/ UNCHANGED vars
  BY <1>1 DEF Tick, vars
<1>2. ASSUME NEW o \in Owner, Begin(o) \/ Abandon(o) PROVE UNCHANGED <<rows, events>>
  BY <1>2 DEF Begin, Abandon
<1>3. ASSUME NEW o \in Owner, NEW j \in Job, FailRead(o, j) PROVE UNCHANGED <<rows, events>>
  BY <1>3 DEF FailRead
<1>4. ASSUME NEW o \in Owner, NEW j \in Job, NEW from \in Open, FailWrite(o, j, from)
      PROVE  \E f, t \in Table!JobState : Write(o, j, f, t)
  <2>1. from \in Table!JobState /\ "FAILED" \in Table!JobState
    BY DEF Open, Table!JobState
  <2> QED BY <1>4, <2>1 DEF FailWrite
<1>5. ASSUME NEW o \in Owner, NEW j \in Job,
             NEW step \in Table!MigrationStep \cup Table!SubtitleStep,
             Transition(o, j, step[1], step[2])
      PROVE  \E f, t \in Table!JobState : Write(o, j, f, t)
  <2>1. step[1] \in Table!JobState /\ step[2] \in Table!JobState
    BY DEF Table!MigrationStep, Table!SubtitleStep, Table!JobState
  <2> QED BY <1>5, <2>1 DEF Transition
<1> QED BY <1>1, <1>2, <1>3, <1>4, <1>5 DEF Next

LEMMA InitAudit == Init => AuditTrail
<1> SUFFICES ASSUME Init, NEW j \in Job PROVE History(events[j], rows[j])
  BY DEF AuditTrail
<1>1. events[j] = <<>> /\ rows[j] = NoRow
  BY DEF Init
<1>2. Len(<<>>) = 0 /\ DOMAIN <<>> = {}
  OBVIOUS
<1> QED BY <1>1, <1>2 DEF History, NoRow

\* The two tables grow together: a claim and a transition are alike in this.
LEMMA AuditAppend ==
    ASSUME TypeOK, TypeOK', AuditTrail, NEW j \in Job, NEW o \in Owner,
           NEW from \in Table!JobState, NEW to \in Table!JobState,
           AppendEvent(j, from, to, o), rows[j].state = from,
           rows'[j].state = to, rows'[j].revision = rows[j].revision + 1,
           \A k \in Job : k # j => rows'[k] = rows[k]
    PROVE  AuditTrail'
<1> DEFINE e == [from |-> from, to |-> to, by |-> o]
<1>1. events[j] \in Seq(Event) /\ rows[j] \in Row /\ rows'[j] \in Row
  BY DEF TypeOK
<1>2. e \in Event /\ e.from = from /\ e.to = to
  BY DEF Event
<1>3. events'[j] = Append(events[j], e) /\ \A k \in Job : k # j => events'[k] = events[k]
  BY AppendTyped
<1>4. History(events[j], rows[j])
  BY DEF AuditTrail
<1>5. History(Append(events[j], e), rows'[j])
  <2> HIDE DEF e
  <2> QED BY <1>1, <1>2, <1>4, HistoryGrows
<1>6. ASSUME NEW k \in Job, k # j PROVE History(events'[k], rows'[k])
  BY <1>3, <1>6 DEF AuditTrail
<1> QED BY <1>3, <1>5, <1>6 DEF AuditTrail

LEMMA NextAudit == TypeOK /\ AuditTrail /\ [Next]_vars => AuditTrail'
<1> SUFFICES ASSUME TypeOK, AuditTrail, [Next]_vars PROVE AuditTrail'
  OBVIOUS
<1>1. TypeOK'
  BY NextTyped
<1>2. CASE UNCHANGED <<rows, events>>
  BY <1>2 DEF AuditTrail
<1>3. ASSUME NEW o \in Owner, NEW j \in Job, Renew(o, j) PROVE AuditTrail'
  <2>1. ASSUME NEW k \in Job PROVE /\ rows'[k].state = rows[k].state
                                   /\ rows'[k].revision = rows[k].revision
    BY <1>3, RenewEffect
  <2>2. events' = events
    BY <1>3 DEF Renew
  <2>3. ASSUME NEW k \in Job PROVE History(events[k], rows'[k])
    <3>1. History(events[k], rows[k])
      BY DEF AuditTrail
    <3> QED BY <2>1, <3>1 DEF History
  <2> QED BY <2>2, <2>3 DEF AuditTrail
<1>4. ASSUME NEW o \in Owner, NEW j \in Job, Claim(o, j) PROVE AuditTrail'
  <2>1. rows[j].state \in Table!JobState /\ "CLAIMED" \in Table!JobState
    <3>1. "CLAIMED" \in Table!JobState
      BY DEF Table!JobState
    <3>2. rows[j] \in Row
      BY DEF TypeOK
    <3> QED BY <3>1, <3>2 DEF Row
  <2>2. AppendEvent(j, rows[j].state, "CLAIMED", o)
    BY <1>4 DEF Claim
  <2>3. /\ rows'[j].state = "CLAIMED" /\ rows'[j].revision = rows[j].revision + 1
        /\ \A k \in Job : k # j => rows'[k] = rows[k]
    BY <1>4, ClaimEffect
  <2> QED BY <1>1, <2>1, <2>2, <2>3, AuditAppend
<1>5. ASSUME NEW o \in Owner, NEW j \in Job, NEW from \in Table!JobState,
             NEW to \in Table!JobState, Write(o, j, from, to)
      PROVE  AuditTrail'
  <2>1. AppendEvent(j, from, to, o)
    BY <1>5 DEF Write
  <2> QED BY <1>1, <1>5, <2>1, WriteEffect, AuditAppend
<1> QED BY <1>2, <1>3, <1>4, <1>5, Writers

\* The event log of a job is its whole history and agrees with its row, whatever
\* calls race and however stale the state that a fail() has read.
THEOREM AuditTrailKept == Spec => []AuditTrail
<1>1. Init => TypeOK /\ AuditTrail
  BY InitTyped, InitAudit
<1>2. TypeOK /\ AuditTrail /\ [Next]_vars => TypeOK' /\ AuditTrail'
  BY NextTyped, NextAudit
<1> QED BY <1>1, <1>2, PTL DEF Spec

-----------------------------------------------------------------------------
(***************************************************************************)
(* Finished by one run.  The strengthening says of every state of the      *)
(* pipeline what the property says of the last: the job has come there in  *)
(* one run, and that of its present owner.                                 *)
(***************************************************************************)
Stage(j, n) == rows[j].state = Pipeline(KindOf[j])[n]

RunTo(j, n) ==
    /\ OneRun(j, n)
    /\ n < 5 => events[j][Len(events[j])].by = rows[j].owner

RunSoFar ==
    \A j \in Job :
        /\ \A n \in 1..5 : Stage(j, n) => RunTo(j, n)
        /\ rows[j].state \in {"NONE", "FAILED"} \/ \E n \in 1..5 : Stage(j, n)

LEMMA Kinds == \A j \in Job : KindOf[j] = "migration" \/ KindOf[j] = "subtitle"
BY LeaseAssumption

LEMMA PipelineStates ==
    ASSUME NEW kind, kind = "migration" \/ kind = "subtitle"
    PROVE  /\ Pipeline(kind)[1] = "CLAIMED"
           /\ Pipeline(kind)[5] \in {"COMMITTED", "READY"}
           /\ \A n \in 1..5 : /\ Pipeline(kind)[n] \notin {"NONE", "FAILED"}
                              /\ Pipeline(kind)[n] \in {"COMMITTED", "READY"} => n = 5
           /\ \A m, n \in 1..5 : Pipeline(kind)[m] = Pipeline(kind)[n] => m = n
<1>1. CASE kind = "migration"
  BY <1>1 DEF Pipeline
<1>2. CASE kind = "subtitle"
  BY <1>2 DEF Pipeline
<1> QED BY <1>1, <1>2

\* A transition other than to FAILED is one step down the pipeline.
LEMMA StepIsStage ==
    ASSUME NEW kind, kind = "migration" \/ kind = "subtitle",
           NEW from, NEW to, Table!ValidTransition(kind, from, to), to # "FAILED"
    PROVE  \E n \in 1..4 : Pipeline(kind)[n] = from /\ Pipeline(kind)[n + 1] = to
<1>1. CASE kind = "migration"
  <2>1. <<from, to>> \in Table!MigrationStep
    BY <1>1 DEF Table!ValidTransition
  <2>2. \/ from = "CLAIMED" /\ to = "STAGING"
        \/ from = "STAGING" /\ to = "VERIFIED"
        \/ from = "VERIFIED" /\ to = "REMOVING_SOURCE"
        \/ from = "REMOVING_SOURCE" /\ to = "COMMITTED"
    BY <2>1 DEF Table!MigrationStep
  <2>3. Pipeline(kind) = <<"CLAIMED", "STAGING", "VERIFIED", "REMOVING_SOURCE", "COMMITTED">>
    BY <1>1 DEF Pipeline
  <2>4. /\ Pipeline(kind)[1] = "CLAIMED" /\ Pipeline(kind)[2] = "STAGING"
        /\ Pipeline(kind)[3] = "VERIFIED" /\ Pipeline(kind)[4] = "REMOVING_SOURCE"
        /\ Pipeline(kind)[5] = "COMMITTED"
    BY <2>3
  <2>5. /\ 1 \in 1..4 /\ 2 \in 1..4 /\ 3 \in 1..4 /\ 4 \in 1..4
        /\ 1 + 1 = 2 /\ 2 + 1 = 3 /\ 3 + 1 = 4 /\ 4 + 1 = 5
    OBVIOUS
  <2> QED BY <2>2, <2>4, <2>5
<1>2. CASE kind = "subtitle"
  <2>1. <<from, to>> \in Table!SubtitleStep
    BY <1>2 DEF Table!ValidTransition
  <2>2. \/ from = "CLAIMED" /\ to = "ACQUIRING"
        \/ from = "ACQUIRING" /\ to = "TRANSLATING"
        \/ from = "TRANSLATING" /\ to = "VERIFIED"
        \/ from = "VERIFIED" /\ to = "READY"
    BY <2>1 DEF Table!SubtitleStep
  <2>3. Pipeline(kind) = <<"CLAIMED", "ACQUIRING", "TRANSLATING", "VERIFIED", "READY">>
    BY <1>2 DEF Pipeline
  <2>4. /\ Pipeline(kind)[1] = "CLAIMED" /\ Pipeline(kind)[2] = "ACQUIRING"
        /\ Pipeline(kind)[3] = "TRANSLATING" /\ Pipeline(kind)[4] = "VERIFIED"
        /\ Pipeline(kind)[5] = "READY"
    BY <2>3
  <2>5. /\ 1 \in 1..4 /\ 2 \in 1..4 /\ 3 \in 1..4 /\ 4 \in 1..4
        /\ 1 + 1 = 2 /\ 2 + 1 = 3 /\ 3 + 1 = 4 /\ 4 + 1 = 5
    OBVIOUS
  <2> QED BY <2>2, <2>4, <2>5
<1> QED BY <1>1, <1>2

\* Appending e to a log that ends in n - 1 states of one run of e.by makes n.
LEMMA OneRunGrows ==
    ASSUME TypeOK, NEW j \in Job, NEW n \in 1..5, NEW e \in Event,
           events' \in [Job -> Seq(Event)], events'[j] = Append(events[j], e),
           e.to = Pipeline(KindOf[j])[n],
           n > 1 => OneRun(j, n - 1) /\ events[j][Len(events[j])].by = e.by
    PROVE  OneRun(j, n)' /\ events'[j][Len(events'[j])].by = e.by
<1> DEFINE log == events[j]
           grown == Append(log, e)
<1>1. log \in Seq(Event)
  BY DEF TypeOK
<1>2. Len(log) \in Nat /\ Len(grown) = Len(log) + 1
      /\ grown[Len(log) + 1] = e /\ \A k \in 1..Len(log) : grown[k] = log[k]
  BY <1>1
<1>3. Len(grown) >= n
  <2>1. CASE n = 1
    BY <1>2, <2>1
  <2>2. CASE n > 1
    <3>1. Len(log) >= n - 1
      BY <2>2 DEF OneRun
    <3> QED BY <1>2, <3>1
  <2> QED BY <2>1, <2>2
<1>4. ASSUME NEW k \in 1..n
      PROVE  /\ grown[Len(grown) - n + k].to = Pipeline(KindOf[j])[k]
             /\ grown[Len(grown) - n + k].by = e.by
  <2>1. CASE k = n
    <3>1. Len(grown) - n + k = Len(log) + 1
      BY <1>2, <2>1
    <3> QED BY <1>2, <2>1, <3>1
  <2>2. CASE k < n
    <3>1. n > 1 /\ k \in 1..(n - 1)
      BY <2>2
    <3>2. Len(grown) - n + k = Len(log) - (n - 1) + k
      BY <1>2
    <3>3. /\ Len(log) >= n - 1
          /\ log[Len(log) - (n - 1) + k].to = Pipeline(KindOf[j])[k]
          /\ log[Len(log) - (n - 1) + k].by = e.by
      BY <3>1 DEF OneRun
    <3>4. Len(log) - (n - 1) + k \in 1..Len(log)
      BY <1>2, <3>1, <3>3
    <3>5. grown[Len(log) - (n - 1) + k] = log[Len(log) - (n - 1) + k]
      BY <1>2, <3>4
    <3>6. grown[Len(grown) - n + k] = log[Len(log) - (n - 1) + k]
      <4> HIDE DEF grown, log
      <4> QED BY <3>2, <3>5
    <3> QED BY <3>3, <3>6
  <2>3. k = n \/ k < n
    OBVIOUS
  <2> QED BY <2>1, <2>2, <2>3
<1>5. grown[Len(grown)].by = e.by
  BY <1>2
<1> HIDE DEF log
<1> QED BY <1>3, <1>4, <1>5 DEF OneRun, log

LEMMA RunKept ==
    ASSUME RunSoFar, NEW k \in Job, rows'[k].state = rows[k].state,
           rows'[k].owner = rows[k].owner, events'[k] = events[k]
    PROVE  /\ \A n \in 1..5 : Stage(k, n)' => RunTo(k, n)'
           /\ rows'[k].state \in {"NONE", "FAILED"} \/ \E n \in 1..5 : Stage(k, n)'
<1>1. \A n \in 1..5 : (Stage(k, n)' <=> Stage(k, n)) /\ (OneRun(k, n)' <=> OneRun(k, n))
  BY DEF Stage, OneRun
<1>2. \A n \in 1..5 : RunTo(k, n)' <=> RunTo(k, n)
  BY <1>1 DEF RunTo
<1> QED BY <1>1, <1>2 DEF RunSoFar

LEMMA NextRun == TypeOK /\ RunSoFar /\ [Next]_vars => RunSoFar'
<1> SUFFICES ASSUME TypeOK, RunSoFar, [Next]_vars PROVE RunSoFar'
  OBVIOUS
<1>1. CASE UNCHANGED <<rows, events>>
  BY <1>1, RunKept DEF RunSoFar
<1>2. ASSUME NEW o \in Owner, NEW j \in Job, Renew(o, j) PROVE RunSoFar'
  <2>1. ASSUME NEW k \in Job PROVE /\ rows'[k].state = rows[k].state
                                   /\ rows'[k].owner = rows[k].owner
    BY <1>2, RenewEffect
  <2>2. events' = events
    BY <1>2 DEF Renew
  <2> QED BY <2>1, <2>2, RunKept DEF RunSoFar
<1>3. ASSUME NEW o \in Owner, NEW j \in Job, Claim(o, j) PROVE RunSoFar'
  <2> DEFINE e == [from |-> rows[j].state, to |-> "CLAIMED", by |-> o]
  <2>1. rows[j].state \in Table!JobState /\ "CLAIMED" \in Table!JobState
    <3>1. "CLAIMED" \in Table!JobState
      BY DEF Table!JobState
    <3>2. rows[j] \in Row
      BY DEF TypeOK
    <3> QED BY <3>1, <3>2 DEF Row
  <2>2. AppendEvent(j, rows[j].state, "CLAIMED", o)
    BY <1>3 DEF Claim
  <2>3. /\ rows'[j].state = "CLAIMED" /\ rows'[j].owner = o
        /\ \A k \in Job : k # j => rows'[k] = rows[k]
    BY <1>3, ClaimEffect
  <2>4. /\ events' \in [Job -> Seq(Event)] /\ events'[j] = Append(events[j], e)
        /\ \A k \in Job : k # j => events'[k] = events[k]
    BY <2>1, <2>2, AppendTyped
  <2>5. e \in Event /\ e.to = "CLAIMED" /\ e.by = o
    BY <2>1 DEF Event
  <2>6. Pipeline(KindOf[j])[1] = "CLAIMED"
        /\ \A n \in 1..5 : Pipeline(KindOf[j])[n] = "CLAIMED" => n = 1
    BY Kinds, PipelineStates
  <2> HIDE DEF e
  <2>7. OneRun(j, 1)' /\ events'[j][Len(events'[j])].by = e.by
    BY <2>4, <2>5, <2>6, OneRunGrows
  <2>8. RunTo(j, 1)' /\ Stage(j, 1)' /\ \A n \in 1..5 : Stage(j, n)' => n = 1
    BY <2>3, <2>5, <2>6, <2>7 DEF RunTo, Stage
  <2>9. ASSUME NEW k \in Job
        PROVE  /\ \A n \in 1..5 : Stage(k, n)' => RunTo(k, n)'
               /\ rows'[k].state \in {"NONE", "FAILED"} \/ \E n \in 1..5 : Stage(k, n)'
    <3>1. CASE k = j
      BY <2>8, <3>1
    <3>2. CASE k # j
      BY <2>3, <2>4, <3>2, RunKept
    <3> QED BY <3>1, <3>2
  <2> QED BY <2>9 DEF RunSoFar
<1>4. ASSUME NEW o \in Owner, NEW j \in Job, NEW from \in Table!JobState,
             NEW to \in Table!JobState, Write(o, j, from, to)
      PROVE  RunSoFar'
  <2> DEFINE e == [from |-> from, to |-> to, by |-> o]
  <2>1. /\ rows[j].state = from /\ rows[j].owner = o /\ rows'[j].state = to
        /\ rows'[j].owner = IF to \in Table!Terminal THEN NoOne ELSE o
        /\ \A k \in Job : k # j => rows'[k] = rows[k]
    BY <1>4, WriteEffect
  <2>2. /\ events' \in [Job -> Seq(Event)] /\ events'[j] = Append(events[j], e)
        /\ \A k \in Job : k # j => events'[k] = events[k]
    BY <1>4, AppendTyped DEF Write
  <2>3. e \in Event /\ e.to = to /\ e.by = o
    BY DEF Event
  <2> HIDE DEF e
  <2>4. ASSUME NEW n \in 1..5, Stage(j, n)' PROVE RunTo(j, n)'
    <3>1. to = Pipeline(KindOf[j])[n]
      BY <2>1, <2>4 DEF Stage
    <3>2. to # "FAILED" /\ (to \in {"COMMITTED", "READY"} => n = 5)
      BY <3>1, Kinds, PipelineStates
    <3>3. PICK m \in 1..4 : Pipeline(KindOf[j])[m] = from /\ Pipeline(KindOf[j])[m + 1] = to
      <4>1. Table!ValidTransition(KindOf[j], from, to)
        BY <1>4 DEF Write
      <4> QED BY <3>2, <4>1, Kinds, StepIsStage
    <3>4. m + 1 \in 1..5 /\ m \in 1..5 /\ m < 5
      OBVIOUS
    <3>5. n = m + 1
      BY <3>1, <3>3, <3>4, Kinds, PipelineStates
    <3>6. OneRun(j, m) /\ events[j][Len(events[j])].by = o
      BY <2>1, <3>3, <3>4 DEF RunSoFar, RunTo, Stage
    <3>7. n - 1 = m
      BY <3>5
    <3>8. OneRun(j, n)' /\ events'[j][Len(events'[j])].by = o
      BY <2>2, <2>3, <3>1, <3>6, <3>7, OneRunGrows
    <3>9. n < 5 => rows'[j].owner = o
      BY <2>1, <3>2 DEF Table!Terminal
    <3> QED BY <3>8, <3>9 DEF RunTo
  <2>5. to = "FAILED" \/ \E n \in 1..5 : Stage(j, n)'
    <3>1. ASSUME to # "FAILED" PROVE \E n \in 1..5 : Stage(j, n)'
      <4>1. PICK m \in 1..4 : Pipeline(KindOf[j])[m] = from /\ Pipeline(KindOf[j])[m + 1] = to
        <5>1. Table!ValidTransition(KindOf[j], from, to)
          BY <1>4 DEF Write
        <5> QED BY <3>1, <5>1, Kinds, StepIsStage
      <4>2. m + 1 \in 1..5
        OBVIOUS
      <4> QED BY <2>1, <4>1, <4>2 DEF Stage
    <3> QED BY <3>1
  <2>6. ASSUME NEW k \in Job
        PROVE  /\ \A n \in 1..5 : Stage(k, n)' => RunTo(k, n)'
               /\ rows'[k].state \in {"NONE", "FAILED"} \/ \E n \in 1..5 : Stage(k, n)'
    <3>1. CASE k = j
      BY <2>1, <2>4, <2>5, <3>1
    <3>2. CASE k # j
      BY <2>1, <2>2, <3>2, RunKept
    <3> QED BY <3>1, <3>2
  <2> QED BY <2>6 DEF RunSoFar
<1> QED BY <1>1, <1>2, <1>3, <1>4, Writers

\* Nothing is committed, and no subtitle is ready, unless one process has taken the
\* job through every state of its pipeline with nobody else's claim in between.
THEOREM FinishedByOneRunAlways == Spec => []FinishedByOneRun
<1>1. Init => RunSoFar
  <2> SUFFICES ASSUME Init, NEW j \in Job
               PROVE  rows[j].state = "NONE" /\ \A n \in 1..5 : ~Stage(j, n)
    BY DEF RunSoFar
  <2>1. rows[j].state = "NONE"
    BY DEF Init, NoRow
  <2> QED BY <2>1, Kinds, PipelineStates DEF Stage
<1>2. RunSoFar => FinishedByOneRun
  <2> SUFFICES ASSUME RunSoFar, NEW j \in Job, rows[j].state \in {"COMMITTED", "READY"}
               PROVE  OneRun(j, 5)
    BY DEF FinishedByOneRun
  <2>1. PICK n \in 1..5 : Stage(j, n)
    BY DEF RunSoFar
  <2>2. n = 5
    BY <2>1, Kinds, PipelineStates DEF Stage
  <2> QED BY <2>1, <2>2 DEF RunSoFar, RunTo
<1> QED BY <1>1, <1>2, InitTyped, NextTyped, NextRun, PTL DEF Spec

-----------------------------------------------------------------------------
(***************************************************************************)
(* Leases.  The invariant bounds how stale the reading of a call can be,   *)
(* says which rows have an owner, and that no lease reaches further than   *)
(* one the present call of its owner could grant.                          *)
(***************************************************************************)
Readings ==
    /\ now >= 1
    /\ \A o \in Owner : /\ clock[o] <= now
                        /\ clock[o] # 0 => now <= clock[o] + BusyTimeout

Owned == \A j \in Job : rows[j].owner = NoOne <=> rows[j].state \in {"NONE"} \cup Table!Terminal

\* until is within the grant of a call with this reading at this time.
Within(until, time, reading) ==
    /\ until <= time + LeaseSeconds
    /\ reading # 0 => until <= reading + LeaseSeconds

Granted ==
    \A j \in Job, o \in Owner : rows[j].owner = o => Within(rows[j].until, now, clock[o])

LeaseInv == Readings /\ Owned /\ Granted

LEMMA InitLease == Init => LeaseInv
<1> SUFFICES ASSUME Init PROVE LeaseInv
  OBVIOUS
<1>1. \A j \in Job : rows[j].state = "NONE" /\ rows[j].owner = NoOne
  BY DEF Init, NoRow
<1>2. Readings
  BY DEF Init, Readings
<1>3. Owned
  BY <1>1 DEF Owned
<1>4. Granted
  BY <1>1, LeaseAssumption DEF Granted
<1> QED BY <1>2, <1>3, <1>4 DEF LeaseInv

\* The readings of all calls after a step.
LEMMA NextReadings == TypeOK /\ Readings /\ [Next]_vars => Readings'
<1> SUFFICES ASSUME TypeOK, Readings, [Next]_vars PROVE Readings'
  OBVIOUS
<1>1. now \in Nat /\ clock \in [Owner -> Nat] /\ BusyTimeout \in Nat
  BY Lengths DEF TypeOK
<1>2. CASE Tick
  BY <1>1, <1>2 DEF Readings, Tick
<1>3. ASSUME NEW o \in Owner, Begin(o) PROVE Readings'
  BY <1>1, <1>3 DEF Readings, Begin
<1>4. ASSUME NEW o \in Owner, Return(o) PROVE Readings'
  BY <1>1, <1>4 DEF Readings, Return
<1>5. CASE UNCHANGED <<now, clock>>
  BY <1>5 DEF Readings
<1>6. \/ Tick \/ UNCHANGED <<now, clock>>
      \/ \E o \in Owner : Begin(o) \/ Return(o)
  BY DEF Next, vars, Abandon, Claim, Renew, FailRead, FailWrite, Transition, Write
<1> QED BY <1>2, <1>3, <1>4, <1>5, <1>6

\* Time and calls that end only make the grants wider.
LEMMA GrantKept ==
    ASSUME TypeOK, Readings, [Next]_vars, NEW o \in Owner, NEW until \in Nat,
           Within(until, now, clock[o])
    PROVE  Within(until, now', clock'[o])
<1>1. now \in Nat /\ clock \in [Owner -> Nat] /\ LeaseSeconds \in Nat
  BY Lengths DEF TypeOK
<1>2. CASE Tick
  BY <1>1, <1>2 DEF Within, Tick
<1>3. ASSUME NEW q \in Owner, Begin(q) PROVE Within(until, now', clock'[o])
  BY <1>1, <1>3 DEF Within, Begin
<1>4. ASSUME NEW q \in Owner, Return(q) PROVE Within(until, now', clock'[o])
  BY <1>1, <1>4 DEF Within, Return
<1>5. CASE UNCHANGED <<now, clock>>
  BY <1>5
<1>6. \/ Tick \/ UNCHANGED <<now, clock>>
      \/ \E q \in Owner : Begin(q) \/ Return(q)
  BY DEF Next, vars, Abandon, Claim, Renew, FailRead, FailWrite, Transition, Write
<1> QED BY <1>2, <1>3, <1>4, <1>5, <1>6

LEMMA NewGrant ==
    ASSUME TypeOK, Readings, NEW o \in Owner, Return(o)
    PROVE  Within(clock[o] + LeaseSeconds, now', clock'[o])
<1>1. now \in Nat /\ clock \in [Owner -> Nat] /\ LeaseSeconds \in Nat
  BY Lengths DEF TypeOK
<1> QED BY <1>1 DEF Within, Return, Readings

LEMMA NextLease == TypeOK /\ LeaseInv /\ [Next]_vars => LeaseInv'
<1> SUFFICES ASSUME TypeOK, LeaseInv, [Next]_vars PROVE LeaseInv'
  OBVIOUS
<1>1. TypeOK' /\ Readings /\ Readings' /\ Owned /\ Granted
  BY NextTyped, NextReadings DEF LeaseInv
<1>2. \A k \in Job : rows[k].until \in Nat
  <2>1. \A k \in Job : rows[k] \in Row
    BY DEF TypeOK
  <2> QED BY <2>1 DEF Row
<1>3. ASSUME NEW k \in Job, rows'[k].owner = rows[k].owner, rows'[k].until = rows[k].until
      PROVE  \A o \in Owner : rows'[k].owner = o => Within(rows'[k].until, now', clock'[o])
  BY <1>1, <1>2, <1>3, GrantKept DEF Granted
<1>4. CASE UNCHANGED <<rows, events>>
  <2>1. Owned'
    BY <1>1, <1>4 DEF Owned
  <2>2. Granted'
    BY <1>3, <1>4 DEF Granted
  <2> QED BY <1>1, <2>1, <2>2 DEF LeaseInv
<1>5. ASSUME NEW o \in Owner, NEW j \in Job, Renew(o, j) PROVE Owned' /\ Granted'
  <2>1. /\ rows'[j].state = rows[j].state /\ rows'[j].owner = rows[j].owner
        /\ rows'[j].until = clock[o] + LeaseSeconds
        /\ \A k \in Job : k # j => rows'[k] = rows[k]
    BY <1>5, RenewEffect
  <2>2. rows[j].owner = o /\ Return(o)
    BY <1>5 DEF Renew
  <2>3. Owned'
    BY <1>1, <2>1 DEF Owned
  <2>4. Granted'
    BY <1>1, <1>3, <2>1, <2>2, NewGrant DEF Granted
  <2> QED BY <2>3, <2>4
<1>6. ASSUME NEW o \in Owner, NEW j \in Job, Claim(o, j) PROVE Owned' /\ Granted'
  <2>1. /\ rows'[j].state = "CLAIMED" /\ rows'[j].owner = o
        /\ rows'[j].until = clock[o] + LeaseSeconds
        /\ \A k \in Job : k # j => rows'[k] = rows[k]
    BY <1>6, ClaimEffect
  <2>2. Return(o) /\ o # NoOne /\ "CLAIMED" \notin {"NONE"} \cup Table!Terminal
    BY <1>6, LeaseAssumption DEF Claim, Table!Terminal
  <2>3. Owned'
    BY <1>1, <2>1, <2>2 DEF Owned
  <2>4. Granted'
    BY <1>1, <1>3, <2>1, <2>2, NewGrant DEF Granted
  <2> QED BY <2>3, <2>4
<1>7. ASSUME NEW o \in Owner, NEW j \in Job, NEW from \in Table!JobState,
             NEW to \in Table!JobState, Write(o, j, from, to)
      PROVE  Owned' /\ Granted'
  <2>1. /\ rows[j].state = from /\ rows[j].owner = o /\ rows'[j].state = to
        /\ rows'[j].owner = IF to \in Table!Terminal THEN NoOne ELSE o
        /\ rows'[j].until = IF to \in Table!Terminal THEN 0 ELSE rows[j].until
        /\ \A k \in Job : k # j => rows'[k] = rows[k]
    BY <1>7, WriteEffect
  <2>2. \A q \in Owner : q # NoOne
    BY LeaseAssumption
  <2>3. to # "NONE"
    BY <1>7 DEF Write, Table!ValidTransition, Table!MigrationStep, Table!SubtitleStep
  <2>4. Owned'
    BY <1>1, <2>1, <2>2, <2>3 DEF Owned
  <2>5. Granted'
    <3>1. CASE to \in Table!Terminal
      BY <1>3, <2>1, <2>2, <3>1 DEF Granted
    <3>2. CASE to \notin Table!Terminal
      BY <1>3, <2>1, <3>2 DEF Granted
    <3> QED BY <3>1, <3>2
  <2> QED BY <2>4, <2>5
<1> QED BY <1>1, <1>4, <1>5, <1>6, <1>7, Writers DEF LeaseInv

Honoured(j) ==
    rows[j].owner # NoOne /\ rows[j].until >= now =>
        \/ rows'[j].owner = rows[j].owner /\ rows'[j].until >= rows[j].until
        \/ rows'[j].owner = NoOne /\ rows'[j].state \in Table!Terminal

LEMMA NextHonours == ASSUME TypeOK, LeaseInv, [Next]_vars PROVE \A j \in Job : Honoured(j)
<1>1. now \in Nat /\ clock \in [Owner -> Nat] /\ LeaseSeconds \in Nat
  BY Lengths DEF TypeOK
<1>2. \A k \in Job : rows[k].until \in Nat
  <2>1. \A k \in Job : rows[k] \in Row
    BY DEF TypeOK
  <2> QED BY <2>1 DEF Row
<1>3. Readings /\ Granted
  BY DEF LeaseInv
<1>4. ASSUME NEW k \in Job, rows'[k] = rows[k] PROVE Honoured(k)
  BY <1>2, <1>4 DEF Honoured
<1>5. CASE UNCHANGED <<rows, events>>
  BY <1>4, <1>5
<1>6. ASSUME NEW o \in Owner, NEW j \in Job, Renew(o, j) PROVE \A k \in Job : Honoured(k)
  <2>1. /\ rows'[j].owner = rows[j].owner /\ rows'[j].until = clock[o] + LeaseSeconds
        /\ \A k \in Job : k # j => rows'[k] = rows[k]
    BY <1>6, RenewEffect
  <2>2. rows[j].until <= clock[o] + LeaseSeconds
    BY <1>3, <1>6 DEF Renew, Calling, Granted, Within
  <2>3. Honoured(j)
    BY <1>1, <1>2, <2>1, <2>2 DEF Honoured
  <2> QED BY <1>4, <2>1, <2>3
<1>7. ASSUME NEW o \in Owner, NEW j \in Job, Claim(o, j) PROVE \A k \in Job : Honoured(k)
  <2>1. /\ rows'[j].owner = o /\ rows'[j].until = clock[o] + LeaseSeconds
        /\ \A k \in Job : k # j => rows'[k] = rows[k]
    BY <1>7, ClaimEffect
  <2>2. ASSUME rows[j].owner # NoOne, rows[j].until >= now PROVE rows[j].owner = o
    BY <1>1, <1>2, <1>3, <1>7, <2>2 DEF Claim, LeasedByOther, Readings
  <2>3. rows[j].owner = o => rows[j].until <= clock[o] + LeaseSeconds
    BY <1>3, <1>7 DEF Claim, Calling, Granted, Within
  <2>4. Honoured(j)
    BY <1>1, <1>2, <2>1, <2>2, <2>3 DEF Honoured
  <2> QED BY <1>4, <2>1, <2>4
<1>8. ASSUME NEW o \in Owner, NEW j \in Job, NEW from \in Table!JobState,
             NEW to \in Table!JobState, Write(o, j, from, to)
      PROVE  \A k \in Job : Honoured(k)
  <2>1. /\ rows[j].owner = o /\ rows'[j].state = to
        /\ rows'[j].owner = IF to \in Table!Terminal THEN NoOne ELSE o
        /\ rows'[j].until = IF to \in Table!Terminal THEN 0 ELSE rows[j].until
        /\ \A k \in Job : k # j => rows'[k] = rows[k]
    BY <1>8, WriteEffect
  <2>2. Honoured(j)
    BY <1>2, <2>1 DEF Honoured
  <2> QED BY <1>4, <2>1, <2>2
<1> QED BY <1>5, <1>6, <1>7, <1>8, Writers

\* A live lease is never taken over and never shortened, although claims and
\* renewals compute with a clock read before they waited for the write lock.
THEOREM LeasesHonoured == Spec => LeaseHonoured
<1>1. Init => TypeOK /\ LeaseInv
  BY InitTyped, InitLease
<1>2. TypeOK /\ LeaseInv /\ [Next]_vars => TypeOK' /\ LeaseInv'
  BY NextTyped, NextLease
<1>3. TypeOK /\ LeaseInv /\ [Next]_vars
      => [\A j \in Job : rows[j].owner # NoOne /\ rows[j].until >= now =>
              \/ rows'[j].owner = rows[j].owner /\ rows'[j].until >= rows[j].until
              \/ rows'[j].owner = NoOne /\ rows'[j].state \in Table!Terminal]_vars
  BY NextHonours DEF Honoured
<1> QED BY <1>1, <1>2, <1>3, PTL DEF Spec, LeaseHonoured

-----------------------------------------------------------------------------
(***************************************************************************)
(* StateStore implements JobTable.  A lease is live in JobTable while      *)
(* until >= now; a tick of the clock expires the leases that end with it.  *)
(***************************************************************************)
Live(j) == rows[j].owner # NoOne /\ rows[j].until >= now

LEMMA JobsFields ==
    ASSUME NEW j \in Job
    PROVE  /\ jobs[j].state = rows[j].state /\ jobs[j].owner = rows[j].owner
           /\ jobs[j].live = Live(j)
           /\ jobs[j] = [state |-> rows[j].state, owner |-> rows[j].owner, live |-> Live(j)]
BY DEF jobs, Live

LEMMA JobExcept ==
    ASSUME NEW j \in Job, NEW new
    PROVE  /\ [jobs[j] EXCEPT !.live = new]
                = [state |-> rows[j].state, owner |-> rows[j].owner, live |-> new]
           /\ [jobs[j] EXCEPT !.state = new]
                = [state |-> new, owner |-> rows[j].owner, live |-> Live(j)]
<1> DEFINE s == rows[j].state
           q == rows[j].owner
           l == Live(j)
<1>1. jobs[j] = [state |-> s, owner |-> q, live |-> l]
  BY JobsFields
<1> HIDE DEF s, q, l
<1>2. /\ [jobs[j] EXCEPT !.live = new] = [state |-> s, owner |-> q, live |-> new]
      /\ [jobs[j] EXCEPT !.state = new] = [state |-> new, owner |-> q, live |-> l]
  BY <1>1
<1> QED BY <1>2 DEF s, q, l

LEMMA JobsUpdated ==
    ASSUME NEW j \in Job, NEW r,
           \A k \in Job : k # j => rows'[k] = rows[k], now' = now,
           r = [state |-> rows'[j].state, owner |-> rows'[j].owner, live |-> Live(j)']
    PROVE  jobs' = [jobs EXCEPT ![j] = r]
<1>1. ASSUME NEW k \in Job, k # j PROVE jobs'[k] = jobs[k]
  BY <1>1 DEF jobs
<1>2. jobs'[j] = r
  BY DEF jobs, Live
<1>3. jobs' = [k \in Job |-> jobs'[k]] /\ DOMAIN jobs = Job
  BY DEF jobs
<1>4. jobs = [k \in Job |-> jobs[k]]
  BY DEF jobs
<1> HIDE DEF jobs
<1> QED BY <1>1, <1>2, <1>3, <1>4

LEMMA InitRefines == Init => Table!TableInit
<1> SUFFICES ASSUME Init PROVE jobs = [j \in Job |-> Table!NoJob]
  BY DEF Table!TableInit
<1>1. ASSUME NEW j \in Job PROVE jobs[j] = Table!NoJob
  <2>1. rows[j].state = "NONE" /\ rows[j].owner = NoOne
    BY DEF Init, NoRow
  <2>2. Live(j) = FALSE
    BY <2>1 DEF Live
  <2> QED BY <2>1, <2>2, JobsFields DEF Table!NoJob
<1>2. jobs = [j \in Job |-> jobs[j]]
  BY DEF jobs
<1> HIDE DEF jobs
<1> QED BY <1>1, <1>2

\* The steps that leave both the rows and the clock alone.
LEMMA StutterRefines == rows' = rows /\ now' = now => UNCHANGED jobs
BY DEF jobs

LEMMA TickRefines ==
    ASSUME TypeOK, LeaseInv, Tick
    PROVE  \E expired \in SUBSET Job : Table!ExpireAll(expired)
<1> DEFINE expired == {j \in Job : Live(j) /\ ~Live(j)'}
<1>1. \A j \in expired : jobs[j].live
  BY JobsFields
<1>2. rows' = rows /\ now' = now + 1 /\ now \in Nat
  BY DEF Tick, TypeOK
<1>3. ASSUME NEW j \in Job
      PROVE  jobs'[j] = IF j \in expired THEN [jobs[j] EXCEPT !.live = FALSE] ELSE jobs[j]
  <2>1. jobs'[j] = [state |-> rows[j].state, owner |-> rows[j].owner, live |-> Live(j)']
    BY <1>2 DEF jobs, Live
  <2>2. rows[j].until \in Nat
    <3>1. rows[j] \in Row
      BY DEF TypeOK
    <3> QED BY <3>1 DEF Row
  <2>3. Live(j)' => Live(j)
    BY <1>2, <2>2 DEF Live
  <2>4. CASE j \in expired
    <3>1. Live(j)' = FALSE
      BY <2>4 DEF Live
    <3>2. [jobs[j] EXCEPT !.live = FALSE]
            = [state |-> rows[j].state, owner |-> rows[j].owner, live |-> FALSE]
      BY JobExcept
    <3> QED BY <2>1, <2>4, <3>1, <3>2
  <2>5. CASE j \notin expired
    <3>1. Live(j)' = Live(j)
      BY <2>3, <2>5 DEF Live
    <3> QED BY <2>1, <2>5, <3>1, JobsFields
  <2> QED BY <2>4, <2>5
<1>4. jobs' = [j \in Job |-> IF j \in expired THEN [jobs[j] EXCEPT !.live = FALSE] ELSE jobs[j]]
  <2>1. jobs' = [j \in Job |-> jobs'[j]]
    BY DEF jobs
  <2> HIDE DEF jobs, expired
  <2> QED BY <1>3, <2>1
<1>5. Table!ExpireAll(expired)
  <2> HIDE DEF expired, jobs
  <2> QED BY <1>1, <1>4 DEF Table!ExpireAll
<1>6. expired \in SUBSET Job
  OBVIOUS
<1> HIDE DEF expired
<1> QED BY <1>5, <1>6

LEMMA ClaimRefines ==
    ASSUME TypeOK, LeaseInv, NEW o \in Owner, NEW j \in Job, Claim(o, j)
    PROVE  Table!Claim(j, o)
<1>1. /\ rows'[j].state = "CLAIMED" /\ rows'[j].owner = o
      /\ rows'[j].until = clock[o] + LeaseSeconds
      /\ \A k \in Job : k # j => rows'[k] = rows[k]
  BY ClaimEffect
<1>2. /\ now \in Nat /\ clock[o] \in Nat /\ LeaseSeconds \in Nat /\ BusyTimeout \in Nat
      /\ BusyTimeout <= LeaseSeconds /\ o # NoOne
  BY Lengths, LeaseAssumption DEF TypeOK
<1>3. clock[o] # 0 /\ now' = now /\ clock[o] <= now /\ now <= clock[o] + BusyTimeout
  BY DEF Claim, Calling, Return, LeaseInv, Readings
<1>4. Live(j)' = TRUE
  BY <1>1, <1>2, <1>3 DEF Live
<1>5. ~Table!AlreadyComplete(j)
  BY JobsFields DEF Claim, Table!AlreadyComplete
<1>6. ~Table!Leased(j, o)
  <2>1. rows[j].until \in Nat
    <3>1. rows[j] \in Row
      BY DEF TypeOK
    <3> QED BY <3>1 DEF Row
  <2>2. rows[j].owner \in {NoOne, o} \/ ~Live(j)
    BY <1>2, <1>3, <2>1 DEF Claim, LeasedByOther, Live
  <2> QED BY <2>2, JobsFields DEF Table!Leased
<1>7. jobs' = [jobs EXCEPT ![j] = [state |-> "CLAIMED", owner |-> o, live |-> TRUE]]
  BY <1>1, <1>3, <1>4, JobsUpdated
<1> QED BY <1>5, <1>6, <1>7 DEF Table!Claim

LEMMA RenewRefines ==
    ASSUME TypeOK, LeaseInv, NEW o \in Owner, NEW j \in Job, Renew(o, j)
    PROVE  Table!Renew(j, o)
<1>1. /\ rows'[j].state = rows[j].state /\ rows'[j].owner = rows[j].owner
      /\ rows'[j].until = clock[o] + LeaseSeconds
      /\ \A k \in Job : k # j => rows'[k] = rows[k]
  BY RenewEffect
<1>2. /\ now \in Nat /\ clock[o] \in Nat /\ LeaseSeconds \in Nat /\ BusyTimeout \in Nat
      /\ BusyTimeout <= LeaseSeconds /\ o # NoOne
  BY Lengths, LeaseAssumption DEF TypeOK
<1>3. /\ clock[o] # 0 /\ now' = now /\ clock[o] <= now /\ now <= clock[o] + BusyTimeout
      /\ rows[j].owner = o
  BY DEF Renew, Calling, Return, LeaseInv, Readings
<1>4. Live(j)' = TRUE
  BY <1>1, <1>2, <1>3 DEF Live
<1>5. [jobs[j] EXCEPT !.live = TRUE]
        = [state |-> rows'[j].state, owner |-> rows'[j].owner, live |-> Live(j)']
  <2>1. [jobs[j] EXCEPT !.live = TRUE]
          = [state |-> rows[j].state, owner |-> rows[j].owner, live |-> TRUE]
    BY JobExcept
  <2> QED BY <1>1, <1>4, <2>1
<1>6. jobs' = [jobs EXCEPT ![j] = [jobs[j] EXCEPT !.live = TRUE]]
  BY <1>1, <1>3, <1>5, JobsUpdated
<1>7. jobs[j].owner = o
  BY <1>3, JobsFields
<1> HIDE DEF jobs
<1> QED BY <1>6, <1>7 DEF Table!Renew

LEMMA WriteRefines ==
    ASSUME TypeOK, LeaseInv, NEW o \in Owner, NEW j \in Job,
           NEW from \in Table!JobState, NEW to \in Table!JobState, Write(o, j, from, to)
    PROVE  Table!Transition(j, o, from, to)
<1>1. /\ rows[j].state = from /\ rows[j].owner = o /\ rows'[j].state = to
      /\ rows'[j].owner = IF to \in Table!Terminal THEN NoOne ELSE o
      /\ rows'[j].until = IF to \in Table!Terminal THEN 0 ELSE rows[j].until
      /\ \A k \in Job : k # j => rows'[k] = rows[k]
  BY WriteEffect
<1>2. now' = now /\ o # NoOne
  BY LeaseAssumption DEF Write, Return
<1>3. Table!MayTransition(j, o, from, to)
  BY <1>1, JobsFields DEF Write, Table!MayTransition
<1> DEFINE r == IF to \in Table!Terminal
                THEN [state |-> to, owner |-> NoOne, live |-> FALSE]
                ELSE [jobs[j] EXCEPT !.state = to]
<1>4. r = [state |-> rows'[j].state, owner |-> rows'[j].owner, live |-> Live(j)']
  <2>1. CASE to \in Table!Terminal
    <3>1. Live(j)' = FALSE
      BY <1>1, <2>1 DEF Live
    <3> QED BY <1>1, <2>1, <3>1
  <2>2. CASE to \notin Table!Terminal
    <3>1. Live(j)' = Live(j)
      BY <1>1, <1>2, <2>2 DEF Live
    <3>2. [jobs[j] EXCEPT !.state = to]
            = [state |-> to, owner |-> rows[j].owner, live |-> Live(j)]
      BY JobExcept
    <3> QED BY <1>1, <2>2, <3>1, <3>2
  <2> QED BY <2>1, <2>2
<1>5. jobs' = [jobs EXCEPT ![j] = r]
  BY <1>1, <1>2, <1>4, JobsUpdated
<1> HIDE DEF jobs
<1> QED BY <1>3, <1>5 DEF Table!Transition

LEMMA NextRefines == TypeOK /\ LeaseInv /\ [Next]_vars => [Table!TableNext]_jobs
<1> SUFFICES ASSUME TypeOK, LeaseInv, [Next]_vars PROVE [Table!TableNext]_jobs
  OBVIOUS
<1>1. CASE Tick
  BY <1>1, TickRefines DEF Table!TableNext
<1>2. ASSUME NEW o \in Owner, Begin(o) \/ Abandon(o) PROVE UNCHANGED jobs
  BY <1>2, StutterRefines DEF Begin, Abandon, Return
<1>3. ASSUME NEW o \in Owner, NEW j \in Job, Claim(o, j) PROVE Table!TableNext
  BY <1>3, ClaimRefines DEF Table!TableNext
<1>4. ASSUME NEW o \in Owner, NEW j \in Job, Renew(o, j) PROVE Table!TableNext
  BY <1>4, RenewRefines DEF Table!TableNext
<1>5. ASSUME NEW o \in Owner, NEW j \in Job, FailRead(o, j) PROVE UNCHANGED jobs
  BY <1>5, StutterRefines DEF FailRead
<1>6. ASSUME NEW o \in Owner, NEW j \in Job, NEW from \in Open, FailWrite(o, j, from)
      PROVE  Table!TableNext
  <2>1. from \in Table!JobState \ {"NONE", "FAILED"} /\ "FAILED" \in Table!JobState
    BY DEF Open, Table!JobState, Table!Terminal
  <2>2. Table!Transition(j, o, from, "FAILED")
    BY <1>6, <2>1, WriteRefines DEF FailWrite
  <2>3. Table!Fail(j, o)
    BY <2>1, <2>2 DEF Table!Fail
  <2> QED BY <2>3 DEF Table!TableNext
<1>7. ASSUME NEW o \in Owner, NEW j \in Job,
             NEW step \in Table!MigrationStep \cup Table!SubtitleStep,
             Transition(o, j, step[1], step[2])
      PROVE  Table!TableNext
  <2>1. step[1] \in Table!JobState /\ step[2] \in Table!JobState
    BY DEF Table!MigrationStep, Table!SubtitleStep, Table!JobState
  <2>2. Table!Transition(j, o, step[1], step[2])
    BY <1>7, <2>1, WriteRefines DEF Transition
  <2> QED BY <2>2 DEF Table!TableNext
<1>8. CASE UNCHANGED vars
  BY <1>8, StutterRefines DEF vars
<1> QED BY <1>1, <1>2, <1>3, <1>4, <1>5, <1>6, <1>7, <1>8 DEF Next

\* Processes that share the store may reason with JobTable: each transaction with
\* its clock reading, its revision and its event is one step of that table.
THEOREM TableImplemented == Spec => ImplementsTable
<1>1. Init => TypeOK /\ LeaseInv /\ Table!TableInit
  BY InitTyped, InitLease, InitRefines
<1>2. TypeOK /\ LeaseInv /\ [Next]_vars => TypeOK' /\ LeaseInv' /\ [Table!TableNext]_jobs
  BY NextTyped, NextLease, NextRefines
<1> QED BY <1>1, <1>2, PTL DEF Spec, ImplementsTable, Table!TableSpec
=============================================================================
