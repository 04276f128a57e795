---------------------------- MODULE Translation ----------------------------
(***************************************************************************)
(* The translation of one subtitle by a language model, and its review     *)
(* (src/subtitles/translation.rs, with the per-cue checks of quality.rs).  *)
(*                                                                         *)
(* The model may answer anything: for some of the cues it was asked for,   *)
(* badly, in English, or not at all.  batch_ranges is a pure function of   *)
(* the cues, so its ranges are taken one at a time, from a cursor, as the  *)
(* loops come to them.  A range <<s, e>> stands for s..e, e excluded.      *)
(***************************************************************************)
EXTENDS Naturals, Sequences, FiniteSets

CONSTANTS
    N,                        \* cues of the source, numbered by srt::parse
    Chars,                    \* characters of each cue
    Plain,                    \* cues that hold no English to translate: a URL, an identifier
    BatchSize, MaxBatchChars, \* translation.batch_size, max_batch_chars
    AlignmentBatchSize, AlignmentMaxCorrections,
    MaxRetries,
    ReviewAll                 \* alignment_check || consistency_check

Cue == 1 .. N

ASSUME TranslationAssumption ==
    /\ N \in Nat \ {0} /\ Chars \in [Cue -> Nat] /\ Plain \subseteq Cue
    /\ BatchSize \in Nat \ {0} /\ MaxBatchChars \in Nat \ {0}
    /\ AlignmentBatchSize \in Nat /\ AlignmentMaxCorrections \in Nat
    /\ MaxRetries \in Nat /\ ReviewAll \in BOOLEAN

VARIABLES
    phase,     \* where translate() is
    cursor,    \* the first cue of the next range of batch_ranges
    work,      \* the ranges still to do before it, the deque called pending
    text,      \* what each cue is translated to
    pending,   \* pending_review: cues that must be corrected
    attempt,   \* the failures of the request that is being retried
    repairing, \* the one request that asks for the same answer in good JSON
    log        \* quality_log: the cues that were corrected

vars == <<phase, cursor, work, text, pending, attempt, repairing, log>>

\* A text in the target language, or one that is the source or too much like it.
Text == {"good", "english"}

\* translation_concerns: only English worth translating raises one.
Concern(i, t) == t = "english" /\ i \notin Plain

Positions(r) == r[1] .. r[2] - 1

Several(r) == r[2] - r[1] > 1

-----------------------------------------------------------------------------
(***************************************************************************)
(* batch_ranges                                                            *)
(***************************************************************************)
CharsUpTo[n \in 0 .. N] == IF n = 0 THEN 0 ELSE CharsUpTo[n - 1] + Chars[n]

\* The characters of cues s to e, e excluded.
RangeChars(s, e) == CharsUpTo[e - 1] - CharsUpTo[s - 1]

\* A range that began at s and has at least one cue takes cue e too.
Extends(s, e, size) ==
    /\ e <= N
    /\ e - s < size
    /\ RangeChars(s, e) < MaxBatchChars
    /\ RangeChars(s, e + 1) <= MaxBatchChars

RangeEnd(s, size) ==
    CHOOSE e \in s + 1 .. N + 1 :
        /\ ~Extends(s, e, size)
        /\ \A d \in s + 1 .. e - 1 : Extends(s, d, size)

TakeRange(size) ==
    /\ work = <<>> /\ cursor <= N
    /\ work' = <<<<cursor, RangeEnd(cursor, size)>>>>
    /\ cursor' = RangeEnd(cursor, size)

-----------------------------------------------------------------------------
(***************************************************************************)
(* translate_range_adaptive                                                *)
(***************************************************************************)
\* A request is answered for good: the next one starts with fresh attempts.
Answered == attempt' = 0 /\ repairing' = FALSE

\* Mutant: the later half goes first.
HalvesSwapped(r) ==
    LET middle == r[1] + (r[2] - r[1]) \div 2 IN <<<<middle, r[2]>>, <<r[1], middle>>>>

\* Mutant: the cue in the middle is in neither half.
HalvesApart(r) ==
    LET middle == r[1] + (r[2] - r[1]) \div 2 IN <<<<r[1], middle>>, <<middle + 1, r[2]>>>>

\* Mutant: of two cues, none is in the first half.
HalvesLopsided(r) ==
    LET middle == r[1] + (r[2] - r[1] - 1) \div 2 IN <<<<r[1], middle>>, <<middle, r[2]>>>>

Halves(r) ==
    LET middle == r[1] + (r[2] - r[1]) \div 2 IN <<<<r[1], middle>>, <<middle, r[2]>>>>

\* The cues of S first to last, and each as a range of its own.
InOrder(S) ==
    CHOOSE q \in [1 .. Cardinality(S) -> S] : \A j, k \in DOMAIN q : j < k => q[j] < q[k]

Singles(S) == [k \in 1 .. Cardinality(S) |-> <<InOrder(S)[k], InOrder(S)[k] + 1>>]

Fail ==
    /\ phase' = "failed"
    /\ UNCHANGED <<cursor, work, text, pending, log>>
    /\ Answered

Translating == phase = "translating" /\ work # <<>>

NextBatch ==
    /\ phase = "translating"
    /\ TakeRange(BatchSize)
    /\ UNCHANGED <<phase, text, pending, attempt, repairing, log>>

\* The service failed, or a single cue came back badly; the same request again.
Retry ==
    /\ Translating \/ (phase = "reviewing" /\ work # <<>>)
    /\ attempt < MaxRetries
    /\ attempt' = attempt + 1
    /\ UNCHANGED <<phase, cursor, work, text, pending, repairing, log>>

\* An answer for some of the cues of the range.  The rest are asked for one by
\* one; a cue that has a translation already is an error.
Answer(values) ==
    /\ Translating
    /\ DOMAIN values \subseteq Positions(Head(work)) /\ DOMAIN values # {}
    /\ IF \E i \in DOMAIN values : text[i] # "none"
       THEN Fail
       ELSE /\ text' = [i \in Cue |-> IF i \in DOMAIN values THEN values[i] ELSE text[i]]
            /\ work' = Singles(Positions(Head(work)) \ DOMAIN values) \o Tail(work)
            /\ UNCHANGED <<phase, cursor, pending, log>>
            /\ Answered

\* Mutant: the whole range is tried again.
SplitBatchNever ==
    /\ Translating /\ Several(Head(work))
    /\ UNCHANGED <<phase, cursor, work, text, pending, log>>
    /\ Answered

\* A range of several cues that came back badly is halved at once; the service
\* that fails for the last time has the same effect.
SplitBatch ==
    /\ Translating /\ Several(Head(work))
    /\ work' = Halves(Head(work)) \o Tail(work)
    /\ UNCHANGED <<phase, cursor, text, pending, log>>
    /\ Answered

\* The last attempt at a single cue fails: English for now, to be corrected.
KeepSource ==
    /\ Translating /\ ~Several(Head(work)) /\ attempt = MaxRetries
    /\ text' = [text EXCEPT ![Head(work)[1]] = "english"]
    /\ pending' = pending \cup {Head(work)[1]}
    /\ work' = Tail(work)
    /\ UNCHANGED <<phase, cursor, log>>
    /\ Answered

\* queue_quality_concerns, once every cue has a text.
QueueConcerns ==
    /\ phase = "translating" /\ work = <<>> /\ cursor > N
    /\ pending' = pending \cup {i \in Cue : Concern(i, text[i])}
    /\ phase' = IF ReviewAll \/ pending' # {} THEN "reviewing" ELSE "rendering"
    /\ cursor' = 1
    /\ UNCHANGED <<work, text, attempt, repairing, log>>

-----------------------------------------------------------------------------
(***************************************************************************)
(* audit_alignment                                                         *)
(***************************************************************************)
Reviewing == phase = "reviewing" /\ work # <<>>

NextReview ==
    /\ phase = "reviewing"
    /\ TakeRange(AlignmentBatchSize)
    /\ UNCHANGED <<phase, text, pending, attempt, repairing, log>>

\* request_audit_corrections: an answer that is no JSON is asked for once more.
Reformat ==
    /\ Reviewing /\ ~repairing
    /\ repairing' = TRUE /\ attempt' = 0
    /\ UNCHANGED <<phase, cursor, work, text, pending, log>>

SplitReview ==
    /\ work' = Halves(Head(work)) \o Tail(work)
    /\ UNCHANGED <<phase, cursor, text, pending, log>>
    /\ Answered

\* Mutant: a cue that must be corrected is let through.
ReviewErrorGivesIn ==
    /\ Reviewing
    /\ IF Several(Head(work)) THEN SplitReview
       ELSE /\ work' = Tail(work)
            /\ pending' = pending \ {Head(work)[1]}
            /\ UNCHANGED <<phase, cursor, text, log>>
            /\ Answered

\* No usable answer: the service is down, the JSON is bad twice over, or
\* validate_corrections rejects it.  Halve the range; of a single cue, keep the
\* translation unless it must be corrected.
ReviewError ==
    /\ Reviewing
    /\ IF Several(Head(work)) THEN SplitReview
       ELSE IF Head(work)[1] \in pending THEN Fail
       ELSE /\ work' = Tail(work)
            /\ UNCHANGED <<phase, cursor, text, pending, log>>
            /\ Answered

\* The corrections of one answer are applied in the order of the cues.
ApplyCorrections(corrections) ==
    /\ text' = [i \in Cue |-> IF i \in DOMAIN corrections THEN corrections[i] ELSE text[i]]
    /\ pending' = pending \ DOMAIN corrections
    /\ log' = log \o InOrder(DOMAIN corrections)
    /\ work' = Tail(work)
    /\ UNCHANGED <<phase, cursor>>
    /\ Answered

\* Mutant: a correction is taken without a look at it.
CorrectUnchecked(corrections) ==
    /\ Reviewing
    /\ DOMAIN corrections \subseteq Positions(Head(work))
    /\ Cardinality(DOMAIN corrections) <= AlignmentMaxCorrections
    /\ IF (pending \cap Positions(Head(work))) \ DOMAIN corrections # {}
       THEN (IF Several(Head(work)) THEN SplitReview ELSE Fail)
       ELSE ApplyCorrections(corrections)

\* Every cue that must be corrected has to be among the corrections, or the
\* range is halved and asked for again; and no correction may itself be
\* questionable, or the whole translation fails.
Correct(corrections) ==
    /\ Reviewing
    /\ DOMAIN corrections \subseteq Positions(Head(work))
    /\ Cardinality(DOMAIN corrections) <= AlignmentMaxCorrections
    /\ IF (pending \cap Positions(Head(work))) \ DOMAIN corrections # {}
       THEN (IF Several(Head(work)) THEN SplitReview ELSE Fail)
       ELSE IF \E i \in DOMAIN corrections : Concern(i, corrections[i]) THEN Fail
       ELSE ApplyCorrections(corrections)

FinishReview ==
    /\ phase = "reviewing" /\ work = <<>> /\ cursor > N
    /\ phase' = IF pending = {} THEN "rendering" ELSE "failed"
    /\ UNCHANGED <<cursor, work, text, pending, attempt, repairing, log>>

\* validate_translation_quality: half of the cues unchanged.
Unchanged == 2 * Cardinality({i \in Cue : text[i] = "english"}) >= N

\* The gates on the whole subtitle: repeated output and the share of the target
\* script are a matter of letters and may fail any time.
Render ==
    /\ phase = "rendering"
    /\ \/ /\ \A i \in Cue : text[i] # "none"
          /\ N >= 5 => ~Unchanged
          /\ phase' = "rendered"
       \/ phase' = "failed"
    /\ UNCHANGED <<cursor, work, text, pending, attempt, repairing, log>>

Finished == phase \in {"rendered", "failed"} /\ UNCHANGED vars

-----------------------------------------------------------------------------
Init ==
    /\ phase = "translating" /\ cursor = 1 /\ work = <<>>
    /\ text = [i \in Cue |-> "none"]
    /\ pending = {} /\ attempt = 0 /\ repairing = FALSE /\ log = <<>>

\* What the model may say about the cues of the range at the head.
Reply == IF work = <<>> THEN {} ELSE UNION {[S -> Text] : S \in SUBSET Positions(Head(work))}

Next ==
    \/ NextBatch \/ Retry \/ SplitBatch \/ KeepSource \/ QueueConcerns
    \/ NextReview \/ Reformat \/ ReviewError \/ FinishReview \/ Render \/ Finished
    \/ \E values \in Reply : Answer(values) \/ Correct(values)

Spec == Init /\ [][Next]_vars /\ WF_vars(Next)

-----------------------------------------------------------------------------
(***************************************************************************)
(* Properties                                                              *)
(***************************************************************************)
\* The cues of the ranges in the deque, and those and the ones not yet taken.
Covered(ranges) == UNION {Positions(ranges[k]) : k \in 1 .. Len(ranges)}

Queued == Covered(work) \cup (cursor .. N)

\* Every variable has its type, and no range of the deque is empty or beyond
\* the cues: the slices cues[range] never panic.
TypeOK ==
    /\ phase \in {"translating", "reviewing", "rendering", "rendered", "failed"}
    /\ cursor \in 1 .. N + 1
    /\ work \in Seq(Cue \X (2 .. N + 1)) /\ \A k \in 1 .. Len(work) : work[k][1] < work[k][2]
    /\ text \in [Cue -> Text \cup {"none"}]
    /\ pending \subseteq Cue
    /\ attempt \in 0 .. MaxRetries /\ repairing \in BOOLEAN
    /\ log \in Seq(Cue)

\* The ranges of the deque are apart and in the order of the film.
Apart(ranges) == \A j, k \in 1 .. Len(ranges) : j < k => ranges[j][2] <= ranges[k][1]

\* However ranges are halved and repaired, the deque holds them first to last
\* and apart, and what it holds is exactly what has no translation yet: no cue
\* is lost, and the duplicate-index error of translate_range_adaptive never
\* strikes a film whose cues were all answered.
EachCueOnce ==
    /\ Apart(work) /\ \A k \in 1 .. Len(work) : work[k][2] <= cursor
    /\ phase = "translating" => Queued = {i \in Cue : text[i] = "none"}

\* A cue that must be corrected is one the review has not passed yet, so the
\* review never ends with one left over (the last bail of translate()), and
\* what is rendered holds nothing that raises a concern.
NothingQuestionableRendered ==
    /\ phase = "reviewing" => pending \subseteq Queued
    /\ phase \in {"rendering", "rendered"} => \A i \in Cue : ~Concern(i, text[i])

\* A cue that must be corrected is settled by nothing but a correction that is
\* logged and raises no concern: neither a halved range nor a review that fails
\* lets English through that was kept for want of an answer.
SettledByCorrection ==
    [][\A i \in pending \ pending' :
          /\ \E k \in Len(log) + 1 .. Len(log') : log'[k] = i
          /\ ~Concern(i, text'[i])]_vars

\* The quality log tells of each corrected cue once, in the order of the film,
\* although the deque is halved and filled again from the front.
LogInOrder == \A j, k \in 1 .. Len(log) : j < k => log[j] < log[k]

\* A translation ends, whatever the model answers: each request is retried a
\* bounded number of times and each range is halved down to single cues.
Terminates == <>(phase \in {"rendered", "failed"})
=============================================================================
