------------------------------ MODULE Subtitle ------------------------------
(***************************************************************************)
(* The subtitle of one film: src/subtitles/mod.rs process_video and the    *)
(* ready artifact of src/artifact.rs, over the jobs of JobTable and the    *)
(* acquisition of Acquisition.  Any number of processes run at the same    *)
(* time, with settings of their own; each may meet an error or die between *)
(* two of its steps, people edit files, and the film may be replaced.      *)
(*                                                                         *)
(* Equal SHA-256 is equal content.  No two archives are made in the same   *)
(* second, so that no archive replaces another: backups is a set.          *)
(***************************************************************************)
EXTENDS JobTable, Acquisition

CONSTANTS
    Model,      \* translation settings
    Standing,   \* the settings of the run that is repeated for ever
    Other,      \* settings that are tried in addition
    Hand,       \* a subtitle finished by hand
    Attempts,   \* READINESS_ATTEMPTS
    MaxFaults,  \* bound on the I/O errors, failures of tools and crashes
    MaxEdits,   \* bound on the files people write and the runs besides the standing one
    EditRaces   \* whether people may edit between the archive and the upload

Setting == [worker : Worker, model : Model]

\* What a translation of a text gives; two processes do not get the same words.
Draft == [source : Text, model : Model, by : Owner]

Source == [text : Text, path : Slot \cup {None}]

Manifest == [video : Version, source : Source, output : Draft, key : Job, model : Model]

ASSUME SubtitleAssumption ==
    /\ Job = Version \X Worker
    /\ KindOf = [j \in Job |-> "subtitle"]
    /\ Standing \in Setting /\ Other \subseteq Setting
    /\ Attempts \in Nat \ {0} /\ MaxFaults \in Nat /\ MaxEdits \in Nat
    /\ EditRaces \in BOOLEAN /\ Hand # None
    /\ {Hand, None} \cap Draft = {} /\ {None, Failed} \cap Source = {} /\ None \notin Manifest

VARIABLES
    video,      \* the cut that stands at the path
    files,      \* the source in each slot
    output, manifest, backups,  \* <stem>.ai.srt, its manifest, its archives
    run,        \* where each process is, and what it holds
    hand,       \* whether the output was ever finished by hand
    faults, edits

fileVars == <<files, output, manifest, backups>>
worldVars == <<video, hand, faults, edits>>
vars == <<jobs, video, files, output, manifest, backups, run, hand, faults, edits>>

Idle == [pc |-> "idle", setting |-> Standing, seen |-> 0, listed |-> {}, got |-> None,
         source |-> None, draft |-> None, expected |-> None, held |-> None, tries |-> 0]

\* acquisition_key of the listed file, which the id of the job is made of.
Key(p) == <<run[p].seen, run[p].setting.worker>>

Set(p, r) == run' = [run EXCEPT ![p] = r]

Goto(p, next) == Set(p, [run[p] EXCEPT !.pc = next])

Stop(p) == Set(p, Idle)

\* The `?` of a check inside the job.
Require(p, condition, next) == Goto(p, IF condition THEN next ELSE "failing")

FaultHappens == faults < MaxFaults /\ faults' = faults + 1 /\ UNCHANGED <<video, hand, edits>>

EditHappens == edits < MaxEdits /\ edits' = edits + 1 /\ UNCHANGED faults

-----------------------------------------------------------------------------
(***************************************************************************)
(* One run: the listing, then process_video.  process_owner() is new on    *)
(* every start: an owner whose lease is live is not reused, and an expired *)
(* row of another job that still has its name is never touched again.      *)
(***************************************************************************)
Begin(p, s, force) ==
    /\ run[p].pc = "idle"
    /\ \A j \in Job : ~(jobs[j].owner = p /\ jobs[j].live)
    /\ IF s = Standing /\ ~force THEN UNCHANGED worldVars
       ELSE EditHappens /\ UNCHANGED <<video, hand>>
    /\ Set(p, [Idle EXCEPT !.pc = IF force THEN "resolve" ELSE "read_manifest",
                           !.setting = s, !.seen = video,
                           !.listed = {slot \in Slot : files[slot] # None}])
    /\ UNCHANGED <<jobs, fileVars>>

-----------------------------------------------------------------------------
(***************************************************************************)
(* read_ready_artifact: before the job for the cache, and after the        *)
(* publication, when the process has a draft                               *)
(***************************************************************************)
\* Mutant: one look too many.
AgainOffByOne(p) == run[p].tries < Attempts

Again(p) == run[p].tries + 1 < Attempts

NotReady(p) ==
    IF run[p].draft = None THEN Set(p, [run[p] EXCEPT !.pc = "resolve", !.got = None])
    ELSE IF Again(p)
         THEN Set(p, [run[p] EXCEPT !.pc = "read_manifest", !.got = None, !.tries = @ + 1])
         ELSE Set(p, [run[p] EXCEPT !.pc = "failing", !.got = None])

Current(p, m) == m.key = Key(p) /\ m.model = run[p].setting.model

IsReady(p) ==
    IF run[p].draft # None THEN Set(p, [run[p] EXCEPT !.pc = "complete", !.got = None])
    ELSE IF Current(p, run[p].got) THEN Stop(p)
    ELSE Set(p, [run[p] EXCEPT !.pc = "resolve", !.got = None])

ReadManifest(p) ==
    /\ run[p].pc = "read_manifest"
    /\ IF output # None /\ manifest # None /\ manifest.video = run[p].seen
       THEN Set(p, [run[p] EXCEPT !.pc = "hash_output", !.got = manifest])
       ELSE NotReady(p)
    /\ UNCHANGED <<jobs, fileVars, worldVars>>

HashOutput(p) ==
    /\ run[p].pc = "hash_output"
    /\ IF output # run[p].got.output THEN NotReady(p)
       ELSE IF run[p].got.source.path = None THEN IsReady(p) ELSE Goto(p, "hash_source")
    /\ UNCHANGED <<jobs, fileVars, worldVars>>

HashSource(p) ==
    /\ run[p].pc = "hash_source"
    /\ IF files[run[p].got.source.path] = run[p].got.source.text THEN IsReady(p) ELSE NotReady(p)
    /\ UNCHANGED <<jobs, fileVars, worldVars>>

-----------------------------------------------------------------------------
(***************************************************************************)
(* Acquisition.  A tool may fail where it did not fail before: a timeout.  *)
(***************************************************************************)
Yields(S) == {y \in [S -> Yield] : \A t \in S : y[t] \in {t.yields, "nothing"}}

Usual(y) == \A t \in DOMAIN y : y[t] = t.yields

\* Of the files that were listed, what they hold now.
Listed(p) == [s \in Slot |-> IF s \in run[p].listed THEN files[s] ELSE None]

\* resolve_existing_source, before the job is claimed; the listing is not used again.
ResolveSource(p) ==
    /\ run[p].pc = "resolve"
    /\ \E y \in Yields(Tracks[video]) :
          /\ IF Usual(y) THEN UNCHANGED worldVars ELSE FaultHappens
          /\ LET source == Resolve(Listed(p), video, run[p].setting.worker, y)
             IN  IF source = Failed THEN Stop(p)
                 ELSE Set(p, [run[p] EXCEPT !.pc = "claim", !.source = source, !.listed = {}])
    /\ UNCHANGED <<jobs, fileVars>>

ClaimJob(p) ==
    /\ run[p].pc = "claim"
    /\ \/ Claim(Key(p), p) /\ Goto(p, "to_acquiring")
       \/ Leased(Key(p), p) /\ Stop(p) /\ UNCHANGED jobs
    /\ UNCHANGED <<fileVars, worldVars>>

Advance(p, at, from, to, next) ==
    /\ run[p].pc = at
    /\ \/ Transition(Key(p), p, from, to) /\ Goto(p, next)
       \/ Refused(Key(p), p, from, to) /\ Goto(p, "failing") /\ UNCHANGED jobs
    /\ UNCHANGED <<fileVars, worldVars>>

\* Mutant: renew does not say whether it found the job.
RenewUnchecked(p, at, next) ==
    /\ run[p].pc = at
    /\ \/ Renew(Key(p), p)
       \/ jobs[Key(p)].owner # p /\ UNCHANGED jobs
    /\ Goto(p, next)
    /\ UNCHANGED <<fileVars, worldVars>>

RenewLease(p, at, next) ==
    /\ run[p].pc = at
    /\ \/ Renew(Key(p), p) /\ Goto(p, next)
       \/ jobs[Key(p)].owner # p /\ Goto(p, "failing") /\ UNCHANGED jobs
    /\ UNCHANGED <<fileVars, worldVars>>

ToAcquiring(p) == Advance(p, "to_acquiring", "CLAIMED", "ACQUIRING", "acquire")

\* acquire_generated_source, when there is no source yet.
Acquire(p) ==
    /\ run[p].pc = "acquire"
    /\ IF run[p].source # None THEN Goto(p, "renew_acquired") /\ UNCHANGED worldVars
       ELSE \E y \in Yields(Tracks[video]), speech \in {"good", "nothing"} :
              /\ IF Usual(y) /\ speech = "good" THEN UNCHANGED worldVars ELSE FaultHappens
              /\ LET text == Generated(video, run[p].setting.worker, y, speech)
                 IN  IF text = Failed THEN Goto(p, "failing")
                     ELSE Set(p, [run[p] EXCEPT !.pc = "persist",
                                    !.source = [text |-> text, path |-> text.kind]])
    /\ UNCHANGED <<jobs, fileVars>>

\* persist_generated
Persist(p) ==
    /\ run[p].pc = "persist"
    /\ files' = [files EXCEPT ![run[p].source.path] = run[p].source.text]
    /\ Goto(p, "confirm_source")
    /\ UNCHANGED <<jobs, output, manifest, backups, worldVars>>

ConfirmSource(p) ==
    /\ run[p].pc = "confirm_source"
    /\ Require(p, files[run[p].source.path] = run[p].source.text, "renew_acquired")
    /\ UNCHANGED <<jobs, fileVars, worldVars>>

RenewAcquired(p) == RenewLease(p, "renew_acquired", "to_translating")

ToTranslating(p) == Advance(p, "to_translating", "ACQUIRING", "TRANSLATING", "translate")

-----------------------------------------------------------------------------
(***************************************************************************)
(* Translation, the archive of an existing output, publication             *)
(***************************************************************************)
Translate(p) ==
    /\ run[p].pc = "translate"
    /\ Set(p, [run[p] EXCEPT !.pc = "renew_translated",
                 !.draft = [source |-> run[p].source.text,
                            model |-> run[p].setting.model, by |-> p]])
    /\ UNCHANGED <<jobs, fileVars, worldVars>>

RenewTranslated(p) == RenewLease(p, "renew_translated", "to_verified")

ToVerified(p) == Advance(p, "to_verified", "TRANSLATING", "VERIFIED", "guard")

\* Mutant: an output that no manifest tells of is taken for somebody else's.
GuardRefuses(p) ==
    /\ run[p].pc = "guard"
    /\ IF output = None THEN Goto(p, "upload")
       ELSE IF manifest = None \/ manifest.output # output THEN Goto(p, "failing")
       ELSE Set(p, [run[p] EXCEPT !.pc = "read_output", !.expected = output])
    /\ UNCHANGED <<jobs, fileVars, worldVars>>

\* guard_existing_output: its existence and its hash, then its bytes, then the
\* archive, which is read back.
Guard(p) ==
    /\ run[p].pc = "guard"
    /\ IF output = None THEN Goto(p, "upload")
       ELSE Set(p, [run[p] EXCEPT !.pc = "read_output", !.expected = output])
    /\ UNCHANGED <<jobs, fileVars, worldVars>>

ReadOutput(p) ==
    /\ run[p].pc = "read_output"
    /\ Set(p, [run[p] EXCEPT !.pc = "archive", !.held = output])
    /\ UNCHANGED <<jobs, fileVars, worldVars>>

\* Mutant: the archive is not read back.
ArchiveUnverified(p) ==
    /\ run[p].pc = "archive"
    /\ backups' = backups \cup {run[p].expected}
    /\ Set(p, [run[p] EXCEPT !.pc = "upload", !.expected = None, !.held = None])
    /\ UNCHANGED <<jobs, files, output, manifest, worldVars>>

Archive(p) ==
    /\ run[p].pc = "archive"
    /\ backups' = backups \cup {run[p].held}
    /\ Set(p, [run[p] EXCEPT !.pc = IF run[p].held = run[p].expected THEN "upload" ELSE "failing",
                             !.expected = None, !.held = None])
    /\ UNCHANGED <<jobs, files, output, manifest, worldVars>>

Upload(p) ==
    /\ run[p].pc = "upload"
    /\ output' = run[p].draft
    /\ Goto(p, "confirm")
    /\ UNCHANGED <<jobs, files, manifest, backups, worldVars>>

Confirm(p) ==
    /\ run[p].pc = "confirm"
    /\ Require(p, output = run[p].draft, "upload_manifest")
    /\ UNCHANGED <<jobs, fileVars, worldVars>>

\* The manifest is the commit marker and is published last.
UploadManifest(p) ==
    /\ run[p].pc = "upload_manifest"
    /\ manifest' = [video |-> run[p].seen, source |-> run[p].source, output |-> run[p].draft,
                    key |-> Key(p), model |-> run[p].setting.model]
    /\ Goto(p, "read_manifest")
    /\ UNCHANGED <<jobs, files, output, backups, worldVars>>

Complete(p) ==
    /\ run[p].pc = "complete"
    /\ \/ Transition(Key(p), p, "VERIFIED", "READY") /\ Stop(p)
       \/ Refused(Key(p), p, "VERIFIED", "READY") /\ Goto(p, "failing") /\ UNCHANGED jobs
    /\ UNCHANGED <<fileVars, worldVars>>

-----------------------------------------------------------------------------
(***************************************************************************)
(* Errors, crashes, time and people                                        *)
(***************************************************************************)
Claimed(p) ==
    \/ run[p].pc \notin {"idle", "read_manifest", "hash_output", "hash_source", "resolve", "claim"}
    \/ run[p].draft # None

\* `let _ = state.fail(..)`, and the error is returned.
FailJob(p) ==
    /\ run[p].pc = "failing"
    /\ \/ Fail(Key(p), p)
       \/ /\ \A from \in JobState \ {"NONE", "FAILED"} : Refused(Key(p), p, from, "FAILED")
          /\ UNCHANGED jobs
    /\ Stop(p)
    /\ UNCHANGED <<fileVars, worldVars>>

\* Any call of storage, database, tool or language model may fail.
IoError(p) ==
    /\ run[p].pc \notin {"idle", "failing"}
    /\ FaultHappens
    /\ IF Claimed(p) THEN Set(p, [Idle EXCEPT !.pc = "failing", !.setting = run[p].setting,
                                              !.seen = run[p].seen])
       ELSE Stop(p)
    /\ UNCHANGED <<jobs, fileVars>>

Crash(p) ==
    /\ run[p].pc # "idle"
    /\ FaultHappens
    /\ Stop(p)
    /\ UNCHANGED <<jobs, fileVars>>

\* From the renewal after the translation to the end the lease is long enough;
\* an acquisition or a translation may outlast it.
Publishing(p) ==
    \/ run[p].pc \in {"to_verified", "guard", "read_output", "archive", "upload", "confirm",
                      "upload_manifest", "complete"}
    \/ run[p].draft # None /\ run[p].pc \in {"read_manifest", "hash_output", "hash_source"}

LeaseRunsOut(j) ==
    /\ \A p \in Owner : ~(jobs[j].owner = p /\ Publishing(p))
    /\ IF \E p \in Owner : jobs[j].owner = p /\ run[p].pc # "idle" /\ Key(p) = j
       THEN FaultHappens
       ELSE UNCHANGED worldVars
    /\ Expire(j)
    /\ UNCHANGED <<fileVars, run>>

\* Somebody finishes the subtitle by hand.
Edit ==
    /\ EditHappens
    /\ EditRaces \/ \A p \in Owner : run[p].pc \notin {"archive", "upload"}
    /\ output' = Hand /\ hand' = TRUE
    /\ UNCHANGED <<jobs, video, files, manifest, backups, run>>

PutExternal(x) ==
    /\ EditHappens
    /\ files["external"] # x
    /\ files' = [files EXCEPT !["external"] = x]
    /\ UNCHANGED <<jobs, video, hand, output, manifest, backups, run>>

\* Another cut of the film is put in the place of this one.
ReplaceFilm(v) ==
    /\ EditHappens
    /\ v > video
    /\ video' = v
    /\ UNCHANGED <<jobs, fileVars, hand, run>>

-----------------------------------------------------------------------------
First == CHOOSE v \in Version : \A u \in Version : v <= u

Init ==
    /\ TableInit
    /\ video = First
    /\ files = [s \in Slot |-> None]
    /\ output = None /\ manifest = None /\ backups = {}
    /\ run = [p \in Owner |-> Idle]
    /\ hand = FALSE /\ faults = 0 /\ edits = 0

\* The steps a process takes by itself once it has been started.
Run(p) ==
    \/ ReadManifest(p) \/ HashOutput(p) \/ HashSource(p)
    \/ ResolveSource(p) \/ ClaimJob(p) \/ ToAcquiring(p) \/ Acquire(p)
    \/ Persist(p) \/ ConfirmSource(p) \/ RenewAcquired(p) \/ ToTranslating(p)
    \/ Translate(p) \/ RenewTranslated(p) \/ ToVerified(p)
    \/ Guard(p) \/ ReadOutput(p) \/ Archive(p) \/ Upload(p) \/ Confirm(p)
    \/ UploadManifest(p) \/ Complete(p) \/ FailJob(p)

Next ==
    \/ \E p \in Owner : Run(p) \/ IoError(p) \/ Crash(p)
    \/ \E p \in Owner, s \in {Standing} \cup Other, force \in BOOLEAN : Begin(p, s, force)
    \/ \E j \in Job : LeaseRunsOut(j)
    \/ Edit
    \/ \E x \in External : PutExternal(x)
    \/ \E v \in Version : ReplaceFilm(v)

Spec == Init /\ [][Next]_vars

\* A started process goes on; the scheduler starts the standing run again and
\* again; the clock passes the lease of a process that is gone.
FairSpec ==
    /\ Spec
    /\ \A p \in Owner : WF_vars(Run(p)) /\ WF_vars(Begin(p, Standing, FALSE))
    /\ \A j \in Job : WF_vars(LeaseRunsOut(j))

-----------------------------------------------------------------------------
(***************************************************************************)
(* Properties                                                              *)
(***************************************************************************)
PC == {"idle", "read_manifest", "hash_output", "hash_source", "resolve", "claim",
       "to_acquiring", "acquire", "persist", "confirm_source", "renew_acquired",
       "to_translating", "translate", "renew_translated", "to_verified", "guard",
       "read_output", "archive", "upload", "confirm", "upload_manifest", "complete",
       "failing"}

Output == Draft \cup {Hand}

\* Every variable has its type, and a process never comes to a step without what
\* the step uses: a manifest to compare with, a text to translate, a draft to publish.
TypeOK ==
    /\ TableTypeOK
    /\ video \in Version /\ files \in [Slot -> Text \cup {None}]
    /\ output \in Output \cup {None} /\ manifest \in Manifest \cup {None}
    /\ backups \subseteq Output
    /\ hand \in BOOLEAN /\ faults \in 0 .. MaxFaults /\ edits \in 0 .. MaxEdits
    /\ run \in [Owner -> [pc : PC, setting : Setting, seen : Version \cup {0},
                          listed : SUBSET Slot, got : Manifest \cup {None},
                          source : Source \cup {None}, draft : Draft \cup {None},
                          expected : Output \cup {None}, held : Output \cup {None},
                          tries : 0 .. Attempts - 1]]
    /\ \A p \in Owner :
        /\ run[p].pc # "idle" => run[p].seen \in Version
        /\ run[p].pc \in {"hash_output", "hash_source"} => run[p].got \in Manifest
        /\ run[p].pc \in {"persist", "confirm_source", "renew_acquired", "translate"}
              => run[p].source \in Source
        /\ run[p].pc \in {"read_output", "archive"} => run[p].expected \in Output
        /\ Publishing(p) => run[p].draft \in Draft /\ run[p].source \in Source

\* A subtitle finished by hand stays the output or is in an archive, whatever
\* runs, settings, crashes and edits come later (mod.rs:297-301, 549-582).
HandMadeKept == hand => output = Hand \/ Hand \in backups

\* Two processes of one job are never both past the renewal that follows the
\* translation: one that lost its lease while it translated stops before it
\* touches the files (mod.rs:239, 263-271).
OnePublisherPerJob ==
    \A p, q \in Owner : p # q /\ Publishing(p) /\ Publishing(q) => Key(p) # Key(q)

\* Speech recognition never stands in for an English text track: tracks that
\* cannot be read end the run (mod.rs:963-968).
EmbeddedBeforeSpeech == files["asr"] # None => English(files["asr"].cut, TRUE) = {}

\* While the film is the one it was, an external file of another cut is not
\* published for a film whose embedded English can be read (mod.rs:663-699).
ExternalVerified ==
    (video = First /\ manifest # None /\ manifest.source.text.kind = "external"
        /\ manifest.source.text.cut # manifest.video)
    => English(manifest.video, TRUE) = {}

\* The source of a manifest was obtained from the film and with the tools that
\* its acquisition key stands for (CHANGELOG.md:102).
KeyTellsTheSource ==
    (manifest # None /\ manifest.source.text.kind # "external")
    => <<manifest.source.text.cut, manifest.source.text.worker>> = manifest.key

\* The subtitle of the film as it stands, for the standing settings.
Ready ==
    /\ manifest # None /\ output = manifest.output
    /\ manifest.video = video
    /\ manifest.key = <<video, Standing.worker>> /\ manifest.model = Standing.model
    /\ manifest.source.path # None => files[manifest.source.path] = manifest.source.text

\* At most one process is at work.
Alone == \A p, q \in Owner : run[p].pc # "idle" /\ run[q].pc # "idle" => p = q

\* Wherever earlier runs were interrupted and whatever other settings were
\* tried, repeating the standing run makes the subtitle ready again and again;
\* once runs no longer overlap it stays ready and is not translated again
\* (mod.rs:162-354).
Recoverable == []<>Ready /\ (<>[]Alone => <>[]Ready)
=============================================================================
