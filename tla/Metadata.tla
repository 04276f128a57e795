------------------------------ MODULE Metadata ------------------------------
(***************************************************************************)
(* The local metadata of one film: src/metadata.rs run_on_storage and      *)
(* process_video.  NFO, poster, fanart and manifest stand beside the film; *)
(* there is no lock and no job, so runs of the metadata command and the    *)
(* gates of the subtitle and plan commands (ensure_before) interleave      *)
(* freely, and each may end between two of its steps.                      *)
(*                                                                         *)
(* The film is one whose classification is not pending; TMDB is external.  *)
(***************************************************************************)
EXTENDS Naturals, FiniteSets

CONSTANTS
    Owner,      \* processes
    Version,    \* the cuts of the film that may stand at its path
    Config,     \* [metadata] settings, language among them
    Standing,   \* the settings of the run that is repeated for ever
    Record,     \* the revisions of the film's TMDB record, in order
    Backdrop,   \* those that have a backdrop: only they give the film a fanart
    None,       \* no file
    Hand,       \* a file made by hand
    Foreign,    \* a manifest that does not parse: of another version of the program
    Earlier,    \* the manifests that may stand there at first, None or Foreign
    Retries,    \* max_retries
    Scenes,     \* the processes that take part, and the bounds that go with them: on
                \* the failed requests and interrupted runs, and on what people do and
                \* the runs besides the standing one
    EditManaged \* whether people write files while there is a manifest

Role == {"nfo", "poster", "fanart"}

\* What a file of the program is made from.
Work == [record : Record, config : Config]

Artifact == [content : Work \cup {Hand}, managed : BOOLEAN]

\* What a manifest lists: there may be no fanart.
Artifacts == UNION {[S -> Artifact] : S \in SUBSET Role}

Manifest == [video : Version, config : Config, fresh : BOOLEAN, artifacts : Artifacts]

ASSUME MetadataAssumption ==
    /\ Version \subseteq Nat /\ Version # {} /\ Record \subseteq Nat /\ Record # {}
    /\ Backdrop \subseteq Record /\ Standing \in Config
    /\ Retries \in Nat /\ EditManaged \in BOOLEAN
    /\ Earlier \subseteq {None, Foreign}
    /\ Scenes \subseteq [cast : SUBSET Owner, faults : Nat, edits : Nat]
    /\ Hand # None /\ {Hand, None} \cap Work = {} /\ {None, Foreign} \cap Manifest = {}

Mode == {"default", "supplement", "force"}

\* The order in which artifacts are published and checked.
Place == [r \in Role |-> CASE r = "nfo" -> 1 [] r = "poster" -> 2 [] r = "fanart" -> 3]

Foremost(S) == CHOOSE r \in S : \A q \in S : Place[r] <= Place[q]

VARIABLES
    video, record,      \* the cut at the path, the revision TMDB answers with
    files, manifest,
    scene, standing,    \* who takes part, and the mode of the standing run
    run,                \* where each process is, and what it holds
    faults, edits

worldVars == <<video, record, scene, standing, faults, edits>>
vars == <<video, record, files, manifest, scene, standing, run, faults, edits>>

NoArtifacts == [r \in {} |-> None]

Idle == [pc |-> "idle", mode |-> "default", config |-> Standing, seen |-> 0, tries |-> 0,
         unmanaged |-> {}, work |-> None, todo |-> {}, artifacts |-> NoArtifacts]

Set(p, r) == run' = [run EXCEPT ![p] = r]

Goto(p, next) == Set(p, [run[p] EXCEPT !.pc = next])

Stop(p) == Set(p, Idle)

FaultHappens ==
    /\ faults < scene.faults /\ faults' = faults + 1
    /\ UNCHANGED <<video, record, scene, standing, edits>>

EditHappens ==
    /\ edits < scene.edits /\ edits' = edits + 1
    /\ UNCHANGED <<scene, standing, faults>>

\* A file that is gone or changed is not what a manifest says of it.
Stands(r, artifacts) == files[r] = artifacts[r].content

-----------------------------------------------------------------------------
(***************************************************************************)
(* run_on_storage and read_ready_metadata                                  *)
(***************************************************************************)
Begin(p, mode, config) ==
    /\ p \in scene.cast /\ run[p].pc = "idle"
    /\ IF mode = standing /\ config = Standing THEN UNCHANGED worldVars
       ELSE EditHappens /\ UNCHANGED <<video, record>>
    /\ Set(p, [Idle EXCEPT !.pc = IF mode = "force" THEN "look_manifest" ELSE "read_manifest",
                           !.mode = mode, !.config = config, !.seen = video])
    /\ UNCHANGED <<files, manifest>>

Current(p, m) ==
    /\ m.video = run[p].seen /\ m.config = run[p].config /\ m.fresh
    /\ {"nfo", "poster"} \subseteq DOMAIN m.artifacts

ReadManifest(p) ==
    /\ run[p].pc = "read_manifest"
    /\ IF manifest \notin {None, Foreign} /\ Current(p, manifest)
       THEN Set(p, [run[p] EXCEPT !.pc = "check", !.artifacts = manifest.artifacts,
                                  !.todo = DOMAIN manifest.artifacts])
       ELSE Goto(p, "look_manifest")
    /\ UNCHANGED <<files, manifest, worldVars>>

\* Mutant: the NFO speaks for the others.
CheckFirst(p) ==
    /\ run[p].pc = "check"
    /\ IF ~Stands(Foremost(run[p].todo), run[p].artifacts)
       THEN Set(p, [run[p] EXCEPT !.pc = "look_manifest", !.todo = {}, !.artifacts = NoArtifacts])
       ELSE Stop(p)
    /\ UNCHANGED <<files, manifest, worldVars>>

\* One artifact after the other; the film is cached when all of them stand.
Check(p) ==
    /\ run[p].pc = "check"
    /\ LET r    == Foremost(run[p].todo)
           rest == run[p].todo \ {r}
       IN  IF ~Stands(r, run[p].artifacts)
           THEN Set(p, [run[p] EXCEPT !.pc = "look_manifest", !.todo = {}, !.artifacts = NoArtifacts])
           ELSE IF rest = {} THEN Stop(p) ELSE Set(p, [run[p] EXCEPT !.todo = rest])
    /\ UNCHANGED <<files, manifest, worldVars>>

-----------------------------------------------------------------------------
(***************************************************************************)
(* process_video                                                           *)
(***************************************************************************)
Unmanaged(m) ==
    IF m \in {None, Foreign} THEN {} ELSE {r \in DOMAIN m.artifacts : ~m.artifacts[r].managed}

\* A default run goes on to see whether anything is in its way only when there
\* is no manifest at all; one that does not parse is a manifest that says nothing.
LookManifest(p) ==
    /\ run[p].pc = "look_manifest"
    /\ Set(p, [run[p] EXCEPT !.unmanaged = Unmanaged(manifest),
                 !.pc = IF run[p].mode = "default" /\ manifest = None
                        THEN "look_files" ELSE "request"])
    /\ UNCHANGED <<files, manifest, worldVars>>

LookFiles(p) ==
    /\ run[p].pc = "look_files"
    /\ IF \E r \in Role : files[r] # None THEN Stop(p) ELSE Goto(p, "request")
    /\ UNCHANGED <<files, manifest, worldVars>>

\* TmdbClient::resolve and the images it names.
Answered(p) ==
    /\ run[p].pc = "request"
    /\ Set(p, [run[p] EXCEPT !.pc = "publish", !.tries = 0,
                 !.work = [record |-> record, config |-> run[p].config],
                 !.todo = IF record \in Backdrop THEN Role ELSE Role \ {"fanart"}])
    /\ UNCHANGED <<files, manifest, worldVars>>

\* Mutant: one attempt too many.
RetryOffByOne(p) ==
    /\ run[p].pc = "request"
    /\ FaultHappens
    /\ IF run[p].tries <= Retries THEN Set(p, [run[p] EXCEPT !.tries = @ + 1]) ELSE Stop(p)
    /\ UNCHANGED <<files, manifest>>

\* request_url: an overloaded or unreachable server is asked again.
Retry(p) ==
    /\ run[p].pc = "request"
    /\ FaultHappens
    /\ IF run[p].tries < Retries THEN Set(p, [run[p] EXCEPT !.tries = @ + 1]) ELSE Stop(p)
    /\ UNCHANGED <<files, manifest>>

\* The next artifact, or the manifest, once r is dealt with.
Recorded(p, r, artifact) ==
    LET rest == run[p].todo \ {r}
    IN  Set(p, [run[p] EXCEPT !.pc = IF rest = {} THEN "upload_manifest" ELSE "publish",
                  !.todo = rest,
                  !.artifacts = [q \in DOMAIN @ \cup {r} |-> IF q = r THEN artifact ELSE @[q]]])

\* Mutant: what the last manifest says of the file is forgotten.
KeepsForgetful(p, r) == run[p].mode = "supplement" /\ files[r] # None

Keeps(p, r) ==
    /\ run[p].mode = "supplement" \/ (run[p].mode = "default" /\ r \in run[p].unmanaged)
    /\ files[r] # None

\* publish_artifact
Publish(p) ==
    /\ run[p].pc = "publish"
    /\ LET r == Foremost(run[p].todo)
       IN  IF Keeps(p, r) THEN Recorded(p, r, [content |-> files[r], managed |-> FALSE])
           ELSE Goto(p, "upload")
    /\ UNCHANGED <<files, manifest, worldVars>>

Upload(p) ==
    /\ run[p].pc = "upload"
    /\ files' = [files EXCEPT ![Foremost(run[p].todo)] = run[p].work]
    /\ Recorded(p, Foremost(run[p].todo), [content |-> run[p].work, managed |-> TRUE])
    /\ UNCHANGED <<manifest, worldVars>>

\* Mutant: the manifest tells what stands there when it is written.
UploadManifestOfFiles(p) ==
    /\ run[p].pc = "upload_manifest"
    /\ manifest' = [video |-> run[p].seen, config |-> run[p].config, fresh |-> TRUE,
                    artifacts |-> [r \in DOMAIN run[p].artifacts |->
                                     [run[p].artifacts[r] EXCEPT !.content = files[r]]]]
    /\ Stop(p)
    /\ UNCHANGED <<files, worldVars>>

\* The manifest is published last.
UploadManifest(p) ==
    /\ run[p].pc = "upload_manifest"
    /\ manifest' = [video |-> run[p].seen, config |-> run[p].config, fresh |-> TRUE,
                    artifacts |-> run[p].artifacts]
    /\ Stop(p)
    /\ UNCHANGED <<files, worldVars>>

-----------------------------------------------------------------------------
(***************************************************************************)
(* Errors and crashes, which leave the same behind; time; people           *)
(***************************************************************************)
Interrupted(p) ==
    /\ run[p].pc # "idle"
    /\ FaultHappens
    /\ Stop(p)
    /\ UNCHANGED <<files, manifest>>

\* Nobody writes a file while a run is under way.
Quiet == \A p \in Owner : run[p].pc = "idle"

PutFile(r) ==
    /\ Quiet /\ (EditManaged \/ manifest = None)
    /\ EditHappens
    /\ files[r] # Hand
    /\ files' = [files EXCEPT ![r] = Hand]
    /\ UNCHANGED <<video, record, manifest, run>>

RemoveFile(r) ==
    /\ Quiet
    /\ EditHappens
    /\ files[r] # None
    /\ files' = [files EXCEPT ![r] = None]
    /\ UNCHANGED <<video, record, manifest, run>>

ReplaceFilm(v) ==
    /\ EditHappens
    /\ v > video /\ video' = v
    /\ UNCHANGED <<record, files, manifest, run>>

\* TMDB takes a revision of its record.
Revise(n) ==
    /\ n > record /\ record' = n
    /\ UNCHANGED <<video, scene, standing, faults, edits, files, manifest, run>>

\* refresh_after_days have passed.
Age ==
    /\ manifest \notin {None, Foreign} /\ manifest.fresh
    /\ EditHappens
    /\ manifest' = [manifest EXCEPT !.fresh = FALSE]
    /\ UNCHANGED <<video, record, files, run>>

-----------------------------------------------------------------------------
Least(S) == CHOOSE n \in S : \A m \in S : n <= m

Init ==
    /\ video = Least(Version) /\ record = Least(Record)
    /\ files = [r \in Role |-> None]
    /\ manifest \in Earlier
    /\ scene \in Scenes /\ standing \in Mode
    /\ run = [p \in Owner |-> Idle]
    /\ faults = 0 /\ edits = 0

Run(p) ==
    \/ ReadManifest(p) \/ Check(p) \/ LookManifest(p) \/ LookFiles(p) \/ Answered(p)
    \/ Publish(p) \/ Upload(p) \/ UploadManifest(p)

Next ==
    \/ \E p \in Owner : Run(p) \/ Retry(p) \/ Interrupted(p)
    \/ \E p \in Owner, mode \in Mode, config \in Config : Begin(p, mode, config)
    \/ \E r \in Role : PutFile(r) \/ RemoveFile(r)
    \/ \E v \in Version : ReplaceFilm(v)
    \/ \E n \in Record : Revise(n)
    \/ Age

Spec == Init /\ [][Next]_vars

\* A started run goes on, and the scheduler starts the standing run again and again.
FairSpec ==
    /\ Spec
    /\ \A p \in Owner : WF_vars(Run(p)) /\ WF_vars(Begin(p, standing, Standing))

-----------------------------------------------------------------------------
(***************************************************************************)
(* Properties                                                              *)
(***************************************************************************)
PC == {"idle", "read_manifest", "check", "look_manifest", "look_files", "request",
       "publish", "upload", "upload_manifest"}

\* Every variable has its type, a process that works on an artifact has one to work
\* on, and no manifest is written without NFO and poster.
TypeOK ==
    /\ video \in Version /\ record \in Record
    /\ scene \in Scenes /\ standing \in Mode
    /\ files \in [Role -> Work \cup {Hand, None}]
    /\ manifest \in Manifest \cup {None, Foreign}
    /\ manifest \in Manifest => {"nfo", "poster"} \subseteq DOMAIN manifest.artifacts
    /\ faults \in 0 .. scene.faults /\ edits \in 0 .. scene.edits
    /\ run \in [Owner -> [pc : PC, mode : Mode, config : Config, seen : Version \cup {0},
                          tries : 0 .. Retries, unmanaged : SUBSET Role,
                          work : Work \cup {None}, todo : SUBSET Role, artifacts : Artifacts]]
    /\ \A p \in Owner :
        /\ run[p].pc \in {"check", "publish", "upload"} => run[p].todo # {}
        /\ run[p].pc \in {"publish", "upload", "upload_manifest"} => run[p].work \in Work

\* A file made by hand is replaced by a --force run and by no other, however
\* many runs, refreshes and interruptions come between (README.md:75, 82).
\* It holds for the files some manifest can know of: put there before there is
\* one, and no fanart of a record that gains its backdrop later.
HandMadeKept ==
    [][\A r \in Role : files[r] = Hand /\ files'[r] # Hand =>
          \/ files'[r] = None
          \/ \E p \in Owner : run[p].mode = "force" /\ run'[p] # run[p]]_vars

\* read_ready_metadata, for the film as it stands and the standing settings.
Ready ==
    /\ manifest \notin {None, Foreign}
    /\ manifest.video = video /\ manifest.config = Standing /\ manifest.fresh
    /\ \A r \in DOMAIN manifest.artifacts : Stands(r, manifest.artifacts)

\* What is taken for ready is never put together from the files of two runs
\* that overlapped: the managed files are of one record (metadata.rs:309-372).
OneRecord ==
    Ready => \A q, r \in DOMAIN manifest.artifacts :
                manifest.artifacts[q].managed /\ manifest.artifacts[r].managed
                    => files[q] = files[r]

\* A default run finds files and no manifest, and leaves them to a human; an
\* interrupted first run leaves its own files in that state (metadata.rs:269-274).
Refused == standing = "default" /\ manifest = None /\ \E r \in Role : files[r] # None

\* Repeating the standing run ends with metadata that is ready and stays so,
\* or with the refusal that only the default mode gives.
Recoverable == <>[](Ready \/ Refused)
=============================================================================
