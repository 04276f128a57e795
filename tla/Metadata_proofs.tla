--------------------------- MODULE Metadata_proofs --------------------------
(***************************************************************************)
(* Theorems about Metadata, for any number of overlapping runs, any        *)
(* revisions of the record, settings, errors and interruptions.            *)
(*                                                                         *)
(* OneRecord rests on what a run holds: whatever it will list as its own   *)
(* is one work (Progress).  HandMadeKept rests on what a manifest and a    *)
(* run know of the files made by hand (Told, Aware), and on people putting *)
(* a file only where no manifest is: then it stands since before the run.  *)
(***************************************************************************)
EXTENDS Metadata, WellFoundedInduction, TLAPS

Publishing == {"publish", "upload", "upload_manifest"}

\* All that is managed was made from one work.
OneWork(a) == \A q, r \in DOMAIN a : a[q].managed /\ a[r].managed => a[q].content = a[r].content

RunRecord == [pc : PC, mode : Mode, config : Config, seen : Version \cup {0},
              tries : 0 .. Retries, unmanaged : SUBSET Role, work : Work \cup {None},
              todo : SUBSET Role, artifacts : Artifacts]

\* All that is managed is this work.
IsOwn(a, work) == \A r \in DOMAIN a : a[r].managed => a[r].content = work

\* What a run has dealt with, what it has still to do, and what it leaves out.
Progress(r) ==
    /\ r.pc \in {"check", "publish", "upload"} => r.todo # {}
    /\ r.pc # "idle" => r.seen \in Version
    /\ r.pc \in {"read_manifest", "look_manifest", "look_files", "request"}
          => r.artifacts = NoArtifacts
    /\ r.pc \in Publishing =>
          /\ r.work \in Work /\ {"nfo", "poster"} \subseteq r.todo \cup DOMAIN r.artifacts
          /\ IsOwn(r.artifacts, r.work)
    /\ r.pc = "upload_manifest" => r.todo = {}

RunsTyped == run \in [Owner -> RunRecord] /\ \A p \in Owner : Progress(run[p])

FilesTyped ==
    /\ files \in [Role -> Work \cup {Hand, None}]
    /\ manifest \in Manifest \cup {None, Foreign}
    /\ manifest \in Manifest => {"nfo", "poster"} \subseteq DOMAIN manifest.artifacts

WorldTyped ==
    /\ video \in Version /\ record \in Record /\ scene \in Scenes /\ standing \in Mode
    /\ faults \in 0 .. scene.faults /\ edits \in 0 .. scene.edits

TypeInv == RunsTyped /\ FilesTyped /\ WorldTyped

ManifestInv == manifest \in Manifest => OneWork(manifest.artifacts)

-----------------------------------------------------------------------------
(***************************************************************************)
(* The operators                                                           *)
(***************************************************************************)
\* Of a set of natural numbers one is the least.
LEMMA LeastNumber ==
    ASSUME NEW T \in SUBSET Nat, T # {}
    PROVE  Least(T) \in T /\ \A y \in T : Least(T) <= y
<1> DEFINE R == OpToRel(<, Nat)
<1>1. IsWellFoundedOn(R, Nat) BY NatLessThanWellFounded
<1>2. \A x, y \in Nat : x < y => <<x, y>> \in R BY DEF OpToRel
<1> HIDE DEF R
<1>3. PICK x \in T : \A y \in T : ~(<<y, x>> \in R) BY <1>1, WFMin
<1>4. \A y \in T : ~(y < x) BY <1>2, <1>3
<1>5. \E n \in T : \A m \in T : n <= m BY <1>4
<1> QED BY <1>5 DEF Least

\* There is always a next artifact to publish.
LEMMA ForemostMember ==
    ASSUME NEW S \in SUBSET Role, S # {}
    PROVE  Foremost(S) \in S
<1>1. Place["nfo"] = 1 /\ Place["poster"] = 2 /\ Place["fanart"] = 3 BY DEF Place, Role
<1>2. \E r \in S : \A q \in S : Place[r] <= Place[q]
  <2>1. CASE "nfo" \in S BY <1>1, <2>1 DEF Role
  <2>2. CASE "nfo" \notin S /\ "poster" \in S BY <1>1, <2>2 DEF Role
  <2>3. CASE S = {"fanart"} BY <1>1, <2>3
  <2> QED BY <2>1, <2>2, <2>3 DEF Role
<1> QED BY <1>2 DEF Foremost

\* A run that has not dealt with anything lists nothing,
LEMMA NoArtifactsType == NoArtifacts \in Artifacts /\ DOMAIN NoArtifacts = {}
<1>1. NoArtifacts \in [{} -> Artifact] BY DEF NoArtifacts
<1> QED BY <1>1 DEF Artifacts, Role

\* and one more artifact is added to a list of them.
LEMMA ArtifactsAdd ==
    ASSUME NEW a \in Artifacts, NEW r \in Role, NEW x \in Artifact
    PROVE  LET b == [q \in DOMAIN a \cup {r} |-> IF q = r THEN x ELSE a[q]]
           IN  /\ b \in Artifacts /\ DOMAIN b = DOMAIN a \cup {r}
               /\ b[r] = x /\ \A q \in DOMAIN a \ {r} : b[q] = a[q]
<1> DEFINE b == [q \in DOMAIN a \cup {r} |-> IF q = r THEN x ELSE a[q]]
<1>1. PICK S \in SUBSET Role : a \in [S -> Artifact] BY DEF Artifacts
<1>2. b \in [S \cup {r} -> Artifact] BY <1>1
<1>3. S \cup {r} \in SUBSET Role BY <1>1
<1>4. b \in Artifacts BY <1>2, <1>3 DEF Artifacts
<1> QED BY <1>4

\* The members of a list of artifacts are artifacts.
LEMMA ArtifactsDomain ==
    ASSUME NEW a \in Artifacts
    PROVE  DOMAIN a \in SUBSET Role /\ \A r \in DOMAIN a : a[r] \in Artifact
BY DEF Artifacts

-----------------------------------------------------------------------------
(***************************************************************************)
(* Type correctness                                                        *)
(***************************************************************************)
\* A process that has not begun has nothing.
LEMMA IdleTyped == Idle \in RunRecord /\ Progress(Idle)
<1>1. Standing \in Config /\ 0 \in 0 .. Retries BY MetadataAssumption
<1> QED BY <1>1, NoArtifactsType DEF Idle, RunRecord, Progress, PC, Mode, Publishing

\* One process moves, and the others stay where they are.
LEMMA OneMoves ==
    ASSUME RunsTyped, NEW p \in Owner, NEW r \in RunRecord, Progress(r), Set(p, r)
    PROVE  RunsTyped'
BY DEF RunsTyped, Set

LEMMA StopTyped == ASSUME RunsTyped, NEW p \in Owner, Stop(p) PROVE RunsTyped'
BY IdleTyped, OneMoves DEF Stop

\* What a manifest holds, field by field.
LEMMA ManifestFields ==
    ASSUME NEW m \in Manifest
    PROVE  /\ m.video \in Version /\ m.config \in Config /\ m.fresh \in BOOLEAN
           /\ m.artifacts \in Artifacts
BY DEF Manifest

\* Dealing with the foremost artifact leads to the next one or to the manifest.
LEMMA RecordedTyped ==
    ASSUME RunsTyped, NEW p \in Owner, run[p].pc \in {"publish", "upload"},
           NEW r \in run[p].todo, NEW x \in Artifact,
           x.managed => x.content = run[p].work, Recorded(p, r, x)
    PROVE  RunsTyped'
<1> DEFINE rest == run[p].todo \ {r}
           a == run[p].artifacts
           b == [q \in DOMAIN a \cup {r} |-> IF q = r THEN x ELSE a[q]]
           next == [run[p] EXCEPT !.pc = IF rest = {} THEN "upload_manifest" ELSE "publish",
                                  !.todo = rest, !.artifacts = b]
<1>1. run[p] \in RunRecord /\ Progress(run[p]) /\ r \in Role BY DEF RunsTyped, RunRecord
<1>2. Set(p, next) BY DEF Recorded
<1>3. a \in Artifacts BY <1>1 DEF RunRecord
<1>4. /\ b \in Artifacts /\ DOMAIN b = DOMAIN a \cup {r}
      /\ b[r] = x /\ \A q \in DOMAIN a \ {r} : b[q] = a[q]
  BY <1>1, <1>3, ArtifactsAdd
<1> HIDE DEF a, b
<1>5. next \in RunRecord BY <1>1, <1>4 DEF RunRecord, PC
<1>6. /\ next.pc \in {"publish", "upload_manifest"}
      /\ next.pc = "publish" => rest # {}
      /\ next.pc = "upload_manifest" => rest = {}
      /\ next.todo = rest /\ next.artifacts = b /\ next.work = run[p].work
      /\ next.seen = run[p].seen
  BY <1>1 DEF RunRecord
<1>7. /\ run[p].seen \in Version /\ run[p].work \in Work
      /\ {"nfo", "poster"} \subseteq run[p].todo \cup DOMAIN a
      /\ IsOwn(a, run[p].work)
  BY <1>1 DEF Progress, Publishing, a
<1> HIDE DEF next
<1>8. {"nfo", "poster"} \subseteq rest \cup DOMAIN b BY <1>4, <1>7
<1>9. IsOwn(b, run[p].work) BY <1>4, <1>7 DEF IsOwn
<1>10. Progress(next) BY <1>6, <1>7, <1>8, <1>9 DEF Progress, Publishing
<1> QED BY <1>2, <1>5, <1>10, OneMoves

\* The checks of the cache and of what stands beside the film.
LEMMA LookTyped ==
    ASSUME RunsTyped, FilesTyped, NEW p \in Owner,
           ReadManifest(p) \/ Check(p) \/ LookManifest(p) \/ LookFiles(p)
    PROVE  RunsTyped'
<1>1. run[p] \in RunRecord /\ Progress(run[p]) BY DEF RunsTyped
<1>2. CASE ReadManifest(p)
  <2>1. CASE manifest \notin {None, Foreign} /\ Current(p, manifest)
    <3>1. manifest \in Manifest /\ manifest.artifacts \in Artifacts
      BY <2>1, ManifestFields DEF FilesTyped
    <3>2. DOMAIN manifest.artifacts \in SUBSET Role /\ DOMAIN manifest.artifacts # {}
      BY <3>1, ArtifactsDomain DEF FilesTyped
    <3> DEFINE next == [run[p] EXCEPT !.pc = "check", !.artifacts = manifest.artifacts,
                                      !.todo = DOMAIN manifest.artifacts]
    <3>3. next \in RunRecord BY <1>1, <3>1, <3>2 DEF RunRecord, PC
    <3>4. Progress(next)
      BY <1>1, <1>2, <3>2 DEF RunRecord, Progress, Publishing, ReadManifest
    <3>5. Set(p, next) BY <1>2, <2>1 DEF ReadManifest
    <3> HIDE DEF next
    <3> QED BY <3>3, <3>4, <3>5, OneMoves
  <2>2. CASE ~(manifest \notin {None, Foreign} /\ Current(p, manifest))
    <3> DEFINE next == [run[p] EXCEPT !.pc = "look_manifest"]
    <3>1. next \in RunRecord BY <1>1 DEF RunRecord, PC
    <3>2. Progress(next) BY <1>1, <1>2 DEF RunRecord, Progress, Publishing, ReadManifest
    <3>3. Set(p, next) BY <1>2, <2>2 DEF ReadManifest, Goto
    <3> HIDE DEF next
    <3> QED BY <3>1, <3>2, <3>3, OneMoves
  <2> QED BY <2>1, <2>2
<1>3. CASE Check(p)
  <2> DEFINE r == Foremost(run[p].todo)
             rest == run[p].todo \ {r}
             again == [run[p] EXCEPT !.pc = "look_manifest", !.todo = {},
                                     !.artifacts = NoArtifacts]
             further == [run[p] EXCEPT !.todo = rest]
  <2>1. again \in RunRecord /\ further \in RunRecord
    BY <1>1, NoArtifactsType DEF RunRecord, PC
  <2>2. Progress(again) BY <1>1, <1>3 DEF RunRecord, Progress, Publishing, Check
  <2>3. rest # {} => Progress(further)
    BY <1>1, <1>3 DEF RunRecord, Progress, Publishing, Check
  <2>4. Set(p, again) \/ Stop(p) \/ (rest # {} /\ Set(p, further)) BY <1>3 DEF Check
  <2> HIDE DEF again, further, rest
  <2> QED BY <2>1, <2>2, <2>3, <2>4, OneMoves, StopTyped
<1>4. CASE LookManifest(p)
  <2>1. Unmanaged(manifest) \in SUBSET Role
    <3>1. CASE manifest \in {None, Foreign} BY <3>1 DEF Unmanaged
    <3>2. CASE manifest \notin {None, Foreign}
      <4>1. DOMAIN manifest.artifacts \in SUBSET Role
        BY <3>2, ManifestFields, ArtifactsDomain DEF FilesTyped
      <4> QED BY <3>2, <4>1 DEF Unmanaged
    <3> QED BY <3>1, <3>2
  <2> DEFINE next == [run[p] EXCEPT !.unmanaged = Unmanaged(manifest),
                        !.pc = IF run[p].mode = "default" /\ manifest = None
                               THEN "look_files" ELSE "request"]
  <2>2. next \in RunRecord BY <1>1, <2>1 DEF RunRecord, PC
  <2>3. Progress(next) BY <1>1, <1>4 DEF RunRecord, Progress, Publishing, LookManifest
  <2>4. Set(p, next) BY <1>4 DEF LookManifest
  <2> HIDE DEF next
  <2> QED BY <2>2, <2>3, <2>4, OneMoves
<1>5. CASE LookFiles(p)
  <2> DEFINE next == [run[p] EXCEPT !.pc = "request"]
  <2>1. next \in RunRecord BY <1>1 DEF RunRecord, PC
  <2>2. Progress(next) BY <1>1, <1>5 DEF RunRecord, Progress, Publishing, LookFiles
  <2>3. Stop(p) \/ Set(p, next) BY <1>5 DEF LookFiles, Goto
  <2> HIDE DEF next
  <2> QED BY <2>1, <2>2, <2>3, OneMoves, StopTyped
<1> QED BY <1>2, <1>3, <1>4, <1>5

\* The requests to TMDB and their answer.
LEMMA RequestTyped ==
    ASSUME RunsTyped, WorldTyped, NEW p \in Owner, Answered(p) \/ Retry(p)
    PROVE  RunsTyped'
<1>1. run[p] \in RunRecord /\ Progress(run[p]) BY DEF RunsTyped
<1>2. CASE Answered(p)
  <2> DEFINE work == [record |-> record, config |-> run[p].config]
             todo == IF record \in Backdrop THEN Role ELSE Role \ {"fanart"}
             next == [run[p] EXCEPT !.pc = "publish", !.tries = 0, !.work = work, !.todo = todo]
  <2>1. work \in Work BY <1>1 DEF WorldTyped, Work, RunRecord
  <2>2. todo \in SUBSET Role /\ {"nfo", "poster"} \subseteq todo BY DEF Role
  <2>3. Set(p, next) BY <1>2 DEF Answered
  <2> HIDE DEF work, todo
  <2>4. next \in RunRecord
    <3>1. 0 \in 0 .. Retries /\ work \in Work \cup {None} BY <2>1, MetadataAssumption
    <3>2. "publish" \in PC BY DEF PC
    <3> QED BY <1>1, <2>2, <3>1, <3>2 DEF RunRecord
  <2>5. run[p].pc = "request" BY <1>2 DEF Answered
  <2>6. next.artifacts = NoArtifacts /\ next.seen \in Version
    BY <1>1, <2>5 DEF RunRecord, Progress
  <2>7. IsOwn(NoArtifacts, work) BY NoArtifactsType DEF IsOwn
  <2>8. Progress(next) BY <1>1, <2>1, <2>2, <2>6, <2>7 DEF RunRecord, Progress, Publishing
  <2> HIDE DEF next
  <2> QED BY <2>3, <2>4, <2>8, OneMoves
<1>3. CASE Retry(p)
  <2> DEFINE next == [run[p] EXCEPT !.tries = @ + 1]
  <2>1. ASSUME run[p].tries < Retries PROVE next \in RunRecord
    BY <1>1, <2>1, MetadataAssumption DEF RunRecord
  <2>2. Progress(next) BY <1>1 DEF RunRecord, Progress
  <2>3. Stop(p) \/ (run[p].tries < Retries /\ Set(p, next)) BY <1>3 DEF Retry
  <2> HIDE DEF next
  <2> QED BY <2>1, <2>2, <2>3, OneMoves, StopTyped
<1> QED BY <1>2, <1>3

\* The publication of one artifact.
LEMMA PublishTyped ==
    ASSUME RunsTyped, FilesTyped, NEW p \in Owner, Publish(p) \/ Upload(p)
    PROVE  RunsTyped' /\ FilesTyped'
<1> DEFINE r == Foremost(run[p].todo)
<1>1. run[p] \in RunRecord /\ Progress(run[p]) BY DEF RunsTyped
<1>2. run[p].pc \in {"publish", "upload"} BY DEF Publish, Upload
<1>3. run[p].work \in Work /\ run[p].todo \in SUBSET Role /\ run[p].todo # {}
  BY <1>1, <1>2 DEF RunRecord, Progress, Publishing
<1>4. r \in run[p].todo /\ r \in Role BY <1>3, ForemostMember
<1> HIDE DEF r
<1>5. CASE Publish(p)
  <2>1. FilesTyped' BY <1>5 DEF Publish, FilesTyped
  <2>2. CASE Keeps(p, r)
    <3> DEFINE x == [content |-> files[r], managed |-> FALSE]
    <3>1. files[r] \in Work \cup {Hand}
      BY <1>4, <2>2 DEF Keeps, FilesTyped
    <3>2. x \in Artifact /\ ~x.managed BY <3>1 DEF Artifact
    <3>3. Recorded(p, r, x) BY <1>5, <2>2 DEF Publish, r
    <3> HIDE DEF x
    <3> QED BY <1>2, <1>4, <2>1, <3>2, <3>3, RecordedTyped
  <2>3. CASE ~Keeps(p, r)
    <3> DEFINE next == [run[p] EXCEPT !.pc = "upload"]
    <3>1. next \in RunRecord BY <1>1 DEF RunRecord, PC
    <3>2. Progress(next) BY <1>1, <1>5 DEF RunRecord, Progress, Publishing, Publish
    <3>3. Set(p, next) BY <1>5, <2>3 DEF Publish, Goto, r
    <3> HIDE DEF next
    <3> QED BY <2>1, <3>1, <3>2, <3>3, OneMoves
  <2> QED BY <2>2, <2>3
<1>6. CASE Upload(p)
  <2>1. FilesTyped' BY <1>3, <1>4, <1>6 DEF Upload, FilesTyped, r
  <2> DEFINE x == [content |-> run[p].work, managed |-> TRUE]
  <2>2. x \in Artifact /\ x.content = run[p].work BY <1>3 DEF Artifact
  <2>3. Recorded(p, r, x) BY <1>6 DEF Upload, r
  <2> HIDE DEF x
  <2> QED BY <1>2, <1>4, <2>1, <2>2, <2>3, RecordedTyped
<1> QED BY <1>5, <1>6

\* What a run writes into its manifest.
LEMMA UploadedManifest ==
    ASSUME RunsTyped, NEW p \in Owner, UploadManifest(p)
    PROVE  /\ run[p].pc = "upload_manifest" /\ run[p].todo = {}
           /\ manifest' \in Manifest /\ manifest'.artifacts = run[p].artifacts
           /\ {"nfo", "poster"} \subseteq DOMAIN manifest'.artifacts
           /\ IsOwn(manifest'.artifacts, run[p].work)
<1>1. run[p] \in RunRecord /\ Progress(run[p]) BY DEF RunsTyped
<1>2. run[p].pc = "upload_manifest" BY DEF UploadManifest
<1>3. /\ run[p].seen \in Version /\ run[p].config \in Config
      /\ run[p].artifacts \in Artifacts /\ run[p].todo = {}
      /\ {"nfo", "poster"} \subseteq DOMAIN run[p].artifacts
      /\ IsOwn(run[p].artifacts, run[p].work)
  BY <1>1, <1>2 DEF RunRecord, Progress, Publishing
<1>4. manifest' = [video |-> run[p].seen, config |-> run[p].config, fresh |-> TRUE,
                   artifacts |-> run[p].artifacts]
  BY DEF UploadManifest
<1>5. manifest' \in Manifest /\ manifest'.artifacts = run[p].artifacts
  BY <1>3, <1>4 DEF Manifest
<1> QED BY <1>2, <1>3, <1>5

\* A run of any mode starts with nothing.
LEMMA BeginTyped ==
    ASSUME RunsTyped, WorldTyped, NEW p \in Owner, NEW mode \in Mode, NEW config \in Config,
           Begin(p, mode, config)
    PROVE  RunsTyped'
<1> DEFINE next == [Idle EXCEPT !.pc = IF mode = "force" THEN "look_manifest" ELSE "read_manifest",
                                !.mode = mode, !.config = config, !.seen = video]
<1>1. next \in RunRecord BY IdleTyped DEF RunRecord, PC, WorldTyped
<1>2. Progress(next) BY IdleTyped DEF RunRecord, Progress, Publishing, WorldTyped, Idle
<1>3. Set(p, next) BY DEF Begin
<1> HIDE DEF next
<1> QED BY <1>1, <1>2, <1>3, OneMoves

\* A bound that a fault or an edit leaves intact.
LEMMA WorldBounded ==
    ASSUME WorldTyped, FaultHappens \/ (EditHappens /\ video' \in Version /\ UNCHANGED record)
    PROVE  WorldTyped'
<1>1. scene \in [cast : SUBSET Owner, faults : Nat, edits : Nat]
  BY MetadataAssumption DEF WorldTyped
<1>2. scene.faults \in Nat /\ scene.edits \in Nat BY <1>1
<1>3. CASE FaultHappens
  <2>1. faults' \in 0 .. scene.faults BY <1>2, <1>3 DEF FaultHappens, WorldTyped
  <2> QED BY <1>3, <2>1 DEF FaultHappens, WorldTyped
<1>4. CASE EditHappens /\ video' \in Version /\ UNCHANGED record
  <2>1. edits' \in 0 .. scene.edits BY <1>2, <1>4 DEF EditHappens, WorldTyped
  <2> QED BY <1>4, <2>1 DEF EditHappens, WorldTyped
<1> QED BY <1>3, <1>4

\* The bounds hold whatever a step is.
LEMMA WorldKept ==
    ASSUME WorldTyped, [Next]_vars
    PROVE  WorldTyped'
<1>1. CASE UNCHANGED worldVars BY <1>1 DEF worldVars, WorldTyped
<1>2. CASE FaultHappens BY <1>2, WorldBounded
<1>3. CASE EditHappens /\ video' \in Version /\ UNCHANGED record BY <1>3, WorldBounded
<1>4. ASSUME NEW p \in Owner, Run(p) PROVE UNCHANGED worldVars
  BY <1>4 DEF Run, ReadManifest, Check, LookManifest, LookFiles, Answered, Publish, Upload,
              UploadManifest
<1>5. ASSUME NEW p \in Owner, Retry(p) \/ Interrupted(p) PROVE FaultHappens
  BY <1>5 DEF Retry, Interrupted
<1>6. ASSUME NEW p \in Owner, NEW mode \in Mode, NEW config \in Config, Begin(p, mode, config)
      PROVE  UNCHANGED worldVars \/ (EditHappens /\ video' \in Version /\ UNCHANGED record)
  <2>1. UNCHANGED worldVars \/ (EditHappens /\ UNCHANGED <<video, record>>) BY <1>6 DEF Begin
  <2> QED BY <2>1 DEF WorldTyped
<1>7. ASSUME NEW r \in Role, PutFile(r) \/ RemoveFile(r)
      PROVE  EditHappens /\ video' \in Version /\ UNCHANGED record
  BY <1>7 DEF PutFile, RemoveFile, WorldTyped
<1>8. ASSUME NEW v \in Version, ReplaceFilm(v)
      PROVE  EditHappens /\ video' \in Version /\ UNCHANGED record
  BY <1>8 DEF ReplaceFilm
<1>9. ASSUME NEW n \in Record, Revise(n) PROVE WorldTyped'
  BY <1>9 DEF Revise, WorldTyped
<1>10. CASE Age
  BY <1>3, <1>10 DEF Age, WorldTyped
<1>11. CASE UNCHANGED vars BY <1>1, <1>11 DEF vars, worldVars
<1> QED BY <1>1, <1>2, <1>3, <1>4, <1>5, <1>6, <1>7, <1>8, <1>9, <1>10, <1>11 DEF Next

\* Every step keeps the types.
LEMMA TypeStep ==
    ASSUME TypeInv, [Next]_vars
    PROVE  TypeInv'
<1>0. RunsTyped /\ FilesTyped /\ WorldTyped /\ WorldTyped' BY WorldKept DEF TypeInv
<1>1. ASSUME NEW p \in Owner, Run(p) PROVE TypeInv'
  <2>1. CASE ReadManifest(p) \/ Check(p) \/ LookManifest(p) \/ LookFiles(p)
    <3>1. FilesTyped'
      BY <1>0, <2>1 DEF ReadManifest, Check, LookManifest, LookFiles, FilesTyped
    <3> QED BY <1>0, <2>1, <3>1, LookTyped DEF TypeInv
  <2>2. CASE Answered(p)
    <3>1. FilesTyped' BY <1>0, <2>2 DEF Answered, FilesTyped
    <3> QED BY <1>0, <2>2, <3>1, RequestTyped DEF TypeInv
  <2>3. CASE Publish(p) \/ Upload(p)
    BY <1>0, <2>3, PublishTyped DEF TypeInv
  <2>4. CASE UploadManifest(p)
    <3>1. FilesTyped'
      <4>1. UNCHANGED files BY <2>4 DEF UploadManifest
      <4> QED BY <1>0, <2>4, <4>1, UploadedManifest DEF FilesTyped
    <3>2. RunsTyped' BY <1>0, <2>4, StopTyped DEF UploadManifest
    <3> QED BY <1>0, <3>1, <3>2 DEF TypeInv
  <2> QED BY <1>1, <2>1, <2>2, <2>3, <2>4 DEF Run
<1>2. ASSUME NEW p \in Owner, Retry(p) \/ Interrupted(p) PROVE TypeInv'
  <2>1. FilesTyped' BY <1>0, <1>2 DEF Retry, Interrupted, FilesTyped
  <2>2. RunsTyped' BY <1>0, <1>2, RequestTyped, StopTyped DEF Interrupted
  <2> QED BY <1>0, <2>1, <2>2 DEF TypeInv
<1>3. ASSUME NEW p \in Owner, NEW mode \in Mode, NEW config \in Config, Begin(p, mode, config)
      PROVE  TypeInv'
  <2>1. FilesTyped' BY <1>0, <1>3 DEF Begin, FilesTyped
  <2> QED BY <1>0, <1>3, <2>1, BeginTyped DEF TypeInv
<1>4. ASSUME NEW r \in Role, PutFile(r) \/ RemoveFile(r) PROVE TypeInv'
  <2>1. FilesTyped' BY <1>0, <1>4 DEF PutFile, RemoveFile, FilesTyped
  <2>2. RunsTyped' BY <1>0, <1>4 DEF PutFile, RemoveFile, RunsTyped
  <2> QED BY <1>0, <2>1, <2>2 DEF TypeInv
<1>5. CASE (\E v \in Version : ReplaceFilm(v)) \/ (\E n \in Record : Revise(n))
  BY <1>0, <1>5 DEF ReplaceFilm, Revise, FilesTyped, RunsTyped, TypeInv
<1>6. CASE Age
  <2>1. manifest \in Manifest BY <1>0, <1>6 DEF Age, FilesTyped
  <2>2. manifest' \in Manifest /\ manifest'.artifacts = manifest.artifacts
    BY <1>6, <2>1 DEF Age, Manifest
  <2>3. FilesTyped' BY <1>0, <1>6, <2>1, <2>2 DEF Age, FilesTyped
  <2> QED BY <1>0, <1>6, <2>3 DEF Age, RunsTyped, TypeInv
<1>7. CASE UNCHANGED vars
  BY <1>0, <1>7 DEF vars, FilesTyped, RunsTyped, TypeInv
<1> QED BY <1>1, <1>2, <1>3, <1>4, <1>5, <1>6, <1>7 DEF Next

LEMMA TypeInit == Init => TypeInv
<1> SUFFICES ASSUME Init PROVE TypeInv OBVIOUS
<1>1. video \in Version /\ record \in Record
  BY LeastNumber, MetadataAssumption DEF Init
<1>2. scene \in [cast : SUBSET Owner, faults : Nat, edits : Nat]
  BY MetadataAssumption DEF Init
<1>3. WorldTyped BY <1>1, <1>2 DEF Init, WorldTyped
<1>4. FilesTyped BY MetadataAssumption DEF Init, FilesTyped
<1>5. RunsTyped BY IdleTyped DEF Init, RunsTyped
<1> QED BY <1>3, <1>4, <1>5 DEF TypeInv

\* TypeOK, and with it that no manifest is written without NFO and poster.
THEOREM TypeCorrect == Spec => []TypeOK
<1>1. TypeInv => TypeOK
  BY DEF TypeInv, RunsTyped, FilesTyped, WorldTyped, TypeOK, RunRecord, Progress, Publishing
<1> QED BY <1>1, TypeInit, TypeStep, PTL DEF Spec

-----------------------------------------------------------------------------
(***************************************************************************)
(* OneRecord                                                               *)
(***************************************************************************)
LEMMA OneWorkStep ==
    ASSUME TypeInv, ManifestInv, [Next]_vars
    PROVE  ManifestInv'
<1>1. CASE UNCHANGED manifest BY <1>1 DEF ManifestInv
<1>2. ASSUME NEW p \in Owner, UploadManifest(p) PROVE ManifestInv'
  <2>1. IsOwn(manifest'.artifacts, run[p].work) BY <1>2, UploadedManifest DEF TypeInv
  <2>2. OneWork(manifest'.artifacts) BY <2>1 DEF IsOwn, OneWork
  <2> QED BY <2>2 DEF ManifestInv
<1>3. CASE Age
  <2>1. manifest \in Manifest BY <1>3 DEF Age, TypeInv, FilesTyped
  <2>2. manifest'.artifacts = manifest.artifacts BY <1>3, <2>1 DEF Age, Manifest
  <2> QED BY <2>1, <2>2 DEF ManifestInv
<1>4. UNCHANGED manifest \/ Age \/ \E p \in Owner : UploadManifest(p)
  BY DEF Next, Run, ReadManifest, Check, LookManifest, LookFiles, Answered, Publish, Upload,
         Retry, Interrupted, Begin, PutFile, RemoveFile, ReplaceFilm, Revise, vars
<1> QED BY <1>1, <1>2, <1>3, <1>4

LEMMA OneWorkInit == Init => ManifestInv
BY MetadataAssumption DEF Init, ManifestInv

\* What is taken for ready is of one revision of the record and one setting,
\* however many runs overlapped and wherever they were interrupted: a manifest
\* vouches for the files of the run that wrote it.
THEOREM ReadyIsOfOneRecord == Spec => []OneRecord
<1>1. TypeInv /\ ManifestInv => OneRecord
  <2> SUFFICES ASSUME TypeInv, ManifestInv, Ready,
                      NEW q \in DOMAIN manifest.artifacts, NEW r \in DOMAIN manifest.artifacts,
                      manifest.artifacts[q].managed, manifest.artifacts[r].managed
               PROVE  files[q] = files[r]
    BY DEF OneRecord
  <2>1. manifest \in Manifest BY DEF Ready, TypeInv, FilesTyped
  <2>2. manifest.artifacts[q].content = manifest.artifacts[r].content
    BY <2>1 DEF ManifestInv, OneWork
  <2> QED BY <2>2 DEF Ready, Stands
<1> QED BY <1>1, TypeInit, TypeStep, OneWorkInit, OneWorkStep, PTL DEF Spec

-----------------------------------------------------------------------------
(***************************************************************************)
(* HandMadeKept, where people put a file only while there is no manifest,  *)
(* and no revision of the record gains a backdrop: a file that no entry of *)
(* a manifest names is not known to be the user's.                         *)
(***************************************************************************)
BackdropsGoOnly == \A m, n \in Record : n \in Backdrop /\ m <= n => m \in Backdrop

\* The fanart of a record that has none is nobody's business.
Spared(r) == r = "fanart" /\ record \notin Backdrop

\* The manifest tells of each file made by hand that it is not managed.
Told ==
    manifest # None => \A r \in Role : files[r] = Hand =>
        \/ Spared(r)
        \/ manifest \in Manifest /\ r \in DOMAIN manifest.artifacts
                /\ manifest.artifacts[r].managed = FALSE

\* What a run knows of a file made by hand; q is the record of the run.
Aware(q, r) ==
    /\ q.pc \in {"request", "publish", "upload"} /\ q.mode = "default" =>
          \/ r \in q.unmanaged
          \/ Spared(r) /\ (q.pc = "request" \/ r \notin q.todo)
    /\ q.pc = "upload" /\ q.mode # "force" => r # Foremost(q.todo)
    /\ q.pc \in Publishing =>
          \/ r \in q.todo \/ Spared(r)
          \/ r \in DOMAIN q.artifacts /\ q.artifacts[r].managed = FALSE

HandInv ==
    /\ Told
    /\ \A p \in Owner, r \in Role : run[p].pc # "idle" /\ files[r] = Hand => Aware(run[p], r)

\* Files made by hand do not come while a run is under way.
NoNewHand == \A r \in Role : files'[r] = Hand => files[r] = Hand

LEMMA OneAware ==
    ASSUME TypeInv, HandInv, NEW p \in Owner, NEW x \in RunRecord, Set(p, x),
           UNCHANGED <<record, manifest>>, NoNewHand,
           \A r \in Role : files'[r] = Hand /\ x.pc # "idle" => Aware(x, r)
    PROVE  HandInv'
<1>1. \A q \in Owner : run'[q] = IF q = p THEN x ELSE run[q]
  BY DEF TypeInv, RunsTyped, Set
<1>2. Told' BY DEF HandInv, Told, Spared, NoNewHand
<1>3. ASSUME NEW q \in Owner, NEW r \in Role, run'[q].pc # "idle", files'[r] = Hand
      PROVE  Aware(run[q], r)' 
  <2>1. files[r] = Hand BY <1>3 DEF NoNewHand
  <2>2. CASE q = p
    <3>1. Aware(x, r) /\ run'[q] = x BY <1>1, <1>3, <2>2
    <3> QED BY <3>1 DEF Aware, Spared
  <2>3. CASE q # p
    <3>1. Aware(run[q], r) /\ run'[q] = run[q] BY <1>1, <1>3, <2>1, <2>3 DEF HandInv
    <3> QED BY <3>1 DEF Aware, Spared
  <2> QED BY <2>2, <2>3
<1> QED BY <1>2, <1>3 DEF HandInv

LEMMA StopAware ==
    ASSUME TypeInv, HandInv, NEW p \in Owner, Stop(p), UNCHANGED <<record, manifest>>, NoNewHand
    PROVE  HandInv'
BY OneAware, IdleTyped DEF Stop, Idle

\* A step that only looks goes on with what it has seen.
LEMMA LookAware ==
    ASSUME TypeInv, TypeInv', HandInv, NEW p \in Owner,
           ReadManifest(p) \/ Check(p) \/ LookManifest(p) \/ LookFiles(p)
    PROVE  HandInv'
<1>0. /\ run[p] \in RunRecord /\ run'[p] \in RunRecord
      /\ \A x : Set(p, x) => run'[p] = x
      /\ UNCHANGED <<record, manifest, files>> /\ NoNewHand
  BY DEF TypeInv, RunsTyped, Set, ReadManifest, Check, LookManifest, LookFiles, worldVars, NoNewHand
<1>1. CASE Stop(p) BY <1>0, <1>1, StopAware
<1> DEFINE Quick(x) == x.pc \in {"read_manifest", "check", "look_manifest", "look_files"}
<1>2. ASSUME NEW x \in RunRecord, Set(p, x), Quick(x) PROVE HandInv'
  <2>1. \A r \in Role : Aware(x, r) BY <1>2 DEF Aware, Publishing
  <2> QED BY <1>0, <1>2, <2>1, OneAware
<1>3. CASE ReadManifest(p)
  <2>1. \E x : Set(p, x) /\ Quick(x) BY <1>0, <1>3 DEF ReadManifest, Goto, RunRecord
  <2> QED BY <1>0, <1>2, <2>1
<1>4. CASE Check(p)
  <2>1. Stop(p) \/ \E x : Set(p, x) /\ Quick(x)
    BY <1>0, <1>4 DEF Check, RunRecord
  <2> QED BY <1>0, <1>1, <1>2, <2>1
<1>5. CASE LookManifest(p)
  <2> DEFINE x == [run[p] EXCEPT !.unmanaged = Unmanaged(manifest),
                     !.pc = IF run[p].mode = "default" /\ manifest = None
                            THEN "look_files" ELSE "request"]
  <2>1. Set(p, x) /\ run'[p] = x BY <1>0, <1>5 DEF LookManifest
  <2>2. /\ x.mode = run[p].mode /\ x.unmanaged = Unmanaged(manifest)
        /\ x.pc = IF x.mode = "default" /\ manifest = None THEN "look_files" ELSE "request"
    BY <1>0 DEF RunRecord
  <2>3. x \in RunRecord BY <1>0, <2>1
  <2> HIDE DEF x
  <2>4. ASSUME NEW r \in Role, files[r] = Hand, x.pc = "request", x.mode = "default"
        PROVE  r \in x.unmanaged \/ Spared(r)
    <3>1. manifest # None BY <2>2, <2>4
    <3>2. CASE Spared(r) BY <3>2
    <3>3. CASE ~Spared(r)
      <4>1. /\ manifest \in Manifest /\ r \in DOMAIN manifest.artifacts
            /\ manifest.artifacts[r].managed = FALSE
        BY <2>4, <3>1, <3>3 DEF HandInv, Told
      <4>2. manifest \notin {None, Foreign} BY <4>1, MetadataAssumption
      <4> QED BY <2>2, <4>1, <4>2 DEF Unmanaged
    <3> QED BY <3>2, <3>3
  <2>5. \A r \in Role : files[r] = Hand => Aware(x, r)
    BY <2>2, <2>4 DEF Aware, Publishing
  <2> QED BY <1>0, <2>1, <2>3, <2>5, OneAware
<1>6. CASE LookFiles(p)
  <2> DEFINE x == [run[p] EXCEPT !.pc = "request"]
  <2>1. CASE \E r \in Role : files[r] # None BY <1>1, <1>6, <2>1 DEF LookFiles
  <2>2. CASE \A r \in Role : files[r] = None
    <3>1. Set(p, x) /\ run'[p] = x BY <1>0, <1>6, <2>2 DEF LookFiles, Goto
    <3>2. \A r \in Role : files'[r] # Hand BY <1>0, <2>2, MetadataAssumption
    <3> QED BY <1>0, <3>1, <3>2, OneAware
  <2> QED BY <2>1, <2>2
<1> QED BY <1>3, <1>4, <1>5, <1>6

\* A record that comes without a backdrop leaves the fanart out.
LEMMA RequestAware ==
    ASSUME TypeInv, TypeInv', HandInv, NEW p \in Owner, Answered(p) \/ Retry(p)
    PROVE  HandInv'
<1>0. /\ run[p] \in RunRecord /\ run'[p] \in RunRecord
      /\ \A x : Set(p, x) => run'[p] = x
      /\ UNCHANGED <<record, manifest, files>> /\ NoNewHand
  BY DEF TypeInv, RunsTyped, Set, Answered, Retry, FaultHappens, worldVars, NoNewHand
<1>1. CASE Answered(p)
  <2> DEFINE todo == IF record \in Backdrop THEN Role ELSE Role \ {"fanart"}
             x == [run[p] EXCEPT !.pc = "publish", !.tries = 0, !.todo = todo,
                     !.work = [record |-> record, config |-> run[p].config]]
  <2>1. Set(p, x) /\ run'[p] = x /\ run[p].pc = "request"
    <3>1. [run[p] EXCEPT !.pc = "publish", !.tries = 0,
             !.work = [record |-> record, config |-> run[p].config],
             !.todo = IF record \in Backdrop THEN Role ELSE Role \ {"fanart"}] = x
      BY <1>0 DEF RunRecord
    <3>2. Set(p, x) BY <1>1, <3>1 DEF Answered
    <3> QED BY <1>0, <1>1, <3>2 DEF Answered
  <2>2. /\ x.mode = run[p].mode /\ x.unmanaged = run[p].unmanaged
        /\ x.pc = "publish" /\ x.todo = todo
    BY <1>0 DEF RunRecord
  <2>3. x \in RunRecord BY <1>0, <2>1
  <2> HIDE DEF x
  <2>4. \A r \in Role : Spared(r) <=> r \notin todo BY DEF Spared
  <2>5. ASSUME NEW r \in Role, files[r] = Hand PROVE Aware(x, r)
    <3>1. Aware(run[p], r) BY <2>1, <2>5 DEF HandInv
    <3> HIDE DEF todo
    <3> QED BY <2>1, <2>2, <2>4, <3>1 DEF Aware, Publishing
  <2> QED BY <1>0, <2>1, <2>3, <2>5, OneAware
<1>2. CASE Retry(p)
  <2> DEFINE x == [run[p] EXCEPT !.tries = @ + 1]
  <2>1. CASE Stop(p) BY <1>0, <2>1, StopAware
  <2>2. CASE Set(p, x)
    <3>1. /\ x.mode = run[p].mode /\ x.unmanaged = run[p].unmanaged
          /\ x.pc = "request" /\ x.todo = run[p].todo /\ run[p].pc = "request"
      BY <1>0, <1>2 DEF RunRecord, Retry
    <3>2. x \in RunRecord BY <1>0, <2>2
    <3> HIDE DEF x
    <3>3. ASSUME NEW r \in Role, files[r] = Hand PROVE Aware(x, r)
      <4>1. Aware(run[p], r) BY <3>1, <3>3 DEF HandInv
      <4> QED BY <3>1, <4>1 DEF Aware, Publishing
    <3> QED BY <1>0, <2>2, <3>2, <3>3, OneAware
  <2> QED BY <1>2, <2>1, <2>2 DEF Retry
<1> QED BY <1>1, <1>2

\* An artifact dealt with: it is not managed, or not a file made by hand any more.
LEMMA RecordedAware ==
    ASSUME TypeInv, TypeInv', HandInv, NEW p \in Owner, run[p].pc \in {"publish", "upload"},
           NEW f \in run[p].todo, NEW y \in Artifact, Recorded(p, f, y),
           y.managed = FALSE \/ files'[f] # Hand,
           UNCHANGED <<record, manifest>>, NoNewHand
    PROVE  HandInv'
<1> DEFINE rest == run[p].todo \ {f}
           a == run[p].artifacts
           b == [q \in DOMAIN a \cup {f} |-> IF q = f THEN y ELSE a[q]]
           x == [run[p] EXCEPT !.pc = IF rest = {} THEN "upload_manifest" ELSE "publish",
                               !.todo = rest, !.artifacts = b]
<1>1. run[p] \in RunRecord /\ run'[p] \in RunRecord BY DEF TypeInv, RunsTyped
<1>2. Set(p, x) /\ run'[p] = x BY DEF Recorded, Set, TypeInv, RunsTyped
<1>3. /\ x.mode = run[p].mode /\ x.unmanaged = run[p].unmanaged
      /\ x.pc \in {"publish", "upload_manifest"}
      /\ x.todo = rest /\ x.artifacts = b
  BY <1>1 DEF RunRecord
<1>4. DOMAIN b = DOMAIN a \cup {f} /\ b[f] = y /\ \A q \in DOMAIN a \ {f} : b[q] = a[q]
  OBVIOUS
<1>5. x \in RunRecord BY <1>1, <1>2
<1> HIDE DEF x, b
<1>6. ASSUME NEW r \in Role, files'[r] = Hand PROVE Aware(x, r)
  <2>1. Aware(run[p], r) BY <1>6 DEF HandInv, NoNewHand
  <2>2. CASE r = f
    <3>1. b[f].managed = FALSE /\ f \in DOMAIN b BY <1>4, <1>6, <2>2
    <3> QED BY <1>3, <2>1, <2>2, <3>1 DEF Aware, Publishing
  <2>3. CASE r # f
    <3>1. r \in run[p].todo => r \in rest BY <2>3
    <3>2. r \in DOMAIN a => r \in DOMAIN b /\ b[r] = a[r] BY <1>4, <2>3
    <3>3. \/ r \in run[p].todo \/ Spared(r)
          \/ r \in DOMAIN a /\ a[r].managed = FALSE
      BY <2>1 DEF Aware, Publishing
    <3>4. x.mode = "default" => r \in x.unmanaged \/ (Spared(r) /\ r \notin rest)
      BY <1>3, <2>1 DEF Aware
    <3> HIDE DEF a, rest
    <3> QED BY <1>3, <3>1, <3>2, <3>3, <3>4 DEF Aware, Publishing
  <2> QED BY <2>2, <2>3
<1> QED BY <1>2, <1>5, <1>6, OneAware

\* A run that does not keep a file made by hand is one that may replace it.
LEMMA PublishAware ==
    ASSUME TypeInv, TypeInv', HandInv, NEW p \in Owner, Publish(p) \/ Upload(p)
    PROVE  HandInv'
<1> DEFINE f == Foremost(run[p].todo)
<1>1. /\ run[p] \in RunRecord /\ run'[p] \in RunRecord /\ Progress(run[p])
      /\ \A x : Set(p, x) => run'[p] = x
      /\ UNCHANGED <<record, manifest>>
  BY DEF TypeInv, RunsTyped, Set, Publish, Upload, worldVars
<1>2. run[p].pc \in {"publish", "upload"} BY DEF Publish, Upload
<1>3. run[p].work \in Work /\ run[p].todo \in SUBSET Role /\ run[p].todo # {}
  BY <1>1, <1>2 DEF RunRecord, Progress, Publishing
<1>4. f \in run[p].todo /\ f \in Role BY <1>3, ForemostMember
<1>5. CASE Publish(p)
  <2>1. UNCHANGED files /\ NoNewHand BY <1>5 DEF Publish, NoNewHand
  <2>2. CASE Keeps(p, f)
    <3> DEFINE y == [content |-> files[f], managed |-> FALSE]
    <3>1. files[f] \in Work \cup {Hand} BY <1>4, <2>2 DEF Keeps, TypeInv, FilesTyped
    <3>2. y \in Artifact /\ y.managed = FALSE BY <3>1 DEF Artifact
    <3>3. Recorded(p, f, y) BY <1>5, <2>2 DEF Publish
    <3> HIDE DEF y, f
    <3> QED BY <1>1, <1>2, <1>4, <2>1, <3>2, <3>3, RecordedAware
  <2>3. CASE ~Keeps(p, f)
    <3> DEFINE x == [run[p] EXCEPT !.pc = "upload"]
    <3>1. Set(p, x) /\ run'[p] = x /\ run[p].pc = "publish" BY <1>1, <1>5, <2>3 DEF Publish, Goto
    <3>2. /\ x.mode = run[p].mode /\ x.unmanaged = run[p].unmanaged
          /\ x.pc = "upload" /\ x.todo = run[p].todo /\ x.artifacts = run[p].artifacts
      BY <1>1 DEF RunRecord
    <3>3. x \in RunRecord BY <1>1, <3>1
    <3> HIDE DEF x
    <3>4. ASSUME NEW r \in Role, files[r] = Hand PROVE Aware(x, r)
      <4>1. Aware(run[p], r) BY <3>1, <3>4 DEF HandInv
      <4>2. ASSUME x.mode # "force", r = f PROVE FALSE
        <5>1. files[f] # None BY <3>4, <4>2, MetadataAssumption
        <5>2. run[p].mode \in Mode BY <1>1 DEF RunRecord
        <5>3. run[p].mode = "default" /\ f \notin run[p].unmanaged
          BY <2>3, <3>2, <4>2, <5>1, <5>2 DEF Keeps, Mode
        <5> QED BY <1>4, <3>1, <4>1, <4>2, <5>3 DEF Aware
      <4> QED BY <3>1, <3>2, <4>1, <4>2 DEF Aware, Publishing
    <3> QED BY <2>1, <1>1, <3>1, <3>3, <3>4, OneAware
  <2> QED BY <2>2, <2>3
<1>6. CASE Upload(p)
  <2>1. files' = [files EXCEPT ![f] = run[p].work] BY <1>6 DEF Upload
  <2>2. files'[f] # Hand /\ NoNewHand
    BY <1>3, <1>4, <2>1, MetadataAssumption DEF TypeInv, FilesTyped, NoNewHand
  <2> DEFINE y == [content |-> run[p].work, managed |-> TRUE]
  <2>3. y \in Artifact BY <1>3 DEF Artifact
  <2>4. Recorded(p, f, y) BY <1>6 DEF Upload
  <2> HIDE DEF y, f
  <2> QED BY <1>1, <1>2, <1>4, <2>2, <2>3, <2>4, RecordedAware
<1> QED BY <1>5, <1>6

\* A manifest tells of the files made by hand that its run has kept.
LEMMA ManifestAware ==
    ASSUME TypeInv, HandInv, NEW p \in Owner, UploadManifest(p)
    PROVE  HandInv'
<1>1. /\ run[p].pc = "upload_manifest" /\ run[p].todo = {}
      /\ manifest' \in Manifest /\ manifest'.artifacts = run[p].artifacts
  BY UploadedManifest DEF TypeInv
<1>2. /\ UNCHANGED <<record, files>>
      /\ \A q \in Owner : run'[q] = IF q = p THEN Idle ELSE run[q]
  BY DEF TypeInv, RunsTyped, UploadManifest, Stop, Set, worldVars
<1>3. ASSUME NEW r \in Role, files[r] = Hand
      PROVE  Spared(r) \/ (r \in DOMAIN run[p].artifacts /\ run[p].artifacts[r].managed = FALSE)
  <2>1. Aware(run[p], r) BY <1>1, <1>3 DEF HandInv
  <2> QED BY <1>1, <2>1 DEF Aware, Publishing
<1>4. Told' BY <1>1, <1>2, <1>3 DEF Told, Spared
<1>5. ASSUME NEW q \in Owner, NEW r \in Role, run'[q].pc # "idle", files'[r] = Hand
      PROVE  Aware(run[q], r)'
  <2>1. q # p /\ run'[q] = run[q] /\ files[r] = Hand BY <1>2, <1>5 DEF Idle
  <2>2. Aware(run[q], r) BY <1>5, <2>1 DEF HandInv
  <2> QED BY <1>2, <2>1, <2>2 DEF Aware, Spared
<1> QED BY <1>4, <1>5 DEF HandInv

\* What happens around the runs, when nobody puts a file.
LEMMA AroundAware ==
    ASSUME HandInv, UNCHANGED <<run, manifest>>, NoNewHand,
           Spared("fanart") => Spared("fanart")'
    PROVE  HandInv'
<1>1. \A r \in Role : Spared(r) => Spared(r)' BY DEF Spared
<1>2. Told' BY <1>1 DEF HandInv, Told, NoNewHand
<1>3. ASSUME NEW q \in Owner, NEW r \in Role, run'[q].pc # "idle", files'[r] = Hand
      PROVE  Aware(run[q], r)'
  <2>1. Aware(run[q], r) BY <1>3 DEF HandInv, NoNewHand
  <2> QED BY <1>1, <2>1 DEF Aware
<1> QED BY <1>2, <1>3 DEF HandInv

\* Every step keeps the invariant.
LEMMA HandStep ==
    ASSUME EditManaged = FALSE, BackdropsGoOnly, TypeInv, HandInv, [Next]_vars
    PROVE  HandInv'
<1>0. TypeInv' BY TypeStep
<1>1. ASSUME NEW p \in Owner, Run(p) PROVE HandInv'
  BY <1>0, <1>1, LookAware, RequestAware, PublishAware, ManifestAware DEF Run
<1>2. ASSUME NEW p \in Owner, Retry(p) PROVE HandInv'
  BY <1>0, <1>2, RequestAware
<1>3. ASSUME NEW p \in Owner, Interrupted(p) PROVE HandInv'
  <2>1. UNCHANGED <<record, manifest>> /\ NoNewHand
    BY <1>3 DEF Interrupted, FaultHappens, NoNewHand
  <2> QED BY <1>3, <2>1, StopAware DEF Interrupted
<1>4. ASSUME NEW p \in Owner, NEW mode \in Mode, NEW config \in Config, Begin(p, mode, config)
      PROVE  HandInv'
  <2>1. UNCHANGED <<record, manifest>> /\ NoNewHand
    BY <1>4 DEF Begin, EditHappens, worldVars, NoNewHand
  <2> DEFINE x == [Idle EXCEPT !.pc = IF mode = "force" THEN "look_manifest" ELSE "read_manifest",
                               !.mode = mode, !.config = config, !.seen = video]
  <2>2. Set(p, x) BY <1>4 DEF Begin
  <2>3. x \in RunRecord BY <1>0, <2>2 DEF TypeInv, RunsTyped, Set
  <2>4. x.pc \in {"look_manifest", "read_manifest"} BY DEF Idle
  <2> HIDE DEF x
  <2>5. \A r \in Role : Aware(x, r) BY <2>4 DEF Aware, Publishing
  <2> QED BY <2>1, <2>2, <2>3, <2>5, OneAware
<1>5. ASSUME NEW r \in Role, PutFile(r) PROVE HandInv'
  BY <1>5 DEF PutFile, Quiet, HandInv, Told
<1>6. ASSUME NEW r \in Role, RemoveFile(r) PROVE HandInv'
  <2>1. NoNewHand
    BY <1>6, MetadataAssumption DEF RemoveFile, NoNewHand, TypeInv, FilesTyped
  <2> QED BY <1>6, <2>1, AroundAware DEF RemoveFile, Spared
<1>7. ASSUME NEW v \in Version, ReplaceFilm(v) PROVE HandInv'
  <2>1. NoNewHand BY <1>7 DEF ReplaceFilm, NoNewHand
  <2> QED BY <1>7, <2>1, AroundAware DEF ReplaceFilm, Spared
<1>8. ASSUME NEW n \in Record, Revise(n) PROVE HandInv'
  <2>1. NoNewHand BY <1>8 DEF Revise, NoNewHand
  <2>2. record \in Record /\ record <= n /\ record' = n
    BY <1>8, MetadataAssumption DEF Revise, TypeInv, WorldTyped
  <2>3. Spared("fanart") => Spared("fanart")' BY <2>2 DEF Spared, BackdropsGoOnly
  <2> QED BY <1>8, <2>1, <2>3, AroundAware DEF Revise
<1>9. CASE Age
  <2>1. manifest \in Manifest BY <1>9 DEF Age, TypeInv, FilesTyped
  <2>2. manifest' \in Manifest /\ manifest'.artifacts = manifest.artifacts /\ manifest # None
    BY <1>9, <2>1 DEF Age, Manifest
  <2>3. UNCHANGED <<record, files, run>> BY <1>9 DEF Age
  <2>4. Told' BY <2>1, <2>2, <2>3 DEF HandInv, Told, Spared
  <2> QED BY <2>3, <2>4 DEF HandInv, Aware, Spared
<1>10. CASE UNCHANGED vars
  BY <1>10, AroundAware DEF vars, NoNewHand, Spared
<1> QED BY <1>1, <1>2, <1>3, <1>4, <1>5, <1>6, <1>7, <1>8, <1>9, <1>10 DEF Next

LEMMA HandInit == Init => HandInv
<1> SUFFICES ASSUME Init PROVE HandInv OBVIOUS
<1>1. \A r \in Role : files[r] # Hand BY MetadataAssumption DEF Init
<1> QED BY <1>1 DEF HandInv, Told

\* A step replaces a file made by hand only as HandMadeKept says.
HandStepKept ==
    \A r \in Role : files[r] = Hand /\ files'[r] # Hand =>
        \/ files'[r] = None
        \/ \E p \in Owner : run[p].mode = "force" /\ run'[p] # run[p]

LEMMA HandMadeStep ==
    ASSUME TypeInv, HandInv, [Next]_vars
    PROVE  HandStepKept
<1> SUFFICES ASSUME NEW r \in Role, files[r] = Hand, files'[r] # Hand, files'[r] # None
             PROVE  \E p \in Owner : run[p].mode = "force" /\ run'[p] # run[p]
  BY DEF HandStepKept
<1>1. files # files' OBVIOUS
<1>2. \/ \E p \in Owner : Upload(p)
      \/ \E q \in Role : PutFile(q) \/ RemoveFile(q)
  BY <1>1 DEF Next, Run, ReadManifest, Check, LookManifest, LookFiles, Answered, Publish,
              UploadManifest, Retry, Interrupted, Begin, ReplaceFilm, Revise, Age, vars
<1>3. ASSUME NEW q \in Role, PutFile(q) \/ RemoveFile(q) PROVE FALSE
  BY <1>3 DEF PutFile, RemoveFile, TypeInv, FilesTyped
<1>4. ASSUME NEW p \in Owner, Upload(p) PROVE run[p].mode = "force" /\ run'[p] # run[p]
  <2> DEFINE f == Foremost(run[p].todo)
  <2>1. run[p] \in RunRecord /\ run[p].pc = "upload" BY <1>4 DEF Upload, TypeInv, RunsTyped
  <2>2. r = f BY <1>4 DEF Upload, TypeInv, FilesTyped
  <2>3. Aware(run[p], r) BY <2>1 DEF HandInv
  <2>4. run[p].mode = "force" BY <2>1, <2>2, <2>3 DEF Aware
  <2>5. run'[p].pc \in {"upload_manifest", "publish"}
    BY <1>4, <2>1 DEF Upload, Recorded, Set, TypeInv, RunsTyped, RunRecord
  <2> QED BY <2>1, <2>4, <2>5
<1> QED BY <1>2, <1>3, <1>4

\* However many runs overlap, are interrupted or are repeated, a file made by
\* hand is replaced by a --force run only, where no manifest overlooks it.
THEOREM HandMadeIsKept ==
    ASSUME EditManaged = FALSE, BackdropsGoOnly
    PROVE  Spec => HandMadeKept
<1>1. TypeInv /\ HandInv /\ [Next]_vars => HandInv' BY HandStep
<1>2. TypeInv /\ HandInv /\ [Next]_vars => [HandStepKept]_vars BY HandMadeStep
<1>3. HandMadeKept <=> [][HandStepKept]_vars BY DEF HandMadeKept, HandStepKept
<1> QED BY <1>1, <1>2, <1>3, TypeInit, TypeStep, HandInit, PTL DEF Spec
=============================================================================
