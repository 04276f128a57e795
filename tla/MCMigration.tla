---------------------------- MODULE MCMigration ----------------------------
(***************************************************************************)
(* Small instances of Migration: a video with one sidecar in each item.    *)
(***************************************************************************)
EXTENDS Migration, TLC

CONSTANTS srt, mkv, mp4, plan1, plan2, job1, job2

SrtMkv == <<[source |-> srt, target |-> "t.srt"], [source |-> mkv, target |-> "t.mkv"]>>

\* One plan of two items: a video with a sidecar, then a video alone.
MCOnePlan == plan1 :> <<job1, job2>>
MCTwoItems == job1 :> SrtMkv @@ job2 :> <<[source |-> mp4, target |-> "t.mp4"]>>

\* Two plans for the same two files: what the operator builds after the first
\* one has been abandoned, or what a second operator builds beside it.
MCTwoPlans == plan1 :> <<job1>> @@ plan2 :> <<job2>>
MCSameItem == job1 :> SrtMkv @@ job2 :> SrtMkv

\* Two plans made under different layouts: the second one brings the other file
\* of the first one's item to the place the first one has for its first file.
MCOtherPlace == job1 :> SrtMkv @@ job2 :> <<[source |-> mkv, target |-> "t.srt"]>>

MCIdentity == FileAction
MCKeyOf == [id \in FileAction |-> id.target]
MCKindOf == [j \in Job |-> "migration"]
MCIndex == {1, 2}
MCAllLinks == Link
MCDistinctLinks == Link \ {"ftp_ftp"}
ProcessSymmetry == Permutations(Owner)
=============================================================================
