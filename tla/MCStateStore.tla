---------------------------- MODULE MCStateStore ----------------------------
(***************************************************************************)
(* A migration job and a subtitle job shared by two processes.             *)
(***************************************************************************)
EXTENDS StateStore, TLC

CONSTANTS plan, film

MCKindOf == plan :> "migration" @@ film :> "subtitle"
ProcessSymmetry == Permutations(Owner)
=============================================================================
