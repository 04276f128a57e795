----------------------------- MODULE MCMetadata -----------------------------
(***************************************************************************)
(* Small instances of Metadata: two runs that overlap, and one that is     *)
(* repeated alone while more goes wrong around it.                         *)
(***************************************************************************)
EXTENDS Metadata

CONSTANTS p1, p2

MCOwner == {p1, p2}

MCScenes == {[cast |-> {p1, p2}, faults |-> 0, edits |-> 1],
             [cast |-> {p1}, faults |-> 2, edits |-> 2]}

MCAlone == {[cast |-> {p1}, faults |-> 0, edits |-> 2]}
=============================================================================
