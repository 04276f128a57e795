------------------------------- MODULE Mover -------------------------------
(***************************************************************************)
(* What applying a migration plan promises, with no stores, leases or      *)
(* transports: every file of an item is first brought to its destination,  *)
(* no source is deleted before all of the item's files have arrived, an    *)
(* arrived file stays, and an item is committed when nothing is left of it *)
(* at the source.  A file may also be moved in one step.  Files arrive in  *)
(* the order they are planned in, so the video comes last.                 *)
(***************************************************************************)
EXTENDS Naturals, Sequences

CONSTANTS Job, ActionsOf

VARIABLES left,   \* the sources whose planned bytes are still in place
          placed, \* the actions whose planned bytes are at their destination
          done    \* the committed jobs

moverVars == <<left, placed, done>>

Every == UNION {{ActionsOf[j][i] : i \in DOMAIN ActionsOf[j]} : j \in Job}

ArrivedBefore(j, i) == \A k \in 1..(i - 1) : ActionsOf[j][k] \in placed

AllArrived(j) == ArrivedBefore(j, Len(ActionsOf[j]) + 1)

Copy(j, i) ==
    /\ ActionsOf[j][i].source \in left
    /\ ArrivedBefore(j, i)
    /\ placed' = placed \cup {ActionsOf[j][i]}
    /\ UNCHANGED <<left, done>>

Move(j, i) ==
    /\ ActionsOf[j][i].source \in left /\ ActionsOf[j][i] \notin placed
    /\ ArrivedBefore(j, i)
    /\ placed' = placed \cup {ActionsOf[j][i]}
    /\ left' = left \ {ActionsOf[j][i].source}
    /\ UNCHANGED done

Delete(j, i) ==
    /\ AllArrived(j)
    /\ left' = left \ {ActionsOf[j][i].source}
    /\ UNCHANGED <<placed, done>>

Finish(j) ==
    /\ AllArrived(j)
    /\ \A i \in DOMAIN ActionsOf[j] : ActionsOf[j][i].source \notin left
    /\ done' = done \cup {j}
    /\ UNCHANGED <<left, placed>>

MoverInit ==
    /\ left = {a.source : a \in Every}
    /\ placed \in SUBSET Every
    /\ done = {}

MoverNext ==
    \E j \in Job :
        \/ Finish(j)
        \/ \E i \in DOMAIN ActionsOf[j] : Copy(j, i) \/ Move(j, i) \/ Delete(j, i)

MoverSpec == MoverInit /\ [][MoverNext]_moverVars
=============================================================================
