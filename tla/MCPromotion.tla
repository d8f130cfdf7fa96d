---------------------------- MODULE MCPromotion ----------------------------
(***************************************************************************)
(* Promotion for TLC.  Files with the same line ends are interchangeable,  *)
(* and so are processes: no action or property orders or names them.       *)
(***************************************************************************)
EXTENDS Promotion, TLC

Symmetry == Permutations(Crlf) \cup Permutations(Files \ Crlf) \cup Permutations(Procs)

\* Nothing tells the two patches apart either: the first attempt makes "patch", the second
\* makes the same one or the other.
FirstPatch == attempt = 1 => \A p \in Procs, f \in Files : ex[p].goal[f][1] # "again"
=============================================================================
