---------------------------- MODULE WorkspaceMC ----------------------------
(* Finite instances of Workspace. *)
EXTENDS Workspace

CONSTANTS f1, f2, e1, e2, e3

\* Two edits of one file and one of another.
TargetOf == e1 :> f1 @@ e2 :> f1 @@ e3 :> f2
Symmetry == Permutations({e1, e2})
=============================================================================
