------------------------------- MODULE Deploy -------------------------------
(***************************************************************************)
(* What the syncs of a repository promise their callers: the deployment    *)
(* jumps from the content of one published commit to that of another.      *)
(***************************************************************************)
CONSTANTS Commits, NoCommit, MaterialOf(_), Tree

VARIABLES
  told,      \* unit file -> what is to be deployed
  published  \* commits that have been the tip of a branch

Init == told = MaterialOf(Tree[NoCommit]) /\ published \subseteq Commits

\* Somebody pushes, or moves a branch.
Publish == published \subseteq published' /\ published' \subseteq Commits /\ UNCHANGED told

Deploy ==
  /\ \E c \in published : told' = MaterialOf(Tree[c])
  /\ UNCHANGED published

Next == Publish \/ Deploy

Spec == Init /\ [][Next]_<<told, published>>
=============================================================================
