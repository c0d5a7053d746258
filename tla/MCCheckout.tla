----------------------------- MODULE MCCheckout -----------------------------
(* Instances of Checkout for TLC. *)
EXTENDS Checkout, TLC

CONSTANTS c1, c2, x2, d1,   \* x2 rewrites c2; d1 belongs to another remote
          app, old, src,    \* app watches src; old is deleted by c2
          v1, v2, home, fork, main, trunk

MCHistory == (c1 :> {c1}) @@ (c2 :> {c1, c2}) @@ (x2 :> {c1, x2}) @@ (d1 :> {d1})

Files(a, o, s) == (app :> a) @@ (old :> o) @@ (src :> s)

MCTree ==
  (c1 :> Files(v1, v1, v1)) @@ (c2 :> Files(v1, Absent, v2)) @@
  (x2 :> Files(v2, v1, v1)) @@ (d1 :> Files(v2, Absent, v1)) @@
  (NoCommit :> Files(Absent, Absent, Absent))

MCWatches == (app :> {src}) @@ (old :> {})

Remote(m, t, d) == [tips |-> (main :> m) @@ (trunk :> t), default |-> d]

\* One remote with one branch, or with two; and a fork with an unrelated history.
OneBranch == {(home :> Remote(c1, NoCommit, main))}
TwoBranches == {(home :> Remote(c1, c2, main))}
WithForkAndTrunk == {(home :> Remote(c1, c2, main)) @@ (fork :> Remote(d1, NoCommit, main))}

HomeOnly == (home :> {c1, c2, x2})
HomeAndFork == (home :> {c1, c2, x2}) @@ (fork :> {d1})

Default == [url |-> home, branch |-> NoBranch]
Main == [url |-> home, branch |-> main]
Trunk == [url |-> home, branch |-> trunk]
Fork == [url |-> fork, branch |-> NoBranch]

DefaultOnly == {Default}
ThisOrThatBranch == {Main, Trunk}
Anything == {Default, Trunk, Fork}
=============================================================================
