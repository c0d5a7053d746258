---------------------------- MODULE MCGenerate ----------------------------
(***************************************************************************)
(* Two checkouts, each with a Quadlet file app.container; the first has    *)
(* app.service too, the second app.kube, which makes the same service, and *)
(* both have web.target.                                                   *)
(***************************************************************************)
EXTENDS Generate, TLC

CONSTANTS AppA, SvcA, WebA, AppB, KubeB, WebB,  \* paths
          RepoA, RepoB,                     \* directories
          App, Kube, AppService, Web,       \* names
          Old, New                          \* texts; the new one asks for no link

MCPathOrder == <<AppA, SvcA, WebA, AppB, KubeB, WebB>>
MCDirOrder == <<RepoA, RepoB>>
MCDirOf == [p \in {AppA, SvcA, WebA} |-> RepoA] @@ [p \in {AppB, KubeB, WebB} |-> RepoB]
MCNameOf == AppA :> App @@ SvcA :> AppService @@ WebA :> Web @@ AppB :> App
            @@ KubeB :> Kube @@ WebB :> Web
MCMakes == App :> AppService @@ Kube :> AppService
MCInstalls == Old :> {"boot"} @@ New :> {}
===========================================================================
