---------------------------- MODULE MCActivation ----------------------------
(* Small deployments for TLC; a cfg picks one. *)
EXTENDS Activation, TLC

CONSTANTS tgt, app, img, bld, w1, tpl,
          fApp, fImg, fBld, fTpl

NoInstances == [t \in {} |-> {}]
Changed(files) == [changed |-> files, deleted |-> {}]

\* A boot target wants a container, the container requires its .image unit, and a template
\* of the same image has one instance running.
ChainUnitOf == (fApp :> app) @@ (fImg :> img) @@ (fTpl :> tpl)
ChainInstances == (tpl :> {w1})
ChainWantedBy == (tgt :> {}) @@ (app :> {tgt}) @@ (img :> {app}) @@ (w1 :> {})
ChainAtFirst ==
  (tgt :> {"inactive", "queued", "active"}) @@ (app :> Conditions)
    @@ (img :> {"inactive", "starting", "active"}) @@ (w1 :> {"active"})
ChainInputs ==
  {Changed({fApp, fImg}), Changed({fTpl}), [changed |-> {fImg}, deleted |-> {fApp}],
   [changed |-> {}, deleted |-> {fTpl}], Changed({})}

\* A service wants a container, and there is an image built on sync that nothing wants.
BuildUnitOf == (fApp :> app) @@ (fBld :> bld)
BuildWantedBy == (w1 :> {}) @@ (app :> {w1}) @@ (bld :> {})
BuildAtFirst ==
  (w1 :> {"inactive", "active", "backoff"})
    @@ (app :> {"inactive", "queued", "active", "backoff"})
    @@ (bld :> {"inactive", "starting", "active"})
BuildInputs == {Changed({fApp, fBld}), Changed({fBld}), Changed({})}
=============================================================================
