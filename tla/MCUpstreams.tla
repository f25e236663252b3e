----------------------------- MODULE MCUpstreams -----------------------------
(***************************************************************************)
(* Upstreams on a small instance: one upstream, and a second one that a    *)
(* configuration change adds.                                              *)
(***************************************************************************)
EXTENDS Upstreams

CONSTANTS a1, a2

MCInitial == <<a1>>
MCConfigs == {<<a1, a2>>}
=============================================================================
