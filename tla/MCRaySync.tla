------------------------------- MODULE MCRaySync -------------------------------
(***************************************************************************)
(* Instances of RaySync for TLC: two replicas, one of them across two      *)
(* hosts, so that workers of different replicas share a host.              *)
(***************************************************************************)
EXTENDS RaySync, TLC

CONSTANTS w1, w2, w3, p1, p2, h1, h2

MCReplicaOf == w1 :> p1 @@ w2 :> p2 @@ w3 :> p2
MCHostOf == w1 :> h1 @@ w2 :> h1 @@ w3 :> h2
================================================================================
