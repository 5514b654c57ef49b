---------------------------- MODULE MCDockerEngine ----------------------------
(***************************************************************************)
(* Small instances of DockerEngine for TLC: a step, a detached step, an    *)
(* internal step, and volumes of both media.                               *)
(***************************************************************************)
EXTENDS DockerEngine

CONSTANTS build, service, tmate, workspace, cache
=============================================================================
