-------------------------- MODULE MCMissionDaemon --------------------------
(* Small instances of MissionDaemon: model values for TLC. *)
EXTENDS MissionDaemon
CONSTANTS i1, i2, f1, b1, m1
=============================================================================
