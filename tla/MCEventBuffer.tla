---------------------------- MODULE MCEventBuffer ----------------------------
(* EventBuffer for TLC. *)
EXTENDS EventBuffer, TLC

KeySymmetry == Permutations(MasterKey) \cup Permutations(EventId)
=============================================================================
