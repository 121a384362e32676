---------------------------- MODULE MCApiServer ----------------------------
(* The session layer with two sessions that compete for a one-entry cache. *)
EXTENDS ApiServer
=============================================================================
