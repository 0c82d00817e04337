---------------------------- MODULE MCParEngine ----------------------------
(* ParEngine on a small number of workers. *)
EXTENDS ParEngine
=============================================================================
