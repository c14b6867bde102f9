-------------------------- MODULE MCPoolSupervisor --------------------------
(* A finite instance of PoolSupervisor, with three pools: the published    *)
(* one, its candidate successor, and one that is being closed or that a    *)
(* request still refers to.                                                *)
EXTENDS PoolSupervisor
=============================================================================
