-------------------------- MODULE MCClusterReconcile --------------------------
(***************************************************************************)
(* Small instances of ClusterReconcile: a resource with defaults, and three     *)
(* dashboards that ask for two versions of a plugin.                         *)
(***************************************************************************)
EXTENDS ClusterReconcile, TLC

MCRequests == {[by |-> "d1", name |-> "p", version |-> 1],
               [by |-> "d2", name |-> "p", version |-> 2],
               [by |-> "d3", name |-> "p", version |-> 2]}
MCCreated == {[config |-> "c1", service |-> NoService, external |-> FALSE]}
==========================================================================
