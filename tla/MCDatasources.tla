----------------------------- MODULE MCDatasources -----------------------------
(***************************************************************************)
(* A small instance of Datasources: two resources in one namespace and one in *)
(* another, two names and two urls in Grafana.                               *)
(***************************************************************************)
EXTENDS Datasources, TLC

MCCRs == {"a/1", "a/2", "b/1"}
MCNsOf == [n \in CRs |-> IF n = "b/1" THEN "b" ELSE "a"]
MCSpecs == {[name |-> "x", url |-> "u"], [name |-> "x", url |-> "v"], [name |-> "y", url |-> "v"]}
=============================================================================
