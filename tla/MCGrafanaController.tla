------------------------- MODULE MCGrafanaController -------------------------
(***************************************************************************)
(* Small instances of GrafanaController.  Consumers of the same kind and     *)
(* dashboards are interchangeable, but the liveness properties rule out a    *)
(* symmetry reduction.                                                      *)
(***************************************************************************)
EXTENDS GrafanaController, TLC

MCOneOther == {"datasource"}
MCTwoOthers == {"datasource", "channel"}
=============================================================================
