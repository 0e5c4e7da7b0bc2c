------------------------ MODULE MCNotificationChannels ------------------------
(***************************************************************************)
(* A small instance of NotificationChannels: resources of the same name in    *)
(* two namespaces.                                                          *)
(***************************************************************************)
EXTENDS NotificationChannels, TLC

MCNames == {"a/x", "b/x"}
MCNsOf == [n \in Names |-> IF n = "a/x" THEN "a" ELSE "b"]
MCBaseName == [n \in Names |-> "x"]
\* A second resource beside one that is valid.  The two are interchangeable.
MCPopulations == { p \in [Names -> Contents \cup {NoCR}] :
                     p["b/x"] = NoCR \/ (p["b/x"] = "v1" /\ p["a/x"] = "v1") }
MCUid == [n \in Names |-> n]
=============================================================================
