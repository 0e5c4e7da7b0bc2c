---------------------------- MODULE MCFolderAccess ----------------------------
(***************************************************************************)
(* A small instance of FolderAccess: one namespace with the dashboard the    *)
(* operator makes for it and one that somebody declares in the same folder.  *)
(***************************************************************************)
EXTENDS FolderAccess, TLC

MCDeclared == {<<"a", "own">>}
MCAnnotations == {{"ann"}, {"admin", "ann"}, {Nobody}}
MCNsAnnotations == {[owner |-> NoName, creator |-> "ann"], [owner |-> "admin", creator |-> "ann"]}
MCBindings == {{"admin"}, {NoSubject}}
MCFolderOf == [d \in Dashboards |-> "a"]
=============================================================================
