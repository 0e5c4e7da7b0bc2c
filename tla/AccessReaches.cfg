SPECIFICATION FairSpec
CONSTANTS
  Nobody = Nobody
  NoSubject = NoSubject
  NoCR = NoCR
  NoName = NoName
  Unset = Unset
  Namespaces = {"a"}
  Kinds = {"ns"}
  Declared <- MCDeclared
  FolderOf <- MCFolderOf
  People = {"admin", "ann"}
  DefaultOwner = "admin"
  Annotations <- MCAnnotations
  NsAnnotations <- MCNsAnnotations
  Bindings <- MCBindings
  Workers = {"w1","w2"}
  Faults = TRUE
  MaxEvents = 1
INVARIANTS TypeOK ListWhole
PROPERTIES UsersAdmitted AdminsServed NamespacesServed
