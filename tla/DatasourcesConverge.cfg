SPECIFICATION FairSpec
CONSTANTS
  Empty = Empty
  NoCR = NoCR
  Absent = Absent
  CRs <- MCCRs
  NsOf <- MCNsOf
  Specs <- MCSpecs
  Disturbances = {"create", "update", "delete", "err", "lost", "503", "console delete", "console create", "not ready", "restart"}
  MaxDisturb = 1
INVARIANTS TypeOK Settled
PROPERTIES AllShown ShownAgain NoStrays
\* Without a resource and with the disturbances used up nothing is left to do.
CHECK_DEADLOCK FALSE
