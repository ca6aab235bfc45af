CONSTANTS
  Statics = {manual}
  Lease = lease
  Fallback = fallback
  NoAddress = none
  Dhcp = dhcp
  Instances = {i1, i2}
  Keys = {k1}
  None = None
  MaxRevision = 2
  MaxLate = 1
  MaxBoots = 2
SPECIFICATION FairSpec
INVARIANTS NetworkInUse SettledByConfirmation
PROPERTIES AppliedAsMeant ConfirmedWhereReachable PendingEnds
CHECK_DEADLOCK FALSE
