CONSTANTS
  N = 3
  MaxRelease = 2
  Workers = 2
  Manual = {2}
SPECIFICATION Spec
INVARIANTS CanaryFirst HeldUntilReviewed LockedWhileWorking RegistryIsTrue
