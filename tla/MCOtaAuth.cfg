CONSTANTS
  Hosts = {h1, h2}
  Actions = {chunk, activate}
  Retried = {chunk}
  MaxAttempts = 2
  MaxSequence = 3
  MaxCalls = 2
  MaxRequests = 3
  MaxBoots = 2
SPECIFICATION Spec
INVARIANTS AtMostOnce NoOvertaking OnceUnlessRetried GenuineAnswer RefusedForCause
CHECK_DEADLOCK FALSE
SYMMETRY HostsAlike
