SPECIFICATION BoundedSpec
CONSTANTS
  Owners = {alice, bob}
  Sessions = {s1, s2}
  IPs = {ip}
  Calls = {c1, c2}
  Nonces = {n1, n2}
  Bearers = {b1, b2}
  None = None
  ChallengeTTL = 2
  BearerTTL = 1
  RateMax = 1
  RateWindow = 2
  MaxTime = 3
  EarlyTime = 2
INVARIANTS
  OneBearerPerNonce
  RunsForSigner
  ChallengesAreBounded
  SessionsAreIsolated
  SessionOutlivesBearer
SYMMETRY Symmetry
