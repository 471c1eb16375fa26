SPECIFICATION FairSpec
CONSTANTS
  Owners = {alice}
  Sessions = {s1}
  IPs = {ip}
  Calls = {c1}
  Nonces = {n1}
  Bearers = {b1}
  None = None
  ChallengeTTL = 1
  BearerTTL = 1
  RateMax = 1
  RateWindow = 2
  MaxTime = 3
  EarlyTime = 3
PROPERTY
  ExpiredNoncesAreSwept
