SPECIFICATION MCSpec
CONSTANTS
  a = a
  b = b
  n1 = n1
  n2 = n2
  p = p
  q = q
  Crs = {a, b}
  Nobody = nobody
  Names = {n1, n2}
  Permissions = {p, q}
  MaxIssued = 6
  MaxLags = 2
  MaxOverlooked = 1
  FaultKinds = {"cluster", "dependency", "humio", "secret", "crash", "lose_secret", "lose_token", "rename"}
  MaxFaults = 1
  MaxEdits = 1
INVARIANT SecretStaysTrue
PROPERTY KeepsPromise
PROPERTY Settles
