SPECIFICATION Spec
CONSTANTS
  c1 = c1
  o1 = o1
  t1 = t1
  t2 = t2
  h1 = h1
  h2 = h2
  k = k
  kWrong = kWrong
  garbled = garbled
  None = None
  Conns = {c1}
  Others = {o1}
  Registered <- MCRegistered
  Registrations <- MCRegistrations
  Credentials <- MCCredentials
  Codes = {k, kWrong, garbled}
  Garbled = garbled
  Versions = {0, 1, 2, 3}
  MinVersion = 1
  CurrentVersion = 2
  Homes = {h1, h2}
  Regions = {"EU", "unknown"}
  Tokens = {t1, t2}
  Shard = 1
  Max = 1
  ValidTime = 1
  MaxStarts = 2
  MaxHappenings = 2
INVARIANT TokenWorks
PROPERTY SpotsAreProven
CHECK_DEADLOCK FALSE
