SPECIFICATION Spec
CONSTANTS
  c1 = c1
  o1 = o1
  t1 = t1
  t2 = t2
  h1 = h1
  h2 = h2
  k = k
  kWrong = kWrong
  garbled = garbled
  None = None
  Conns = {c1}
  Others = {o1}
  Registered <- MCRegistered
  Registrations <- MCRegistrations
  Credentials <- MCRight
  Codes = {k,garbled}
  Garbled = garbled
  Versions = {1}
  MinVersion = 1
  CurrentVersion = 2
  Homes = {h1}
  Regions = {"EU", "unknown"}
  Tokens = {t1, t2}
  Shard = 1
  Max = 2
  ValidTime = 1
  MaxStarts = 2
  MaxHappenings = 2
PROPERTY ShownAsItIs RetriesSucceed
CHECK_DEADLOCK FALSE
