SPECIFICATION PagesSpec
CONSTANTS
  Principals <- SomePrincipals
  Handled <- EveryRoute
  MaxRetries = 1
  Tabs = {d1, d2}
  Users = {u1, u2}
  Nobody = Nobody
  GoogleMaps = TRUE
  MaxTokens = 3
  MaxFlips = 2
  MaxPk = 3
  MaxTime = 1
  PageLimit = 1
  Spots = {1, 2, 3}
  Facts <- SomeFacts
  Sorts = {"distance", "security", "rating", "recently_verified", "recommended"}
  PageSize = 1
  MarkerCap = 2
  MaxChanges = 1
  WeekDays = 3
  DayLength = 4
  MinuteLength = 2
  FilledDays = {1, 3}
  Editors = {d1, d2}
  MaxMerges = 4
  Clicks = {1, 2, 3}
  Lovers = {v1}
  Tuples = {1, 2, 3, 4}
  NoTuple = NoTuple
  Signers = {u1, u2}
  Versions = {d1, d2}
  MaxNow = 2
  Free = Free
  Subjects = {s1, k1}
  Desk = {k1}
  NoName = NoName
  Doors = {d1, d2}
  AskedKinds = {"objection", "export"}
  MaxRequests = 3
  Keys = {b1, b2, b3}
  LongKeys = {b1}
  SensitiveKeys = {b1}
  StoreKeys = {b1, b2}
  Checks = {d1, d2}
  Limit = 1
  MaxBuckets = 2
  Headroom = 1
  SweepEvery = 2
  MaxTick = 2
SYMMETRY Alike
INVARIANTS  TabsAreSafe EditsAreSound ReadingIsComplete HoursAreSound LimiterIsSound
PROPERTIES FavouritesAreSound TermsAreEvidenced RequestsAreEvidenced
CHECK_DEADLOCK FALSE
