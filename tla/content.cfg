SPECIFICATION ContentSpec
CONSTANTS
  Uploads = {p1, p2}
  Parents = {t1}
  Mods = {m1, m2}
  NoMod = NoMod
  Authors = {m1, m2}
  Places = {l1}
  Ratings = {1, 4}
  MaxWrites = 3
  Nobody = Nobody
  People = {m1, m2}
  Moderators = {m1, m2}
  Slots = {p1, p2}
  Targets = {t1}
  PhotoTargets = {t1}
  MaxReports = 2
  NoOne = NoOne
  Riders = {m1, m2}
  Days = {0, 91, 365}
  MaxSignals = 2
  NoRider = NoRider
SYMMETRY Alike
INVARIANTS DeadlockNeedsErasure
PROPERTIES PhotosAreSafe ReviewsAreSafe ReportsAreSafe BadgesAreHonest
CHECK_DEADLOCK FALSE
