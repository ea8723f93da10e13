SPECIFICATION UpkeepSpec
CONSTANTS
  Uploads = {p1}
  Parents = {t1}
  Mods = {m1}
  NoMod = NoMod
  Holders = {o1}
  Clients = {c1, c2}
  MaxExports = 1
  MaxEdits = 1
  MaxHours = 2
  Optional = {"inactive_accounts"}
  Outage = {"orphan_uploads", "pending_photos"}
  Callers = {d1, d2, d3, d4}
  Concurrency = 2
  QueueCapacity = 2
INVARIANTS ExportsAreSafe AdmissionIsSound
PROPERTIES LeftoversGo RetentionGoesOn LineMoves
CHECK_DEADLOCK FALSE
