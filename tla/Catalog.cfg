SPECIFICATION Spec
CONSTANTS
  c1 = c1  c2 = c2  k1 = k1  k2 = k2  t1 = t1  t2 = t2  f1 = f1  f2 = f2  f3 = f3  f4 = f4
  Null = Null
  Calls = {c1, c2}
  MaxRequests = 4
  Keys = {k1, k2}
  Titles = {t1, t2}
  Files = {f1, f2, f3}
  MaxImages = 2
  Faults = {"redis_fails", "queue_fails", "db_fails", "commit_lost", "upload_fails", "delete_fails", "crash"}
SYMMETRY CatalogSymmetry
INVARIANTS
  TypeOK
  StaleOnlyByRace
  ImagesMatchFiles
CHECK_DEADLOCK FALSE
