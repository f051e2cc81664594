SPECIFICATION Spec
CONSTANTS
  Photo = {p1}
  JobId = {1, 2, 3, 4, 5}
  Shelf = {s1}
  ShelfOf <- MCShelfOf
  SCAN_JOBS_MAX_QUEUED = 1
  PHOTO_CONCURRENCY = 1
  MAX_JOB_ATTEMPTS = 1
  DETECT_CONCURRENCY = 1
  MAX_ATTEMPTS = 2
  MaxFaults = 1
  MaxPolls = 1
  MaxWrites = 3
INVARIANTS TypeOK RunOwnsJob PoisonParks
 
CHECK_DEADLOCK FALSE
