SPECIFICATION ShelfSpec
CONSTANTS
  Photo = {p1, p2}
  JobId = {1, 2, 3, 4, 5}
  Shelf = {s1}
  ShelfOf <- MCShelfOf
  SCAN_JOBS_MAX_QUEUED = 2
  PHOTO_CONCURRENCY = 1
  MAX_JOB_ATTEMPTS = 1
  DETECT_CONCURRENCY = 1
  MAX_ATTEMPTS = 1
  MaxFaults = 1
  MaxPolls = 1
  MaxWrites = 2
PROPERTIES PhotoKept PhotoSettles
CHECK_DEADLOCK FALSE
