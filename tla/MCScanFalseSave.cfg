SPECIFICATION OneByOneSpec
CONSTANTS
  Photo = {p1, p2}
  JobId = {1, 2, 3, 4, 5, 6, 7, 8}
  Shelf = {s1}
  ShelfOf <- MCShelfOf
  SCAN_JOBS_MAX_QUEUED = 1
  PHOTO_CONCURRENCY = 1
  MAX_JOB_ATTEMPTS = 1
  DETECT_CONCURRENCY = 1
  MAX_ATTEMPTS = 2
  MaxFaults = 1
  MaxPolls = 1
  MaxWrites = 2
INVARIANT SavedIsListed
CHECK_DEADLOCK FALSE
