SPECIFICATION Spec
CONSTANTS
  Threads = {t1}
  Cards = {k1, k2}
  Ratings = {0, 4}
  Sqlite = TRUE
  MaxInteger = 8
  MaxReviews = 5
  MaxGenerates = 2
  MaxRestarts = 1
CHECK_DEADLOCK FALSE
INVARIANTS TypeOK ReviewsSaved
PROPERTIES SuccessPutsOff ReviewsKept
