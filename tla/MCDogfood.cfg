\* The second gate on a freshly written baseline: one bless, no change.
CONSTANTS
  Contracts <- MCContracts
  Missing = Missing
  Torn = Torn
  None = None
  Empty = Empty
  Unset = Unset
  Garbage = Garbage
  MaxEdits = 0
  Findings = {"vec_index_in_loop", "host_in_loop"}
  ALWAYS_TP = {"vec_index_in_loop"}
  DOGFOOD_ALWAYS_TP = {}
  MaxTests = 1
  Speeds = {4, 5, 6}
  Slowed = 3
  Shorts = {1}
  Iterations = {2, 3}
  Thresholds = {50}
  MaxBenches = 0
  ITER_COUNT = 3
  STORAGE_ITER_COUNT = 3
  Tariffs <- MCTariffs

SPECIFICATION Spec

INVARIANT
  IncreasesAreReal

\* A harness that has finished its runs rests.
CHECK_DEADLOCK FALSE
