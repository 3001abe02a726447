\* Two contracts, three runs of the test, two of the benchmark, two changes;
\* three turns of every loop, and 192 lists of prices.
CONSTANTS
  Contracts <- MCContracts
  Missing = Missing
  Torn = Torn
  None = None
  Empty = Empty
  Unset = Unset
  Garbage = Garbage
  MaxEdits = 2
  Findings = {"vec_index_in_loop", "host_in_loop"}
  ALWAYS_TP = {"vec_index_in_loop"}
  DOGFOOD_ALWAYS_TP = {}
  MaxTests = 3
  Speeds = {4, 5}
  Slowed = 3
  Shorts = {1}
  Iterations = {2, 3}
  Thresholds = {20}
  MaxBenches = 2
  ITER_COUNT = 3
  STORAGE_ITER_COUNT = 3
  Tariffs <- MCTariffs

SPECIFICATION Spec

INVARIANTS
  Inv
  RatchetHolds
  AlarmsAreReal
  DogfoodIsNoLaxer
  SlowdownsAreCaught
  NoiseIsForgiven
  SavingsNeverOverstated
  FollowingTheLintPays

\* A harness that has finished its runs rests.
CHECK_DEADLOCK FALSE
