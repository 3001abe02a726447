--------------------------- MODULE MCMeasurements ---------------------------
(***************************************************************************)
(* Instances of the three harnesses that measure the linter and its        *)
(* lints.  A developer works with one of them at a time; the two gates     *)
(* share the corpus.                                                       *)
(***************************************************************************)
EXTENDS CorpusGate, PerfGate, CostBench

VARIABLE command  \* what is being used

vars == <<corpusVars, gateVars, perfVars, benchVars, command>>

MCContracts == <<"swap", "token">>

\* Every call costs 1, but the calls of one kind on one place (tests excepted)
\* more; calls on some places grow dearer, and first calls may cost more.
MCTariffs ==
  LET Base(kind, place) ==
        [k \in Kinds |-> [p \in Places |-> IF k = kind /\ p = place THEN 3 ELSE 1]]
      Growth(places) ==
        [k \in Kinds |-> [p \in Places |-> IF p \in places THEN 1 ELSE 0]]
  IN {[base |-> Base(kind, place), growth |-> Growth(places),
       first |-> [p \in Places |-> opening]] :
        kind \in Kinds \ {"has"}, place \in {"value", "instance", "persistent"},
        places \in SUBSET {"value", "instance", "buffer"}, opening \in {0, 2}}

GateAtRest ==
  /\ truth = [c \in Names |-> {}] /\ baseline = Missing /\ bless = FALSE
  /\ todo = {} /\ found = [c \in Names |-> None] /\ pc = "idle"
  /\ verdict = "none" /\ tests = 0 /\ seen = [c \in Names |-> None]
  /\ allowed = [c \in Names |-> 0] /\ gaps = FALSE

PerfAtRest ==
  /\ speed = [c \in Names |-> CHOOSE ms \in Speeds : TRUE]
  /\ recorded = Missing /\ iterations = 1
  /\ wanted = Unset /\ blessing = FALSE /\ queue = {} /\ medians = Nothing
  /\ step = "idle" /\ outcome = "none" /\ limit = 0 /\ benches = 0
  /\ timed = Nothing /\ was = Nothing /\ busy = FALSE /\ busyRecord = FALSE
  /\ short = FALSE /\ shortRecord = FALSE

BenchAtRest ==
  /\ bench = bench_env_clone_vs_reuse
  /\ tariff = CHOOSE t \in Tariffs : TRUE
  /\ region = "setup" /\ done = 0 /\ env = EmptyEnv /\ cpu = 0 /\ before = 0
  /\ printed = [bad |-> 0, good |-> 0] /\ clean = EmptyEnv
  /\ ghost = EmptyEnv /\ proper = [bad |-> 0, good |-> 0]

Init ==
  /\ corpus \in {Names, {"token"}}
  /\ CorpusInit
  /\ \/ command = "corpus" /\ CorpusGateInit /\ PerfAtRest /\ BenchAtRest
     \/ command = "bench" /\ PerfGateInit /\ GateAtRest /\ BenchAtRest
     \/ command = "costs" /\ CostBenchInit /\ GateAtRest /\ PerfAtRest

Next ==
  \/ command = "corpus" /\ CorpusGateNext /\ UNCHANGED <<perfVars, benchVars, command>>
  \/ command = "bench" /\ PerfGateNext /\ UNCHANGED <<gateVars, benchVars, command>>
  \/ /\ command = "costs" /\ CostBenchNext
     /\ UNCHANGED <<corpusVars, gateVars, perfVars, command>>

Spec == Init /\ [][Next]_vars

Inv == GateInv /\ PerfInv /\ BenchInv
=============================================================================
