----------------------------- MODULE CostBench ------------------------------
(***************************************************************************)
(* The cost benchmarks, cost_benchmarks/src/lib.rs.  Each measures a bad   *)
(* and a good way to do the same thing, one after the other in one Env, by *)
(* the difference of the budget's counters before and after; its README    *)
(* says that the difference of the two is what following the lint saves.   *)
(*                                                                         *)
(* Only calls of the host are metered; what the wasm side does for free    *)
(* (symbol_short!, &env, a clone of a handle, a native Vec) is left out.   *)
(*                                                                         *)
(* Of the prices of the host nothing is known but their shape: a call has  *)
(* a price of its kind on its place, one that grows or stays with the size *)
(* of what it works on, and the first call on a place may be dearer, since *)
(* the host loads what later calls find loaded.                            *)
(***************************************************************************)
EXTENDS Integers, Sequences, FiniteSets

CONSTANTS
  ITER_COUNT,          \* turns of a loop over plain calls
  STORAGE_ITER_COUNT,  \* turns of a loop over storage
  Tariffs              \* prices of a call, per unit of size, and of a first call

Kinds == {"object", "ledger", "get", "has", "set"}

Places == {"value", "ledger", "instance", "persistent", "buffer"}

Prices == [Kinds -> [Places -> Nat]]

\* What a host may charge: no call is refunded, and a test for an entry costs no
\* more than reading it, as the lint about discarded reads presumes.
Charges ==
  {t \in [base : Prices, growth : Prices, first : [Places -> Nat]] :
     /\ t.base["has"]["instance"] <= t.base["get"]["instance"]
     /\ t.growth["has"]["instance"] <= t.growth["get"]["instance"]}

\* No loop is empty.
ASSUME BenchAssumption ==
  /\ {ITER_COUNT, STORAGE_ITER_COUNT} \subseteq Nat \ {0}
  /\ Tariffs # {} /\ Tariffs \subseteq Charges

VARIABLES
  bench,    \* the benchmark that runs
  tariff,   \* the prices of this host
  region,   \* "setup", "bad", "good", "done"
  done,     \* calls of the region that were made
  env,      \* the host: instance and persistent keys, one buffer, places in use
  cpu,      \* cpu_instruction_cost
  before,   \* cpu_before
  printed,  \* the printed differences, 0 before they are printed
  clean,    \* history: the host as the setup left it
  ghost,    \* history: the host if only the setup and this region had run
  proper    \* history: what the regions cost there

benchVars == <<bench, tariff, region, done, env, cpu, before, printed, clean,
               ghost, proper>>

-----------------------------------------------------------------------------
\* The calls.

Call(kind, on, key) == [kind |-> kind, on |-> on, key |-> key]

Instance(kind, key) == Call(kind, "instance", key)

\* What a loop of n turns calls.
Repeat(n, calls) ==
  [i \in 1 .. n * Len(calls) |-> calls[1 + ((i - 1) % Len(calls))]]

Program(setup, bad, good) == [setup |-> setup, bad |-> bad, good |-> good]

-----------------------------------------------------------------------------
\* The benchmarks.

bench_symbol_new_vs_short ==
  Program(<<>>, Repeat(ITER_COUNT, <<Call("object", "value", 0)>>), <<>>)

bench_env_clone_vs_reuse == Program(<<>>, <<>>, <<>>)

bench_host_fn_inside_vs_outside_loop ==
  LET sequence == <<Call("ledger", "ledger", 0)>>
  IN Program(<<>>, Repeat(ITER_COUNT, sequence), sequence)

\* The batch is one object of the size of all chunks.
bench_bytes_append_in_loop_vs_batch ==
  Program(<<>>,
    <<Call("object", "value", 0)>> \o
      Repeat(ITER_COUNT, <<Call("object", "value", 1), Call("set", "buffer", 0)>>),
    <<Call("object", "value", ITER_COUNT)>>)

bench_storage_in_loop_vs_batch ==
  Program(<<>>,
    [i \in 1 .. STORAGE_ITER_COUNT |-> Instance("set", i - 1)],
    <<Instance("set", 0)>>)

bench_blind_storage_write ==
  Program(<<>>, <<Instance("set", 0)>>, <<Instance("get", 0), Instance("set", 0)>>)

bench_discarded_storage_read ==
  Program(<<Instance("set", 0)>>, <<Instance("get", 0)>>, <<Instance("has", 0)>>)

bench_redundant_storage_read ==
  Program(<<Instance("set", 0)>>, Repeat(2, <<Instance("get", 0)>>),
          <<Instance("get", 0)>>)

bench_instance_storage_unbounded_data ==
  Program(<<>>,
    <<Instance("get", 0), Call("object", "value", 0), Call("object", "value", 1),
      Instance("set", 0)>>,
    <<Call("set", "persistent", 1)>>)

\* Variant for mutation: the read was left in the loop.
bench_loop_invariant_storage_access_inLoop ==
  Program(<<Instance("set", 0)>>,
    <<Instance("get", 0)>>,
    Repeat(STORAGE_ITER_COUNT, <<Instance("get", 0)>>))

bench_loop_invariant_storage_access ==
  Program(<<Instance("set", 0)>>,
    Repeat(STORAGE_ITER_COUNT, <<Instance("get", 0)>>),
    <<Instance("get", 0)>>)

bench_storage_key_construction_in_loop == Program(<<>>, <<>>, <<>>)

Benchmarks ==
  {bench_symbol_new_vs_short, bench_env_clone_vs_reuse,
   bench_host_fn_inside_vs_outside_loop, bench_bytes_append_in_loop_vs_batch,
   bench_storage_in_loop_vs_batch, bench_blind_storage_write,
   bench_discarded_storage_read, bench_redundant_storage_read,
   bench_instance_storage_unbounded_data, bench_loop_invariant_storage_access,
   bench_storage_key_construction_in_loop}

-----------------------------------------------------------------------------
\* The host.

EmptyEnv == [instance |-> {}, persistent |-> {}, buffer |-> 0, used |-> {}]

\* What a call leaves behind.
After(e, call) ==
  LET f == [e EXCEPT !.used = @ \cup {call.on}]
  IN CASE call.kind = "set" /\ call.on = "buffer" -> [f EXCEPT !.buffer = @ + 1]
       [] call.kind = "set" /\ call.on = "instance" ->
            [f EXCEPT !.instance = @ \cup {call.key}]
       [] call.kind = "set" /\ call.on = "persistent" ->
            [f EXCEPT !.persistent = @ \cup {call.key}]
       [] OTHER -> f

\* All entries of a contract's instance storage are one object.
Size(e, call) ==
  CASE call.on = "instance"   -> Cardinality(e.instance)
    [] call.on = "persistent" -> Cardinality(e.persistent)
    [] call.on = "buffer"     -> e.buffer
    [] call.on \in {"value", "ledger"} -> call.key

\* What a call costs that leaves a host e, if its place was in use before.
Usual(e, call) ==
  tariff.base[call.kind][call.on] + tariff.growth[call.kind][call.on] * Size(e, call)

Opening(e, place) == IF place \in e.used THEN 0 ELSE tariff.first[place]

Price(e, call) == Usual(After(e, call), call) + Opening(e, call.on)

-----------------------------------------------------------------------------
CostBenchInit ==
  /\ bench \in Benchmarks
  /\ tariff \in Tariffs
  /\ region = "setup" /\ done = 0
  /\ env = EmptyEnv /\ cpu = 0 /\ before = 0
  /\ printed = [bad |-> 0, good |-> 0]
  /\ clean = EmptyEnv /\ ghost = EmptyEnv
  /\ proper = [bad |-> 0, good |-> 0]

\* The next call of the region.
HostCall ==
  /\ region # "done"
  /\ done < Len(bench[region])
  /\ LET call == bench[region][done + 1]
     IN /\ env' = After(env, call)
        /\ cpu' = cpu + Price(env, call)
        /\ ghost' = After(ghost, call)
        /\ proper' = IF region = "setup" THEN proper
                     ELSE [proper EXCEPT ![region] = @ + Price(ghost, call)]
  /\ done' = done + 1
  /\ UNCHANGED <<bench, tariff, region, before, printed, clean>>

Following(r) ==
  CASE r = "setup" -> "bad" [] r = "bad" -> "good" [] r = "good" -> "done"

\* Variant for mutation: the difference is taken the wrong way round.
NextRegion_swapped ==
  /\ region # "done"
  /\ done = Len(bench[region])
  /\ region' = Following(region)
  /\ done' = 0
  /\ before' = cpu
  /\ printed' = IF region = "setup" THEN printed
                ELSE [printed EXCEPT ![region] = before - cpu]
  /\ clean' = IF region = "setup" THEN env ELSE clean
  /\ ghost' = IF region = "setup" THEN env ELSE clean
  /\ UNCHANGED <<bench, tariff, env, cpu, proper>>

\* Variant for mutation: the counter is read before the setup.
NextRegion_countsSetup ==
  /\ region # "done"
  /\ done = Len(bench[region])
  /\ region' = Following(region)
  /\ done' = 0
  /\ before' = IF region = "setup" THEN before ELSE cpu
  /\ printed' = IF region = "setup" THEN printed
                ELSE [printed EXCEPT ![region] = cpu - before]
  /\ clean' = IF region = "setup" THEN env ELSE clean
  /\ ghost' = IF region = "setup" THEN env ELSE clean
  /\ UNCHANGED <<bench, tariff, env, cpu, proper>>

\* The counters are read at the end of a region, and again at the beginning
\* of the next.
NextRegion ==
  /\ region # "done"
  /\ done = Len(bench[region])
  /\ region' = Following(region)
  /\ done' = 0
  /\ before' = cpu
  /\ printed' = IF region = "setup" THEN printed
                ELSE [printed EXCEPT ![region] = cpu - before]
  /\ clean' = IF region = "setup" THEN env ELSE clean
  /\ ghost' = IF region = "setup" THEN env ELSE clean
  /\ UNCHANGED <<bench, tariff, env, cpu, proper>>

CostBenchNext == HostCall \/ NextRegion

-----------------------------------------------------------------------------
CostBenchSpec == CostBenchInit /\ [][CostBenchNext]_benchVars

Calls ==
  [kind : Kinds, on : Places, key : Nat]

Hosts ==
  {e \in [instance : SUBSET Nat, persistent : SUBSET Nat, buffer : Nat,
           used : SUBSET Places] :
     IsFiniteSet(e.instance) /\ IsFiniteSet(e.persistent)}

CostBenchTypeOK ==
  /\ bench \in Benchmarks /\ tariff \in Charges
  /\ region \in {"setup", "bad", "good", "done"}
  /\ region # "done" => done \in 0 .. Len(bench[region])
  /\ {env, clean, ghost} \subseteq Hosts
  /\ cpu \in Nat /\ before \in 0 .. cpu
  /\ {printed, proper} \subseteq [{"bad", "good"} -> Nat]

Touched(r) == {bench[r][i].on : i \in 1 .. Len(bench[r])}

\* Where the bad region makes the first call in place of the good one.
Shared == (Touched("bad") \cap Touched("good")) \ Touched("setup")

\* Sharing one Env flatters a lint by no more than a first call: whatever else
\* the bad region leaves behind for the good one, the printed saving is at most
\* what the regions cost on hosts of their own, but for what opening one place
\* costs that both work on and the setup does not.  (Neither this nor the other
\* way is it exact, as cost_benchmarks/README.md 21 says: the good region of the
\* storage loop writes into an instance that the bad one has filled.)
SavingsNeverOverstated ==
  region = "done" =>
    \E extra \in {0} \cup {tariff.first[place] : place \in Shared} :
      printed.bad - printed.good <= proper.bad - proper.good + extra

\* At most places the benchmarks compare calls of one kind; here they do not.
Incomparable == {bench_blind_storage_write, bench_instance_storage_unbounded_data}

\* Following a lint never costs more than what it reports, as printed and on
\* hosts of their own, at any prices.  But for two lints: the documentation of
\* blind_storage_write says that it is about correctness, and which is dearer of
\* the instance storage and the persistent one is up to the prices.
FollowingTheLintPays ==
  region = "done" /\ bench \notin Incomparable =>
    printed.good <= printed.bad /\ proper.good <= proper.bad

Poorer(e, f) ==
  /\ e.instance \subseteq f.instance /\ e.persistent \subseteq f.persistent
  /\ e.buffer <= f.buffer

\* The good region works on one place, and this is what opening it costs when
\* the bad region has opened it.
Allowance ==
  IF bench.good # <<>> /\ bench.good[1].on \in Shared
  THEN tariff.first[bench.good[1].on] ELSE 0

\* Where calls were made.
PlacesInUse ==
  LET Made(r) == {bench[r][i].on : i \in 1 .. done}
  IN /\ region = "setup" => env.used = Made("setup")
     /\ region # "setup" => clean.used = Touched("setup")
     /\ region = "bad" => env.used = Touched("setup") \cup Made("bad")
     /\ region = "good" =>
          /\ env.used = Touched("setup") \cup Touched("bad") \cup Made("good")
          /\ ghost.used = Touched("setup") \cup Made("good")

\* The bad region meets the host as the setup left it, and the good region one
\* that stores at least as much: so the first is charged its own price, and
\* the second at least that, but for the allowance.
RegionsAreApart ==
  /\ region \in {"setup", "bad"} => env = ghost
  /\ region = "setup" => proper.bad = 0 /\ proper.good = 0
  /\ region = "bad" =>
       /\ proper.bad = cpu - before /\ proper.good = 0
       /\ Poorer(clean, env)
  /\ region \in {"good", "done"} => printed.bad = proper.bad
  /\ region = "good" =>
       /\ done = 0 => proper.good = 0
       /\ proper.good <= cpu - before + Allowance
       /\ Poorer(ghost, env)
  /\ region = "done" => proper.good <= printed.good + Allowance

\* The bad region has cost at least its last call, at the size that what it
\* works on has now, and opening the place of its first; and the appending loop
\* all chunks that it has made.
BadRegionCosts ==
  region = "bad" /\ done > 0 =>
    LET opening == Opening(clean, bench.bad[1].on)
    IN /\ Usual(env, bench.bad[done]) + opening <= cpu - before
       /\ bench = bench_bytes_append_in_loop_vs_batch =>
            Usual(env, Call("object", "value", done \div 2)) + opening <= cpu - before

\* What a region has written stays.
WritesStay ==
  /\ env.persistent \subseteq {1}
  /\ region = "bad" =>
       \A i \in 1 .. done :
         bench.bad[i].kind = "set" /\ bench.bad[i].on = "instance" =>
           bench.bad[i].key \in env.instance

\* What the good region has cost, and will cost, is no more than was printed,
\* here and on a host of its own.
GoodRegionFits ==
  region = "good" /\ bench \notin Incomparable =>
    IF done = Len(bench.good)
    THEN cpu - before <= printed.bad /\ proper.good <= printed.bad
    ELSE LET call == bench.good[done + 1]
         IN /\ cpu - before + Price(env, call) <= printed.bad
            /\ proper.good + Price(ghost, call) <= printed.bad

\* The inductive invariant.
BenchInv ==
  /\ CostBenchTypeOK /\ PlacesInUse /\ RegionsAreApart /\ BadRegionCosts /\ WritesStay
  /\ GoodRegionFits /\ SavingsNeverOverstated /\ FollowingTheLintPays
=============================================================================
