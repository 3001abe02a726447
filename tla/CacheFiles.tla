----------------------------- MODULE CacheFiles -----------------------------
(***************************************************************************)
(* The on-disk store of cargo-cost-lint/src/cache.rs, at the granularity   *)
(* of the file-system calls it makes.  save_cache_entry is                 *)
(* create_dir_all followed by fs::write, which is open(O_CREAT|O_TRUNC)    *)
(* and write_all: no temporary file, no rename, no lock.  Any number of    *)
(* processes and any number of clear_cache callers share the directory.    *)
(*                                                                         *)
(* A file's content is abstracted to what serde_json makes of it: a value  *)
(* of Findings when it parses, Empty when its length is 0, Torn otherwise  *)
(* (a prefix, or a short entry written over a longer one).                 *)
(***************************************************************************)
EXTENDS LintKeys

VARIABLES
  dir,      \* TRUE iff the cache directory exists
  store,    \* store[k]: the content of <hash of k>.json
  fd,       \* fd[p]: the cache file process p holds open for writing
  sweep,    \* sweep[c]: the progress of a clear_cache call
  old       \* old[c]: history, the files listed by c and not unlinked since

fileVars == <<dir, store, fd, sweep, old>>

FileContents == Findings \cup {Absent, Empty, Torn}

Sweeps == [phase : {"idle", "listing", "done"}, todo : SUBSET Keys,
           seen : SUBSET Keys, kept : BOOLEAN]

FilesTypeOK ==
  /\ dir \in BOOLEAN
  /\ store \in [Keys -> FileContents]
  /\ fd \in [Procs -> Keys \cup {NoFile, Orphan}]
  /\ sweep \in [Clearers -> Sweeps]
  /\ old \in [Clearers -> SUBSET Keys]

FilesInit ==
  /\ dir = FALSE
  /\ store = [k \in Keys |-> Absent]
  /\ fd = [p \in Procs |-> NoFile]
  /\ sweep = [c \in Clearers |->
                [phase |-> "idle", todo |-> {}, seen |-> {}, kept |-> FALSE]]
  /\ old = [c \in Clearers |-> {}]

Files == {k \in Keys : store[k] # Absent}

\* load_cache_entry returns Some only for a file that exists and parses.
Loads(k) == store[k] \in Findings

-----------------------------------------------------------------------------
\* Steps of save_cache_entry.

CreateDirAll ==
  /\ dir' = TRUE
  /\ UNCHANGED <<store, fd, sweep, old>>

\* fs::write, first half: create the file or truncate the one that is there.
OpenTruncate(p, k) ==
  /\ dir
  /\ store' = [store EXCEPT ![k] = Empty]
  /\ fd' = [fd EXCEPT ![p] = k]
  /\ UNCHANGED <<dir, sweep, old>>

\* What a file holds after v is written from offset 0.  A file that holds
\* something else may be longer than v: then its tail survives.
Overwritten(content, v) ==
  IF content \in {Empty, v} THEN {v} ELSE {v, Torn}

\* fs::write, second half.  Bytes written through a descriptor whose file was
\* unlinked are not reachable by name.
WriteAll(p, v) ==
  /\ IF fd[p] = Orphan
       THEN store' = store
       ELSE \E after \in Overwritten(store[fd[p]], v) :
              store' = [store EXCEPT ![fd[p]] = after]
  /\ fd' = [fd EXCEPT ![p] = NoFile]
  /\ UNCHANGED <<dir, sweep, old>>

\* The descriptor is closed before the entry is complete: write_all failed or
\* the process died.  Nothing, or some of the bytes, reached the file.
CloseEarly(p) ==
  /\ IF fd[p] \in Keys
       THEN \E after \in {store[fd[p]], Torn} :
              store' = [store EXCEPT ![fd[p]] = after]
       ELSE store' = store
  /\ fd' = [fd EXCEPT ![p] = NoFile]
  /\ UNCHANGED <<dir, sweep, old>>

-----------------------------------------------------------------------------
\* Removing files.

\* Variant for mutation: a writer whose file is unlinked recreates it.
Unlink_byName(K) ==
  /\ store' = [k \in Keys |-> IF k \in K THEN Absent ELSE store[k]]
  /\ old' = [c \in Clearers |-> old[c] \ K]
  /\ UNCHANGED fd

\* unlink: descriptors that are open on the files of K lose their name.
Unlink(K) ==
  /\ store' = [k \in Keys |-> IF k \in K THEN Absent ELSE store[k]]
  /\ fd' = [p \in Procs |-> IF fd[p] \in K THEN Orphan ELSE fd[p]]
  /\ old' = [c \in Clearers |-> old[c] \ K]

\* clear_cache: the existence check and read_dir.  A missing directory, or one
\* that cannot be read, ends the call with Ok(0).
ClearBegin(c) ==
  /\ sweep[c].phase = "idle"
  /\ sweep' = [sweep EXCEPT ![c] =
       [phase |-> IF dir THEN "listing" ELSE "done",
        todo |-> Files, seen |-> {}, kept |-> FALSE]]
  /\ old' = [old EXCEPT ![c] = Files]
  /\ UNCHANGED <<dir, store, fd>>

\* The loop has dealt with k.
Passed(c, k, kept) ==
  sweep' = [sweep EXCEPT ![c] =
    [phase |-> "listing", todo |-> sweep[c].todo \ {k},
     seen |-> sweep[c].seen \cup {k}, kept |-> kept]]

\* One turn of the loop of clear_cache.  Entries created after read_dir may or
\* may not be returned by it; every entry that was there is returned once.
ClearRemove(c, k) ==
  /\ sweep[c].phase = "listing"
  /\ k \in sweep[c].todo \cup (Files \ sweep[c].seen)
  /\ Passed(c, k, sweep[c].kept)
  /\ Unlink({k})
  /\ UNCHANGED dir

\* remove_file fails on a file that is there: the loop goes on without it.
ClearKeep(c, k) ==
  /\ sweep[c].phase = "listing"
  /\ k \in sweep[c].todo
  /\ store[k] # Absent
  /\ Passed(c, k, TRUE)
  /\ UNCHANGED <<dir, store, fd, old>>

\* Variant for mutation: the first entry that goes ends the call.
ClearEnd_early(c) ==
  /\ sweep[c].phase = "listing"
  /\ sweep[c].todo = {} \/ sweep[c].seen # {}
  /\ sweep' = [sweep EXCEPT ![c].phase = "done"]
  /\ UNCHANGED <<dir, store, fd, old>>

ClearEnd(c) ==
  /\ sweep[c].phase = "listing"
  /\ sweep[c].todo = {}
  /\ sweep' = [sweep EXCEPT ![c].phase = "done"]
  /\ UNCHANGED <<dir, store, fd, old>>

\* `cargo clean`: the directory, under target/ by default, goes with its files.
CargoClean ==
  /\ dir
  /\ dir' = FALSE
  /\ Unlink(Files)
  /\ UNCHANGED sweep
=============================================================================
