------------------------------- MODULE LibRs --------------------------------
(***************************************************************************)
(* The lib.rs of soroban_cost_lints as it is in the repository, in the     *)
(* form LintSource gives to such files, and the tree around it.  A         *)
(* description, which is one line everywhere, stands under the name of its *)
(* lint.                                                                   *)
(***************************************************************************)
EXTENDS LintRegistry

\* The declarations, up to contract_call_in_loop and after it.
DeclaredFirst ==
  <<"soroban_storage_in_loop", "redundant_env_clone",
    "unnecessary_host_function_call", "soroban_redundant_storage_read",
    "storage_write_without_read", "instance_storage_for_unbounded_data",
    "persistent_read_without_ttl_extension", "loop_invariant_storage_access",
    "storage_key_construction_in_loop", "bytes_append_in_loop",
    "unbounded_input_loop", "unnecessary_string_to_bytes",
    "unnecessary_host_function_call_legacy", "map_insert_in_loop",
    "inefficient_bytes_concat", "contract_call_in_loop">>

DeclaredThen ==
  <<"extend_ttl_in_loop", "formatted_panic_payload", "linear_scan_in_loop",
    "require_auth_in_loop", "signature_verification_in_loop",
    "symbol_key_boundary", "symbol_key_enum_storage",
    "symbol_key_event_topics", "symbol_new_for_short_literal",
    "unbounded_recursion", "unwrap_on_storage_get",
    "vec_where_slice_could_be_used", "soroban_inefficient_bytes_concat",
    "u128_where_u64_suffices">>

\* Declared at the end of the file, after the list of registrations.
DeclaredLast == <<"collection_len_in_loop_condition">>

Declared == DeclaredFirst \o DeclaredThen \o DeclaredLast

register_lints == DeclaredFirst \o DeclaredThen

LevelOf(name) == IF name = "soroban_storage_in_loop" THEN "Deny" ELSE "Warn"

\* rustc_lint::declare_lint! { and its fields, one in a line; the last one has
\* doc comments.
BlockOf(name) ==
  <<Line("open", "")>> \o
  (IF name \in ToSet(DeclaredLast) THEN [i \in 1 .. 3 |-> Line("comment", "//")]
   ELSE <<>>) \o
  <<Line("pubName", name), Line("level", LevelOf(name)), Line("text", name),
    Line("close", "")>>

\* The table of metadata by category.  Its type is LintMeta and all entries but
\* the last have names, so neither parser reads any of it.
StorageLints ==
  <<"soroban_storage_in_loop", "soroban_redundant_storage_read",
    "storage_write_without_read", "instance_storage_for_unbounded_data",
    "persistent_read_without_ttl_extension", "loop_invariant_storage_access",
    "storage_key_construction_in_loop", "extend_ttl_in_loop",
    "symbol_key_boundary", "symbol_key_enum_storage",
    "symbol_key_event_topics", "unwrap_on_storage_get">>

HostLints ==
  <<"redundant_env_clone", "unnecessary_host_function_call",
    "contract_call_in_loop">>

MemoryLints ==
  <<"bytes_append_in_loop", "map_insert_in_loop", "inefficient_bytes_concat",
    "vec_where_slice_could_be_used", "soroban_inefficient_bytes_concat">>

ComputeLints ==
  <<"unbounded_input_loop", "formatted_panic_payload", "linear_scan_in_loop",
    "symbol_new_for_short_literal", "unbounded_recursion",
    "u128_where_u64_suffices">>

SecurityLints ==
  <<"require_auth_in_loop", "signature_verification_in_loop">>

Entries(names, category) ==
  [i \in DOMAIN names |-> [lint |-> names[i], category |-> category]]

LINT_METADATA ==
  Entries(StorageLints, "Storage") \o Entries(HostLints, "Host") \o
  Entries(MemoryLints, "Memory") \o Entries(ComputeLints, "Compute") \o
  Entries(SecurityLints, "Security") \o
  Entries(<<"persistent_storage_for_ephemeral_data">>, "EntryLifecycle")

LibSource ==
  [declares   |-> [i \in DOMAIN Declared |->
                     [name        |-> Declared[i],
                      level       |-> LevelOf(Declared[i]),
                      description |-> <<Declared[i]>>]],
   text       |-> FlattenSeq([i \in DOMAIN Declared |-> BlockOf(Declared[i])]),
   registered |-> [i \in DOMAIN register_lints |-> <<register_lints[i]>>],
   typed      |-> FALSE,
   metadata   |-> LINT_METADATA]

\* The pages in docs/lints.
Pages ==
  {"blind_storage_write", "bytes_append_in_loop", "bytes_slice_copy_in_loop",
   "collection_len_in_loop_condition", "contract_call_in_loop",
   "cross_contract_result_discarded", "crypto_hash_of_constant",
   "excessive_vec_capacity", "extend_ttl_in_loop", "formatted_panic_payload",
   "host_in_loop", "inefficient_bytes_concat",
   "instance_storage_for_unbounded_data", "linear_scan_in_loop",
   "loop_invariant_storage_access", "map_insert_in_loop",
   "nested_loop_storage_access", "persistent_read_without_ttl_extension",
   "persistent_storage_for_ephemeral_data", "redundant_env_clone",
   "redundant_val_conversion", "require_auth_in_loop",
   "signature_verification_in_loop", "soroban_inefficient_bytes_concat",
   "soroban_redundant_storage_read", "soroban_storage_in_loop",
   "std_collection_in_contract", "storage_key_construction_in_loop",
   "storage_write_without_read", "string_concat_in_loop",
   "symbol_new_for_short_literal", "temporary_storage_for_persistent_data",
   "token_transfer_in_loop", "unbounded_input_loop", "unbounded_recursion",
   "unnecessary_host_function_call", "unnecessary_string_to_bytes",
   "unwrap_on_storage_get", "val_conversion_chain", "vec_index_in_loop",
   "vec_where_slice_could_be_used"}

LibWorlds ==
  {[src |-> LibSource, pages |-> Pages, channel |-> "nightly",
    docs |-> [f \in ToSet(Documents) |-> Missing],
    left |-> [edits |-> 0, starts |-> 1, loads |-> 0]]}

\* "Cross-check: every declare_lint! must also appear in register_lints"
\* (build.rs 312) holds of this lib.rs: the build gets past its cross-check.
CrossCheckPasses == [][BuildParses => bpc' = "parsed"]_vars
=============================================================================
