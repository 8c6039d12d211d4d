-------------------------------- MODULE Builder --------------------------------
(***************************************************************************)
(* CreateRequestBuilder (src/src/runner.rs).  A request under construction *)
(* is a function on the fields that have been given: an Option that is     *)
(* None is not in its domain.                                              *)
(***************************************************************************)
EXTENDS Sequences

new == << >>

\* set_*: the last call counts.
Set(config, field, v) ==
  [f \in DOMAIN config \cup {field} |-> IF f = field THEN v ELSE config[f]]

\* What a reader of the request makes of a list that was not given.
ListOf(config, field) == IF field \in DOMAIN config THEN config[field] ELSE << >>

\* push_mount, push_namespace, ...: the first call makes the list.
Push(config, field, v) == Set(config, field, Append(ListOf(config, field), v))

\* push_resource_limit, push_environment: one value per key, the last; the
\* first call makes the map.
Insert(config, field, key, v) ==
  Set(config, field, Set(IF field \in DOMAIN config THEN config[field] ELSE new, key, v))

\* Mutated: every call starts from Capabilities::default().
AddToNewCapList(config, list, name) ==
  Set(config, "capabilities", Push(new, list, name))

\* push_raise_capability and its like: add_to_cap_list, on the capabilities
\* inside the request.
AddToCapList(config, list, name) ==
  LET caps == IF "capabilities" \in DOMAIN config THEN config.capabilities ELSE new IN
  Set(config, "capabilities", Push(caps, list, name))
=============================================================================
