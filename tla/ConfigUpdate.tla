---------------------------- MODULE ConfigUpdate ----------------------------
(***************************************************************************)
(* What example_delta_alter_configs promises: each resource is updated at  *)
(* most once, atomically, in its supplied entries and in those that others *)
(* contended for meanwhile; a success that is announced has happened; and  *)
(* the wait ends when every resource's outcome is known.                   *)
(***************************************************************************)
CONSTANTS Resources, ConfigKeys, ConfigValues, Default, Supplied

VARIABLES
  configs,     \* the configuration of each resource
  contended,   \* entries that others wrote while they were being updated
  updated,     \* resources that were updated
  outcome,     \* what is known about each: "open", "success", "failure"
  returned     \* the wait has ended

vars == <<configs, contended, updated, outcome, returned>>

Configs == [ConfigKeys -> ConfigValues \cup {Default}]

Init ==
  /\ configs \in [Resources -> Configs]
  /\ contended = {}
  /\ updated = {}
  /\ outcome = [r \in Resources |-> "open"]
  /\ returned = FALSE

Update(r) ==
  /\ r \notin updated
  /\ updated' = updated \cup {r}
  /\ \E config \in Configs :
       /\ \A k \in ConfigKeys :
            IF k \in DOMAIN Supplied[r]
              THEN config[k] = Supplied[r][k]
              ELSE config[k] = configs[r][k] \/ <<r, k>> \in contended
       /\ configs' = [configs EXCEPT ![r] = config]
  /\ UNCHANGED <<contended, outcome, returned>>

(* An update whose outcome is a failure may still happen, even later. *)
Learn(r, result) ==
  /\ outcome[r] = "open"
  /\ result = "success" => r \in updated
  /\ outcome' = [outcome EXCEPT ![r] = result]
  /\ UNCHANGED <<configs, contended, updated, returned>>

Return ==
  /\ \A r \in Resources : outcome[r] # "open"
  /\ returned' = TRUE
  /\ UNCHANGED <<configs, contended, updated, outcome>>

OtherWrites(r, k, value) ==
  /\ configs' = [configs EXCEPT ![r][k] = value]
  /\ contended' \in {contended, contended \cup {<<r, k>>}}
  /\ UNCHANGED <<updated, outcome, returned>>

Next ==
  \/ \E r \in Resources :
       \/ Update(r)
       \/ \E result \in {"success", "failure"} : Learn(r, result)
       \/ \E k \in ConfigKeys, value \in ConfigValues \cup {Default} :
            OtherWrites(r, k, value)
  \/ Return

=============================================================================
