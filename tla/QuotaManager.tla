---------------------------- MODULE QuotaManager ----------------------------
(***************************************************************************)
(* The quota manager (incubator/quotas/quota-manager): a Job whose script  *)
(* sets client quotas at the brokers from a definition that it reads, one  *)
(* field at a time, from a mounted ConfigMap.  The ConfigMap keeps its     *)
(* name when it is changed, so a change reaches a script that is running.  *)
(***************************************************************************)
EXTENDS Integers, Sequences

CONSTANTS
  Principals,    \* global, for the default entity, and user names
  Rates, Null,   \* values of a field; Null: the field is not there
  Definitions,   \* what quotas.yaml may say
  MaxUpdates,    \* bounds: changes of the definition,
  MaxCrashes,    \*   containers that end early (below the Job's limit of 6),
  MaxFailures,   \*   commands that fail,
  MaxRuns        \*   and how often the Job is run

Fields == <<"producer_byte_rate", "consumer_byte_rate", "request_percentage">>

FieldNames == {Fields[i] : i \in 1..3}

Entries == [FieldNames -> Rates \cup {Null}]

ASSUME QuotaAssumption ==
  /\ Principals # {}
  /\ Null \notin Rates
  /\ \A d \in Definitions : \E P \in SUBSET Principals : d \in [P -> Entries]
  /\ {MaxUpdates, MaxCrashes, MaxFailures} \subseteq Nat
  /\ MaxRuns \in Nat \ {0}

VARIABLES
  definition,            \* the mounted quotas.yaml
  quotas,                \* the quotas at the brokers
  pc, todo, principal,   \* the script's loop
  field,                 \* how many fields it has read,
  rate,                  \*   and its variables for them
  config_string,
  updates, crashes, failures, runs,
  published,             \* history: every definition there has been
  changed,               \* history: it has changed during this run,
  failed                 \*   and for whom a command has failed in it

script == <<pc, todo, principal, field, rate, config_string>>
counters == <<updates, crashes, failures, runs>>
history == <<published, changed, failed>>
vars == <<definition, quotas, script, counters, history>>

Nothing == [k \in FieldNames |-> Null]

Init ==
  /\ definition \in Definitions
  /\ quotas = [p \in Principals |-> Nothing]
  /\ pc = "keys" /\ todo = {} /\ field = 0
  /\ principal = CHOOSE p \in Principals : TRUE
  /\ rate = Nothing /\ config_string = Nothing
  /\ updates = 0 /\ crashes = 0 /\ failures = 0 /\ runs = 1
  /\ published = {definition} /\ changed = FALSE /\ failed = {}

(* What yq answers now, null if there is no such entry any more. *)
Yq(p, k) == IF p \in DOMAIN definition THEN definition[p][k] ELSE Null

(* The entries of e, and those of base where e has none. *)
Over(base, e) == [k \in FieldNames |-> IF e[k] = Null THEN base[k] ELSE e[k]]

(* Mutant: the dashes of the list that yq prints are not skipped. *)
Keys_WithDashes ==
  /\ pc = "keys"
  /\ pc' = "next"
  /\ todo' = DOMAIN definition \cup {"-"}
  /\ UNCHANGED <<definition, quotas, principal, field, rate, config_string,
                 counters, history>>

Keys ==
  /\ pc = "keys"
  /\ pc' = "next"
  /\ todo' = DOMAIN definition
  /\ UNCHANGED <<definition, quotas, principal, field, rate, config_string,
                 counters, history>>

NextPrincipal(p) ==
  /\ pc = "next"
  /\ p \in todo
  /\ pc' = "read"
  /\ todo' = todo \ {p}
  /\ principal' = p
  /\ field' = 0
  /\ UNCHANGED <<definition, quotas, rate, config_string, counters, history>>

(* Mutant: a field that is null is not assigned. *)
ReadField_KeepsLast ==
  /\ pc = "read"
  /\ field < 3
  /\ field' = field + 1
  /\ LET value == Yq(principal, Fields[field + 1])
     IN  rate' = IF value = Null THEN rate
                 ELSE [rate EXCEPT ![Fields[field + 1]] = value]
  /\ UNCHANGED <<definition, quotas, pc, todo, principal, config_string,
                 counters, history>>

ReadField ==
  /\ pc = "read"
  /\ field < 3
  /\ field' = field + 1
  /\ rate' = [rate EXCEPT ![Fields[field + 1]] =
                Yq(principal, Fields[field + 1])]
  /\ UNCHANGED <<definition, quotas, pc, todo, principal, config_string,
                 counters, history>>

(* Mutant: config_string is not emptied for each principal. *)
BuildConfig_Appends ==
  /\ pc = "read"
  /\ field = 3
  /\ pc' = "alter"
  /\ config_string' = Over(config_string, rate)
  /\ UNCHANGED <<definition, quotas, todo, principal, field, rate, counters,
                 history>>

BuildConfig ==
  /\ pc = "read"
  /\ field = 3
  /\ pc' = "alter"
  /\ config_string' = Over(Nothing, rate)
  /\ UNCHANGED <<definition, quotas, todo, principal, field, rate, counters,
                 history>>

(* kafka-configs --add-config leaves quotas that are not given alone. *)
Alter ==
  /\ pc = "alter"
  /\ config_string # Nothing
  /\ pc' = "next"
  /\ quotas' = [quotas EXCEPT ![principal] = Over(@, config_string)]
  /\ UNCHANGED <<definition, todo, principal, field, rate, config_string,
                 counters, history>>

(* Mutant: a command that fails is tried again. *)
AlterFails_Retried ==
  /\ pc = "alter"
  /\ config_string = Nothing
  /\ failed' = failed \cup {principal}
  /\ UNCHANGED <<definition, quotas, script, counters, published, changed>>

(* The command fails, an empty --add-config always, before or after the    *)
(* brokers did it; the script does not look at its exit status.            *)
AlterFails ==
  /\ pc = "alter"
  /\ pc' = "next"
  /\ failed' = failed \cup {principal}
  /\ IF config_string = Nothing
       THEN UNCHANGED <<quotas, failures>>
       ELSE /\ failures < MaxFailures
            /\ failures' = failures + 1
            /\ quotas' \in {quotas, [quotas EXCEPT ![principal] =
                                       Over(@, config_string)]}
  /\ UNCHANGED <<definition, todo, principal, field, rate, config_string,
                 updates, crashes, runs, published, changed>>

Exit ==
  /\ pc = "next"
  /\ todo = {}
  /\ pc' = "complete"
  /\ UNCHANGED <<definition, quotas, todo, principal, field, rate,
                 config_string, counters, history>>

(* The script begins again: nothing of it outlives its container. *)
Begin ==
  /\ pc' = "keys"
  /\ todo' = {}
  /\ rate' = Nothing
  /\ config_string' = Nothing
  /\ changed' = FALSE
  /\ failed' = {}
  /\ UNCHANGED <<definition, quotas, principal, field, updates, failures,
                 published>>

(* Mutant: what was listed before the crash is gone on with. *)
Crash_Resumes ==
  /\ pc # "complete"
  /\ crashes < MaxCrashes
  /\ crashes' = crashes + 1
  /\ pc' = "next"
  /\ UNCHANGED <<definition, quotas, todo, principal, field, rate,
                 config_string, updates, failures, runs, history>>

(* restartPolicy OnFailure. *)
Crash ==
  /\ pc # "complete"
  /\ crashes < MaxCrashes
  /\ crashes' = crashes + 1
  /\ Begin
  /\ UNCHANGED runs

(* The Job is deleted and created again. *)
RunAgain ==
  /\ pc = "complete"
  /\ runs < MaxRuns
  /\ runs' = runs + 1
  /\ Begin
  /\ UNCHANGED crashes

UpdateDefinition(d) ==
  /\ updates < MaxUpdates
  /\ updates' = updates + 1
  /\ definition' = d
  /\ published' = published \cup {d}
  /\ changed' = TRUE
  /\ UNCHANGED <<quotas, script, crashes, failures, runs, failed>>

ScriptStep ==
  \/ Keys
  \/ \E p \in Principals : NextPrincipal(p)
  \/ ReadField
  \/ BuildConfig
  \/ Alter
  \/ AlterFails
  \/ Exit

Next ==
  \/ ScriptStep
  \/ Crash
  \/ RunAgain
  \/ \E d \in Definitions \ {definition} : UpdateDefinition(d)

Spec == Init /\ [][Next]_vars

(* A container runs until it ends. *)
FairSpec == Spec /\ WF_vars(ScriptStep)

-----------------------------------------------------------------------------
(* Every variable has its type; a quota is set for a principal of the      *)
(* definitions only.                                                       *)
TypeOK ==
  /\ definition \in Definitions
  /\ quotas \in [Principals -> Entries]
  /\ pc \in {"keys", "next", "read", "alter", "complete"}
  /\ todo \subseteq Principals
  /\ principal \in Principals
  /\ field \in 0..3
  /\ rate \in Entries
  /\ config_string \in Entries
  /\ updates \in 0..MaxUpdates
  /\ crashes \in 0..MaxCrashes
  /\ failures \in 0..MaxFailures
  /\ runs \in 0..MaxRuns
  /\ published \subseteq Definitions
  /\ changed \in BOOLEAN
  /\ failed \subseteq Principals

(* A run that completes while the definition stays as it is has set every  *)
(* quota of the definition, whatever earlier runs, crashes and definitions *)
(* left behind; a command that fails costs only its own user the quotas.   *)
CompletedRunApplies ==
  pc = "complete" /\ ~changed =>
    \A p \in DOMAIN definition \ failed :
      quotas[p] = Over(quotas[p], definition[p])

(* A quota at the brokers was defined for that principal and that field:   *)
(* the variables of the script never carry one user's rates to another.    *)
QuotasWereDefined ==
  \A p \in Principals, k \in FieldNames :
    quotas[p][k] # Null =>
      \E d \in published : p \in DOMAIN d /\ d[p][k] = quotas[p][k]

(* Unless the definition changes under the script, the quotas of a         *)
(* principal go from one whole entry to another, never to a part of one.   *)
EntriesAreWhole ==
  [][\A p \in Principals : quotas'[p] # quotas[p] /\ ~changed =>
       /\ p \in DOMAIN definition
       /\ quotas'[p] = Over(quotas[p], definition[p])]_vars

(* The Job completes, crashes and failed commands notwithstanding.         *)
JobCompletes == []<>(pc = "complete")
=============================================================================
