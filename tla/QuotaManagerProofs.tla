------------------------- MODULE QuotaManagerProofs -------------------------
(***************************************************************************)
(* For any principals and definitions, and any number of changes, crashes, *)
(* failed commands and runs: the script carries nothing from one principal *)
(* to another or from one run to the next.                                 *)
(*                                                                         *)
(* The invariant follows one principal through the loop: while the         *)
(* definition does not change, what has been read is its entry so far,     *)
(* what is written is the whole entry, and who is neither waiting, in      *)
(* hand nor failed has been set.                                           *)
(***************************************************************************)
EXTENDS QuotaManager, TLAPS

InHand == IF pc \in {"read", "alter"} THEN {principal} ELSE {}

(* A value was once defined for that principal and that field. *)
WasDefined(p, k, value) ==
  value # Null => \E d \in published : p \in DOMAIN d /\ d[p][k] = value

(* Where rate and config_string come from, also when the definition has    *)
(* changed since.                                                          *)
Provenance ==
  /\ definition \in published
  /\ \A p \in Principals, k \in FieldNames : WasDefined(p, k, quotas[p][k])
  /\ pc = "read" => \A i \in 1..field :
                      WasDefined(principal, Fields[i], rate[Fields[i]])
  /\ pc = "alter" => \A k \in FieldNames :
                       WasDefined(principal, k, config_string[k])

IsSet(p) == \A k \in FieldNames :
              definition[p][k] # Null => quotas[p][k] = definition[p][k]

(* The loop, as long as the definition stays as it was listed. *)
Undisturbed ==
  ~changed =>
    /\ pc # "keys" => todo \cup InHand \subseteq DOMAIN definition
    /\ pc = "read" => \A i \in 1..field :
                        rate[Fields[i]] = definition[principal][Fields[i]]
    /\ pc = "alter" => \A k \in FieldNames :
                         config_string[k] = definition[principal][k]
    /\ pc # "keys" => \A p \in DOMAIN definition :
                        p \in todo \cup InHand \cup failed \/ IsSet(p)

QInv ==
  /\ TypeOK
  /\ pc = "complete" => todo = {}
  /\ Provenance
  /\ Undisturbed

-----------------------------------------------------------------------------
LEMMA DefinitionTypes ==
  ASSUME NEW d \in Definitions, NEW p \in DOMAIN d
  PROVE  p \in Principals /\ d[p] \in Entries
BY QuotaAssumption

LEMMA NullIsNoRate == Null \notin Rates /\ Nothing \in Entries
BY QuotaAssumption DEF Nothing, Entries

LEMMA FieldsAreNames ==
  /\ \A i \in 1..3 : Fields[i] \in FieldNames
  /\ \A k \in FieldNames : \E i \in 1..3 : k = Fields[i]
BY DEF FieldNames

LEMMA OverTypes ==
  ASSUME NEW base \in Entries, NEW e \in Entries
  PROVE  /\ Over(base, e) \in Entries
         /\ \A k \in FieldNames :
              Over(base, e)[k] = IF e[k] = Null THEN base[k] ELSE e[k]
BY DEF Over, Entries

LEMMA YqTypes ==
  ASSUME definition \in Definitions, NEW p, NEW k \in FieldNames
  PROVE  /\ Yq(p, k) \in Rates \cup {Null}
         /\ p \in DOMAIN definition => Yq(p, k) = definition[p][k]
         /\ Yq(p, k) # Null => p \in DOMAIN definition
BY DefinitionTypes DEF Yq, Entries

LEMMA InitInv == Init => QInv
<1> SUFFICES ASSUME Init PROVE QInv
  OBVIOUS
<1>1. TypeOK
  <2>1. principal \in Principals
    BY QuotaAssumption DEF Init
  <2>2. 0 \in 0..MaxUpdates /\ 0 \in 0..MaxCrashes /\ 0 \in 0..MaxFailures
        /\ 1 \in 0..MaxRuns
    BY QuotaAssumption
  <2>3. quotas \in [Principals -> Entries] /\ rate \in Entries
        /\ config_string \in Entries
    BY NullIsNoRate DEF Init
  <2>4. /\ definition \in Definitions /\ published \subseteq Definitions
        /\ todo \subseteq Principals /\ failed \subseteq Principals
        /\ pc \in {"keys", "next", "read", "alter", "complete"}
        /\ changed \in BOOLEAN
    BY Zenon DEF Init
  <2>5. /\ updates \in 0..MaxUpdates /\ crashes \in 0..MaxCrashes
        /\ failures \in 0..MaxFailures /\ runs \in 0..MaxRuns /\ field \in 0..3
    BY <2>2 DEF Init
  <2> QED
    BY <2>1, <2>3, <2>4, <2>5 DEF TypeOK
<1>2. Provenance
  BY DEF Init, Provenance, WasDefined, Nothing
<1> QED
  BY <1>1, <1>2 DEF Init, QInv, Undisturbed

LEMMA KeysKeepsInv == QInv /\ Keys => QInv'
<1> SUFFICES ASSUME QInv, Keys PROVE QInv'
  OBVIOUS
<1>1. DOMAIN definition \subseteq Principals
  BY DefinitionTypes DEF QInv, TypeOK
<1>2. TypeOK'
  BY <1>1 DEF QInv, TypeOK, Keys, counters, history
<1>3. Provenance'
  BY DEF QInv, Provenance, WasDefined, Keys, counters, history
<1>4. Undisturbed'
  BY DEF QInv, Undisturbed, Keys, counters, history, InHand
<1> QED
  BY <1>2, <1>3, <1>4 DEF QInv, Keys

LEMMA NextPrincipalKeepsInv ==
  ASSUME QInv, NEW p \in Principals, NextPrincipal(p)
  PROVE  QInv'
<1>1. TypeOK'
  BY DEF QInv, TypeOK, NextPrincipal, counters, history
<1>2. Provenance'
  BY DEF QInv, Provenance, WasDefined, NextPrincipal, counters, history
<1>3. Undisturbed'
  BY DEF QInv, Undisturbed, NextPrincipal, counters, history, InHand, IsSet
<1> QED
  BY <1>1, <1>2, <1>3 DEF QInv, NextPrincipal

LEMMA ReadFieldKeepsInv == QInv /\ ReadField => QInv'
<1> SUFFICES ASSUME QInv, ReadField PROVE QInv'
  OBVIOUS
<1> DEFINE k == Fields[field + 1]
<1>1. /\ field \in 0..2 /\ field' = field + 1
      /\ pc = "read" /\ pc' = "read"
      /\ rate' = [rate EXCEPT ![k] = Yq(principal, k)]
      /\ UNCHANGED <<definition, quotas, todo, principal, config_string,
                     counters, history>>
  BY DEF ReadField, QInv, TypeOK
<1>2. k \in FieldNames
  BY <1>1, FieldsAreNames
<1>3. rate \in Entries
  BY DEF QInv, TypeOK
<1>4. Yq(principal, k) \in Rates \cup {Null}
  BY <1>2, YqTypes DEF QInv, TypeOK
<1>5. /\ rate' \in Entries
      /\ rate'[k] = Yq(principal, k)
      /\ \A j \in FieldNames \ {k} : rate'[j] = rate[j]
  BY <1>1, <1>2, <1>3, <1>4 DEF Entries
<1>6. \A i \in 1..field' : i \in 1..3 /\ (i \in 1..field \/ i = field + 1)
  BY <1>1
<1> HIDE DEF k
<1>7. TypeOK'
  BY <1>1, <1>5 DEF QInv, TypeOK, counters, history
<1>8. Provenance'
  <2>1. WasDefined(principal, k, Yq(principal, k))
    BY <1>2, YqTypes DEF QInv, TypeOK, Provenance, WasDefined
  <2>2. \A i \in 1..field' : WasDefined(principal, Fields[i], rate'[Fields[i]])
    BY <1>1, <1>5, <1>6, <2>1, FieldsAreNames DEF QInv, Provenance, k
  <2> QED
    BY <1>1, <2>2 DEF QInv, Provenance, WasDefined, history
<1>9. Undisturbed'
  <2> SUFFICES ASSUME ~changed PROVE Undisturbed'
    BY <1>1 DEF Undisturbed, history
  <2>1. principal \in DOMAIN definition
    BY <1>1 DEF QInv, Undisturbed, InHand
  <2>2. Yq(principal, k) = definition[principal][k]
    BY <1>2, <2>1, YqTypes DEF QInv, TypeOK
  <2>3. \A i \in 1..field' : rate'[Fields[i]] = definition[principal][Fields[i]]
    BY <1>1, <1>5, <1>6, <2>2, FieldsAreNames DEF QInv, Undisturbed, k
  <2> QED
    BY <1>1, <2>3 DEF QInv, Undisturbed, InHand, IsSet, history
<1> QED
  BY <1>1, <1>7, <1>8, <1>9 DEF QInv

LEMMA BuildConfigKeepsInv == QInv /\ BuildConfig => QInv'
<1> SUFFICES ASSUME QInv, BuildConfig PROVE QInv'
  OBVIOUS
<1>1. /\ field = 3 /\ pc = "read" /\ pc' = "alter"
      /\ config_string' = Over(Nothing, rate)
      /\ UNCHANGED <<definition, quotas, todo, principal, field, rate,
                     counters, history>>
  BY DEF BuildConfig
<1>2. /\ config_string' \in Entries
      /\ \A k \in FieldNames : config_string'[k] = rate[k]
  BY <1>1, OverTypes, NullIsNoRate DEF QInv, TypeOK, Nothing
<1>3. TypeOK'
  BY <1>1, <1>2 DEF QInv, TypeOK, counters, history
<1>4. Provenance'
  BY <1>1, <1>2, FieldsAreNames DEF QInv, Provenance, WasDefined, history
<1>5. Undisturbed'
  BY <1>1, <1>2, FieldsAreNames
     DEF QInv, Undisturbed, InHand, IsSet, history
<1> QED
  BY <1>1, <1>3, <1>4, <1>5 DEF QInv

(* The command, done at the brokers.                                       *)
Done == quotas' = [quotas EXCEPT ![principal] = Over(@, config_string)]

LEMMA DoneSets ==
  ASSUME QInv, pc = "alter", Done
  PROVE  /\ quotas' \in [Principals -> Entries]
         /\ quotas'[principal] = Over(quotas[principal], config_string)
         /\ \A k \in FieldNames :
              quotas'[principal][k] = IF config_string[k] = Null
                                        THEN quotas[principal][k]
                                        ELSE config_string[k]
         /\ \A p \in Principals \ {principal} : quotas'[p] = quotas[p]
<1>1. /\ quotas \in [Principals -> Entries] /\ principal \in Principals
      /\ config_string \in Entries
  BY DEF QInv, TypeOK
<1>2. quotas[principal] \in Entries
  BY <1>1
<1> QED
  BY <1>1, <1>2, OverTypes DEF Done

(* Whether the command fails or not, and is done or not. *)
CommandEnds ==
  /\ pc = "alter" /\ pc' = "next"
  /\ \/ Done /\ failed' \in {failed, failed \cup {principal}}
     \/ UNCHANGED quotas /\ failed' = failed \cup {principal}
  /\ failures' \in 0..MaxFailures
  /\ UNCHANGED <<definition, todo, principal, field, rate, config_string,
                 updates, crashes, runs, published, changed>>

LEMMA CommandKeepsInv == QInv /\ CommandEnds => QInv'
<1> SUFFICES ASSUME QInv, CommandEnds PROVE QInv'
  OBVIOUS
<1> USE DEF CommandEnds
<1>1. TypeOK'
  BY DoneSets DEF QInv, TypeOK
<1>2. Provenance'
  <2>1. CASE UNCHANGED quotas
    BY <2>1 DEF QInv, Provenance, WasDefined
  <2>2. CASE Done
    <3> SUFFICES ASSUME NEW p \in Principals, NEW k \in FieldNames
                 PROVE  WasDefined(p, k, quotas'[p][k])
      BY DEF QInv, Provenance, WasDefined
    <3>1. /\ WasDefined(p, k, quotas[p][k])
          /\ WasDefined(principal, k, config_string[k])
      BY DEF QInv, Provenance
    <3> QED
      BY <2>2, <3>1, DoneSets
  <2> QED
    BY <2>1, <2>2
<1>3. Undisturbed'
  <2> SUFFICES ASSUME ~changed, NEW p \in DOMAIN definition,
                      p \notin todo \cup failed'
               PROVE  IsSet(p)'
    BY DEF QInv, Undisturbed, InHand
  <2>1. p \in Principals
    BY DefinitionTypes DEF QInv, TypeOK
  <2>2. CASE p = principal
    <3>1. Done
      BY <2>2
    <3> QED
      BY <2>2, <3>1, DoneSets DEF QInv, Undisturbed, IsSet
  <2>3. CASE p # principal
    <3>1. IsSet(p)
      BY <2>3 DEF QInv, Undisturbed, InHand
    <3>2. quotas'[p] = quotas[p]
      BY <2>1, <2>3, DoneSets
    <3> QED
      BY <3>1, <3>2 DEF IsSet
  <2> QED
    BY <2>2, <2>3
<1> QED
  BY <1>1, <1>2, <1>3 DEF QInv

LEMMA AlterKeepsInv == QInv /\ (Alter \/ AlterFails) => QInv'
<1>1. ASSUME QInv, Alter PROVE CommandEnds
  <2>1. failures' \in 0..MaxFailures
    BY <1>1 DEF Alter, counters, QInv, TypeOK
  <2> QED
    BY <1>1, <2>1 DEF Alter, CommandEnds, Done, counters, history
<1>2. ASSUME QInv, AlterFails PROVE CommandEnds
  <2>1. failures' \in 0..MaxFailures
    BY <1>2, QuotaAssumption DEF AlterFails, QInv, TypeOK
  <2> QED
    BY <1>2, <2>1 DEF AlterFails, CommandEnds, Done
<1> QED
  BY <1>1, <1>2, CommandKeepsInv

LEMMA ExitKeepsInv == QInv /\ Exit => QInv'
<1> SUFFICES ASSUME QInv, Exit PROVE QInv'
  OBVIOUS
<1>1. TypeOK'
  BY DEF QInv, TypeOK, Exit, counters, history
<1>2. Provenance'
  BY DEF QInv, Provenance, WasDefined, Exit, counters, history
<1>3. Undisturbed'
  BY DEF QInv, Undisturbed, InHand, IsSet, Exit, counters, history
<1> QED
  BY <1>1, <1>2, <1>3 DEF QInv, Exit

(* A run begins with nothing that an earlier one left in the script. *)
LEMMA BeginKeepsInv ==
  ASSUME QInv, Begin, crashes' \in 0..MaxCrashes, runs' \in 0..MaxRuns
  PROVE  QInv'
<1>1. TypeOK'
  BY NullIsNoRate DEF QInv, TypeOK, Begin
<1>2. Provenance'
  BY DEF QInv, Provenance, WasDefined, Begin
<1> QED
  BY <1>1, <1>2 DEF QInv, Undisturbed, Begin

LEMMA UpdateKeepsInv ==
  ASSUME QInv, NEW d \in Definitions, UpdateDefinition(d)
  PROVE  QInv'
<1>1. TypeOK'
  BY QuotaAssumption DEF QInv, TypeOK, UpdateDefinition, script
<1>2. Provenance'
  BY DEF QInv, Provenance, WasDefined, UpdateDefinition, script
<1> QED
  BY <1>1, <1>2 DEF QInv, Undisturbed, UpdateDefinition, script

LEMMA NextKeepsInv == QInv /\ [Next]_vars => QInv'
<1> SUFFICES ASSUME QInv, [Next]_vars PROVE QInv'
  OBVIOUS
<1>1. CASE ScriptStep
  BY <1>1, KeysKeepsInv, NextPrincipalKeepsInv, ReadFieldKeepsInv,
     BuildConfigKeepsInv, AlterKeepsInv, ExitKeepsInv DEF ScriptStep
<1>2. CASE Crash \/ RunAgain
  BY <1>2, BeginKeepsInv, QuotaAssumption DEF Crash, RunAgain, QInv, TypeOK
<1>3. CASE \E d \in Definitions \ {definition} : UpdateDefinition(d)
  BY <1>3, UpdateKeepsInv
<1>4. CASE UNCHANGED vars
  BY <1>4 DEF QInv, TypeOK, Provenance, WasDefined, Undisturbed, InHand,
              IsSet, vars, script, counters, history
<1> QED
  BY <1>1, <1>2, <1>3, <1>4 DEF Next

-----------------------------------------------------------------------------
(* The invariant of the loop: an entry is read, written and ticked off as  *)
(* a whole as long as the definition does not change.                      *)
THEOREM InvariantHolds == Spec => []QInv
BY InitInv, NextKeepsInv, PTL DEF Spec

(* The variables of the script and the quotas keep their types.            *)
THEOREM TypeCorrect == Spec => []TypeOK
<1>1. QInv => TypeOK
  BY DEF QInv
<1> QED
  BY <1>1, InvariantHolds, PTL

(* No user is given what the definition never said of that user: the       *)
(* variables of the loop are assigned anew for every principal.            *)
THEOREM QuotasComeFromDefinitions == Spec => []QuotasWereDefined
<1>1. QInv => QuotasWereDefined
  BY DEF QInv, Provenance, WasDefined, QuotasWereDefined
<1> QED
  BY <1>1, InvariantHolds, PTL

(* A run that completes without a changed definition has applied the       *)
(* definition to every user whose command did not fail, whatever came      *)
(* before it and whatever failed in it.                                    *)
THEOREM CompletionMeansApplied == Spec => []CompletedRunApplies
<1>1. QInv => CompletedRunApplies
  <2> SUFFICES ASSUME QInv, pc = "complete", ~changed,
                      NEW p \in DOMAIN definition \ failed
               PROVE  quotas[p] = Over(quotas[p], definition[p])
    BY DEF CompletedRunApplies
  <2>1. IsSet(p)
    BY DEF QInv, Undisturbed, InHand
  <2>2. p \in Principals /\ definition[p] \in Entries
    BY DefinitionTypes DEF QInv, TypeOK
  <2>3. quotas[p] \in Entries
    BY <2>2 DEF QInv, TypeOK
  <2> QED
    BY <2>1, <2>2, <2>3 DEF IsSet, Over, Entries
<1> QED
  BY <1>1, InvariantHolds, PTL

(* The brokers never hold a part of an entry, as long as the definition    *)
(* does not change while the script reads it.                              *)
THEOREM EntriesAreSetAsAWhole == Spec => EntriesAreWhole
<1> DEFINE Whole == \A p \in Principals : quotas'[p] # quotas[p] /\ ~changed =>
                      /\ p \in DOMAIN definition
                      /\ quotas'[p] = Over(quotas[p], definition[p])
<1>1. ASSUME QInv, [Next]_vars PROVE Whole
  <2> SUFFICES ASSUME NEW p \in Principals, quotas'[p] # quotas[p], ~changed
               PROVE  /\ p \in DOMAIN definition
                      /\ quotas'[p] = Over(quotas[p], definition[p])
    OBVIOUS
  <2>1. pc = "alter" /\ Done
    BY <1>1 DEF Next, ScriptStep, Keys, NextPrincipal, ReadField, BuildConfig,
                Alter, AlterFails, Exit, Crash, RunAgain, Begin,
                UpdateDefinition, vars, script, Done
  <2>2. p = principal /\ quotas'[p] = Over(quotas[p], config_string)
    BY <1>1, <2>1, DoneSets
  <2>3. p \in DOMAIN definition
    BY <1>1, <2>1, <2>2 DEF QInv, Undisturbed, InHand
  <2>4. \A k \in FieldNames : config_string[k] = definition[p][k]
    BY <1>1, <2>1, <2>2 DEF QInv, Undisturbed
  <2>5. Over(quotas[p], config_string) = Over(quotas[p], definition[p])
    BY <2>4 DEF Over
  <2> QED
    BY <2>2, <2>3, <2>5
<1> QED
  BY <1>1, InvariantHolds, PTL DEF Spec, EntriesAreWhole
=============================================================================
