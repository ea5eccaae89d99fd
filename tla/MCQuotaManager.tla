--------------------------- MODULE MCQuotaManager ---------------------------
(* The quota manager with the default entity and a user; definitions that  *)
(* drop an entry, a field, and change a rate.                              *)
EXTENDS QuotaManager

Entry(p, c, r) ==
  [k \in FieldNames |-> CASE k = Fields[1] -> p
                          [] k = Fields[2] -> c
                          [] k = Fields[3] -> r]

SomeDefinitions ==
  { [p \in {"global"} |-> Entry(1, 1, Null)],
    [p \in {"global", "app"} |->
       IF p = "app" THEN Entry(2, Null, 2) ELSE Entry(2, 1, Null)],
    [p \in {"global", "app"} |->
       IF p = "app" THEN Entry(Null, Null, Null) ELSE Entry(Null, 2, 1)],
    [p \in {"app"} |-> Entry(1, Null, 1)] }
=============================================================================
