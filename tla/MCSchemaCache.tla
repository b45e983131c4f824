----------------------------- MODULE MCSchemaCache -----------------------------
(* Small instances of SchemaCache: two tasks at a time on two tables that  *)
(* come and go, or on one table that also changes its form.                *)
EXTENDS SchemaCache, TLC

CONSTANTS t1, t2, w1, w2, v1, v2

MCTables == {t1, t2}
MCTasks == {w1, w2}
MCForms == {v1, v2}

(* Tables, tasks and forms are interchangeable; used for safety only. *)
MCSymmetry ==
    Permutations(Tables) \cup Permutations(Tasks) \cup Permutations(Forms)
=============================================================================
