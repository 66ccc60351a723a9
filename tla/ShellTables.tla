----------------------------- MODULE ShellTables -----------------------------
(* The tables of variables and of aliases of src/ui/shell.c: sequences of  *)
(* entries, searched from the first one on.  Names and values are texts.   *)
EXTENDS Naturals, Sequences, SequencesExt

CONSTANTS
    MaxVars,    \* SHELL_MAX_VARS
    MaxAliases  \* SHELL_MAX_ALIASES

ASSUME TablesAssumption == MaxVars \in Nat /\ MaxAliases \in Nat

(* The index of the first entry of that name, or 0. *)
Find(table, name) == SelectInSeq(table, LAMBDA e : e.name = name)

(* Mutant: the name is not looked up first. *)
SetAppends(table, name, value) ==
    IF Len(table) < MaxVars
    THEN Append(table, [name |-> name, value |-> value, exported |-> FALSE])
    ELSE table

(* shell_set_variable: a new name is dropped when the table is full. *)
shell_set_variable(table, name, value) ==
    LET i == Find(table, name)
    IN IF i > 0 THEN [table EXCEPT ![i].value = value]
       ELSE IF Len(table) < MaxVars
       THEN Append(table, [name |-> name, value |-> value, exported |-> FALSE])
       ELSE table

shell_get_variable(table, name) ==
    LET i == Find(table, name) IN IF i > 0 THEN table[i].value ELSE <<>>

shell_export_variable(table, name) ==
    LET i == Find(table, name) IN IF i > 0 THEN [table EXCEPT ![i].exported = TRUE] ELSE table

(* The loops of builtin_unset and builtin_unalias: the first entry of the  *)
(* name is removed and the others move up.                                 *)
Without(table, name) ==
    LET i == Find(table, name) IN IF i > 0 THEN RemoveAt(table, i) ELSE table

(* shell_add_alias and builtin_alias: a name may be entered twice. *)
shell_add_alias(table, name, value) ==
    IF Len(table) < MaxAliases THEN Append(table, [name |-> name, value |-> value]) ELSE table

shell_resolve_alias(table, name) ==
    LET i == Find(table, name) IN IF i > 0 THEN table[i].value ELSE name
=============================================================================
