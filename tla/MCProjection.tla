----------------------------- MODULE MCProjection -----------------------------
(* All contracts: 26 one-row families, 16 objects that land in item rows and *)
(* every object inside a JSON column, each with every document that has at   *)
(* most one member missing, null or empty, and the sparsest one.             *)
EXTENDS Projection

(* Everything there, one member missing, null or without entries, or nothing *)
(* there but what the contract requires.                                     *)
OneMissing(object) ==
    LET full == [m \in Members(object) |-> "given"]
    IN  {full}
        \cup {[full EXCEPT ![m] = v] : m \in Members(object), v \in {"absent", "null", "empty"}}
        \cup {[m \in Members(object) |-> IF isRequired(object, m) THEN "given" ELSE "absent"]}

ASSUME ProjectorsCompile ==
    \A s \in Sites : {s.row[c].member : c \in DOMAIN s.row} \subseteq emitStruct(s.object)

ASSUME UpsertsCompile == \A s \in Sites : DOMAIN s.row \subseteq s.table.columns
================================================================================
