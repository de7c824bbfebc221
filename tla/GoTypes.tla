-------------------------------- MODULE GoTypes --------------------------------
(****************************************************************************)
(* The Go types of the contracts, by the rules that generate them           *)
(* (go/internal/generate/types.go), and what encoding/json does with them:  *)
(* a document is a function from members to "given", "empty" (a list or map *)
(* without entries), "null" or "absent", a Go value one from fields to      *)
(* "given", "empty", "nil" or "zero".  "zero" stands for a value nobody     *)
(* wrote: the zero value a plain field keeps when its member is not there.  *)
(* Which members are lists or maps is not told: any may be "empty".         *)
(****************************************************************************)

\* What a producer wrote for a member, when it wrote a value.
Written == {"given", "empty"}

isRequired(object, name) == name \in object.required

\* A union with null has no Go type but interface{}; what else a member may
\* be (string, int, a slice, a struct) makes no difference here.
goTypeBase(object, name) == IF name \in object.nullable THEN "interface{}" ELSE "value"

wrapOptional_Plain(goType, required) == goType
wrapOptional(goType, required) ==
    IF ~required /\ goType = "value" THEN "pointer" ELSE goType

goType(object, name) == wrapOptional(goTypeBase(object, name), isRequired(object, name))

\* The tag of an optional field.
jsonTag(object, name) == IF isRequired(object, name) THEN "always" ELSE "omitempty"

\* The fields of the struct: the node's own "properties"; parseSchemaNode
\* does not read "allOf".
emitStruct(object) == object.own

\* Artifact.Value: encoding/json skips members without a field.
Value(object, document) ==
    [m \in emitStruct(object) |->
        IF document[m] \in Written THEN document[m]
        ELSE IF goType(object, m) = "value" THEN "zero" ELSE "nil"]

\* Of an optional field encoding/json leaves nil out, and a list or map
\* without entries, but not one an interface{} holds.
Omits(object, name, value) ==
    /\ jsonTag(object, name) = "omitempty"
    /\ \/ value = "nil"
       \/ value = "empty" /\ goType(object, name) # "interface{}"

\* json.Marshal of a value inside a JSON column.
Marshal_Nil(object, value) == value
Marshal(object, value) ==
    [m \in emitStruct(object) |->
        IF Omits(object, m, value[m]) THEN "absent"
        ELSE IF value[m] = "nil" THEN "null" ELSE value[m]]
================================================================================
