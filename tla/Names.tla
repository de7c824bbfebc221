------------------------------- MODULE Names --------------------------------
(***************************************************************************)
(* What the product and repository registry promises its callers           *)
(* (storage/registry.go): every name is given one identifier, once, and    *)
(* every answer anybody ever gets about a name is that identifier.         *)
(***************************************************************************)
VARIABLES
  given,   \* <<name, identifier>> the registry stands by
  told     \* <<name, identifier>> some caller was answered

Init == given = {} /\ told = {}

\* A name without an identifier receives one no other name has.
Give(n, i) ==
  /\ \A g \in given : g[1] # n /\ g[2] # i
  /\ given' = given \cup {<<n, i>>}

Know(n, i) == <<n, i>> \in given /\ UNCHANGED given

\* The registration may or may not be answered; an answer is never made up.
Register(n, i) ==
  /\ Give(n, i) \/ Know(n, i)
  /\ told' \in {told, told \cup {<<n, i>>}}

Spec == Init /\ [][\E g \in given' : Register(g[1], g[2])]_<<given, told>>
=============================================================================
