--------------------------- MODULE BindingStore ----------------------------
(***************************************************************************)
(* What the storage package promises about saving: a save is one           *)
(* indivisible step.  It either adds the whole artifact (binding, evidence *)
(* and projection at once), or finds the same binding and only adds        *)
(* references, or changes nothing.  A caller that gets an error cannot     *)
(* tell which.                                                             *)
(***************************************************************************)
EXTENDS Binding

CONSTANTS
  Savers,     \* concurrent callers
  Requests    \* the calls they may make

VARIABLES
  bindings,      \* the bound artifacts: artifact_binding rows
  locations,     \* <<binding id, reference>>
  productRepos,  \* registered product_repo identifiers
  pending,       \* the call of each saver, or None
  answer         \* what its last call returned

vars == <<bindings, locations, productRepos, pending, answer>>

Init ==
  /\ bindings = {} /\ locations = {} /\ productRepos = {}
  /\ pending = [s \in Savers |-> None]
  /\ answer = [s \in Savers |-> None]

Ask(s, r) ==
  /\ pending[s] = None
  /\ pending' = [pending EXCEPT ![s] = r]
  /\ answer' = [answer EXCEPT ![s] = None]
  /\ UNCHANGED <<bindings, locations, productRepos>>

Tell(s, a) ==
  /\ pending[s] # None
  /\ pending' = [pending EXCEPT ![s] = None]
  /\ answer' = [answer EXCEPT ![s] = a]
  /\ UNCHANGED productRepos

\* The rules under which a new row may join the store.
Admissible(row) ==
  /\ \A x \in bindings : x.id # row.id /\ ~ Clash(x, row)
  /\ row.supersedes # None =>
       \E p \in bindings : p.id = row.supersedes /\ Continues(row, p)
  /\ row.repo \in productRepos \cup {None}

Bind(s) ==
  LET row == RowOf(pending[s])
  IN  /\ Tell(s, "saved") \/ Tell(s, "error")
      /\ Admissible(row)
      /\ bindings' = bindings \cup {row}
      /\ locations' = locations \cup LocationsOf(pending[s])

Rebind(s) ==
  /\ Tell(s, "already_bound") \/ Tell(s, "error")
  /\ RowOf(pending[s]) \in bindings
  /\ locations' = locations \cup LocationsOf(pending[s])
  /\ UNCHANGED bindings

\* A refusal names a reason that holds when it is given.
Refuse(s) ==
  LET row == RowOf(pending[s])
      predecessors == {p \in bindings : p.id = row.supersedes}
  IN  /\ \/ /\ Tell(s, "mismatch")
            /\ \/ \E x \in bindings : x.id = row.id /\ x # row
               \/ row.supersedes = row.id
               \/ \E p \in predecessors : ~ Continues(row, p)
         \/ Tell(s, "not_found") /\ row.supersedes # None /\ predecessors = {}
         \/ /\ Tell(s, "constraint")
            /\ \/ \E x \in bindings : x.id # row.id /\ Clash(x, row)
               \/ row.repo \notin productRepos \cup {None}
      /\ row \notin bindings
      /\ UNCHANGED <<bindings, locations>>

Fail(s) == Tell(s, "error") /\ UNCHANGED <<bindings, locations>>

Register(p) ==
  /\ productRepos' = productRepos \cup {p}
  /\ UNCHANGED <<bindings, locations, pending, answer>>

Next ==
  \/ \E s \in Savers : \/ \E r \in Requests : Ask(s, r)
                       \/ Bind(s) \/ Rebind(s) \/ Refuse(s) \/ Fail(s)
  \/ \E p \in ProductRepos : Register(p)

Spec == Init /\ [][Next]_vars
=============================================================================
