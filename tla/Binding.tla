------------------------------ MODULE Binding ------------------------------
(***************************************************************************)
(* The rows of artifact_binding and the rules the database enforces on a   *)
(* set of them.  A binding says in which workflow context (artifact name,  *)
(* role, scope, subject, run, layer) a piece of evidence was produced, and *)
(* optionally which earlier binding it replaces.                           *)
(*                                                                         *)
(* A digest stands for the SHA-256 of a payload and a binding identifier   *)
(* for the SHA-256 of (digest, context): both are taken to be injective,   *)
(* so an identifier is the pair itself.  The supersedes pointer, the       *)
(* product_repo and the commit are NOT part of the identifier.             *)
(***************************************************************************)

CONSTANTS
  Digests,        \* evidence digests
  Contexts,       \* [name, role, scope, subject, run, layer] records
  ProductRepos,   \* product_repo_id values
  Commits,        \* commit_sha values
  References,     \* locations a caller may register
  None            \* SQL NULL, a nil pointer, "no answer yet"

\* A report is saved with bindingRequirements{subject: true, run: true}, and
\* only a report may carry a role.
ASSUME ContextAssumption ==
  \A c \in Contexts :
    /\ DOMAIN c = {"name", "role", "scope", "subject", "run", "layer"}
    /\ c.name = "report" => c.subject # None /\ c.run # None
    /\ c.role # None => c.name = "report"

ASSUME NoneAssumption ==
  /\ None \notin ProductRepos
  /\ None \notin [digest : Digests, context : Contexts]

BindingIds == [digest : Digests, context : Contexts]

Rows == [ id         : BindingIds,
          supersedes : BindingIds \cup {None},
          repo       : ProductRepos \cup {None},
          commit     : Commits \cup {None} ]

\* What a caller passes to Save<Artifact>: the payload (its digest), the
\* Binding and the set of references left by normalizedReferences.
RequestType == [ digest     : Digests,
                 context    : Contexts,
                 supersedes : BindingIds \cup {None},
                 repo       : ProductRepos \cup {None},
                 commit     : Commits \cup {None},
                 references : SUBSET References ]

identifyBinding(digest, context) == [digest |-> digest, context |-> context]

\* The artifact_binding row a request asks for.
RowOf(r) == [ id         |-> identifyBinding(r.digest, r.context),
              supersedes |-> r.supersedes,
              repo       |-> r.repo,
              commit     |-> r.commit ]

\* A location keyed by the evidence instead of the binding.
LocationsOf_Digest(r) == {r.digest} \X r.references

\* The artifact_location rows a request asks for.
LocationsOf(r) == {identifyBinding(r.digest, r.context)} \X r.references

-----------------------------------------------------------------------------
(* Two rows that one of the unique indexes keeps apart.                    *)

Cumulative(row) ==
  /\ row.id.context.name = "report"
  /\ row.id.context.role = "cumulative"
  /\ row.repo # None

\* One findings-current chain per scope, product_repo and run.  The subject is
\* not part of the key.
ChainOf(row) == <<row.id.context.scope, row.repo, row.id.context.run>>

Root(row) == Cumulative(row) /\ row.supersedes = None

SuccessorClash(x, y) == x.supersedes # None /\ x.supersedes = y.supersedes

RootClash(x, y) == Root(x) /\ Root(y) /\ ChainOf(x) = ChainOf(y)

\* One of the two indexes is missing.
Clash_NoSuccessorIndex(x, y) == RootClash(x, y)
Clash_NoRootIndex(x, y) == SuccessorClash(x, y)

Clash(x, y) == SuccessorClash(x, y) \/ RootClash(x, y)

\* The part of validatePredecessor that compares a row with its predecessor:
\* everything the two must share, which is all but digest and commit.
Continues(row, predecessor) ==
  /\ predecessor.id.context = row.id.context
  /\ predecessor.repo = row.repo

-----------------------------------------------------------------------------
(* Properties of a set of rows.                                            *)

Keyed(R) == \A x, y \in R : x.id = y.id => x = y

Linear(R) == \A x, y \in R : SuccessorClash(x, y) => x = y

Grounded(R) ==
  \A x \in R : x.supersedes # None =>
    \E p \in R : p.id = x.supersedes /\ p # x /\ Continues(x, p)

\* No row supersedes itself through any number of others: every set of rows
\* has one whose predecessor lies outside it.
Acyclic(R) ==
  \A S \in SUBSET R : S # {} =>
    \E x \in S : \A y \in S : x.supersedes # y.id

\* The rows of the current_binding view: no binding of the same scope
\* supersedes them.
Current(R) ==
  {x \in R : ~ \E y \in R : /\ y.supersedes = x.id
                           /\ y.id.context.scope = x.id.context.scope}

OneHeadPerChain(R) ==
  \A x, y \in Current(R) :
    Cumulative(x) /\ Cumulative(y) /\ ChainOf(x) = ChainOf(y) => x = y

\* Every cumulative report hangs from the root of its chain, the only one.
Rooted(R) ==
  /\ \A x \in R : Cumulative(x) => \E r \in R : Root(r) /\ ChainOf(r) = ChainOf(x)
  /\ \A x, y \in R : RootClash(x, y) => x = y

GoodHistory(R) ==
  Keyed(R) /\ Linear(R) /\ Grounded(R) /\ Acyclic(R) /\ Rooted(R) /\ OneHeadPerChain(R)
=============================================================================
