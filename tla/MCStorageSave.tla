--------------------------- MODULE MCStorageSave ---------------------------
(***************************************************************************)
(* Small instances of StorageSave.  The requests are chosen so that every  *)
(* rule of the store can be raced: two cumulative roots that differ only   *)
(* in their subject, two successors of the same root, an identifier saved  *)
(* with two different predecessors, a wrong product_repo, a binding that   *)
(* supersedes itself and a retry that registers another reference.         *)
(***************************************************************************)
EXTENDS StorageSave, TLC

CONSTANTS d1, d2, d3, p1, f1, f2, k1, k2

Report(subject) ==
  [ name |-> "report", role |-> "cumulative", scope |-> "local",
    subject |-> subject, run |-> "run1", layer |-> None ]

App == Report("app")
Lib == Report("lib")

MCContexts == {App, Lib}

Ask(d, c, supersedes, repo, refs) ==
  [ digest |-> d, context |-> c, supersedes |-> supersedes, repo |-> repo,
    commit |-> None, references |-> refs ]

AppRoot == identifyBinding(d1, App)

MCRequests ==
  { Ask(d1, App, None, p1, {f1}),
    Ask(d1, App, None, p1, {f2}),
    Ask(d2, App, AppRoot, p1, {f1}),
    Ask(d3, App, AppRoot, p1, {f1}),
    Ask(d2, App, None, p1, {f1}),
    Ask(d2, Lib, None, p1, {f1}),
    Ask(d3, App, identifyBinding(d2, App), p1, {f1}),
    Ask(d3, App, AppRoot, None, {}),
    Ask(d1, App, AppRoot, p1, {}) }

\* d2 and d3 agree in their first eight bytes.
MCLockKey == (d1 :> k1) @@ (d2 :> k2) @@ (d3 :> k2)
=============================================================================
