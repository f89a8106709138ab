------------------------------ MODULE MCPgQueue ------------------------------
(* Small instances of PgQueue: a keyed foreground job and a background job  *)
(* without a key, two loops in one process or in two.                       *)
EXTENDS PgQueue, TLC

CONSTANTS P, Q, a, b, s

Message(type, family, pr, origin) ==
  [type |-> type, repo |-> 1, pr |-> pr, family |-> family, origin |-> origin, inst |-> "none",
   paths |-> {}, scope |-> "none"]
Regate  == Message("agent-regate-pr", "none", 1, "backlog")
BotEdit == Message("github-webhook", "botedit", 0, "event")

Both == {Regate, BotEdit}
Keyed == {Regate}
Replicas == {(a :> P @@ b :> Q @@ s :> Q)}
OneProcess == {(a :> P @@ b :> P @@ s :> P)}
AnyDeployment == Replicas \cup OneProcess
=============================================================================
