----------------------------- MODULE MCExecutor -----------------------------
(* TLC instances of Executor: a bash and a lua task that report everything,  *)
(* a task with a wrong signature and one of an unknown engine.               *)
EXTENDS Executor, TLC

CONSTANTS tb, tl, tu, tx

MCTasks  == {tb, tl, tu, tx}
MCSigned == {tb, tl, tx}
MCEngine == tb :> "bash" @@ tl :> "lua" @@ tu :> "bash" @@ tx :> "other"
MCMask   == tb :> {"completed", "err"} @@ tl :> {"start", "completed", "err"}
            @@ tu :> {} @@ tx :> {}
=============================================================================
