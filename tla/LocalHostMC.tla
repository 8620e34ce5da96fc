---------------------------- MODULE LocalHostMC ----------------------------
(* What may happen on the host at once, small enough to be exhausted: two  *)
(* commands and a crash; one command and every mishap; a command among the *)
(* jobs and the operators' requests about them; the page, whose job is     *)
(* deleted, marked or cut off; API and worker that both stop; two jobs.    *)
EXTENDS LocalHost, TLC

Asks == {"restart_worker_process", "restart_container", "git_update_rebuild_restart",
         "diagnostic_probe"}

\* The given kinds are asked for once each.
Control(asked, crash, store, effect) ==
    [k \in asked |-> 1] @@ [k \in Asks |-> 0]
        @@ ("crash" :> crash) @@ ("store" :> store) @@ ("effect" :> effect)

Local(jobs, page, api, requests) ==
    [jobs |-> jobs, page |-> page, api |-> api, operator |-> requests]

Quiet == Local(0, 0, 0, 0)

MCScenarios ==
    {[control |-> Control({"git_update_rebuild_restart", "restart_container"}, 1, 0, 0), local |-> Quiet],
     [control |-> Control({"restart_worker_process", "diagnostic_probe"}, 1, 0, 0), local |-> Quiet]}
    \cup {[control |-> Control({k}, 1, 1, 1), local |-> Quiet] : k \in Asks}
    \cup {[control |-> Control({k}, 0, 0, 0), local |-> Local(1, 0, 0, 1)] :
               k \in {"git_update_rebuild_restart", "restart_container"}}
    \cup {[control |-> Control({}, 0, 0, 0), local |-> Local(1, 1, 0, 1)],
          [control |-> Control({}, 1, 0, 0), local |-> Local(1, 1, 1, 0)],
          [control |-> Control({}, 1, 0, 0), local |-> Local(1, 0, 1, 2)],
          [control |-> Control({}, 0, 0, 0), local |-> Local(2, 0, 0, 1)]}
=============================================================================
