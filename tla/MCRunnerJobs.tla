----------------------------- MODULE MCRunnerJobs -----------------------------
(***************************************************************************)
(* One GitHub runner, for TLC: its life under the controller, the hooks    *)
(* around its jobs, and what the deep passes of its agent say of it.  They *)
(* share no state, so a behaviour is one of one of them: about says which. *)
(***************************************************************************)
EXTENDS MCRunnerLifecycle, JobHooks, CacheReadings

VARIABLE about

runnerJobsVars == <<vars, hookVars, guardVars, meterVars, about>>

About == {"life", "hooks", "guards", "meters"}

RunnerJobsInit ==
  /\ about \in About
  /\ Init /\ HooksInit /\ GuardsInit /\ MetersInit
  /\ about = "hooks" \/ hookKind = "linux"
  /\ \/ about = "guards"
     \/ /\ guardKind = "linux" /\ ~lent /\ ownCopy = "first"
        /\ guarded.image = "before"
  /\ about = "meters" \/ meterKind = "linux"

RunnerJobsNext ==
  \/ /\ about = "life" /\ Next
     /\ UNCHANGED <<hookVars, guardVars, meterVars, about>>
  \/ /\ about = "hooks" /\ HooksNext
     /\ UNCHANGED <<vars, guardVars, meterVars, about>>
  \/ /\ about = "guards" /\ GuardsNext
     /\ UNCHANGED <<vars, hookVars, meterVars, about>>
  \/ /\ about = "meters" /\ MetersNext
     /\ UNCHANGED <<vars, hookVars, guardVars, about>>

RunnerJobsSpec == RunnerJobsInit /\ [][RunnerJobsNext]_runnerJobsVars
=============================================================================
