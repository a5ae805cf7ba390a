------------------------------ MODULE MCWorkers ------------------------------
(***************************************************************************)
(* What goes on between the controller and a worker, and on a worker, for  *)
(* TLC: the calls of verbs, the sources of job events, the heartbeats, the *)
(* ledger of job events, the logs where there are none, the four kinds of  *)
(* unit and two kinds of disk.                                             *)
(* They share no state, so a behaviour is one of one of them: focus says   *)
(* which.                                                                  *)
(***************************************************************************)
EXTENDS AgentCalls, JobSources, Heartbeats, JobLedger, LogHistory, Units

VARIABLE focus

workersVars == <<callVars, sourceVars, beatVars, ledgerVars, logVars,
                 boxVars, winVars, macVars, poolVars, imageVars, vhdVars, focus>>

Parts == {"calls", "sources", "beats", "ledger", "logs",
          "linux", "windows", "mac", "pool", "linux disk", "windows disk"}

Idles(part, partVars) == IF focus = part THEN TRUE ELSE UNCHANGED partVars

TheRestIdles ==
  /\ Idles("calls", callVars) /\ Idles("sources", sourceVars)
  /\ Idles("beats", beatVars) /\ Idles("ledger", ledgerVars)
  /\ Idles("logs", logVars)
  /\ Idles("linux", boxVars) /\ Idles("windows", winVars) /\ Idles("mac", macVars)
  /\ Idles("pool", poolVars)
  /\ Idles("linux disk", imageVars) /\ Idles("windows disk", vhdVars)
  /\ UNCHANGED focus

WorkersInit ==
  /\ focus \in Parts
  /\ CallsInit /\ SourcesInit /\ BeatsInit /\ LedgerInit /\ LogInit
  /\ BoxInit /\ WinInit /\ MacInit /\ PoolInit /\ ImageInit /\ VhdInit
  /\ focus = "logs" \/ logForge = "github"
  /\ focus = "windows" \/ managed
  /\ focus = "windows disk" \/ folder = "none"

WorkersNext ==
  \/ focus = "calls" /\ CallsNext /\ TheRestIdles
  \/ focus = "sources" /\ SourcesNext /\ TheRestIdles
  \/ focus = "beats" /\ BeatsNext /\ TheRestIdles
  \/ focus = "ledger" /\ LedgerNext /\ TheRestIdles
  \/ focus = "logs" /\ LogNext /\ TheRestIdles
  \/ focus = "linux" /\ BoxNext /\ TheRestIdles
  \/ focus = "windows" /\ WinNext /\ TheRestIdles
  \/ focus = "mac" /\ MacNext /\ TheRestIdles
  \/ focus = "pool" /\ PoolNext /\ TheRestIdles
  \/ focus = "linux disk" /\ ImageNext /\ TheRestIdles
  \/ focus = "windows disk" /\ VhdNext /\ TheRestIdles

WorkersSpec == WorkersInit /\ [][WorkersNext]_workersVars
=============================================================================
