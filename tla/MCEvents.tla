------------------------------- MODULE MCEvents -------------------------------
(***************************************************************************)
(* What must come to its end of what is told of runners and jobs, for TLC: *)
(* the job events of a runner, on the worker, on their way and in the      *)
(* history, and the alarms.  They share no state here, so a behaviour is   *)
(* one of one of them: focus says which.                                   *)
(***************************************************************************)
EXTENDS JobSources, JobLedger, Alarms, RunHistory

VARIABLE focus

eventVars == <<sourceVars, ledgerVars, alarmVars, historyVars, focus>>

Idles(part, partVars) == IF focus = part THEN TRUE ELSE UNCHANGED partVars

TheRestIdles ==
  /\ Idles("sources", sourceVars) /\ Idles("ledger", ledgerVars)
  /\ Idles("alarms", alarmVars) /\ Idles("history", historyVars)
  /\ UNCHANGED focus

EventsInit ==
  /\ focus \in {"sources", "ledger", "alarms", "history"}
  /\ SourcesInit /\ LedgerInit /\ AlarmsInit /\ HistoryInit

EventsNext ==
  \/ focus = "sources" /\ SourcesNext /\ TheRestIdles
  \/ focus = "ledger" /\ LedgerNext /\ TheRestIdles
  \/ focus = "alarms" /\ AlarmsNext /\ TheRestIdles
  \/ focus = "history" /\ HistoryNext /\ TheRestIdles

\* The fairness of each, while it is the one that runs.
EventsFairness ==
  /\ \A s \in Sources : WF_sourceVars(focus = "sources" /\ ThreadStep(s))
  /\ WF_sourceVars(focus = "sources" /\ Deliver)
  /\ WF_sourceVars(focus = "sources" /\ HeartbeatStep)
  /\ \A m \in Maintainers :
       WF_sourceVars(focus = "sources" /\ (StopPaused(m) \/ Paused(m) \/ Worked(m)))
  /\ WF_ledgerVars(focus = "ledger" /\ PostHead)
  /\ \A n \in Numbers : WF_ledgerVars(focus = "ledger" /\ TakePost(n))
  /\ WF_alarmVars(focus = "alarms" /\ MinuteStep)
  /\ WF_alarmVars(focus = "alarms" /\ SweepStep)
  /\ SF_alarmVars(focus = "alarms" /\ (OpenForRunners \/ OpenForJobs))
  /\ SF_alarmVars(focus = "alarms" /\ (OpenForReader \/ OpenForQueue))
  /\ WF_alarmVars(focus = "alarms" /\ BeginDelivery)
  /\ WF_alarmVars(focus = "alarms" /\ SendNext)
  /\ WF_alarmVars(focus = "alarms" /\ MinutePasses)
  /\ WF_historyVars(focus = "history" /\ Posted)
  /\ WF_historyVars(focus = "history" /\ \E n \in deliveries : Delivered(n))
  /\ WF_historyVars(focus = "history" /\ Collector)
  /\ WF_historyVars(focus = "history" /\ Enricher)
  /\ WF_historyVars(focus = "history" /\ Scan)

EventsSpec == EventsInit /\ [][EventsNext]_eventVars /\ EventsFairness
=============================================================================
