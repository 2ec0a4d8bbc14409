---------------------------- MODULE MCContainers ----------------------------
(* What the programs make of containers and processes over time, each part by itself: a behaviour is
   one of any of them, chosen in the initial state, and the others stay where they
   begin.  One run checks them all; each is a specification of its own too. *)
EXTENDS ProcessEvents, ContainerRestarts, LogMining, Diagnosis, HostInsights, AgentUpdater

VARIABLE part  \* the part that runs

CONSTANTS c1, c2, err, note

(* Constants.                                                              *)

\* Nothing but a failing health check; and two restarts before it.
Calm == [oomKilled |-> FALSE, outOfMemory |-> FALSE, restarts |-> 0,
         cascade |-> FALSE, pressure |-> FALSE, output |-> "other"]
SomeSituations == {Calm, [Calm EXCEPT !.restarts = 2]}

ArgvOf == [p \in Process |-> "worker"]

-----------------------------------------------------------------------------
Parts == {"processes", "restarts", "mining", "diagnosis", "insights", "updates"}

\* The parts that do not run begin in one state.
ContainersInit ==
    /\ part \in Parts
    /\ ProcessInit
    /\ part # "processes" => alive = {}
    /\ RestartsInit
    /\ part # "restarts" => collector = "agent"
    /\ MiningInit
    /\ DiagnosisInit
    /\ part # "diagnosis" => situation = Calm
    /\ InsightsInit
    /\ UpdaterInit

ContainersNext ==
    /\ UNCHANGED part
    /\ \/ /\ part = "processes" /\ ProcessNext
          /\ UNCHANGED <<restartVars, miningVars, diagnosisVars, insightVars, updaterVars>>
       \/ /\ part = "restarts" /\ RestartsNext
          /\ UNCHANGED <<processVars, miningVars, diagnosisVars, insightVars, updaterVars>>
       \/ /\ part = "mining" /\ MiningNext
          /\ UNCHANGED <<processVars, restartVars, diagnosisVars, insightVars, updaterVars>>
       \/ /\ part = "diagnosis" /\ DiagnosisNext
          /\ UNCHANGED <<processVars, restartVars, miningVars, insightVars, updaterVars>>
       \/ /\ part = "insights" /\ InsightsNext
          /\ UNCHANGED <<processVars, restartVars, miningVars, diagnosisVars, updaterVars>>
       \/ /\ part = "updates" /\ UpdaterNext
          /\ UNCHANGED <<processVars, restartVars, miningVars, diagnosisVars, insightVars>>

containerVars == <<part, processVars, restartVars, miningVars, diagnosisVars, insightVars, updaterVars>>

\* The fairness of each part, while it is the one that runs.
ContainersFairness ==
    /\ WF_processVars(part = "processes" /\ PollCycle)
    /\ WF_processVars(part = "processes" /\ MqttReturns)
    /\ WF_processVars(part = "processes" /\ Ingest)
    /\ WF_miningVars(part = "mining" /\ FiveMinutes)
    /\ WF_miningVars(part = "mining" /\ AgentAnswers)
    /\ WF_miningVars(part = "mining" /\ HandleLogs)
    /\ WF_insightVars(part = "insights" /\ ~Steady /\ Collection)
    /\ WF_insightVars(part = "insights" /\ GenerateInsights)

ContainersSpec == ContainersInit /\ [][ContainersNext]_containerVars /\ ContainersFairness

-----------------------------------------------------------------------------
(* The part that runs keeps to its types; the others do not move.          *)
ContainersTypeOK ==
    /\ part = "processes" => ProcessTypeOK
    /\ part = "restarts" => RestartsTypeOK
    /\ part = "mining" => MiningTypeOK
    /\ part = "diagnosis" => DiagnosisTypeOK
    /\ part = "insights" => InsightsTypeOK
    /\ part = "updates" => UpdaterTypeOK
=============================================================================
