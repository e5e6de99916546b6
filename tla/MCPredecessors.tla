--------------------------- MODULE MCPredecessors --------------------------
(***************************************************************************)
(* The programs that came before, for TLC.  A behaviour runs one of them;  *)
(* the others rest.                                                        *)
(***************************************************************************)
EXTENDS DistributedPaxos, SimulatedPaxos, HandlerPaxos, ModularServer

VARIABLE program   \* the one that runs

predecessors == <<program, basicVars, distributedVars, simulationVars, handlerVars, modularVars>>

Programs == {"memory", "distributed", "simulation", "handlers", "modular"}

PredecessorsInit ==
  /\ program \in Programs
  /\ BasicInit /\ DistributedInit /\ SimulationInit /\ HandlerInit /\ ModularInit
  \* Proposers and a modular server that rest are of one kind only.
  /\ program # "handlers" => \A p \in Handlers : handler[p].clients = <<>>
  /\ program # "modular" =>
       loop.kind = "tcp" /\ loop.role = "proposer" /\ \A v \in Visitors : visitor[v].asks = CHOOSE k \in Wishes : TRUE

MemoryStep      == program = "memory" /\ BasicNext
                   /\ UNCHANGED <<distributedVars, simulationVars, handlerVars, modularVars>>
DistributedStep == program = "distributed" /\ DistributedNext
                   /\ UNCHANGED <<basicVars, simulationVars, handlerVars, modularVars>>
SimulationStep  == program = "simulation" /\ SimulationNext
                   /\ UNCHANGED <<basicVars, distributedVars, handlerVars, modularVars>>
HandlersStep    == program = "handlers" /\ HandlerNext
                   /\ UNCHANGED <<basicVars, distributedVars, simulationVars, modularVars>>
OthersRest      == UNCHANGED <<program, basicVars, distributedVars, simulationVars, handlerVars>>
ModularStep     == program = "modular" /\ ModularNext /\ OthersRest

PredecessorsNext == UNCHANGED program
                    /\ (MemoryStep \/ DistributedStep \/ SimulationStep \/ HandlersStep \/ ModularStep)

\* The fairness of ModularServer, where it runs.
Loops(A) == program = "modular" /\ A /\ OthersRest
PredecessorsFairness ==
  WF_predecessors(Loops(LoopStep)) /\ SF_predecessors(Loops(PeerSends))

PredecessorsSpec == PredecessorsInit /\ [][PredecessorsNext]_predecessors /\ PredecessorsFairness
=============================================================================
