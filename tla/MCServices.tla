----------------------------- MODULE MCServices ----------------------------
(***************************************************************************)
(* What surrounds the protocol on its nodes, for TLC: the election of a    *)
(* leader, the storage of an acceptor or of a learner, and the leader's    *)
(* clients.  They share no state, so a behaviour runs one of them; the     *)
(* others rest.                                                            *)
(***************************************************************************)
EXTENDS LeaderElection, AcceptorStorage, LearnerStorage, ClientSessions

VARIABLE service   \* the one that runs

services == <<service, vars, acceptorVars, learnerVars, storageVars, sessionVars>>

ServicesInit ==
  /\ service \in {"election", "acceptor", "learner", "clients"}
  /\ Init /\ AcceptorInit /\ LearnerInit /\ StorageInit /\ ClientsInit
  /\ chans = <<>> /\ lives = 0
  /\ server = IF service = "clients" THEN NewServer ELSE Down

ElectionStep == service = "election" /\ Next /\ UNCHANGED <<acceptorVars, learnerVars, storageVars, sessionVars>>
AcceptorStep == service = "acceptor" /\ AcceptorNext /\ UNCHANGED <<vars, learnerVars, sessionVars>>
LearnerStep  == service = "learner" /\ LearnerNext /\ UNCHANGED <<vars, acceptorVars, sessionVars>>
ClientsStep  == service = "clients" /\ SessionsNext /\ UNCHANGED <<vars, acceptorVars, learnerVars, storageVars>>

ServicesNext == UNCHANGED service /\ (ElectionStep \/ AcceptorStep \/ LearnerStep \/ ClientsStep)

\* Where the election or the clients run, their main loops are fair to them;
\* nothing hangs on the others.
Elects(A) == service = "election" /\ A /\ UNCHANGED <<service, acceptorVars, learnerVars, storageVars, sessionVars>>
Serves(A) == service = "clients" /\ A /\ UNCHANGED <<service, vars, acceptorVars, learnerVars, storageVars>>
ServicesFairness ==
  /\ \A p \in Candidates :
       /\ WF_services(Elects(Check(p)))
       /\ \A n \in Nodes : WF_services(Elects(Heartbeat(p, n)))
  /\ \A c \in Persistent : WF_services(Serves(GoesOn(c))) /\ SF_services(Serves(GivesUp(c)))

ServicesSpec == ServicesInit /\ [][ServicesNext]_services /\ ServicesFairness
=============================================================================
