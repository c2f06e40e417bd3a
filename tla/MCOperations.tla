---------------------------- MODULE MCOperations ----------------------------
(***************************************************************************)
(* Small instances of what keeps the bridge in operation: the transport    *)
(* of two nodes that know each other, and the monitoring service, whose    *)
(* supply and health checks share no more than the pause. A behaviour is   *)
(* one of a single one of the three, its `part`.                           *)
(***************************************************************************)
EXTENDS Transport, Monitor, TLC

CONSTANTS a, b

VARIABLE part

BothWays == (a :> {b}) @@ (b :> {a})

PartInit == Init /\ MonitorInit /\ part \in {"links", "supply", "health"}

PartNext ==
  /\ UNCHANGED part
  /\ \/ part = "links" /\ Next /\ UNCHANGED monitor_vars
     \/ /\ part = "supply" /\ (BridgeNext \/ \E c \in Checks : SupplyTask(c))
        /\ UNCHANGED vars
     \/ /\ part = "health" /\ (Resume \/ Change \/ ValidatorTask \/ ChainTask)
        /\ UNCHANGED vars

\* The fairness of FairSpec and of MonitorFairSpec, each in its part.
LinksFairness ==
  /\ \A n \in Nodes : WF_vars(part = "links" /\ start(n))
  /\ \A n, m \in Nodes : WF_vars(part = "links" /\ Connect(n, m))
  /\ WF_vars(part = "links" /\ \E s \in Slots, side \in Sides : Close(s, side, FALSE))
  /\ WF_vars(part = "links" /\ \E s \in Slots, side \in Sides : Heartbeat(s, side))

ChecksFairness ==
  /\ \A c \in Checks : WF_monitor_vars(part = "supply" /\ SupplyTask(c))
  /\ WF_monitor_vars(part = "health" /\ ValidatorTask) /\ WF_monitor_vars(part = "health" /\ ChainTask)

PartSpec ==
  PartInit /\ [][PartNext]_<<vars, monitor_vars, part>> /\ LinksFairness /\ ChecksFairness

\* BootstrapLinked, of the part in which the nodes run.
LinksRestored == <>[](part = "links" => Linked)
=============================================================================
