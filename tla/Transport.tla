----------------------------- MODULE Transport -----------------------------
(***************************************************************************)
(* The validators' peer-to-peer transport (p2p/transport.ts): every node   *)
(* accepts connections, dials its bootstrap peers and the addresses others *)
(* gossip, and keeps the connections it broadcasts to in a Map by name.    *)
(*                                                                         *)
(* A connection has two ends, the dialer's "out" and the acceptor's "in".  *)
(* An end is listed under a temporary name until the first message tells   *)
(* the other node's id, and under that id from then on; names are not      *)
(* unique, so an entry may be replaced or deleted by another connection's  *)
(* handler. A broken connection is noticed at each end on its own.         *)
(*                                                                         *)
(* An address is the node that listens there. The delay of a reconnection  *)
(* doubles up to a minute and has no other effect; it is left out.         *)
(***************************************************************************)
EXTENDS Integers, FiniteSets, Functions

CONSTANTS
  Nodes,
  bootstrapPeers,         \* node -> the addresses it dials at its start
  None,                   \* a slot with no connection
  MaxConnections,         \* bound: connections at a time
  MaxIncidents            \* bound: faults, stops and rounds of gossip, together

ASSUME TransportAssumption ==
  /\ bootstrapPeers \in [Nodes -> SUBSET Nodes]
  /\ {MaxConnections, MaxIncidents} \subseteq Nat

VARIABLES
  isRunning,              \* node -> BOOLEAN
  dials,                  \* <<node, address>> -> dials under way or scheduled
  connection,             \* slot -> connection
  peers,                  \* node -> name -> <<slot, side>>
  incidents               \* counter for the bound

vars == <<isRunning, dials, connection, peers, incidents>>

Slots == 1 .. MaxConnections
Sides == {"out", "in"}

\* alive: messages pass. open: the sides that have not handled its close.
\* known: the sides that have learned the other node's id.
Connection ==
  [from: Nodes, to: Nodes, alive: BOOLEAN, open: SUBSET Sides, known: SUBSET Sides]

ASSUME NoneAssumption == None \notin Connection

Init ==
  /\ isRunning = [n \in Nodes |-> FALSE]
  /\ dials = [p \in Nodes \X Nodes |-> 0]
  /\ connection = [s \in Slots |-> None]
  /\ peers = [n \in Nodes |-> <<>>]
  /\ incidents = 0

Other(side) == IF side = "out" THEN "in" ELSE "out"

NodeAt(c, side) == IF side = "out" THEN c.from ELSE c.to

\* PeerConnection.nodeId: tempId, outbound-<address>, or the id.
Name(s, c, side) ==
  CASE side \in c.known -> NodeAt(c, Other(side))
    [] side \notin c.known /\ side = "out" -> <<"outbound", c.to>>
    [] OTHER -> <<"inbound", s>>

\* peers.set and peers.delete.
Set(map, name, end) == [k \in DOMAIN map \cup {name} |-> IF k = name THEN end ELSE map[k]]
Delete(map, name) == Restrict(map, DOMAIN map \ {name})

Listed(s, side) ==
  LET n == NodeAt(connection[s], side) IN <<s, side>> \in Range(peers[n])

InUse(s) == connection[s] # None

\* A connection that neither end has any more leaves its slot.
Put(s, c) == connection' = [connection EXCEPT ![s] = IF c.open = {} THEN None ELSE c]

Incident == incidents < MaxIncidents /\ incidents' = incidents + 1

-----------------------------------------------------------------------------
(* start, stop.                                                            *)

start(n) ==
  /\ ~ isRunning[n]
  /\ isRunning' = [isRunning EXCEPT ![n] = TRUE]
  /\ dials' = [p \in DOMAIN dials |->
       IF p[1] = n /\ p[2] \in bootstrapPeers[n] THEN 1 ELSE dials[p]]
  /\ UNCHANGED <<connection, peers, incidents>>

\* stop, or the end of the process: its ends are gone, the others will notice.
Left(c, n) ==
  LET ends == {x \in c.open : NodeAt(c, x) # n}
  IN  IF ends = {} THEN None ELSE [c EXCEPT !.alive = FALSE, !.open = ends]

stop(n) ==
  /\ isRunning[n]
  /\ Incident
  /\ isRunning' = [isRunning EXCEPT ![n] = FALSE]
  /\ dials' = [p \in DOMAIN dials |-> IF p[1] = n THEN 0 ELSE dials[p]]
  /\ peers' = [peers EXCEPT ![n] = <<>>]
  /\ connection' = [s \in Slots |->
       IF InUse(s) /\ n \in {connection[s].from, connection[s].to}
       THEN Left(connection[s], n) ELSE connection[s]]

-----------------------------------------------------------------------------
(* Connections come and go.                                                *)

\* The dial of connectToPeer succeeds; 'connection' at the other node lists
\* the end under tempId. A node may dial itself.
Connect(n, a) ==
  /\ dials[<<n, a>>] > 0 /\ isRunning[n] /\ isRunning[a]
  /\ dials' = [dials EXCEPT ![<<n, a>>] = @ - 1]
  /\ \E s \in Slots :
       /\ ~ InUse(s) /\ \A r \in Slots : r < s => InUse(r)
       /\ connection' = [connection EXCEPT ![s] =
            [from |-> n, to |-> a, alive |-> TRUE, open |-> Sides, known |-> {}]]
       /\ LET dialed == [peers EXCEPT ![n] = Set(@, <<"outbound", a>>, <<s, "out">>)]
          IN  peers' = [dialed EXCEPT ![a] = Set(@, <<"inbound", s>>, <<s, "in">>)]
  /\ UNCHANGED <<isRunning, incidents>>

\* scheduleReconnect: one more dial, after a delay.
Reschedule(n, a) == UNCHANGED dials

\* The dial fails: the outer 'error' handler.
DialFails(n, a) ==
  /\ dials[<<n, a>>] > 0
  /\ Reschedule(n, a)
  /\ Incident
  /\ UNCHANGED <<isRunning, connection, peers>>

Break(s) ==
  /\ InUse(s) /\ connection[s].alive
  /\ connection' = [connection EXCEPT ![s].alive = FALSE]
  /\ Incident
  /\ UNCHANGED <<isRunning, dials, peers>>

\* Variant: the close of a connection whose peer is listed still needs no dial.
RedialUnlisted(s, side, error) ==
  LET c == connection[s]  n == NodeAt(c, side) IN
  dials' = IF side = "out" /\ c.to \notin DOMAIN peers[n]
           THEN [dials EXCEPT ![<<n, c.to>>] = @ + 1] ELSE dials

\* The dialer's 'close' handler schedules a dial, and when the socket reported
\* an error first, the outer 'error' handler has scheduled one as well.
Redial(s, side, error) ==
  LET c == connection[s]  n == NodeAt(c, side) IN
  dials' = IF side = "out"
           THEN [dials EXCEPT ![<<n, c.to>>] = @ + (IF error THEN 2 ELSE 1)] ELSE dials

\* An end sees the close; whatever is listed under its name is deleted.
Close(s, side, error) ==
  /\ InUse(s) /\ ~ connection[s].alive /\ side \in connection[s].open
  /\ LET c == connection[s]  n == NodeAt(c, side) IN
       /\ peers' = [peers EXCEPT ![n] = Delete(@, Name(s, c, side))]
       /\ Put(s, [c EXCEPT !.open = @ \ {side}])
  /\ Redial(s, side, error)
  /\ IF error THEN side = "out" /\ Incident ELSE UNCHANGED incidents
  /\ UNCHANGED isRunning

\* pruneDeadPeers: a socket that is no longer open, before its 'close'.
pruneDeadPeers(s, side) ==
  /\ InUse(s) /\ ~ connection[s].alive /\ side \in connection[s].open
  /\ Listed(s, side)
  /\ LET n == NodeAt(connection[s], side) IN
       peers' = [peers EXCEPT ![n] = Restrict(@, {k \in DOMAIN @ : @[k] # <<s, side>>})]
  /\ UNCHANGED <<isRunning, dials, connection, incidents>>

-----------------------------------------------------------------------------
(* Messages.                                                               *)

\* A message comes in at a side: the other end lists the connection, as
\* sendHeartbeats and broadcast need, or it is the dialer's first heartbeat.
MessageAt(s, side) ==
  /\ InUse(s) /\ connection[s].alive
  /\ Listed(s, Other(side)) \/ (side = "in" /\ "in" \notin connection[s].known)

\* Variant: the temporary name stays in the Map.
RenameKeeping(s, side) ==
  LET c == connection[s]  n == NodeAt(c, side) IN
  IF side \in c.known THEN UNCHANGED <<connection, peers>>
  ELSE /\ Put(s, [c EXCEPT !.known = @ \cup {side}])
       /\ peers' = [peers EXCEPT ![n] = Set(@, NodeAt(c, Other(side)), <<s, side>>)]

\* The first message renames the entry.
Rename(s, side) ==
  LET c == connection[s]  n == NodeAt(c, side) IN
  IF side \in c.known THEN UNCHANGED <<connection, peers>>
  ELSE /\ Put(s, [c EXCEPT !.known = @ \cup {side}])
       /\ peers' = [peers EXCEPT ![n] =
            Set(Delete(@, Name(s, c, side)), NodeAt(c, Other(side)), <<s, side>>)]

Heartbeat(s, side) ==
  /\ MessageAt(s, side)
  /\ Rename(s, side)
  /\ UNCHANGED <<isRunning, dials, incidents>>

\* Addresses a node can gossip, and would not dial: its outbound entries. The
\* address of an inbound entry is a host without the port.
Outbound(n) == {connection[e[1]].to : e \in {x \in Range(peers[n]) : x[2] = "out"}}

\* peer_list: whatever is not in the Map is dialled, be it dialled already.
PeerList(s, side) ==
  /\ MessageAt(s, side) /\ Listed(s, Other(side))
  /\ LET n == NodeAt(connection[s], side)
         learned == Outbound(NodeAt(connection[s], Other(side))) \ Outbound(n)
     IN  /\ learned # {}
         /\ dials' = [p \in DOMAIN dials |->
              IF p[1] = n /\ p[2] \in learned THEN dials[p] + 1 ELSE dials[p]]
  /\ Incident
  /\ Rename(s, side)
  /\ UNCHANGED isRunning

Next ==
  \/ \E n \in Nodes : start(n) \/ stop(n)
  \/ \E n, a \in Nodes : Connect(n, a) \/ DialFails(n, a)
  \/ \E s \in Slots : Break(s)
  \/ \E s \in Slots, side \in Sides :
       \/ \E error \in BOOLEAN : Close(s, side, error)
       \/ pruneDeadPeers(s, side) \/ Heartbeat(s, side) \/ PeerList(s, side)

Spec == Init /\ [][Next]_vars

\* A stopped node is started again and timers dial; while there are closes of
\* broken connections to report or heartbeats to hear, the event loops go on with
\* one. Faults and gossip just happen.
FairSpec ==
  /\ Spec
  /\ \A n \in Nodes : WF_vars(start(n))
  /\ \A n, a \in Nodes : WF_vars(Connect(n, a))
  /\ WF_vars(\E s \in Slots, side \in Sides : Close(s, side, FALSE))
  /\ WF_vars(\E s \in Slots, side \in Sides : Heartbeat(s, side))

-----------------------------------------------------------------------------
\* The transport's variables keep their types.
TypeOK ==
  /\ isRunning \in [Nodes -> BOOLEAN]
  /\ dials \in [Nodes \X Nodes -> Nat]
  /\ connection \in [Slots -> Connection \cup {None}]
  /\ DOMAIN peers = Nodes
  /\ \A n \in Nodes : \A k \in DOMAIN peers[n] : peers[n][k] \in Slots \X Sides
  /\ incidents \in Nat

(* Whatever a Map holds is an end this node still has, under the name that  *)
(* its close handler will delete: no dead connection stays in the Map, where *)
(* it would count as connected, whoever replaced or deleted which entry.    *)
NoGhosts ==
  \A n \in Nodes : \A k \in DOMAIN peers[n] :
    LET s == peers[n][k][1]  side == peers[n][k][2] IN
    /\ InUse(s) /\ side \in connection[s].open
    /\ n = NodeAt(connection[s], side) /\ k = Name(s, connection[s], side)

\* Every node has a live connection that it dialled to each bootstrap peer.
Linked ==
  \A n \in Nodes : \A a \in bootstrapPeers[n] :
    \E s \in Slots : /\ InUse(s) /\ connection[s].alive
                    /\ connection[s].from = n /\ connection[s].to = a

(* When stops and faults are over, every node keeps a connection it dialled *)
(* to each bootstrap peer: no interleaving of closes, errors, gossip and    *)
(* restarts on the way has made it forget to dial, or left it waiting on a  *)
(* connection that is dead.                                                 *)
BootstrapLinked == <>[]Linked
=============================================================================
