----------------------------- MODULE Consensus -----------------------------
(***************************************************************************)
(* The validators' consensus engine (consensus/engine.ts) as main.ts wires *)
(* it: a watcher's finalized event makes a node sign a message and open a  *)
(* round, attestations travel over the peer transport, and a round ends    *)
(* when enough attestations of the same message were collected or when its *)
(* timer fires. Every map of the engine lives in memory only.              *)
(*                                                                         *)
(* A message is identified by its transfer and the Date.now() reading that *)
(* constructCanonicalMessage puts in it: the other fields come from the    *)
(* event, which every node reads from the same chain. Signing settles in   *)
(* microtasks (threshold-signer.ts signs in process), so nothing runs      *)
(* between proposeAttestation's checks and its writes: it is one step.     *)
(*                                                                         *)
(* Operators commented "Variant: ..." are deviations from the code that    *)
(* the model checker refutes in place of the definition they precede; no   *)
(* specification uses them.                                                *)
(***************************************************************************)
EXTENDS Integers, Sequences, FiniteSets, Functions

CONSTANTS
  Nodes,                 \* nodeId of every validator
  Transfers,             \* transferId or burnId
  Stamps,                \* clock readings at the moment an event is finalized
  minValidators,
  MaxEmits,              \* bound: events per node that open a round
  MaxLost, MaxDuplicated, \* bound: messages lost and repeated by the transport
  MaxRestarts            \* bound: restarts, all nodes together

ASSUME ConsensusAssumption ==
  /\ IsFiniteSet(Nodes)
  /\ minValidators \in Nat \ {0}
  /\ {MaxEmits, MaxLost, MaxDuplicated, MaxRestarts} \subseteq Nat

VARIABLES
  pendingConsensus,      \* node -> transfer -> PendingConsensus
  processedTransfers,    \* node -> transfers it reached consensus on
  cleanups,              \* node -> transfers whose 60 s cleanup timer runs
  net,                   \* attestations under way
  emits, lost, duplicated, restarts,   \* counters for the bounds
  \* history, read by the properties only
  signed,                \* every attestation ever signed, by [node, transfer]
  reached                \* every consensus_reached of the running processes

process_vars == <<pendingConsensus, processedTransfers, cleanups>>
bound_vars == <<emits, lost, duplicated, restarts>>
history == <<signed, reached>>
vars == <<process_vars, net, bound_vars, history>>

Attestation == [nodeId: Nodes, transferId: Transfers, messageHash: Stamps]

\* The attestations of a round all carry its message, so the round keeps the
\* nodes they name, in the order of the array.
PendingConsensus ==
  [message: Stamps, attestations: Seq(Nodes), resolved: BOOLEAN]

\* nth tells two results of one process for one transfer apart.
ConsensusResult ==
  [nodeId: Nodes, transferId: Transfers, message: Stamps,
   attestations: Seq(Nodes), nth: Nat]

Init ==
  /\ pendingConsensus = [n \in Nodes |-> <<>>]
  /\ processedTransfers = [n \in Nodes |-> {}]
  /\ cleanups = [n \in Nodes |-> {}]
  /\ net = {}
  /\ emits = [n \in Nodes |-> 0]
  /\ lost = 0 /\ duplicated = 0 /\ restarts = 0
  /\ signed = {}
  /\ reached = {}

-----------------------------------------------------------------------------
(* The engine. *)

HasRound(n, t) == t \in DOMAIN pendingConsensus[n]

Open(n, t) == HasRound(n, t) /\ ~pendingConsensus[n][t].resolved

SetRound(n, t, round) ==
  pendingConsensus' = [pendingConsensus EXCEPT ![n] =
    [u \in DOMAIN @ \cup {t} |-> IF u = t THEN round ELSE @[u]]]

\* Variant: a transfer that was processed is proposed again.
proposeProcessed(n, t, s) ==
  /\ emits[n] < MaxEmits
  /\ emits' = [emits EXCEPT ![n] = @ + 1]
  /\ ~HasRound(n, t)
  /\ SetRound(n, t, [message |-> s, attestations |-> <<n>>, resolved |-> FALSE])
  /\ LET a == [nodeId |-> n, transferId |-> t, messageHash |-> s]
     IN  /\ signed' = signed \cup {a}
         /\ net' = net \cup {[to |-> p, attestation |-> a] : p \in Nodes \ {n}}
  /\ UNCHANGED <<processedTransfers, cleanups, lost, duplicated, restarts, reached>>

\* proposeAttestation of an event the watcher emits now, at clock reading s.
\* The node's own attestation does not reach checkConsensus.
proposeAttestation(n, t, s) ==
  /\ emits[n] < MaxEmits
  /\ emits' = [emits EXCEPT ![n] = @ + 1]
  /\ t \notin processedTransfers[n]
  /\ ~HasRound(n, t)
  /\ SetRound(n, t, [message |-> s, attestations |-> <<n>>, resolved |-> FALSE])
  /\ LET a == [nodeId |-> n, transferId |-> t, messageHash |-> s]
     IN  /\ signed' = signed \cup {a}
         /\ net' = net \cup {[to |-> p, attestation |-> a] : p \in Nodes \ {n}}
  /\ UNCHANGED <<processedTransfers, cleanups, lost, duplicated, restarts, reached>>

\* checkConsensus after the push of a peer's attestation.
checkConsensus(n, t, round) ==
  IF Len(round.attestations) >= minValidators
  THEN /\ SetRound(n, t, [round EXCEPT !.resolved = TRUE])
       /\ processedTransfers' = [processedTransfers EXCEPT ![n] = @ \cup {t}]
       /\ cleanups' = [cleanups EXCEPT ![n] = @ \cup {t}]
       /\ LET earlier == {r \in reached : r.nodeId = n /\ r.transferId = t}
          IN  reached' = reached \cup
                {[nodeId |-> n, transferId |-> t, message |-> round.message,
                  attestations |-> round.attestations,
                  nth |-> Cardinality(earlier) + 1]}
  ELSE /\ SetRound(n, t, round)
       /\ UNCHANGED <<processedTransfers, cleanups, reached>>

\* Variant: the attested message is not compared with the round's.
CountsAnyMessage(n, a) ==
  /\ HasRound(n, a.transferId)
  /\ ~pendingConsensus[n][a.transferId].resolved
  /\ a.nodeId \notin Range(pendingConsensus[n][a.transferId].attestations)

\* Variant: a resolved round still collects.
CountsLate(n, a) ==
  /\ HasRound(n, a.transferId)
  /\ a.nodeId \notin Range(pendingConsensus[n][a.transferId].attestations)
  /\ a.messageHash = pendingConsensus[n][a.transferId].message

\* Variant: an attestation is a repeated one if the round has any of its transfer.
CountsPerTransfer(n, a) ==
  /\ HasRound(n, a.transferId)
  /\ ~pendingConsensus[n][a.transferId].resolved
  /\ pendingConsensus[n][a.transferId].attestations = <<>>
  /\ a.messageHash = pendingConsensus[n][a.transferId].message

\* The early returns of receiveAttestation, in the order of the code.
Counts(n, a) ==
  /\ HasRound(n, a.transferId)
  /\ ~pendingConsensus[n][a.transferId].resolved
  /\ a.nodeId \notin Range(pendingConsensus[n][a.transferId].attestations)
  /\ a.messageHash = pendingConsensus[n][a.transferId].message

receiveAttestation(n, a) ==
  IF Counts(n, a)
  THEN checkConsensus(n, a.transferId,
         [pendingConsensus[n][a.transferId] EXCEPT !.attestations = Append(@, a.nodeId)])
  ELSE UNCHANGED <<process_vars, reached>>

\* checkConsensusTimeout: a failed round stays in the map, resolved.
checkConsensusTimeout(n, t) ==
  /\ Open(n, t)
  /\ SetRound(n, t, [pendingConsensus[n][t] EXCEPT !.resolved = TRUE])
  /\ UNCHANGED <<processedTransfers, cleanups, net, bound_vars, history>>

\* The cleanup timer of a reached round.
Cleanup(n, t) ==
  /\ t \in cleanups[n]
  /\ cleanups' = [cleanups EXCEPT ![n] = @ \ {t}]
  /\ pendingConsensus' = [pendingConsensus EXCEPT ![n] = Restrict(@, DOMAIN @ \ {t})]
  /\ UNCHANGED <<processedTransfers, net, bound_vars, history>>

\* The process stops and starts again: nothing of the engine is on disk. What
\* it already sent may still arrive; `reached` counts per process.
Restart(n) ==
  /\ restarts < MaxRestarts
  /\ restarts' = restarts + 1
  /\ pendingConsensus' = [pendingConsensus EXCEPT ![n] = <<>>]
  /\ processedTransfers' = [processedTransfers EXCEPT ![n] = {}]
  /\ cleanups' = [cleanups EXCEPT ![n] = {}]
  /\ reached' = {r \in reached : r.nodeId # n}
  /\ UNCHANGED <<net, emits, lost, duplicated, signed>>

-----------------------------------------------------------------------------
(* The transport: any order, and a message may be lost with its connection *)
(* or come twice, over the inbound and the outbound connection of a pair.  *)

Deliver(m) ==
  /\ m \in net
  /\ net' = net \ {m}
  /\ receiveAttestation(m.to, m.attestation)
  /\ UNCHANGED <<bound_vars, signed>>

DeliverAgainLater(m) ==
  /\ m \in net
  /\ duplicated < MaxDuplicated
  /\ duplicated' = duplicated + 1
  /\ receiveAttestation(m.to, m.attestation)
  /\ UNCHANGED <<net, emits, lost, restarts, signed>>

Lose(m) ==
  /\ m \in net
  /\ lost < MaxLost
  /\ lost' = lost + 1
  /\ net' = net \ {m}
  /\ UNCHANGED <<process_vars, emits, duplicated, restarts, history>>

Next ==
  \/ \E n \in Nodes, t \in Transfers, s \in Stamps : proposeAttestation(n, t, s)
  \/ \E n \in Nodes, t \in Transfers : checkConsensusTimeout(n, t) \/ Cleanup(n, t)
  \/ \E n \in Nodes : Restart(n)
  \/ \E m \in net : Deliver(m) \/ DeliverAgainLater(m) \/ Lose(m)

Spec == Init /\ [][Next]_vars

-----------------------------------------------------------------------------
(* Every variable has its type, and nobody sends an attestation to itself.  *)
TypeOK ==
  /\ DOMAIN pendingConsensus = Nodes
  /\ \A n \in Nodes :
       /\ DOMAIN pendingConsensus[n] \subseteq Transfers
       /\ \A t \in DOMAIN pendingConsensus[n] :
            pendingConsensus[n][t] \in PendingConsensus
  /\ processedTransfers \in [Nodes -> SUBSET Transfers]
  /\ cleanups \in [Nodes -> SUBSET Transfers]
  /\ net \subseteq [to: Nodes, attestation: Attestation]
  /\ \A m \in net : m.to # m.attestation.nodeId
  /\ emits \in [Nodes -> 0..MaxEmits]
  /\ lost \in 0..MaxLost /\ duplicated \in 0..MaxDuplicated /\ restarts \in 0..MaxRestarts
  /\ signed \subseteq Attestation
  /\ reached \subseteq ConsensusResult

(* A result carries attestations of at least minValidators different nodes, *)
(* the reporting node among them, and every one of those nodes signed the   *)
(* very message of the result, whatever was repeated, lost or restarted.    *)
ResultsBacked ==
  \A r \in reached :
    /\ Cardinality(Range(r.attestations)) >= minValidators
    /\ r.nodeId \in Range(r.attestations)
    /\ \A n \in Range(r.attestations) :
         [nodeId |-> n, transferId |-> r.transferId, messageHash |-> r.message] \in signed

(* One process reports consensus on a transfer at most once, so it submits  *)
(* the transfer at most once, although its round is deleted after a minute  *)
(* and its watcher may report the event again.                              *)
ReachedOnce == \A r \in reached : r.nth = 1

(* A node that has not restarted signs one message per transfer, however    *)
(* often its watcher reports the event and whatever became of the round.    *)
OneMessagePerProcess ==
  restarts = 0 =>
    \A a, b \in signed :
      a.nodeId = b.nodeId /\ a.transferId = b.transferId => a.messageHash = b.messageHash

\* Every node has an open round for t, on one and the same message.
AllOpenAlike(t) ==
  \E s \in Stamps : \A n \in Nodes : Open(n, t) /\ pendingConsensus[n][t].message = s

(* No standstill: when every node signed the same message and none was lost *)
(* with a connection or a restart, the last delivery leaves a node that     *)
(* reached consensus: the node that proposed first had a round for each     *)
(* attestation it was sent. Attestations that come too early are dropped at *)
(* the other nodes, so this is the only node of which it can be said.       *)
NoStandstill ==
  \A t \in Transfers :
    (/\ minValidators \in 2..Cardinality(Nodes)
     /\ lost = 0 /\ restarts = 0
     /\ AllOpenAlike(t))
    => \E m \in net : m.attestation.transferId = t

(* What a resolved round holds never changes: the array handed to the       *)
(* consensus_reached listeners is the round's own, and it is still being    *)
(* read while the submission is under way. The round may only go away.      *)
ResolvedRoundsFrozen ==
  [][\A n \in Nodes, t \in Transfers :
       HasRound(n, t) /\ pendingConsensus[n][t].resolved /\ HasRound(n, t)'
         => (pendingConsensus[n][t] = pendingConsensus'[n][t])]_vars

(* "This ensures deterministic message construction across all nodes"       *)
(* (engine.ts:252): nodes that attest one transfer sign one message. It     *)
(* does not hold, because the message ends with a clock reading.            *)
SameMessage ==
  \A a, b \in signed : a.transferId = b.transferId => a.messageHash = b.messageHash
=============================================================================
