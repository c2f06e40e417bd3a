-------------------------- MODULE ConsensusProofs --------------------------
(***************************************************************************)
(* Theorems about Consensus for any number of nodes, transfers, losses,    *)
(* repetitions and restarts: the types, that a result is backed by         *)
(* attestations of enough different nodes, that a process reports a        *)
(* transfer once, that a resolved round no longer changes, and that        *)
(* without losses and restarts the last delivery decides.                  *)
(***************************************************************************)
EXTENDS Consensus, FiniteSetTheorems, SequenceTheorems, TLAPS

(***************************************************************************)
(* What an action does to the rounds                                       *)
(***************************************************************************)
\* Writing one round leaves the others.
LEMMA SetRoundFacts ==
  ASSUME TypeOK, NEW n \in Nodes, NEW t \in Transfers, NEW round, SetRound(n, t, round)
  PROVE  /\ DOMAIN pendingConsensus' = Nodes
         /\ HasRound(n, t)' /\ pendingConsensus'[n][t] = round
         /\ \A m \in Nodes, u \in Transfers :
              m # n \/ u # t =>
                /\ HasRound(m, u)' <=> HasRound(m, u)
                /\ HasRound(m, u) => pendingConsensus'[m][u] = pendingConsensus[m][u]
         /\ \A m \in Nodes : DOMAIN pendingConsensus'[m] \subseteq Transfers
<1> DEFINE row == [u \in DOMAIN pendingConsensus[n] \cup {t} |->
                     IF u = t THEN round ELSE pendingConsensus[n][u]]
<1>1. /\ DOMAIN pendingConsensus = Nodes
      /\ \A m \in Nodes : DOMAIN pendingConsensus[m] \subseteq Transfers
  BY DEF TypeOK
<1>2. pendingConsensus' = [pendingConsensus EXCEPT ![n] = row]
  BY DEF SetRound
<1>3. /\ DOMAIN row = DOMAIN pendingConsensus[n] \cup {t} /\ row[t] = round
      /\ \A u \in DOMAIN pendingConsensus[n] : u # t => row[u] = pendingConsensus[n][u]
  OBVIOUS
<1> HIDE DEF row
<1>4. /\ DOMAIN pendingConsensus' = Nodes /\ pendingConsensus'[n] = row
      /\ \A m \in Nodes : m # n => pendingConsensus'[m] = pendingConsensus[m]
  BY <1>1, <1>2
<1>5. QED
  BY <1>1, <1>3, <1>4 DEF HasRound

\* A round with other attestations, or resolved, field by field.
LEMMA RoundFields ==
  ASSUME NEW r \in PendingConsensus, NEW s \in Seq(Nodes)
  PROVE  /\ [r EXCEPT !.attestations = s] \in PendingConsensus
         /\ [r EXCEPT !.attestations = s].message = r.message
         /\ [r EXCEPT !.attestations = s].attestations = s
         /\ [r EXCEPT !.attestations = s].resolved = r.resolved
         /\ [r EXCEPT !.resolved = TRUE] \in PendingConsensus
         /\ [r EXCEPT !.resolved = TRUE].message = r.message
         /\ [r EXCEPT !.resolved = TRUE].attestations = r.attestations
         /\ [r EXCEPT !.resolved = TRUE].resolved
BY DEF PendingConsensus

\* Appending an element adds it to the range.
LEMMA RangeAppend ==
  ASSUME NEW S, NEW s \in Seq(S), NEW x \in S
  PROVE  /\ Range(Append(s, x)) = Range(s) \cup {x}
         /\ Len(Append(s, x)) = Len(s) + 1 /\ Append(s, x) \in Seq(S)
<1>1. /\ DOMAIN s = 1..Len(s) /\ DOMAIN Append(s, x) = 1..(Len(s) + 1) /\ Len(s) \in Nat
      /\ Append(s, x)[Len(s) + 1] = x /\ \A k \in DOMAIN s : Append(s, x)[k] = s[k]
  OBVIOUS
<1>2. ASSUME NEW y \in Range(Append(s, x)) PROVE y \in Range(s) \cup {x}
  BY <1>1 DEF Range
<1>3. ASSUME NEW y \in Range(s) PROVE y \in Range(Append(s, x))
  BY <1>1 DEF Range
<1>4. x \in Range(Append(s, x))
  BY <1>1 DEF Range
<1>5. QED
  BY <1>2, <1>3, <1>4

\* The round that a counted attestation leaves, before consensus is checked.
Counted(n, a) ==
  [pendingConsensus[n][a.transferId] EXCEPT !.attestations = Append(@, a.nodeId)]

LEMMA CountedFacts ==
  ASSUME TypeOK, NEW n \in Nodes, NEW a \in Attestation, Counts(n, a)
  PROVE  LET old == pendingConsensus[n][a.transferId]
             new == Counted(n, a)
         IN  /\ old \in PendingConsensus /\ new \in PendingConsensus
             /\ new.message = old.message /\ ~new.resolved
             /\ Len(new.attestations) = Len(old.attestations) + 1
             /\ Range(new.attestations) = Range(old.attestations) \cup {a.nodeId}
<1> DEFINE old == pendingConsensus[n][a.transferId]
<1>1. old \in PendingConsensus /\ ~old.resolved
  BY DEF TypeOK, Counts, HasRound, Attestation
<1>2. a.nodeId \in Nodes /\ old.attestations \in Seq(Nodes)
  BY <1>1 DEF PendingConsensus, Attestation
<1>3. Append(old.attestations, a.nodeId) \in Seq(Nodes)
  BY <1>2
<1>4. Counted(n, a) = [old EXCEPT !.attestations = Append(old.attestations, a.nodeId)]
  BY DEF Counted
<1> DEFINE as == Append(old.attestations, a.nodeId)
<1> HIDE DEF old
<1>5. Range(as) = Range(old.attestations) \cup {a.nodeId} /\ Len(as) = Len(old.attestations) + 1
  BY <1>2, RangeAppend
<1>6. as \in Seq(Nodes) /\ Counted(n, a) = [old EXCEPT !.attestations = as]
  BY <1>3, <1>4
<1> HIDE DEF as
<1>7. /\ [old EXCEPT !.attestations = as] \in PendingConsensus
      /\ [old EXCEPT !.attestations = as].message = old.message
      /\ [old EXCEPT !.attestations = as].attestations = as
      /\ [old EXCEPT !.attestations = as].resolved = old.resolved
  BY <1>1, <1>6, RoundFields, Zenon
<1>8. QED
  BY <1>1, <1>5, <1>6, <1>7, Zenon DEF old

(***************************************************************************)
(* The inductive invariant                                                 *)
(***************************************************************************)
RoundType ==
  /\ DOMAIN pendingConsensus = Nodes
  /\ \A n \in Nodes : DOMAIN pendingConsensus[n] \subseteq Transfers
  /\ \A n \in Nodes, t \in Transfers : HasRound(n, t) => pendingConsensus[n][t] \in PendingConsensus

EngineType ==
  /\ RoundType
  /\ processedTransfers \in [Nodes -> SUBSET Transfers]
  /\ cleanups \in [Nodes -> SUBSET Transfers]
  /\ reached \subseteq ConsensusResult

TransportType ==
  /\ net \subseteq [to: Nodes, attestation: Attestation]
  /\ \A m \in net : m.to # m.attestation.nodeId
  /\ emits \in [Nodes -> 0..MaxEmits]
  /\ lost \in 0..MaxLost /\ duplicated \in 0..MaxDuplicated /\ restarts \in 0..MaxRestarts
  /\ signed \subseteq Attestation

\* What the network carries was signed by the node it names.
SentAreSigned == \A m \in net : m.attestation \in signed

\* The nodes of a list are different, and each of them signed the message.
Backed(n, t, message, attestations) ==
  /\ n \in Range(attestations)
  /\ Cardinality(Range(attestations)) = Len(attestations)
  /\ \A k \in Range(attestations) :
       [nodeId |-> k, transferId |-> t, messageHash |-> message] \in signed

RoundsBacked ==
  \A n \in Nodes, t \in Transfers : HasRound(n, t) =>
    Backed(n, t, pendingConsensus[n][t].message, pendingConsensus[n][t].attestations)

\* processedTransfers remembers what the process reported, open rounds are of
\* other transfers, and only reported rounds are deleted.
ProcessedRemembers ==
  /\ \A r \in reached : r.nth = 1 /\ r.transferId \in processedTransfers[r.nodeId]
  /\ \A n \in Nodes, t \in Transfers : Open(n, t) => t \notin processedTransfers[n]
  /\ \A n \in Nodes : cleanups[n] \subseteq processedTransfers[n]

\* Before a restart, a node that signed for a transfer still knows of it.
SignersRemember ==
  restarts = 0 => \A a \in signed :
    HasRound(a.nodeId, a.transferId) \/ a.transferId \in processedTransfers[a.nodeId]

IInv ==
  /\ EngineType /\ TransportType
  /\ SentAreSigned /\ RoundsBacked /\ ResultsBacked
  /\ ProcessedRemembers /\ SignersRemember /\ OneMessagePerProcess

LEMMA TypeSplit == TypeOK <=> EngineType /\ TransportType
BY DEF TypeOK, EngineType, RoundType, TransportType, HasRound

LEMMA InitIInv == Init => IInv
<1> SUFFICES ASSUME Init PROVE IInv
  OBVIOUS
<1> USE ConsensusAssumption
<1>1. \A n \in Nodes : DOMAIN pendingConsensus[n] = {}
  BY DEF Init
<1>2. EngineType
  BY <1>1 DEF Init, EngineType, RoundType, HasRound
<1>3. TransportType
  BY DEF Init, TransportType
<1>4. RoundsBacked
  BY <1>1 DEF RoundsBacked, HasRound
<1>5. ProcessedRemembers
  BY <1>1 DEF Init, ProcessedRemembers, Open, HasRound
<1>6. SentAreSigned /\ ResultsBacked /\ SignersRemember /\ OneMessagePerProcess
  BY DEF Init, SentAreSigned, ResultsBacked, SignersRemember, OneMessagePerProcess
<1>7. QED
  BY <1>2, <1>3, <1>4, <1>5, <1>6 DEF IInv

\* The parts of the invariant that speak of the engine.
EngineInv ==
  /\ EngineType /\ RoundsBacked /\ ResultsBacked
  /\ ProcessedRemembers /\ SignersRemember /\ OneMessagePerProcess

\* Writing a backed round keeps every round typed and backed.
LEMMA SetRoundKeeps ==
  ASSUME TypeOK, RoundsBacked, NEW n \in Nodes, NEW t \in Transfers,
         NEW round \in PendingConsensus, SetRound(n, t, round), signed \subseteq signed',
         Backed(n, t, round.message, round.attestations)'
  PROVE  RoundType' /\ RoundsBacked'
<1>1. RoundType
  BY TypeSplit DEF EngineType, RoundType
<1>2. /\ DOMAIN pendingConsensus' = Nodes
      /\ HasRound(n, t)' /\ pendingConsensus'[n][t] = round
      /\ \A m \in Nodes, u \in Transfers :
           m # n \/ u # t =>
             /\ HasRound(m, u)' <=> HasRound(m, u)
             /\ HasRound(m, u) => pendingConsensus'[m][u] = pendingConsensus[m][u]
      /\ \A m \in Nodes : DOMAIN pendingConsensus'[m] \subseteq Transfers
  BY SetRoundFacts
<1>3. RoundType'
  BY <1>1, <1>2 DEF RoundType
<1>4. ASSUME NEW m \in Nodes, NEW u \in Transfers, HasRound(m, u)'
      PROVE  Backed(m, u, pendingConsensus[m][u].message, pendingConsensus[m][u].attestations)'
  <2>1. CASE m = n /\ u = t
    BY <1>2, <2>1
  <2>2. CASE m # n \/ u # t
    BY <1>2, <1>4, <2>2 DEF RoundsBacked, Backed
  <2>3. QED
    BY <2>1, <2>2
<1>5. QED
  BY <1>3, <1>4 DEF RoundsBacked

\* A round that grows or is resolved: what keeps the invariant.
LEMMA ReceiveKeeps ==
  ASSUME IInv, NEW n \in Nodes, NEW a \in signed, receiveAttestation(n, a),
         signed' = signed, restarts' = restarts
  PROVE  EngineInv'
<1> DEFINE t == a.transferId
           old == pendingConsensus[n][t]
           new == Counted(n, a)
           done == [new EXCEPT !.resolved = TRUE]
<1>1. CASE ~Counts(n, a)
  BY <1>1 DEF receiveAttestation, process_vars, IInv, EngineInv, EngineType, RoundType, RoundsBacked, Backed,
       ResultsBacked, ProcessedRemembers, SignersRemember, OneMessagePerProcess, HasRound, Open
<1>2. CASE Counts(n, a)
  <2>1. TypeOK /\ a \in Attestation /\ t \in Transfers /\ a.nodeId \in Nodes
    BY TypeSplit DEF IInv, TransportType, Attestation
  <2>2. /\ HasRound(n, t) /\ Open(n, t) /\ a.messageHash = old.message
        /\ a.nodeId \notin Range(old.attestations)
    BY <1>2 DEF Counts, Open
  <2>3. checkConsensus(n, t, new)
    BY <1>2 DEF receiveAttestation, Counted
  <2>4. /\ old \in PendingConsensus /\ new \in PendingConsensus
        /\ new.message = old.message /\ ~new.resolved
        /\ Len(new.attestations) = Len(old.attestations) + 1
        /\ Range(new.attestations) = Range(old.attestations) \cup {a.nodeId}
    BY <1>2, <2>1, CountedFacts
  <2> HIDE DEF new, old
  <2>5. Backed(n, t, new.message, new.attestations)
    <3>1. Backed(n, t, old.message, old.attestations)
      BY <2>1, <2>2 DEF IInv, RoundsBacked, old
    <3>2. Range(old.attestations) \subseteq Nodes /\ IsFiniteSet(Range(old.attestations))
      BY <2>4, ConsensusAssumption, FS_Subset, RangeOfSeq DEF PendingConsensus
    <3>3. Cardinality(Range(new.attestations)) = Cardinality(Range(old.attestations)) + 1
      BY <2>2, <2>4, <3>2, FS_AddElement
    <3>4. a = [nodeId |-> a.nodeId, transferId |-> t, messageHash |-> new.message]
      BY <2>1, <2>2, <2>4 DEF Attestation
    <3>5. QED
      BY <2>4, <3>1, <3>3, <3>4 DEF Backed
  <2>6. PICK round \in PendingConsensus :
          /\ SetRound(n, t, round)
          /\ round.message = new.message /\ round.attestations = new.attestations
    BY <2>3, <2>4, RoundFields DEF checkConsensus, PendingConsensus
  <2>7. RoundType' /\ RoundsBacked'
    BY <2>1, <2>5, <2>6, SetRoundKeeps DEF IInv, Backed
  <2>8. \A m \in Nodes, u \in Transfers : m # n \/ u # t =>
          (/\ HasRound(m, u)' <=> HasRound(m, u)
           /\ Open(m, u)' <=> Open(m, u))
    BY <2>1, <2>6, SetRoundFacts DEF Open
  <2>9. HasRound(n, t)'
    BY <2>1, <2>6, SetRoundFacts
  <2>10. CASE Len(new.attestations) >= minValidators
    <3> DEFINE result == [nodeId |-> n, transferId |-> t, message |-> new.message,
                          attestations |-> new.attestations, nth |-> 1]
    <3>1. /\ SetRound(n, t, done)
          /\ processedTransfers' = [processedTransfers EXCEPT ![n] = @ \cup {t}]
          /\ cleanups' = [cleanups EXCEPT ![n] = @ \cup {t}]
      BY <2>3, <2>10 DEF checkConsensus
    <3>2. {r \in reached : r.nodeId = n /\ r.transferId = t} = {}
      BY <2>1, <2>2 DEF IInv, ProcessedRemembers
    <3>3. Cardinality({r \in reached : r.nodeId = n /\ r.transferId = t}) + 1 = 1
      BY <3>2, FS_EmptySet
    <3>4. reached' = reached \cup {result}
      BY <2>3, <2>10, <3>3 DEF checkConsensus
    <3>5. ~Open(n, t)'
      <4>1. done.resolved
        BY <2>4, RoundFields DEF PendingConsensus
      <4>2. pendingConsensus'[n][t] = done
        BY <2>1, <3>1, SetRoundFacts
      <4>3. QED
        BY <4>1, <4>2, Zenon DEF Open
    <3>6. EngineType'
      <4>1. result \in ConsensusResult
        BY <2>1, <2>4 DEF ConsensusResult, PendingConsensus
      <4>2. QED
        BY <2>1, <2>7, <3>1, <3>4, <4>1 DEF IInv, EngineType
    <3>7. ResultsBacked'
      BY <2>5, <2>10, <3>4 DEF IInv, ResultsBacked, Backed
    <3>8. ProcessedRemembers'
      BY <2>1, <2>8, <3>1, <3>4, <3>5 DEF IInv, EngineType, ConsensusResult, ProcessedRemembers
    <3>9. SignersRemember' /\ OneMessagePerProcess'
      BY <2>1, <2>8, <2>9, <3>1
      DEF IInv, EngineType, TransportType, Attestation, SignersRemember, OneMessagePerProcess
    <3>10. QED
      BY <2>7, <3>6, <3>7, <3>8, <3>9 DEF EngineInv
  <2>11. CASE ~(Len(new.attestations) >= minValidators)
    <3>1. UNCHANGED <<processedTransfers, cleanups, reached>>
      BY <2>3, <2>11 DEF checkConsensus
    <3>2. EngineType' /\ ResultsBacked'
      BY <2>7, <3>1 DEF IInv, EngineType, RoundType, ResultsBacked
    <3>3. ProcessedRemembers'
      BY <2>1, <2>2, <2>8, <3>1 DEF IInv, ProcessedRemembers
    <3>4. SignersRemember' /\ OneMessagePerProcess'
      BY <2>8, <2>9, <3>1 DEF IInv, TransportType, Attestation, SignersRemember, OneMessagePerProcess
    <3>5. QED
      BY <2>7, <3>2, <3>3, <3>4 DEF EngineInv
  <2>12. QED
    BY <2>10, <2>11
<1>3. QED
  BY <1>1, <1>2

LEMMA ProposeKeeps ==
  ASSUME IInv, NEW n \in Nodes, NEW t \in Transfers, NEW s \in Stamps,
         proposeAttestation(n, t, s)
  PROVE  IInv'
<1> DEFINE a == [nodeId |-> n, transferId |-> t, messageHash |-> s]
           round == [message |-> s, attestations |-> <<n>>, resolved |-> FALSE]
<1>1. TypeOK /\ a \in Attestation
  BY TypeSplit DEF IInv, Attestation
<1>2. /\ t \notin processedTransfers[n] /\ ~HasRound(n, t)
      /\ SetRound(n, t, round) /\ signed' = signed \cup {a}
      /\ net' = net \cup {[to |-> p, attestation |-> a] : p \in Nodes \ {n}}
      /\ UNCHANGED <<processedTransfers, cleanups, reached, lost, duplicated, restarts>>
      /\ emits[n] < MaxEmits /\ emits' = [emits EXCEPT ![n] = @ + 1]
  BY DEF proposeAttestation
<1>3. round \in PendingConsensus /\ round.message = s /\ round.attestations = <<n>>
      /\ ~round.resolved
  BY DEF PendingConsensus
<1>4. Backed(n, t, s, <<n>>)'
  <2>1. Range(<<n>>) = {n} /\ Len(<<n>>) = 1
    BY DEF Range
  <2>2. Cardinality({n}) = 1
    BY FS_Singleton
  <2>3. QED
    BY <1>2, <2>1, <2>2 DEF Backed
<1> HIDE DEF round
<1>5. RoundType' /\ RoundsBacked'
  BY <1>1, <1>2, <1>3, <1>4, SetRoundKeeps DEF IInv
<1>6. /\ HasRound(n, t)'
      /\ \A m \in Nodes, u \in Transfers : m # n \/ u # t =>
           (/\ HasRound(m, u)' <=> HasRound(m, u)
            /\ Open(m, u)' <=> Open(m, u))
  BY <1>1, <1>2, SetRoundFacts DEF Open
<1>7. EngineType'
  BY <1>2, <1>5 DEF IInv, EngineType
<1>8. TransportType'
  <2>1. net' \subseteq [to: Nodes, attestation: Attestation]
    BY <1>1, <1>2 DEF IInv, TransportType
  <2>2. emits' \in [Nodes -> 0..MaxEmits]
    BY <1>2, ConsensusAssumption DEF IInv, TransportType
  <2>3. QED
    BY <1>1, <1>2, <2>1, <2>2 DEF IInv, TransportType
<1>9. SentAreSigned' /\ ResultsBacked'
  BY <1>2 DEF IInv, SentAreSigned, ResultsBacked
<1>10. ProcessedRemembers'
  BY <1>2, <1>6 DEF IInv, ProcessedRemembers
<1>11. SignersRemember' /\ OneMessagePerProcess'
  BY <1>2, <1>6 DEF IInv, TransportType, Attestation, SignersRemember, OneMessagePerProcess
<1>12. QED
  BY <1>5, <1>7, <1>8, <1>9, <1>10, <1>11 DEF IInv

LEMMA TimeoutKeeps ==
  ASSUME IInv, NEW n \in Nodes, NEW t \in Transfers, checkConsensusTimeout(n, t)
  PROVE  IInv'
<1> DEFINE old == pendingConsensus[n][t]
<1>1. TypeOK /\ HasRound(n, t) /\ old \in PendingConsensus
  BY TypeSplit DEF checkConsensusTimeout, Open, IInv, EngineType, RoundType
<1>2. /\ SetRound(n, t, [old EXCEPT !.resolved = TRUE])
      /\ UNCHANGED <<processedTransfers, cleanups, net, bound_vars, history>>
  BY DEF checkConsensusTimeout
<1>3. PICK round \in PendingConsensus :
        /\ SetRound(n, t, round) /\ round.resolved
        /\ round.message = old.message /\ round.attestations = old.attestations
  BY <1>1, <1>2, RoundFields DEF PendingConsensus
<1>4. Backed(n, t, round.message, round.attestations)'
  BY <1>1, <1>2, <1>3 DEF IInv, RoundsBacked, Backed, history
<1> HIDE DEF old
<1>5. RoundType' /\ RoundsBacked'
  BY <1>1, <1>2, <1>3, <1>4, SetRoundKeeps DEF IInv, history
<1>6. pendingConsensus'[n][t] = round /\ HasRound(n, t)'
  BY <1>1, <1>3, SetRoundFacts
<1>7. ~Open(n, t)'
  BY <1>3, <1>6, Zenon DEF Open
<1>8. \A m \in Nodes, u \in Transfers : m # n \/ u # t =>
        (/\ HasRound(m, u)' <=> HasRound(m, u)
         /\ Open(m, u)' <=> Open(m, u))
  BY <1>1, <1>3, SetRoundFacts DEF Open
<1>9. EngineType' /\ TransportType' /\ SentAreSigned' /\ ResultsBacked'
  BY <1>2, <1>5 DEF bound_vars, history, IInv, EngineType, TransportType, SentAreSigned, ResultsBacked
<1>10. ProcessedRemembers'
  BY <1>2, <1>7, <1>8 DEF history, IInv, ProcessedRemembers
<1>11. SignersRemember' /\ OneMessagePerProcess'
  BY <1>2, <1>6, <1>8
  DEF bound_vars, history, IInv, TransportType, Attestation, SignersRemember, OneMessagePerProcess
<1>12. QED
  BY <1>5, <1>9, <1>10, <1>11 DEF IInv

\* A deleted round is one that processedTransfers still tells of.
LEMMA CleanupKeeps ==
  ASSUME IInv, NEW n \in Nodes, NEW t \in Transfers, Cleanup(n, t)
  PROVE  IInv'
<1>1. /\ t \in cleanups[n]
      /\ cleanups' = [cleanups EXCEPT ![n] = @ \ {t}]
      /\ pendingConsensus' = [pendingConsensus EXCEPT ![n] = Restrict(@, DOMAIN @ \ {t})]
      /\ UNCHANGED <<processedTransfers, net, bound_vars, history>>
  BY DEF Cleanup
<1>2. /\ DOMAIN pendingConsensus = Nodes
      /\ \A m \in Nodes : DOMAIN pendingConsensus[m] \subseteq Transfers
  BY DEF IInv, EngineType, RoundType
<1>3. /\ DOMAIN pendingConsensus' = Nodes
      /\ \A m \in Nodes : DOMAIN pendingConsensus'[m] \subseteq DOMAIN pendingConsensus[m]
      /\ \A m \in Nodes, u \in Transfers : HasRound(m, u)' =>
           HasRound(m, u) /\ pendingConsensus'[m][u] = pendingConsensus[m][u]
      /\ \A m \in Nodes, u \in Transfers : HasRound(m, u) /\ ~HasRound(m, u)' =>
           m = n /\ u = t
  BY <1>1, <1>2 DEF HasRound, Restrict
<1>4. RoundType' /\ RoundsBacked'
  <2>1. RoundType'
    BY <1>2, <1>3 DEF IInv, EngineType, RoundType
  <2>2. signed' = signed /\ RoundsBacked
    BY <1>1 DEF history, IInv
  <2>3. ASSUME NEW m \in Nodes, NEW u \in Transfers, HasRound(m, u)'
        PROVE  Backed(m, u, pendingConsensus[m][u].message, pendingConsensus[m][u].attestations)'
    <3>1. HasRound(m, u) /\ pendingConsensus'[m][u] = pendingConsensus[m][u]
      BY <1>3, <2>3
    <3>2. QED
      BY <2>2, <3>1 DEF RoundsBacked, Backed
  <2>4. RoundsBacked'
    BY <2>3 DEF RoundsBacked
  <2>5. QED
    BY <2>1, <2>4
<1>5. EngineType' /\ TransportType' /\ SentAreSigned' /\ ResultsBacked'
  BY <1>1, <1>4 DEF bound_vars, history, IInv, EngineType, TransportType, SentAreSigned, ResultsBacked
<1>6. \A m \in Nodes, u \in Transfers : Open(m, u)' => Open(m, u)
  BY <1>3 DEF Open
<1>7. ProcessedRemembers'
  BY <1>1, <1>6 DEF history, IInv, EngineType, ProcessedRemembers
<1>8. SignersRemember' /\ OneMessagePerProcess'
  BY <1>1, <1>3 DEF bound_vars, history, IInv, TransportType, Attestation, SignersRemember,
       OneMessagePerProcess, ProcessedRemembers
<1>9. QED
  BY <1>4, <1>5, <1>7, <1>8 DEF IInv

LEMMA RestartKeeps ==
  ASSUME IInv, NEW n \in Nodes, Restart(n)
  PROVE  IInv'
<1>1. /\ restarts < MaxRestarts /\ restarts' = restarts + 1
      /\ pendingConsensus' = [pendingConsensus EXCEPT ![n] = <<>>]
      /\ processedTransfers' = [processedTransfers EXCEPT ![n] = {}]
      /\ cleanups' = [cleanups EXCEPT ![n] = {}]
      /\ reached' = {r \in reached : r.nodeId # n}
      /\ UNCHANGED <<net, emits, lost, duplicated, signed>>
  BY DEF Restart
<1>2. /\ DOMAIN pendingConsensus = Nodes
      /\ \A m \in Nodes : DOMAIN pendingConsensus[m] \subseteq Transfers
  BY DEF IInv, EngineType, RoundType
<1>3. /\ DOMAIN pendingConsensus' = Nodes
      /\ \A m \in Nodes : DOMAIN pendingConsensus'[m] \subseteq DOMAIN pendingConsensus[m]
      /\ \A m \in Nodes, u \in Transfers : HasRound(m, u)' =>
           /\ m # n /\ HasRound(m, u) /\ pendingConsensus'[m][u] = pendingConsensus[m][u]
  <2>1. DOMAIN <<>> = {}
    OBVIOUS
  <2>2. QED
    BY <1>1, <1>2, <2>1 DEF HasRound
<1>4. RoundType' /\ RoundsBacked'
  BY <1>1, <1>2, <1>3 DEF IInv, EngineType, RoundType, RoundsBacked, Backed
<1>5. restarts \in Nat /\ restarts' \in 0..MaxRestarts /\ restarts' # 0
  BY <1>1, ConsensusAssumption DEF IInv, TransportType
<1>6. EngineType' /\ TransportType' /\ SentAreSigned' /\ ResultsBacked'
  BY <1>1, <1>4, <1>5 DEF IInv, EngineType, TransportType, SentAreSigned, ResultsBacked
<1>7. \A m \in Nodes, u \in Transfers : Open(m, u)' => m # n /\ Open(m, u)
  BY <1>3 DEF Open
<1>8. ProcessedRemembers'
  BY <1>1, <1>7 DEF IInv, EngineType, ConsensusResult, ProcessedRemembers
<1>9. SignersRemember' /\ OneMessagePerProcess'
  BY <1>5 DEF SignersRemember, OneMessagePerProcess
<1>10. QED
  BY <1>4, <1>6, <1>8, <1>9 DEF IInv

LEMMA TransportKeeps ==
  ASSUME IInv, NEW m \in net, Deliver(m) \/ DeliverAgainLater(m) \/ Lose(m)
  PROVE  IInv'
<1>1. m.to \in Nodes /\ m.attestation \in signed /\ signed' = signed /\ restarts' = restarts
  BY DEF IInv, TransportType, SentAreSigned, Deliver, DeliverAgainLater, Lose, bound_vars, history
<1>2. TransportType' /\ SentAreSigned'
  BY <1>1, ConsensusAssumption
  DEF IInv, TransportType, SentAreSigned, Deliver, DeliverAgainLater, Lose, bound_vars, history
<1>3. CASE receiveAttestation(m.to, m.attestation)
  BY <1>1, <1>2, <1>3, ReceiveKeeps DEF IInv, EngineInv
<1>4. CASE Lose(m)
  BY <1>2, <1>4
  DEF Lose, process_vars, history, IInv, EngineType, RoundType, RoundsBacked, Backed,
      ResultsBacked, ProcessedRemembers, SignersRemember, OneMessagePerProcess, HasRound, Open
<1>5. QED
  BY <1>3, <1>4 DEF Deliver, DeliverAgainLater

LEMMA StepKeeps == IInv /\ [Next]_vars => IInv'
<1> SUFFICES ASSUME IInv, [Next]_vars PROVE IInv'
  OBVIOUS
<1>1. CASE Next
  BY <1>1, ProposeKeeps, TimeoutKeeps, CleanupKeeps, RestartKeeps, TransportKeeps DEF Next
<1>2. CASE UNCHANGED vars
  BY <1>2 DEF vars, process_vars, bound_vars, history, IInv, EngineType, RoundType, TransportType,
       SentAreSigned, RoundsBacked, Backed, ResultsBacked, ProcessedRemembers, SignersRemember,
       OneMessagePerProcess, HasRound, Open
<1>3. QED
  BY <1>1, <1>2

LEMMA Invariance == Spec => []IInv
BY InitIInv, StepKeeps, PTL DEF Spec

(***************************************************************************)
(* What a step may never do to a resolved round                            *)
(***************************************************************************)
\* Writing one round, unless it is a resolved one, changes no resolved round.
LEMMA SetRoundFreezes ==
  ASSUME TypeOK, NEW n \in Nodes, NEW t \in Transfers, NEW round, SetRound(n, t, round),
         ~HasRound(n, t) \/ ~pendingConsensus[n][t].resolved,
         NEW m \in Nodes, NEW u \in Transfers,
         HasRound(m, u), pendingConsensus[m][u].resolved
  PROVE  pendingConsensus[m][u] = pendingConsensus'[m][u]
<1>1. m # n \/ u # t
  OBVIOUS
<1>2. QED
  BY <1>1, SetRoundFacts

LEMMA StepFreezes ==
  ASSUME TypeOK, [Next]_vars, NEW m \in Nodes, NEW u \in Transfers,
         HasRound(m, u), pendingConsensus[m][u].resolved, HasRound(m, u)'
  PROVE  pendingConsensus[m][u] = pendingConsensus'[m][u]
<1>1. ASSUME NEW n \in Nodes, NEW t \in Transfers, NEW s \in Stamps, proposeAttestation(n, t, s)
      PROVE  pendingConsensus[m][u] = pendingConsensus'[m][u]
  BY <1>1, SetRoundFreezes DEF proposeAttestation
<1>2. ASSUME NEW n \in Nodes, NEW t \in Transfers, checkConsensusTimeout(n, t)
      PROVE  pendingConsensus[m][u] = pendingConsensus'[m][u]
  BY <1>2, SetRoundFreezes DEF checkConsensusTimeout, Open
<1>3. ASSUME NEW n \in Nodes, NEW a \in Attestation, receiveAttestation(n, a)
      PROVE  pendingConsensus[m][u] = pendingConsensus'[m][u]
  <2>1. CASE Counts(n, a)
    <3>1. /\ a.transferId \in Transfers
          /\ ~pendingConsensus[n][a.transferId].resolved
      BY <2>1 DEF Counts, Attestation
    <3>2. \E round : SetRound(n, a.transferId, round)
      BY <1>3, <2>1 DEF receiveAttestation, checkConsensus
    <3>3. QED
      BY <3>1, <3>2, SetRoundFreezes
  <2>2. CASE ~Counts(n, a)
    BY <1>3, <2>2 DEF receiveAttestation, process_vars
  <2>3. QED
    BY <2>1, <2>2
<1>4. ASSUME NEW x \in net, Deliver(x) \/ DeliverAgainLater(x) \/ Lose(x)
      PROVE  pendingConsensus[m][u] = pendingConsensus'[m][u]
  <2>1. x.to \in Nodes /\ x.attestation \in Attestation
    BY DEF TypeOK
  <2>2. QED
    BY <1>3, <1>4, <2>1 DEF Deliver, DeliverAgainLater, Lose, process_vars
<1>5. ASSUME NEW n \in Nodes, NEW t \in Transfers, Cleanup(n, t)
      PROVE  pendingConsensus[m][u] = pendingConsensus'[m][u]
  BY <1>5 DEF Cleanup, TypeOK, HasRound, Restrict
<1>6. ASSUME NEW n \in Nodes, Restart(n)
      PROVE  pendingConsensus[m][u] = pendingConsensus'[m][u]
  <2>1. pendingConsensus'[n] = <<>> /\ (m # n => pendingConsensus'[m] = pendingConsensus[m])
    BY <1>6 DEF Restart, TypeOK
  <2>2. m # n
    BY <2>1 DEF HasRound
  <2>3. QED
    BY <2>1, <2>2
<1>7. CASE UNCHANGED vars
  BY <1>7 DEF vars, process_vars
<1>8. CASE Next
  BY <1>1, <1>2, <1>4, <1>5, <1>6, <1>8 DEF Next
<1>9. QED
  BY <1>7, <1>8

(***************************************************************************)
(* The theorems                                                            *)
(***************************************************************************)
\* The engine's maps, the transport and the counters keep their types.
THEOREM TypeCorrect == Spec => []TypeOK
<1>1. IInv => TypeOK
  BY TypeSplit DEF IInv
<1>2. QED
  BY <1>1, Invariance, PTL

\* Whatever is lost, repeated or restarted, a consensus_reached result holds
\* attestations of minValidators different nodes that signed its message.
THEOREM ResultsAreBacked == Spec => []ResultsBacked
<1>1. IInv => ResultsBacked
  BY DEF IInv
<1>2. QED
  BY <1>1, Invariance, PTL

\* One process reports consensus_reached at most once per transfer, so it
\* submits a transfer at most once.
THEOREM ReportedOnce == Spec => []ReachedOnce
<1>1. IInv => ReachedOnce
  BY DEF IInv, ProcessedRemembers, ReachedOnce
<1>2. QED
  BY <1>1, Invariance, PTL

\* A node that has not restarted never signs two messages for one transfer.
THEOREM SignsOneMessage == Spec => []OneMessagePerProcess
<1>1. IInv => OneMessagePerProcess
  BY DEF IInv
<1>2. QED
  BY <1>1, Invariance, PTL

\* The round that the consensus_reached listeners are still reading is never
\* written again: it may only be deleted.
THEOREM ResolvedRoundsStay == Spec => ResolvedRoundsFrozen
<1> DEFINE Frozen == \A n \in Nodes, t \in Transfers :
      HasRound(n, t) /\ pendingConsensus[n][t].resolved /\ HasRound(n, t)'
        => (pendingConsensus[n][t] = pendingConsensus'[n][t])
<1>1. TypeOK /\ [Next]_vars => [Frozen]_vars
  BY StepFreezes
<1>2. QED
  BY <1>1, TypeCorrect, PTL DEF Spec, ResolvedRoundsFrozen

(***************************************************************************)
(* No standstill. The node that proposed first has a round for whatever is *)
(* signed after it, so it hears of every attestation: each is counted, is  *)
(* still under way, is of another message, or came when the round was over.*)
(* An open round that hears everybody would have been resolved.            *)
(***************************************************************************)
Knows(f, t) == HasRound(f, t) \/ t \in processedTransfers[f]

Heard(f, a) ==
  Open(f, a.transferId) =>
    \/ a.messageHash # pendingConsensus[f][a.transferId].message
    \/ a.nodeId \in Range(pendingConsensus[f][a.transferId].attestations)
    \/ [to |-> f, attestation |-> a] \in net

Hears(f, t) == Knows(f, t) /\ \A a \in signed : a.transferId = t => Heard(f, a)

FirstHears ==
  lost = 0 /\ restarts = 0 =>
    \A t \in Transfers : (\E a \in signed : a.transferId = t) => \E f \in Nodes : Hears(f, t)

ShortWhileOpen ==
  minValidators >= 2 =>
    \A n \in Nodes, t \in Transfers :
      Open(n, t) => Len(pendingConsensus[n][t].attestations) < minValidators

\* What is heard stays heard while the round only grows and keeps its message.
LEMMA HeardKept ==
  ASSUME NEW f, NEW a, Heard(f, a),
         Open(f, a.transferId)' =>
           /\ Open(f, a.transferId)
           /\ pendingConsensus'[f][a.transferId].message = pendingConsensus[f][a.transferId].message
           /\ Range(pendingConsensus[f][a.transferId].attestations) \subseteq
                Range(pendingConsensus'[f][a.transferId].attestations),
         [to |-> f, attestation |-> a] \in net => [to |-> f, attestation |-> a] \in net'
  PROVE  Heard(f, a)'
BY DEF Heard

\* A delivery to f is heard: it is counted, or there is a reason not to.
LEMMA ReceivedHeard ==
  ASSUME IInv, NEW n \in Nodes, NEW b \in signed, receiveAttestation(n, b), signed' = signed,
         NEW f \in Nodes, NEW t \in Transfers, Hears(f, t),
         \A m \in net : m \in net' \/ m = [to |-> n, attestation |-> b]
  PROVE  Hears(f, t)'
<1>1. TypeOK /\ b \in Attestation /\ b.transferId \in Transfers /\ signed \subseteq Attestation
      /\ processedTransfers \in [Nodes -> SUBSET Transfers]
  BY TypeSplit DEF IInv, TransportType, EngineType, Attestation
<1> DEFINE old == pendingConsensus[n][b.transferId]
           new == Counted(n, b)
<1>2. CASE ~ Counts(n, b)
  <2>1. UNCHANGED <<pendingConsensus, processedTransfers>>
    BY <1>2 DEF receiveAttestation, process_vars
  <2>2. Knows(f, t)'
    BY <2>1 DEF Hears, Knows, HasRound
  <2>3. ASSUME NEW a \in signed, a.transferId = t
        PROVE  Heard(f, a)'
    <3>1. Heard(f, a)
      BY <2>3 DEF Hears
    <3>2. CASE n = f /\ b = a
      BY <1>2, <2>1, <3>2 DEF Counts, Heard, Open, HasRound
    <3>3. CASE ~ (n = f /\ b = a)
      <4>1. [to |-> n, attestation |-> b] # [to |-> f, attestation |-> a]
        BY <3>3
      <4>2. [to |-> f, attestation |-> a] \in net => [to |-> f, attestation |-> a] \in net'
        BY <4>1
      <4> QED BY <2>1, <3>1, <4>2 DEF Heard, Open, HasRound
    <3> QED BY <3>2, <3>3
  <2> QED BY <2>2, <2>3 DEF Hears
<1>3. CASE Counts(n, b)
  <2>1. /\ old \in PendingConsensus /\ new \in PendingConsensus
        /\ new.message = old.message /\ ~new.resolved
        /\ Range(new.attestations) = Range(old.attestations) \cup {b.nodeId}
    BY <1>1, <1>3, CountedFacts
  <2>2. checkConsensus(n, b.transferId, new) /\ Open(n, b.transferId)
    BY <1>3 DEF receiveAttestation, Counted, Counts, Open
  <2> HIDE DEF new, old
  <2>3. PICK round \in PendingConsensus :
          /\ SetRound(n, b.transferId, round)
          /\ round.message = new.message /\ round.attestations = new.attestations
    BY <2>1, <2>2, RoundFields DEF checkConsensus, PendingConsensus
  <2>4. /\ HasRound(n, b.transferId)' /\ pendingConsensus'[n][b.transferId] = round
        /\ \A m \in Nodes, u \in Transfers : m # n \/ u # b.transferId =>
             /\ HasRound(m, u)' <=> HasRound(m, u)
             /\ HasRound(m, u) => pendingConsensus'[m][u] = pendingConsensus[m][u]
    BY <1>1, <2>3, SetRoundFacts
  <2>5. \A m \in Nodes : processedTransfers[m] \subseteq processedTransfers'[m]
    BY <1>1, <2>2 DEF checkConsensus
  <2>6. Knows(f, t)'
    BY <2>4, <2>5 DEF Hears, Knows
  <2>7. ASSUME NEW a \in signed, a.transferId = t
        PROVE  Heard(f, a)'
    <3>1. Heard(f, a)
      BY <2>7 DEF Hears
    <3>2. CASE ~ (n = f /\ b.transferId = t)
      <4>1. [to |-> n, attestation |-> b] # [to |-> f, attestation |-> a]
        BY <2>7, <3>2
      <4>2. [to |-> f, attestation |-> a] \in net => [to |-> f, attestation |-> a] \in net'
        BY <4>1
      <4> QED BY <2>4, <2>7, <3>1, <3>2, <4>2 DEF Heard, Open
    <3>3. CASE n = f /\ b.transferId = t /\ b = a
      <4>1. a.nodeId \in Range(round.attestations)
        BY <2>1, <2>3, <3>3
      <4> QED BY <2>4, <2>7, <3>3, <4>1 DEF Heard
    <3>4. CASE n = f /\ b.transferId = t /\ b # a
      <4>1. [to |-> n, attestation |-> b] # [to |-> f, attestation |-> a]
        BY <3>4
      <4>2. [to |-> f, attestation |-> a] \in net => [to |-> f, attestation |-> a] \in net'
        BY <4>1
      <4>3. /\ Open(f, a.transferId)
            /\ pendingConsensus'[f][a.transferId].message = pendingConsensus[f][a.transferId].message
            /\ Range(pendingConsensus[f][a.transferId].attestations) \subseteq
                 Range(pendingConsensus'[f][a.transferId].attestations)
        BY <2>1, <2>2, <2>3, <2>4, <2>7, <3>4 DEF old
      <4> QED BY <3>1, <4>2, <4>3, HeardKept
    <3> QED BY <3>2, <3>3, <3>4
  <2> QED BY <2>6, <2>7 DEF Hears
<1> QED BY <1>2, <1>3

LEMMA HearsKept ==
  ASSUME IInv, [Next]_vars, lost' = 0, restarts' = 0, NEW f \in Nodes, NEW t \in Transfers, Hears(f, t)
  PROVE  Hears(f, t)'
<1>1. /\ TypeOK /\ lost \in Nat /\ restarts \in Nat /\ signed \subseteq Attestation
      /\ DOMAIN pendingConsensus = Nodes
      /\ \A n \in Nodes : cleanups[n] \subseteq processedTransfers[n]
  BY TypeSplit, ConsensusAssumption
  DEF IInv, TransportType, EngineType, RoundType, ProcessedRemembers
\* Where only another round, or none, is written.
<1>2. ASSUME processedTransfers' = processedTransfers, net' = net, signed' = signed,
             HasRound(f, t)' <=> HasRound(f, t),
             Open(f, t)' => /\ Open(f, t)
                            /\ pendingConsensus'[f][t] = pendingConsensus[f][t]
      PROVE  Hears(f, t)'
  <2>1. ASSUME NEW a \in signed, a.transferId = t
        PROVE  Heard(f, a)'
    BY <1>2, <2>1 DEF Hears, Heard
  <2> QED BY <1>2, <2>1 DEF Hears, Knows
<1>3. ASSUME NEW n \in Nodes, NEW u \in Transfers, NEW s \in Stamps, proposeAttestation(n, u, s)
      PROVE  Hears(f, t)'
  <2> DEFINE b == [nodeId |-> n, transferId |-> u, messageHash |-> s]
             round == [message |-> s, attestations |-> <<n>>, resolved |-> FALSE]
  <2>1. /\ u \notin processedTransfers[n] /\ ~HasRound(n, u)
        /\ SetRound(n, u, round) /\ signed' = signed \cup {b}
        /\ net' = net \cup {[to |-> p, attestation |-> b] : p \in Nodes \ {n}}
        /\ processedTransfers' = processedTransfers
    BY <1>3 DEF proposeAttestation
  <2>2. n # f \/ u # t
    BY <2>1 DEF Hears, Knows
  <2>3. b.transferId = u
    OBVIOUS
  <2> HIDE DEF b, round
  <2>4. /\ HasRound(f, t)' <=> HasRound(f, t)
        /\ HasRound(f, t) => pendingConsensus'[f][t] = pendingConsensus[f][t]
    BY <1>1, <2>1, <2>2, SetRoundFacts
  <2>5. ASSUME NEW a \in signed, a.transferId = t
        PROVE  Heard(f, a)'
    BY <2>1, <2>4, <2>5 DEF Hears, Heard, Open
  <2>6. u = t => Heard(f, b)'
    <3>1. u = t => [to |-> f, attestation |-> b] \in net'
      BY <2>1, <2>2
    <3> QED BY <3>1 DEF Heard
  <2> QED BY <2>1, <2>3, <2>4, <2>5, <2>6 DEF Hears, Knows
<1>4. ASSUME NEW n \in Nodes, NEW u \in Transfers, checkConsensusTimeout(n, u)
      PROVE  Hears(f, t)'
  <2> DEFINE old == pendingConsensus[n][u]
  <2>1. HasRound(n, u) /\ old \in PendingConsensus
        /\ SetRound(n, u, [old EXCEPT !.resolved = TRUE])
        /\ UNCHANGED <<processedTransfers, net, signed>>
    BY <1>1, <1>4 DEF checkConsensusTimeout, Open, HasRound, TypeOK, history
  <2>2. PICK round \in PendingConsensus : SetRound(n, u, round) /\ round.resolved
    BY <2>1, RoundFields DEF PendingConsensus
  <2>3. /\ pendingConsensus'[n][u] = round /\ HasRound(n, u)'
        /\ \A m \in Nodes, v \in Transfers : m # n \/ v # u =>
             /\ HasRound(m, v)' <=> HasRound(m, v)
             /\ HasRound(m, v) => pendingConsensus'[m][v] = pendingConsensus[m][v]
    BY <1>1, <2>2, SetRoundFacts
  <2>4. ~Open(n, u)'
    BY <2>2, <2>3, Zenon DEF Open
  <2>5. CASE n = f /\ u = t
    BY <1>2, <2>1, <2>3, <2>4, <2>5
  <2>6. CASE n # f \/ u # t
    BY <1>2, <2>1, <2>3, <2>6 DEF Open
  <2> QED BY <2>5, <2>6
<1>5. ASSUME NEW n \in Nodes, NEW u \in Transfers, Cleanup(n, u)
      PROVE  Hears(f, t)'
  <2>1. /\ u \in cleanups[n]
        /\ pendingConsensus' = [pendingConsensus EXCEPT ![n] = Restrict(@, DOMAIN @ \ {u})]
        /\ UNCHANGED <<processedTransfers, net, signed>>
    BY <1>5 DEF Cleanup, history
  <2>2. /\ HasRound(f, t)' => HasRound(f, t) /\ pendingConsensus'[f][t] = pendingConsensus[f][t]
        /\ HasRound(f, t) /\ ~HasRound(f, t)' => f = n /\ t = u
    BY <1>1, <2>1 DEF HasRound, Restrict
  <2>3. Knows(f, t)'
    BY <1>1, <2>1, <2>2 DEF Hears, Knows
  <2>4. ASSUME NEW a \in signed, a.transferId = t
        PROVE  Heard(f, a)'
    BY <2>1, <2>2, <2>4 DEF Hears, Heard, Open
  <2> QED BY <2>1, <2>3, <2>4 DEF Hears
<1>6. ASSUME NEW n \in Nodes, Restart(n)
      PROVE  FALSE
  BY <1>1, <1>6 DEF Restart
<1>7. ASSUME NEW m \in net, Deliver(m) \/ DeliverAgainLater(m) \/ Lose(m)
      PROVE  Hears(f, t)'
  <2>1. ~ Lose(m)
    BY <1>1 DEF Lose
  <2>2. /\ m.to \in Nodes /\ m.attestation \in signed /\ signed' = signed
        /\ m = [to |-> m.to, attestation |-> m.attestation]
    BY <1>7 DEF IInv, TransportType, SentAreSigned, Deliver, DeliverAgainLater, Lose, history
  <2>3. receiveAttestation(m.to, m.attestation) /\ net \ {m} \subseteq net'
    BY <1>7, <2>1 DEF Deliver, DeliverAgainLater
  <2> QED BY <2>2, <2>3, ReceivedHeard
<1>8. CASE UNCHANGED vars
  BY <1>2, <1>8 DEF vars, process_vars, history, HasRound, Open
<1> QED BY <1>3, <1>4, <1>5, <1>6, <1>7, <1>8 DEF Next

LEMMA FirstKept == IInv /\ FirstHears /\ [Next]_vars => FirstHears'
<1> SUFFICES ASSUME IInv, FirstHears, [Next]_vars, lost' = 0, restarts' = 0,
                    NEW t \in Transfers, NEW b \in signed', b.transferId = t
             PROVE  \E f \in Nodes : Hears(f, t)'
  BY DEF FirstHears
<1>1. /\ TypeOK /\ lost \in Nat /\ restarts \in Nat /\ signed \subseteq Attestation
  BY TypeSplit, ConsensusAssumption DEF IInv, TransportType
<1>2. lost = 0 /\ restarts = 0
  <2>1. /\ lost' = lost \/ lost' = lost + 1
        /\ restarts' = restarts \/ restarts' = restarts + 1
    <3>1. ASSUME NEW m \in net, Deliver(m) \/ DeliverAgainLater(m) \/ Lose(m)
          PROVE  (lost' = lost \/ lost' = lost + 1) /\ restarts' = restarts
      BY <3>1 DEF Deliver, DeliverAgainLater, Lose, bound_vars
    <3>2. ASSUME NEW n \in Nodes, NEW t1 \in Transfers, NEW s \in Stamps, proposeAttestation(n, t1, s)
          PROVE  lost' = lost /\ restarts' = restarts
      BY <3>2 DEF proposeAttestation
    <3>3. ASSUME NEW n \in Nodes, NEW t1 \in Transfers, checkConsensusTimeout(n, t1) \/ Cleanup(n, t1)
          PROVE  lost' = lost /\ restarts' = restarts
      BY <3>3 DEF checkConsensusTimeout, Cleanup, bound_vars
    <3>4. ASSUME NEW n \in Nodes, Restart(n)
          PROVE  lost' = lost /\ restarts' = restarts + 1
      BY <3>4 DEF Restart
    <3>5. CASE UNCHANGED vars
      BY <3>5 DEF vars, bound_vars
    <3> QED BY <3>1, <3>2, <3>3, <3>4, <3>5 DEF Next
  <2> QED BY <1>1, <2>1
<1>3. CASE \E a \in signed : a.transferId = t
  <2>1. PICK f \in Nodes : Hears(f, t)
    BY <1>2, <1>3 DEF FirstHears
  <2> QED BY <2>1, HearsKept
<1>4. CASE ~ \E a \in signed : a.transferId = t
  <2>1. b \notin signed
    BY <1>4
  <2>2. PICK n \in Nodes, u \in Transfers, s \in Stamps : proposeAttestation(n, u, s)
    BY <2>1
    DEF Next, checkConsensusTimeout, Cleanup, Restart, Deliver, DeliverAgainLater, Lose, history, vars
  <2> DEFINE new == [nodeId |-> n, transferId |-> u, messageHash |-> s]
             round == [message |-> s, attestations |-> <<n>>, resolved |-> FALSE]
  <2>3. SetRound(n, u, round) /\ signed' = signed \cup {new}
    BY <2>2 DEF proposeAttestation
  <2>4. new.transferId = u /\ new.nodeId = n /\ round.attestations = <<n>>
    OBVIOUS
  <2>5. b = new /\ u = t
    BY <2>1, <2>3
  <2> HIDE DEF new, round
  <2>6. HasRound(n, u)' /\ pendingConsensus'[n][u] = round
    BY <1>1, <2>3, SetRoundFacts
  <2>7. n \in Range(pendingConsensus'[n][u].attestations)
    <3>1. n \in Range(<<n>>)
      BY DEF Range
    <3> QED BY <2>4, <2>6, <3>1
  <2>8. \A a \in signed' : a.transferId = t => a = new
    BY <1>4, <2>3
  <2>9. Heard(n, new)'
    BY <2>4, <2>7 DEF Heard
  <2>10. Hears(n, t)'
    BY <2>5, <2>6, <2>8, <2>9 DEF Hears, Knows
  <2> QED BY <2>10
<1> QED BY <1>3, <1>4

LEMMA ShortKept == IInv /\ ShortWhileOpen /\ [Next]_vars => ShortWhileOpen'
<1> SUFFICES ASSUME IInv, ShortWhileOpen, [Next]_vars, minValidators >= 2,
                    NEW n \in Nodes, NEW t \in Transfers, Open(n, t)'
             PROVE  Len(pendingConsensus'[n][t].attestations) < minValidators
  BY DEF ShortWhileOpen
<1>1. TypeOK /\ net \subseteq [to: Nodes, attestation: Attestation] /\ minValidators \in Nat
  BY TypeSplit, ConsensusAssumption DEF IInv, TransportType
\* The round is the one it was, or it was written.
<1>2. ASSUME Open(n, t), pendingConsensus'[n][t] = pendingConsensus[n][t]
      PROVE  Len(pendingConsensus'[n][t].attestations) < minValidators
  BY <1>2 DEF ShortWhileOpen
<1>3. ASSUME NEW k \in Nodes, NEW u \in Transfers, NEW round, SetRound(k, u, round),
             k = n /\ u = t => round.resolved \/ Len(round.attestations) < minValidators
      PROVE  Len(pendingConsensus'[n][t].attestations) < minValidators
  <2>1. /\ HasRound(k, u)' /\ pendingConsensus'[k][u] = round
        /\ \A m \in Nodes, v \in Transfers : m # k \/ v # u =>
             /\ HasRound(m, v)' <=> HasRound(m, v)
             /\ HasRound(m, v) => pendingConsensus'[m][v] = pendingConsensus[m][v]
    BY <1>1, <1>3, SetRoundFacts
  <2>2. CASE k = n /\ u = t
    BY <1>3, <2>1, <2>2 DEF Open
  <2>3. CASE k # n \/ u # t
    <3>1. Open(n, t) /\ pendingConsensus'[n][t] = pendingConsensus[n][t]
      BY <2>1, <2>3 DEF Open
    <3> QED BY <1>2, <3>1
  <2> QED BY <2>2, <2>3
<1>4. ASSUME NEW k \in Nodes, NEW u \in Transfers, NEW s \in Stamps, proposeAttestation(k, u, s)
      PROVE  Len(pendingConsensus'[n][t].attestations) < minValidators
  <2> DEFINE round == [message |-> s, attestations |-> <<k>>, resolved |-> FALSE]
  <2>1. SetRound(k, u, round)
    BY <1>4 DEF proposeAttestation
  <2>2. Len(round.attestations) < minValidators
    BY <1>1
  <2> HIDE DEF round
  <2> QED BY <1>3, <2>1, <2>2
<1>5. ASSUME NEW k \in Nodes, NEW u \in Transfers, checkConsensusTimeout(k, u)
      PROVE  Len(pendingConsensus'[n][t].attestations) < minValidators
  <2> DEFINE old == pendingConsensus[k][u]
  <2>1. old \in PendingConsensus /\ SetRound(k, u, [old EXCEPT !.resolved = TRUE])
    BY <1>1, <1>5 DEF checkConsensusTimeout, Open, HasRound, TypeOK
  <2>2. PICK round \in PendingConsensus : SetRound(k, u, round) /\ round.resolved
    BY <2>1, RoundFields DEF PendingConsensus
  <2> QED BY <1>3, <2>2
<1>6. ASSUME NEW k \in Nodes, NEW b \in Attestation, receiveAttestation(k, b)
      PROVE  Len(pendingConsensus'[n][t].attestations) < minValidators
  <2>1. CASE ~ Counts(k, b)
    <3>1. UNCHANGED pendingConsensus
      BY <1>6, <2>1 DEF receiveAttestation, process_vars
    <3> QED BY <1>2, <3>1 DEF Open, HasRound
  <2>2. CASE Counts(k, b)
    <3> DEFINE new == Counted(k, b)
    <3>1. new \in PendingConsensus /\ b.transferId \in Transfers
      BY <1>1, <2>2, CountedFacts DEF Attestation
    <3>2. checkConsensus(k, b.transferId, new)
      BY <1>6, <2>2 DEF receiveAttestation, Counted
    <3> HIDE DEF new
    <3>3. Len(new.attestations) \in Nat
      BY <3>1 DEF PendingConsensus
    <3>4. CASE Len(new.attestations) >= minValidators
      <4>1. PICK round \in PendingConsensus : SetRound(k, b.transferId, round) /\ round.resolved
        BY <3>1, <3>2, <3>4, RoundFields DEF checkConsensus, PendingConsensus
      <4> QED BY <1>3, <3>1, <4>1
    <3>5. CASE ~ Len(new.attestations) >= minValidators
      <4>1. SetRound(k, b.transferId, new)
        BY <3>2, <3>5 DEF checkConsensus
      <4>2. Len(new.attestations) < minValidators
        BY <1>1, <3>3, <3>5
      <4> QED BY <1>3, <3>1, <4>1, <4>2
    <3> QED BY <3>4, <3>5
  <2> QED BY <2>1, <2>2
<1>7. ASSUME NEW m \in net, Deliver(m) \/ DeliverAgainLater(m) \/ Lose(m)
      PROVE  Len(pendingConsensus'[n][t].attestations) < minValidators
  <2>1. CASE Lose(m)
    <3>1. UNCHANGED pendingConsensus
      BY <2>1 DEF Lose, process_vars
    <3> QED BY <1>2, <3>1 DEF Open, HasRound
  <2>2. CASE Deliver(m) \/ DeliverAgainLater(m)
    <3>1. m.to \in Nodes /\ m.attestation \in Attestation
      BY <1>1
    <3> QED BY <1>6, <2>2, <3>1 DEF Deliver, DeliverAgainLater
  <2> QED BY <1>7, <2>1, <2>2
<1>8. ASSUME NEW k \in Nodes, NEW u \in Transfers, Cleanup(k, u)
      PROVE  Len(pendingConsensus'[n][t].attestations) < minValidators
  <2>1. HasRound(n, t)' => HasRound(n, t) /\ pendingConsensus'[n][t] = pendingConsensus[n][t]
    BY <1>1, <1>8 DEF Cleanup, TypeOK, HasRound, Restrict
  <2> QED BY <1>2, <2>1 DEF Open
<1>9. ASSUME NEW k \in Nodes, Restart(k)
      PROVE  Len(pendingConsensus'[n][t].attestations) < minValidators
  <2>1. pendingConsensus'[k] = <<>> /\ (n # k => pendingConsensus'[n] = pendingConsensus[n])
    BY <1>1, <1>9 DEF Restart, TypeOK
  <2>2. n # k
    BY <2>1 DEF Open, HasRound
  <2> QED BY <1>2, <2>1, <2>2 DEF Open, HasRound
<1>10. CASE UNCHANGED vars
  BY <1>2, <1>10 DEF vars, process_vars, Open, HasRound
<1> QED BY <1>4, <1>5, <1>7, <1>8, <1>9, <1>10 DEF Next

LEMMA EverybodyHeard == IInv /\ FirstHears /\ ShortWhileOpen => NoStandstill
<1> SUFFICES ASSUME IInv, FirstHears, ShortWhileOpen, NEW t \in Transfers,
                    minValidators \in 2 .. Cardinality(Nodes), lost = 0, restarts = 0, AllOpenAlike(t),
                    \A m \in net : m.attestation.transferId # t
             PROVE  FALSE
  BY DEF NoStandstill
<1>1. PICK s \in Stamps : \A n \in Nodes : Open(n, t) /\ pendingConsensus[n][t].message = s
  BY DEF AllOpenAlike
<1>2. \A n \in Nodes : Backed(n, t, s, pendingConsensus[n][t].attestations)
  BY <1>1 DEF Open, IInv, RoundsBacked
<1>3. \A n \in Nodes : [nodeId |-> n, transferId |-> t, messageHash |-> s] \in signed
  BY <1>2 DEF Backed
<1>4. Cardinality(Nodes) \in Nat /\ minValidators \in Nat /\ minValidators <= Cardinality(Nodes)
  BY ConsensusAssumption, FS_CardinalityType
<1>5. Nodes # {}
  BY <1>4, FS_EmptySet
<1>6. PICK f \in Nodes : Hears(f, t)
  BY <1>3, <1>5 DEF FirstHears
<1> DEFINE heard == pendingConsensus[f][t].attestations
<1>7. Nodes \subseteq Range(heard)
  <2> SUFFICES ASSUME NEW n \in Nodes
               PROVE  n \in Range(heard)
    OBVIOUS
  <2> DEFINE a == [nodeId |-> n, transferId |-> t, messageHash |-> s]
  <2>1. a \in signed /\ a.transferId = t /\ a.messageHash = s /\ a.nodeId = n
    BY <1>3
  <2> HIDE DEF a
  <2>2. Heard(f, a) /\ Open(f, t)
    BY <1>1, <1>6, <2>1 DEF Hears
  <2>3. [to |-> f, attestation |-> a] \notin net
    BY <2>1
  <2> QED BY <1>1, <2>1, <2>2, <2>3 DEF Heard
<1>8. /\ Cardinality(Range(heard)) = Len(heard) /\ heard \in Seq(Nodes)
      /\ Len(heard) < minValidators
  BY <1>1, <1>2, <1>4 DEF Backed, ShortWhileOpen, IInv, EngineType, RoundType, PendingConsensus, Open
<1>9. Range(heard) = Nodes
  BY <1>7, <1>8, RangeOfSeq
<1>10. Cardinality(Nodes) = Len(heard) /\ Len(heard) \in Nat
  BY <1>8, <1>9
<1> QED BY <1>4, <1>8, <1>10

\* While nothing is lost, the last delivery of a message that every node signed
\* leaves a node that reached consensus: the one that proposed first hears of
\* everybody's attestation, and an open round has fewer than minValidators.
THEOREM LastDeliveryDecides == Spec => []NoStandstill
<1>1. Init => FirstHears /\ ShortWhileOpen
  BY DEF Init, FirstHears, ShortWhileOpen, Open, HasRound
<1>2. FirstHears /\ ShortWhileOpen /\ IInv /\ [Next]_vars => (FirstHears /\ ShortWhileOpen)'
  BY FirstKept, ShortKept
<1> QED BY <1>1, <1>2, EverybodyHeard, Invariance, PTL DEF Spec
=============================================================================
