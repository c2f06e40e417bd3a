--------------------------- MODULE ValidatorNode ---------------------------
(***************************************************************************)
(* One validator process (validator/src/main.ts): its signer's key on      *)
(* disk, its two watchers, the engine they report to, and the submission   *)
(* of what the engine reports to the other chain.                          *)
(*                                                                         *)
(* The engine is Consensus.tla's, seen from this node: a round is opened   *)
(* once per id, then fails or is reached, by the peers' doing; a failed    *)
(* round stays. The chains' own checks of a submission are the modules     *)
(* BridgeLock and BridgeController; here a submission lands or does not.   *)
(***************************************************************************)
EXTENDS SolanaWatcher, DccWatcher

CONSTANTS
  envKey,                 \* SIGNER_ENCRYPTION_KEY is set
  MaxFaults, MaxCrashes   \* bounds: failed requests and lost notifications; crashes

ASSUME NodeAssumption ==
  /\ envKey \in BOOLEAN /\ MaxFaults \in Nat /\ MaxCrashes \in Nat
  \* Transfer ids and burn ids are hashes; no two of them are the same. An event
  \* that is no deposit's may tell any id.
  /\ {transferId[d] : d \in Deposits} \cap (Burns \X Nat) = {}
  /\ Transactions \cap Burns = {}

VARIABLES
  phase,                  \* how far main() has come
  keyPair,                \* the signer's key in memory, 0: none
  keyFile, encFile,       \* privateKeyPath and privateKeyPath + '.key'
  rounds,                 \* id -> [type, event, status]
  submitting,             \* submissions whose request is not answered
  landed,                 \* what the other chain executed
  faults, crashes,
  identities,             \* history: every key the node ran with
  excused                 \* history: deposits and burns lost for a cause

key_vars == <<keyPair, keyFile, encFile, identities>>
engine_vars == <<rounds, submitting, landed>>
main_vars == <<phase, key_vars, engine_vars, faults, crashes, excused>>
node_vars == <<sol_vars, dcc_vars, main_vars>>

Watching == phase \in {"watching", "up"}

NodeInit ==
  /\ SolInit /\ DccInit
  /\ phase = "down"
  /\ keyPair = 0 /\ keyFile = 0 /\ encFile = 0 /\ identities = {}
  /\ rounds = [i \in {} |-> 0] /\ submitting = {} /\ landed = {}
  /\ faults = 0 /\ crashes = 0 /\ excused = {}

-----------------------------------------------------------------------------
(* Start-up: ThresholdSigner.initialize, then the watchers.                *)

\* The key file can be decrypted with what the node has.
Decryptable == keyFile # 0 /\ (envKey \/ encFile = keyFile)

\* Variant: the key file is not looked for.
AlwaysGenerates == TRUE

\* initializeSoftwareKey without a key file, up to the first write.
NoKeyYet == keyFile = 0

GenerateKey ==
  /\ phase = "down" /\ NoKeyYet
  /\ keyPair' = Cardinality(identities) + keyFile + 1
  /\ keyFile' = keyPair'
  /\ phase' = IF envKey THEN "keyed" ELSE "saving"
  /\ identities' = IF envKey THEN identities \cup {keyPair'} ELSE identities
  /\ UNCHANGED <<encFile, engine_vars, faults, crashes, excused, sol_vars, dcc_vars>>

\* The second write of saveEncryptedKey.
SaveEncryptionKey ==
  /\ phase = "saving"
  /\ encFile' = keyPair
  /\ phase' = "keyed"
  /\ identities' = identities \cup {keyPair}
  /\ UNCHANGED <<keyPair, keyFile, engine_vars, faults, crashes, excused, sol_vars, dcc_vars>>

\* With a key file that cannot be decrypted, main() ends the process.
LoadKey ==
  /\ phase = "down" /\ Decryptable
  /\ keyPair' = keyFile
  /\ identities' = identities \cup {keyFile}
  /\ phase' = "keyed"
  /\ UNCHANGED <<keyFile, encFile, engine_vars, faults, crashes, excused, sol_vars, dcc_vars>>

StartSolanaWatcher ==
  /\ phase = "keyed" /\ phase' = "watching"
  /\ UNCHANGED <<key_vars, engine_vars, faults, crashes, excused, sol_vars, dcc_vars>>

\* dccWatcher.start and p2p.start, after solanaWatcher.start.
StartRest ==
  /\ phase = "watching" /\ phase' = "up"
  /\ StartDccWatcher
  /\ UNCHANGED <<key_vars, engine_vars, faults, crashes, excused, sol_vars>>

\* What was not handed to the engine is lost, and so is what the engine had.
Crash ==
  /\ phase # "down" /\ crashes < MaxCrashes
  /\ crashes' = crashes + 1
  /\ phase' = "down" /\ keyPair' = 0
  /\ StopSolanaWatcher /\ StopDccWatcher
  /\ rounds' = [i \in {} |-> 0] /\ submitting' = {}
  /\ excused' = excused \cup {t \in Transactions : included[t] # 0} \cup {b \in Burns : burnAt[b] # 0}
  /\ UNCHANGED <<keyFile, encFile, identities, landed, faults>>

-----------------------------------------------------------------------------
(* The chains go on whatever the node does.                                *)

SolanaStep ==
  /\ \/ SolanaBlock /\ UNCHANGED excused
     \/ Finalize /\ UNCHANGED excused
     \/ \E t \in Transactions : SolanaFork(t) /\ UNCHANGED excused
     \/ \E t \in Transactions :
          /\ IncludeTransaction(t, Watching)
          /\ excused' = IF Watching THEN excused \ {t} ELSE excused \cup {t}
  /\ UNCHANGED <<phase, key_vars, engine_vars, faults, crashes, dcc_vars>>

DccStep ==
  /\ DccBlock \/ \E b \in Burns : IncludeBurn(b) \/ DccReorg(b)
  /\ UNCHANGED <<main_vars, sol_vars>>

-----------------------------------------------------------------------------
(* The watchers, and main's listeners.                                     *)

Fault == faults < MaxFaults /\ faults' = faults + 1

\* An event of this id, but another one, came before it.
OtherPending(e) == Has(pendingEvents, e.id) /\ e \notin Range(pendingEvents)

OtherRound(type, e) ==
  e.id \in DOMAIN rounds /\ ~ (rounds[e.id].type = type /\ rounds[e.id].event = e)

OtherLanded(e) == \E l \in landed : l.event.id = e.id /\ l.event # e

\* The event is lost, and with it the transaction, unless that was replaced since.
Lost(e, at) == excused' = IF included[e.tx] = at THEN excused \cup {e.tx} ELSE excused

\* The listeners of deposit_finalized and burn_finalized: proposeAttestation,
\* which ignores an id that is processed or has a round.
Propose(type, e) ==
  rounds' = IF e.id \in DOMAIN rounds THEN rounds
            ELSE [i \in DOMAIN rounds \cup {e.id} |->
                    IF i = e.id THEN [type |-> type, event |-> e, status |-> "open"] ELSE rounds[i]]

SolanaWatcherStep ==
  /\ Watching
  /\ \/ StartSweep /\ UNCHANGED <<engine_vars, faults, excused>>
     \/ \E l \in logs :
          /\ ReceiveLogs(l)
          /\ IF OtherPending(Decode(l)) THEN Lost(l, l.slot) ELSE UNCHANGED excused
          /\ UNCHANGED <<engine_vars, faults>>
     \/ \E l \in logs :
          /\ LoseLogs(l) /\ Fault
          /\ Lost(l, l.slot)
          /\ UNCHANGED engine_vars
     \/ \E e \in Range(pendingEvents) :
          /\ DepositFinalized(e) /\ Propose("mint", e)
          /\ IF OtherRound("mint", e) THEN Lost(e, e.position) ELSE UNCHANGED excused
          /\ UNCHANGED <<submitting, landed, faults>>
     \/ \E e \in Range(pendingEvents) :
          /\ DepositInvalidated(e, FALSE)
          /\ UNCHANGED <<engine_vars, faults, excused>>
     \/ \E e \in Range(pendingEvents) :
          /\ DepositInvalidated(e, TRUE) /\ Fault
          /\ Lost(e, e.position)
          /\ UNCHANGED engine_vars
  /\ UNCHANGED <<phase, key_vars, crashes, dcc_vars>>

DccWatcherStep ==
  /\ phase = "up"
  /\ \/ /\ StartPoll \/ ScanBlock(FALSE) \/ StartBurnSweep
        /\ UNCHANGED <<engine_vars, faults, excused>>
     \/ /\ ScanBlock(TRUE) /\ Fault
        /\ excused' = excused \cup {b \in Burns : burnAt[b] = poll.h}
        /\ UNCHANGED engine_vars
     \/ \E e \in Range(pendingBurns) :
          /\ BurnFinalized(e) /\ Propose("unlock", e)
          /\ excused' = IF OtherRound("unlock", e) THEN excused \cup {e.burn} ELSE excused
          /\ UNCHANGED <<submitting, landed, faults>>
     \/ \E e \in Range(pendingBurns) :
          /\ BurnInvalidated(e, FALSE)
          /\ UNCHANGED <<engine_vars, faults, excused>>
     \/ \E e \in Range(pendingBurns) :
          /\ BurnInvalidated(e, TRUE) /\ Fault
          /\ excused' = excused \cup {e.burn}
          /\ UNCHANGED engine_vars
  /\ UNCHANGED <<phase, key_vars, crashes, sol_vars>>

-----------------------------------------------------------------------------
(* The engine's reports and their submission.                              *)

\* submitUnlockToSolana parses privateKeyPath as a JSON array of numbers; the
\* signer keeps AES-256-GCM data there, so the call throws before it sends.
PayerReadable == FALSE

\* A submission runs up to its request.
Submit(s) == submitting' = submitting \cup {s} /\ UNCHANGED excused

submitMintToDcc(s) == Submit(s)

submitUnlockToSolana(s) ==
  IF PayerReadable THEN Submit(s)
  ELSE excused' = excused \cup {s.event.burn} /\ UNCHANGED submitting

\* The listener of consensus_reached.
ConsensusReached(i) ==
  /\ i \in DOMAIN rounds /\ rounds[i].status = "open"
  /\ rounds' = [rounds EXCEPT ![i].status = "reached"]
  /\ LET s == [type |-> rounds[i].type, event |-> rounds[i].event] IN
     IF s.type = "mint" THEN submitMintToDcc(s) ELSE submitUnlockToSolana(s)
  /\ UNCHANGED landed

\* consensus_failed is logged.
ConsensusFailed(i) ==
  /\ i \in DOMAIN rounds /\ rounds[i].status = "open"
  /\ rounds' = [rounds EXCEPT ![i].status = "failed"]
  /\ UNCHANGED <<submitting, landed, excused>>

\* The request of a mint ends. DecentralChain has executed the invocation, or
\* refused it as one it executed before; or it has not, for whatever reason.
signAndBroadcastMint(s) ==
  \/ /\ landed' = IF \E l \in landed : l.event.id = s.event.id THEN landed ELSE landed \cup {s}
     /\ IF OtherLanded(s.event) THEN Lost(s.event, s.event.position) ELSE UNCHANGED excused
     /\ UNCHANGED faults
  \/ /\ Fault
     /\ Lost(s.event, s.event.position)
     /\ UNCHANGED landed

\* The node treats all of it alike: a log entry.
SubmissionReturns(s) ==
  /\ s \in submitting
  /\ submitting' = submitting \ {s}
  /\ signAndBroadcastMint(s)
  /\ UNCHANGED rounds

MainStep ==
  /\ \/ \E i \in DOMAIN rounds : (ConsensusReached(i) \/ ConsensusFailed(i)) /\ UNCHANGED faults
     \/ \E s \in submitting : SubmissionReturns(s)
  /\ UNCHANGED <<phase, key_vars, crashes, sol_vars, dcc_vars>>

StartNext == GenerateKey \/ SaveEncryptionKey \/ LoadKey \/ StartSolanaWatcher \/ StartRest

NodeNext ==
  \/ StartNext \/ Crash
  \/ SolanaStep \/ DccStep
  \/ SolanaWatcherStep \/ DccWatcherStep \/ MainStep

NodeSpec == NodeInit /\ [][NodeNext]_node_vars

-----------------------------------------------------------------------------
\* The transaction is on its chain where the node has it, below what can be replaced.
OnChain(s) ==
  IF s.type = "mint"
  THEN /\ included[s.event.tx] = s.event.position /\ s.event.tx \notin Failed
       /\ s.event.position <= finalized
  ELSE burnAt[s.event.burn] = s.event.position

(* What the node attests, submits and lands was logged by a transaction     *)
(* that succeeded and stays where its event says it is: no attestation is   *)
(* ever about a transaction that was replaced, or that was included again   *)
(* elsewhere, as long as the last ReorgDepth blocks of DecentralChain are   *)
(* all that can be replaced. Whether the event is a deposit's is not asked. *)
AttestsWhatStays ==
  /\ \A i \in DOMAIN rounds : OnChain(rounds[i])
  /\ \A s \in submitting \cup landed : OnChain(s)

(* Disagreement: events cannot be forged by other programs                  *)
(* (docs/AUDIT_CHECKLIST.md:50). The watcher attests events of transactions *)
(* in which the bridge program logged none.                                 *)
AttestsDeposits ==
  \A i \in DOMAIN rounds : rounds[i].type = "mint" => rounds[i].event.tx \in Deposits

\* The engine has a round about the deposit, and what it agreed on was submitted.
InHand(d) ==
  LET i == transferId[d] IN
  /\ i \in DOMAIN rounds /\ rounds[i].type = "mint" /\ rounds[i].event.tx = d
  /\ rounds[i].status = "reached" => \E s \in submitting \cup landed : s.event.tx = d

(* A deposit in a block is on its way to this node, pending as what it is,  *)
(* before the engine or submitted, unless there is a cause: the node was    *)
(* down, its websocket was, a request failed (that of the one submission,   *)
(* too), or another event with its id came first, one of its own earlier    *)
(* block or of some other transaction: then it is dropped as a duplicate by *)
(* the watcher, the engine or the other chain, whatever becomes of that     *)
(* event. That a block was replaced is by itself no cause.                  *)
DepositsTracked ==
  Watching => \A d \in Deposits : included[d] # 0 /\ d \notin excused =>
    \/ \E l \in logs : l.tx = d /\ l.slot = included[d]
    \/ \E e \in Range(pendingEvents) : e.tx = d /\ e.position \in {included[d], FarSlot}
    \/ InHand(d)

(* A burn whose record is read is to be scanned, pending, or before the     *)
(* engine, unless there is a cause: it came into a block that was scanned   *)
(* already, the node was down, a request failed, or the engine had a round  *)
(* for an event of Solana that told the burn's id.                          *)
BurnsTracked ==
  phase = "up" => \A b \in Burns :
    fields[b] = 5 /\ burnAt[b] # 0 /\ b \notin excused \cup unseen =>
      \/ burnAt[b] > Scanned
      \/ Has(pendingBurns, <<b, burnAt[b]>>)
      \/ /\ <<b, burnAt[b]>> \in DOMAIN rounds
         /\ rounds[<<b, burnAt[b]>>].type = "unlock"

(* The node runs with one key for good, across restarts and whatever write  *)
(* of its key files a crash interrupts: both chains know it by this key.    *)
IdentityKept == Cardinality(identities) <= 1
=============================================================================
