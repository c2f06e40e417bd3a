--------------------------- MODULE ValidatorProofs ---------------------------
(***************************************************************************)
(* Proofs about one validator process: ValidatorNode (start-up, watchers,  *)
(* engine and submission) and Transport (its peer-to-peer connections).    *)
(*                                                                         *)
(* ValidatorNode. A sweep waits at an entry that is deep enough by a       *)
(* position its chain has reached; so what it emits is final, and what it  *)
(* drops was replaced. Together with where every announcement, entry,      *)
(* round and submission was said to be (DepositInv) this gives what is     *)
(* tracked, and what is attested.                                          *)
(*                                                                         *)
(* Transport. The names of a Map are not unique, and closes, renamings and *)
(* dials replace and delete each other's entries; whatever is left is      *)
(* still an end the node has. The invariant adds that an alive connection  *)
(* has both its ends, so that no message names a dead one.                 *)
(***************************************************************************)
EXTENDS ValidatorNode, Transport, SumProofs

-----------------------------------------------------------------------------
(* The sweeps' operators.                                                  *)

SweepState == [at: {"sleep", "verify"}, now: Nat, cursor: Nat]

\* Where a sweep waits there is an entry, and it is deep enough.
AtDueEntry(s, pending, required) ==
  s.at = "verify" => s.cursor \in 1 .. Len(pending) /\ Due(pending, s.cursor, s.now, required)

LEMMA AdvanceStep ==
  ASSUME NEW pending, Len(pending) \in Nat, NEW from \in Nat \ {0}, NEW now \in Nat, NEW required
  PROVE  LET s == Advance(pending, from, now, required) IN
         /\ s \in SweepState
         /\ AtDueEntry(s, pending, required)
         /\ s.at = "verify" => s.now = now
<1> DEFINE due == {i \in from .. Len(pending) : Due(pending, i, now, required)}
           s == Advance(pending, from, now, required)
<1>1. CASE due = {}
  BY <1>1 DEF Advance, Sleeping, SweepState, AtDueEntry
<1>2. CASE due # {}
  <2>1. due \in SUBSET Nat
    OBVIOUS
  <2> DEFINE m == Min(due)
  <2>2. m \in due
    <3> HIDE DEF due
    <3> QED BY <1>2, <2>1, MinBounds
  <2>3. s = [at |-> "verify", now |-> now, cursor |-> m]
    BY <1>2 DEF Advance
  <2>4. m \in 1 .. Len(pending) /\ m \in Nat /\ Due(pending, m, now, required)
    BY <2>2
  <2> HIDE DEF m, s
  <2>5. s \in SweepState /\ s.cursor = m /\ s.now = now
    BY <2>3, <2>4 DEF SweepState
  <2>6. AtDueEntry(s, pending, required)
    BY <2>4, <2>5 DEF AtDueEntry
  <2> QED BY <2>5, <2>6 DEF s
<1> QED BY <1>1, <1>2

\* An entry that is appended does not move the one a sweep waits at.
LEMMA AppendedDue ==
  ASSUME NEW S, NEW pending \in Seq(S), NEW more \in Seq(S), NEW s \in SweepState, NEW required,
         AtDueEntry(s, pending, required)
  PROVE  AtDueEntry(s, pending \o more, required)
<1> SUFFICES ASSUME s.at = "verify"
             PROVE  /\ s.cursor \in 1 .. Len(pending \o more)
                    /\ Due(pending \o more, s.cursor, s.now, required)
  BY DEF AtDueEntry
<1>1. s.cursor \in 1 .. Len(pending) /\ Due(pending, s.cursor, s.now, required)
  BY DEF AtDueEntry
<1>2. /\ Len(pending \o more) = Len(pending) + Len(more) /\ Len(pending) \in Nat /\ Len(more) \in Nat
      /\ \A i \in 1 .. Len(pending) : (pending \o more)[i] = pending[i]
  OBVIOUS
<1>3. (pending \o more)[s.cursor] = pending[s.cursor]
  BY <1>1, <1>2
<1> QED BY <1>1, <1>2, <1>3 DEF Due

\* What is appended comes after what was there.
LEMMA Concatenated ==
  ASSUME NEW S, NEW p \in Seq(S), NEW q \in Seq(S), NEW t, t = p \o q
  PROVE  /\ t \in Seq(S) /\ DOMAIN t = 1 .. Len(t)
         /\ Len(t) = Len(p) + Len(q) /\ Len(p) \in Nat /\ Len(q) \in Nat
         /\ \A k \in 1 .. Len(p) : t[k] = p[k]
         /\ \A k \in 1 .. Len(q) : t[Len(p) + k] = q[k]
OBVIOUS

LEMMA Appended ==
  ASSUME NEW S, NEW pending \in Seq(S), NEW more \in Seq(S), NEW t, t = pending \o more
  PROVE  /\ t \in Seq(S)
         /\ \A i \in DOMAIN pending : \E j \in DOMAIN t : t[j] = pending[i]
         /\ \A i \in DOMAIN more : \E j \in DOMAIN t : t[j] = more[i]
         /\ \A j \in DOMAIN t : \/ \E i \in DOMAIN pending : t[j] = pending[i]
                                \/ \E i \in DOMAIN more : t[j] = more[i]
<1>1. /\ t \in Seq(S) /\ Len(t) = Len(pending) + Len(more)
      /\ \A i \in 1 .. Len(pending) : t[i] = pending[i]
      /\ \A i \in 1 .. Len(more) : t[Len(pending) + i] = more[i]
      /\ Len(pending) \in Nat /\ Len(more) \in Nat
      /\ DOMAIN t = 1 .. Len(t) /\ DOMAIN pending = 1 .. Len(pending) /\ DOMAIN more = 1 .. Len(more)
  OBVIOUS
<1>2. ASSUME NEW i \in DOMAIN pending
      PROVE  \E j \in DOMAIN t : t[j] = pending[i]
  <2>1. i \in DOMAIN t /\ t[i] = pending[i]
    BY <1>1
  <2> QED BY <2>1
<1>3. ASSUME NEW i \in DOMAIN more
      PROVE  \E j \in DOMAIN t : t[j] = more[i]
  <2>1. Len(pending) + i \in DOMAIN t /\ t[Len(pending) + i] = more[i]
    BY <1>1
  <2> QED BY <2>1
<1>4. ASSUME NEW j \in DOMAIN t
      PROVE  \/ \E i \in DOMAIN pending : t[j] = pending[i]
             \/ \E i \in DOMAIN more : t[j] = more[i]
  <2>1. CASE j <= Len(pending)
    BY <1>1, <2>1
  <2>2. CASE ~ j <= Len(pending)
    <3>1. j - Len(pending) \in 1 .. Len(more) /\ Len(pending) + (j - Len(pending)) = j
      BY <1>1, <2>2
    <3>2. t[j] = more[j - Len(pending)]
      BY <1>1, <3>1
    <3> QED BY <1>1, <3>1, <3>2
  <2> QED BY <2>1, <2>2
<1> QED BY <1>1, <1>2, <1>3, <1>4

LEMMA AppendedOne ==
  ASSUME NEW S, NEW s \in Seq(S), NEW e \in S, NEW t, t = Append(s, e)
  PROVE  /\ \A i \in DOMAIN s : \E j \in DOMAIN t : t[j] = s[i]
         /\ \A j \in DOMAIN t : t[j] = e \/ \E i \in DOMAIN s : t[j] = s[i]
         /\ \E j \in DOMAIN t : t[j] = e
<1>1. /\ Len(s) \in Nat /\ DOMAIN s = 1 .. Len(s) /\ DOMAIN t = 1 .. Len(s) + 1
      /\ t[Len(s) + 1] = e /\ \A i \in 1 .. Len(s) : t[i] = s[i]
  OBVIOUS
<1>2. \A i \in DOMAIN s : i \in DOMAIN t /\ t[i] = s[i]
  BY <1>1
<1>3. Len(s) + 1 \in DOMAIN t
  BY <1>1
<1>4. \A j \in DOMAIN t : j = Len(s) + 1 \/ j \in DOMAIN s
  BY <1>1
<1> QED BY <1>1, <1>2, <1>3, <1>4

\* The entry at i is deleted, and no other.
LEMMA Removed ==
  ASSUME NEW S, NEW s \in Seq(S), NEW i \in 1 .. Len(s)
  PROVE  /\ RemoveAt(s, i) \in Seq(S)
         /\ \A k \in DOMAIN RemoveAt(s, i) : \E j \in DOMAIN s : RemoveAt(s, i)[k] = s[j]
         /\ \A j \in DOMAIN s : j # i => \E k \in DOMAIN RemoveAt(s, i) : RemoveAt(s, i)[k] = s[j]
<1> DEFINE a == SubSeq(s, 1, i - 1)
           b == SubSeq(s, i + 1, Len(s))
           r == RemoveAt(s, i)
<1>1. /\ a \in Seq(S) /\ Len(a) = i - 1 /\ \A j \in 1 .. i - 1 : a[j] = s[j]
      /\ DOMAIN a = 1 .. i - 1
  OBVIOUS
<1>2. /\ b \in Seq(S) /\ Len(b) = Len(s) - i /\ \A j \in 1 .. Len(s) - i : b[j] = s[i + j]
      /\ DOMAIN b = 1 .. Len(s) - i
  OBVIOUS
<1>3. r = a \o b
  BY DEF RemoveAt
<1>4. DOMAIN s = 1 .. Len(s) /\ Len(s) \in Nat
  OBVIOUS
<1> HIDE DEF a, b, r
<1>5. r \in Seq(S)
  BY <1>1, <1>2, <1>3, Appended
<1>6. /\ Len(r) = Len(s) - 1 /\ DOMAIN r = 1 .. Len(s) - 1
      /\ \A k \in 1 .. i - 1 : r[k] = a[k]
      /\ \A k \in 1 .. Len(s) - i : r[i - 1 + k] = b[k]
  <2>1. /\ Len(r) = Len(a) + Len(b) /\ Len(a) \in Nat /\ Len(b) \in Nat
        /\ DOMAIN r = 1 .. Len(r)
        /\ \A k \in 1 .. Len(a) : r[k] = a[k]
        /\ \A k \in 1 .. Len(b) : r[Len(a) + k] = b[k]
    <3>1. a \in Seq(S) /\ b \in Seq(S)
      BY <1>1, <1>2
    <3> QED BY <1>3, <3>1, Concatenated
  <2>2. Len(r) = Len(s) - 1
    BY <1>1, <1>2, <1>4, <2>1
  <2>3. \A k \in 1 .. Len(s) - i : r[i - 1 + k] = b[k]
    BY <1>1, <1>2, <2>1
  <2> QED BY <1>1, <2>1, <2>2, <2>3
<1>7. ASSUME NEW k \in DOMAIN r
      PROVE  \E j \in DOMAIN s : r[k] = s[j]
  <2>1. CASE k < i
    <3>1. k \in 1 .. i - 1 /\ k \in DOMAIN s
      BY <1>4, <1>6, <2>1
    <3> QED BY <1>1, <1>6, <3>1
  <2>2. CASE ~ k < i
    <3> DEFINE j == k - i + 1
    <3>1. j \in 1 .. Len(s) - i /\ i - 1 + j = k /\ i + j \in 1 .. Len(s)
      BY <1>4, <1>6, <2>2
    <3> QED BY <1>2, <1>4, <1>6, <3>1
  <2> QED BY <2>1, <2>2
<1>8. ASSUME NEW j \in DOMAIN s, j # i
      PROVE  \E k \in DOMAIN r : r[k] = s[j]
  <2>1. CASE j < i
    <3>1. j \in 1 .. i - 1 /\ j \in DOMAIN r
      BY <1>4, <1>6, <2>1
    <3> QED BY <1>1, <1>6, <3>1
  <2>2. CASE ~ j < i
    <3> DEFINE k == j - i
    <3>1. k \in 1 .. Len(s) - i /\ i + k = j /\ i - 1 + k \in DOMAIN r
      BY <1>4, <1>6, <1>8, <2>2
    <3> QED BY <1>2, <1>6, <3>1
  <2> QED BY <2>1, <2>2
<1> QED BY <1>5, <1>7, <1>8 DEF r

\* SetToSeq lists a finite set.
LEMMA Listing ==
  ASSUME NEW S, IsFiniteSet(S)
  PROVE  /\ SetToSeq(S) \in Seq(S)
         /\ \A x \in S : \E i \in DOMAIN SetToSeq(S) : SetToSeq(S)[i] = x
<1> DEFINE n == Cardinality(S)
           f == SetToSeq(S)
<1>1. n \in Nat /\ ExistsBijection(1 .. n, S)
  BY FS_CardinalityType
<1>2. PICK g \in [1 .. n -> S] : IsInjective(g)
  BY <1>1 DEF ExistsBijection, Bijection, Injection, IsInjective
<1>3. f \in [1 .. n -> S] /\ IsInjective(f)
  BY <1>2 DEF SetToSeq
<1>4. f \in Injection(1 .. n, S)
  BY <1>3 DEF Injection, IsInjective
<1>5. Cardinality(1 .. n) = n
  BY <1>1, FS_Interval
<1> HIDE DEF f
<1>6. f \in Surjection(1 .. n, S)
  BY <1>4, <1>5, FS_Injection
<1>7. f \in Seq(S)
  BY <1>1, <1>3
<1>8. \A x \in S : \E i \in 1 .. n : f[i] = x
  BY <1>6 DEF Surjection
<1> QED BY <1>3, <1>7, <1>8 DEF f

-----------------------------------------------------------------------------
(* Types.                                                                  *)

\* Events, as the watchers make them.
DepositEvent == {e \in Event : e.id = transferId[e.tx]}
BurnEventType ==
  {e \in [id: Burns \X Nat, burn: Burns, position: Nat] : e.id = <<e.burn, e.position>>}

Round ==
  [type: {"mint"}, event: DepositEvent, status: {"open", "reached", "failed"}] \cup
  [type: {"unlock"}, event: BurnEventType, status: {"open", "reached", "failed"}]

Submission == [type: {"mint"}, event: DepositEvent]

SolanaType ==
  /\ slot \in Nat /\ slot <= MaxSlot /\ finalized \in Nat /\ finalized <= slot
  /\ included \in [Transactions -> Nat]
  /\ logs \subseteq Log
  /\ pendingEvents \in Seq(DepositEvent)
  /\ sweep \in SweepState

\* The sweep's finalized slot is one the chain has reached.
SolanaSweep ==
  /\ AtDueEntry(sweep, pendingEvents, requiredConfirmations)
  /\ sweep.at = "verify" => sweep.now <= finalized

DccType ==
  /\ height \in Nat
  /\ burnAt \in [Burns -> Nat]
  /\ lastProcessedHeight \in Nat
  /\ poll \in [at: {"sleep", "scan"}, h: Nat, upto: Nat]
  /\ pendingBurns \in Seq(BurnEventType)
  /\ burnSweep \in SweepState

DccSweep ==
  /\ AtDueEntry(burnSweep, pendingBurns, requiredBlocks)
  /\ burnSweep.at = "verify" => burnSweep.now <= height

\* A scan is past the last height that was processed, and not past the chain.
PollAhead ==
  poll.at = "scan" => lastProcessedHeight < poll.h /\ poll.h <= poll.upto /\ poll.upto <= height

RoundsType ==
  /\ rounds \in [DOMAIN rounds -> Round]
  /\ \A i \in DOMAIN rounds : rounds[i].event.id = i

EngineType ==
  /\ phase \in {"down", "saving", "keyed", "watching", "up"}
  /\ RoundsType
  /\ submitting \subseteq Submission /\ landed \subseteq Submission

NodeType == SolanaType /\ DccType /\ EngineType

\* The node's notice of a transaction tells its slot, and of a deposit what decodes.
LEMMA IncludedLog ==
  ASSUME slot \in Nat, NEW t \in Transactions, NEW subscribed \in BOOLEAN,
         IncludeTransaction(t, subscribed)
  PROVE  \/ ~ subscribed /\ UNCHANGED logs
         \/ \E l \in Log :
              /\ subscribed /\ logs' = logs \cup {l} /\ l.tx = t /\ l.slot = slot
              /\ t \in Deposits => l.told = IF t \in SplDeposits THEN FarSlot ELSE slot
<1>1. CASE subscribed
  <2>1. PICK told \in SlotsTold(t) :
          logs' = logs \cup {[tx |-> t, slot |-> slot, told |-> told]}
    BY <1>1 DEF IncludeTransaction
  <2>2. told \in Nat /\ (t \in Deposits => told = IF t \in SplDeposits THEN FarSlot ELSE slot)
    <3>1. CASE t \in SplDeposits
      BY <2>1, <3>1, SolanaAssumption DEF SolanaAssumption, SlotsTold
    <3>2. CASE t \in Deposits /\ t \notin SplDeposits
      BY <2>1, <3>2, SolanaAssumption DEF SolanaAssumption, SlotsTold
    <3>3. CASE t \notin Deposits
      BY <2>1, <3>3, SolanaAssumption DEF SolanaAssumption, SlotsTold
    <3> QED BY <3>1, <3>2, <3>3
  <2> DEFINE l == [tx |-> t, slot |-> slot, told |-> told]
  <2>3. l \in Log /\ l.tx = t /\ l.slot = slot /\ l.told = told
    BY <2>2 DEF Log
  <2> QED BY <1>1, <2>1, <2>2, <2>3
<1>2. CASE ~ subscribed
  BY <1>2 DEF IncludeTransaction
<1> QED BY <1>1, <1>2

\* The steps of the watchers, of any node.
LEMMA SolanaTyped ==
  ASSUME SolanaType,
         \/ SolanaBlock \/ Finalize \/ \E t \in Transactions : SolanaFork(t)
         \/ \E t \in Transactions, subscribed \in BOOLEAN : IncludeTransaction(t, subscribed)
         \/ StartSweep \/ StopSolanaWatcher
         \/ \E l \in logs : ReceiveLogs(l) \/ LoseLogs(l)
         \/ \E e : DepositFinalized(e) \/ DepositInvalidated(e, TRUE) \/ DepositInvalidated(e, FALSE),
         SolanaSweep
  PROVE  SolanaType' /\ SolanaSweep'
<1> USE SolanaAssumption DEF SolanaAssumption
<1>1. /\ slot \in Nat /\ slot <= MaxSlot /\ finalized \in Nat /\ finalized <= slot
      /\ included \in [Transactions -> Nat] /\ logs \subseteq Log
      /\ pendingEvents \in Seq(DepositEvent) /\ sweep \in SweepState /\ MaxSlot \in Nat
      /\ AtDueEntry(sweep, pendingEvents, requiredConfirmations)
      /\ sweep.at = "verify" => sweep.now \in Nat /\ sweep.now <= finalized
  BY DEF SolanaType, SolanaSweep, SweepState
<1>2. CASE SolanaBlock
  BY <1>1, <1>2 DEF SolanaBlock, watcher_vars, SolanaType, SolanaSweep
<1>3. CASE Finalize
  BY <1>1, <1>3 DEF Finalize, watcher_vars, SolanaType, SolanaSweep
<1>4. ASSUME NEW t \in Transactions, SolanaFork(t)
      PROVE  SolanaType' /\ SolanaSweep'
  BY <1>1, <1>4 DEF SolanaFork, watcher_vars, SolanaType, SolanaSweep
<1>5. ASSUME NEW t \in Transactions, NEW subscribed \in BOOLEAN, IncludeTransaction(t, subscribed)
      PROVE  SolanaType' /\ SolanaSweep'
  <2>1. logs' \subseteq Log
    BY <1>1, <1>5, IncludedLog
  <2> QED BY <1>1, <1>5, <2>1 DEF IncludeTransaction, SolanaType, SolanaSweep
<1>6. CASE StartSweep
  <2>1. sweep' = Advance(pendingEvents, 1, finalized, requiredConfirmations)
        /\ UNCHANGED <<slot, finalized, included, logs, pendingEvents>>
    BY <1>6 DEF StartSweep, chain_vars
  <2>2. /\ sweep' \in SweepState /\ AtDueEntry(sweep', pendingEvents, requiredConfirmations)
        /\ sweep'.at = "verify" => sweep'.now = finalized
    BY <1>1, <2>1, AdvanceStep
  <2> QED BY <1>1, <2>1, <2>2 DEF SolanaType, SolanaSweep
<1>7. CASE StopSolanaWatcher
  <2>1. Sleeping \in SweepState /\ Sleeping.at # "verify"
    BY DEF Sleeping, SweepState
  <2>2. logs' = {} /\ pendingEvents' = <<>> /\ sweep' = Sleeping
        /\ UNCHANGED <<slot, finalized, included>>
    BY <1>7 DEF StopSolanaWatcher, chain_vars
  <2>3. SolanaSweep'
    BY <2>1, <2>2 DEF AtDueEntry, SolanaSweep
  <2> QED BY <1>1, <2>1, <2>2, <2>3 DEF SolanaType
<1>8. ASSUME NEW l \in logs, ReceiveLogs(l)
      PROVE  SolanaType' /\ SolanaSweep'
  <2> DEFINE e == Decode(l)
  <2>1. e \in DepositEvent
    BY <1>1 DEF Decode, DepositEvent, Event, Log
  <2>2. \/ pendingEvents' = pendingEvents
        \/ pendingEvents' = pendingEvents \o <<e>>
    <3>1. Append(pendingEvents, e) = pendingEvents \o <<e>>
      BY <1>1, <2>1
    <3> QED BY <1>8, <3>1 DEF ReceiveLogs, processLogs
  <2>3. /\ <<e>> \in Seq(DepositEvent)
        /\ logs' \subseteq logs /\ UNCHANGED <<slot, finalized, included, sweep>>
    BY <1>8, <2>1 DEF ReceiveLogs, chain_vars
  <2> HIDE DEF e
  <2>4. pendingEvents' \in Seq(DepositEvent)
    <3>1. CASE pendingEvents' = pendingEvents
      BY <1>1, <3>1
    <3>2. CASE pendingEvents' = pendingEvents \o <<e>>
      BY <1>1, <2>3, <3>2, Appended
    <3> QED BY <2>2, <3>1, <3>2
  <2>5. AtDueEntry(sweep, pendingEvents', requiredConfirmations)
    <3>1. CASE pendingEvents' = pendingEvents
      BY <1>1, <3>1
    <3>2. CASE pendingEvents' = pendingEvents \o <<e>>
      <4>1. AtDueEntry(sweep, pendingEvents \o <<e>>, requiredConfirmations)
        BY <1>1, <2>3, AppendedDue
      <4> QED BY <3>2, <4>1
    <3> QED BY <2>2, <3>1, <3>2
  <2>6. SolanaType'
    BY <1>1, <2>3, <2>4 DEF SolanaType
  <2>7. SolanaSweep'
    BY <1>1, <2>3, <2>5 DEF SolanaSweep
  <2> QED BY <2>6, <2>7
<1>9. ASSUME NEW l \in logs, LoseLogs(l)
      PROVE  SolanaType' /\ SolanaSweep'
  BY <1>1, <1>9 DEF LoseLogs, chain_vars, SolanaType, SolanaSweep
<1>10. ASSUME NEW e, DepositFinalized(e) \/ DepositInvalidated(e, TRUE) \/ DepositInvalidated(e, FALSE)
       PROVE  SolanaType' /\ SolanaSweep'
  <2>1. /\ sweep.at = "verify" /\ Drop /\ UNCHANGED <<slot, finalized, included, logs>>
    BY <1>10 DEF DepositFinalized, DepositInvalidated, AtVerify, chain_vars
  <2>2. sweep.cursor \in 1 .. Len(pendingEvents) /\ sweep.now \in Nat
    BY <1>1, <2>1 DEF AtDueEntry, SweepState
  <2>3. /\ pendingEvents' = RemoveAt(pendingEvents, sweep.cursor)
        /\ sweep' = Advance(pendingEvents', sweep.cursor, sweep.now, requiredConfirmations)
    BY <2>1 DEF Drop
  <2>4. pendingEvents' \in Seq(DepositEvent)
    BY <1>1, <2>2, <2>3, Removed
  <2>5. Len(pendingEvents') \in Nat /\ sweep.cursor \in Nat \ {0}
    BY <2>2, <2>4
  <2>6. /\ sweep' \in SweepState /\ AtDueEntry(sweep', pendingEvents', requiredConfirmations)
        /\ sweep'.at = "verify" => sweep'.now = sweep.now
    BY <2>2, <2>3, <2>5, AdvanceStep
  <2> QED BY <1>1, <2>1, <2>4, <2>6 DEF SolanaType, SolanaSweep
<1> QED BY <1>2, <1>3, <1>4, <1>5, <1>6, <1>7, <1>8, <1>9, <1>10

\* The burns of a block are finitely many, and are listed as events.
LEMMA NewBurnsListed ==
  ASSUME DccType, NEW h \in Nat
  PROVE  /\ SetToSeq(NewBurns(h)) \in Seq(BurnEventType)
         /\ \A e \in NewBurns(h) :
              \E i \in DOMAIN SetToSeq(NewBurns(h)) : SetToSeq(NewBurns(h))[i] = e
<1> DEFINE C == {c \in Burns : burnAt[c] = h /\ fields[c] = 5}
           E == {BurnEvent(b) : b \in C}
           f == [b \in C |-> BurnEvent(b)]
<1>1. IsFiniteSet(C)
  BY DccAssumption, FS_Subset DEF DccAssumption
<1>2. f \in Surjection(C, E)
  BY DEF Surjection
<1>3. IsFiniteSet(E)
  BY <1>1, <1>2, FS_Surjection
<1>4. NewBurns(h) \subseteq E
  BY DEF NewBurns
<1>5. IsFiniteSet(NewBurns(h))
  BY <1>3, <1>4, FS_Subset
<1>6. E \subseteq BurnEventType
  BY DEF DccType, BurnEvent, BurnEventType
<1> DEFINE N == NewBurns(h)
<1>7. N \subseteq BurnEventType /\ IsFiniteSet(N)
  BY <1>4, <1>5, <1>6
<1> HIDE DEF N
<1>8. SetToSeq(N) \in Seq(N) /\ \A x \in N : \E i \in DOMAIN SetToSeq(N) : SetToSeq(N)[i] = x
  BY <1>7, Listing
<1>9. SetToSeq(N) \in Seq(BurnEventType)
  BY <1>7, <1>8
<1> QED BY <1>8, <1>9 DEF N

LEMMA DccTyped ==
  ASSUME DccType, DccSweep, PollAhead,
         \/ DccBlock \/ \E b \in Burns : IncludeBurn(b) \/ DccReorg(b)
         \/ (StartDccWatcher /\ poll.at = "sleep") \/ StopDccWatcher
         \/ StartPoll \/ ScanBlock(FALSE) \/ ScanBlock(TRUE) \/ StartBurnSweep
         \/ \E e : BurnFinalized(e) \/ BurnInvalidated(e, TRUE) \/ BurnInvalidated(e, FALSE)
  PROVE  DccType' /\ DccSweep' /\ PollAhead'
<1> USE DEF dcc_chain_vars, poll_vars
<1>1. /\ height \in Nat /\ burnAt \in [Burns -> Nat] /\ lastProcessedHeight \in Nat
      /\ poll \in [at: {"sleep", "scan"}, h: Nat, upto: Nat]
      /\ pendingBurns \in Seq(BurnEventType) /\ burnSweep \in SweepState
      /\ AtDueEntry(burnSweep, pendingBurns, requiredBlocks)
      /\ burnSweep.at = "verify" => burnSweep.now \in Nat /\ burnSweep.now <= height
  BY DEF DccType, DccSweep, SweepState
<1>2. CASE DccBlock
  BY <1>1, <1>2 DEF DccBlock, DccType, DccSweep, PollAhead
<1>3. ASSUME NEW b \in Burns, IncludeBurn(b) \/ DccReorg(b)
      PROVE  DccType' /\ DccSweep' /\ PollAhead'
  BY <1>1, <1>3 DEF IncludeBurn, DccReorg, DccType, DccSweep, PollAhead
<1>4. CASE StartDccWatcher /\ poll.at = "sleep"
  BY <1>1, <1>4 DEF StartDccWatcher, DccType, DccSweep, PollAhead
<1>5. CASE StopDccWatcher
  <2>1. Sleeping \in SweepState /\ Sleeping.at # "verify"
    BY DEF Sleeping, SweepState
  <2>2. /\ pendingBurns' = <<>> /\ burnSweep' = Sleeping /\ poll' = Idle
        /\ UNCHANGED <<height, burnAt, lastProcessedHeight>>
    BY <1>5 DEF StopDccWatcher
  <2>3. DccSweep' /\ PollAhead'
    BY <2>1, <2>2 DEF AtDueEntry, DccSweep, PollAhead, Idle
  <2> QED BY <1>1, <2>1, <2>2, <2>3 DEF DccType, Idle
<1>6. CASE StartPoll
  BY <1>1, <1>6 DEF StartPoll, DccType, DccSweep, PollAhead
<1>7. ASSUME NEW failed \in BOOLEAN, ScanBlock(failed)
      PROVE  DccType' /\ DccSweep' /\ PollAhead'
  <2>1. /\ poll.at = "scan" /\ NextBlock /\ UNCHANGED <<height, burnAt, burnSweep>>
        /\ \/ pendingBurns' = pendingBurns
           \/ pendingBurns' = pendingBurns \o SetToSeq(NewBurns(poll.h))
    BY <1>7 DEF ScanBlock
  <2> DEFINE more == SetToSeq(NewBurns(poll.h))
  <2>2. more \in Seq(BurnEventType)
    BY <1>1, NewBurnsListed
  <2> HIDE DEF more
  <2>3. pendingBurns' \in Seq(BurnEventType)
        /\ AtDueEntry(burnSweep, pendingBurns', requiredBlocks)
    <3>1. CASE pendingBurns' = pendingBurns
      BY <1>1, <3>1
    <3>2. CASE pendingBurns' = pendingBurns \o more
      BY <1>1, <2>2, <3>2, Appended, AppendedDue
    <3> QED BY <2>1, <3>1, <3>2 DEF more
  <2>4. /\ poll' \in [at: {"sleep", "scan"}, h: Nat, upto: Nat] /\ lastProcessedHeight' \in Nat
        /\ PollAhead'
    BY <1>1, <2>1 DEF NextBlock, PollAhead, Idle
  <2> QED BY <1>1, <2>1, <2>3, <2>4 DEF DccType, DccSweep
<1>8. CASE StartBurnSweep
  <2>1. burnSweep' = Advance(pendingBurns, 1, height, requiredBlocks)
        /\ UNCHANGED <<height, burnAt, lastProcessedHeight, poll, pendingBurns>>
    BY <1>8 DEF StartBurnSweep
  <2>2. /\ burnSweep' \in SweepState /\ AtDueEntry(burnSweep', pendingBurns, requiredBlocks)
        /\ burnSweep'.at = "verify" => burnSweep'.now = height
    BY <1>1, <2>1, AdvanceStep
  <2> QED BY <1>1, <2>1, <2>2 DEF DccType, DccSweep, PollAhead
<1>9. ASSUME NEW e, BurnFinalized(e) \/ BurnInvalidated(e, TRUE) \/ BurnInvalidated(e, FALSE)
      PROVE  DccType' /\ DccSweep' /\ PollAhead'
  <2>1. /\ burnSweep.at = "verify" /\ DropBurn
        /\ UNCHANGED <<height, burnAt, lastProcessedHeight, poll>>
    BY <1>9 DEF BurnFinalized, BurnInvalidated, AtVerifyBurn
  <2>2. burnSweep.cursor \in 1 .. Len(pendingBurns) /\ burnSweep.now \in Nat
    BY <1>1, <2>1 DEF AtDueEntry
  <2>3. /\ pendingBurns' = RemoveAt(pendingBurns, burnSweep.cursor)
        /\ burnSweep' = Advance(pendingBurns', burnSweep.cursor, burnSweep.now, requiredBlocks)
    BY <2>1 DEF DropBurn
  <2>4. pendingBurns' \in Seq(BurnEventType)
    BY <1>1, <2>2, <2>3, Removed
  <2>5. Len(pendingBurns') \in Nat /\ burnSweep.cursor \in Nat \ {0}
    BY <2>2, <2>4
  <2>6. /\ burnSweep' \in SweepState /\ AtDueEntry(burnSweep', pendingBurns', requiredBlocks)
        /\ burnSweep'.at = "verify" => burnSweep'.now = burnSweep.now
    BY <2>2, <2>3, <2>5, AdvanceStep
  <2> QED BY <1>1, <2>1, <2>4, <2>6 DEF DccType, DccSweep, PollAhead
<1> QED BY <1>2, <1>3, <1>4, <1>5, <1>6, <1>7, <1>8, <1>9

\* A round is opened for an event whose id has none, and the others stay.
LEMMA Proposed ==
  ASSUME RoundsType, NEW type, NEW e, Propose(type, e),
         \/ type = "mint" /\ e \in DepositEvent
         \/ type = "unlock" /\ e \in BurnEventType
  PROVE  /\ RoundsType' /\ e.id \in DOMAIN rounds'
         /\ \A i \in DOMAIN rounds : i \in DOMAIN rounds' /\ rounds'[i] = rounds[i]
         /\ \A i \in DOMAIN rounds' : i \notin DOMAIN rounds =>
              i = e.id /\ rounds'[i] = [type |-> type, event |-> e, status |-> "open"]
<1> DEFINE r == [type |-> type, event |-> e, status |-> "open"]
<1>1. r \in Round /\ r.event = e
  BY DEF Round
<1>2. CASE e.id \in DOMAIN rounds
  BY <1>2 DEF Propose, RoundsType
<1>3. CASE e.id \notin DOMAIN rounds
  <2>1. rounds' = [i \in DOMAIN rounds \cup {e.id} |-> IF i = e.id THEN r ELSE rounds[i]]
    BY <1>3 DEF Propose
  <2>2. r = [type |-> type, event |-> e, status |-> "open"]
    OBVIOUS
  <2> HIDE DEF r
  <2>3. /\ DOMAIN rounds' = DOMAIN rounds \cup {e.id} /\ rounds'[e.id] = r
        /\ \A i \in DOMAIN rounds : rounds'[i] = rounds[i]
    BY <1>3, <2>1
  <2>4. \A i \in DOMAIN rounds' : rounds'[i] \in Round /\ rounds'[i].event.id = i
    BY <1>1, <2>3 DEF RoundsType
  <2>5. rounds' = [i \in DOMAIN rounds' |-> rounds'[i]]
    BY <2>1
  <2>6. RoundsType'
    BY <2>4, <2>5 DEF RoundsType
  <2> QED BY <2>2, <2>3, <2>6
<1> QED BY <1>2, <1>3

\* A round that was open is over, with its event.
LEMMA RoundOver ==
  ASSUME RoundsType, NEW i \in DOMAIN rounds, NEW status \in {"reached", "failed"},
         rounds' = [rounds EXCEPT ![i].status = status]
  PROVE  /\ RoundsType' /\ DOMAIN rounds' = DOMAIN rounds
         /\ \A j \in DOMAIN rounds : j # i => rounds'[j] = rounds[j]
         /\ rounds'[i].type = rounds[i].type /\ rounds'[i].event = rounds[i].event
         /\ rounds'[i].status = status
<1> DEFINE r == [rounds[i] EXCEPT !.status = status]
<1>1. rounds[i] \in Round /\ rounds[i].event.id = i
  BY DEF RoundsType
<1>2. /\ r \in Round /\ r.type = rounds[i].type /\ r.event = rounds[i].event
      /\ r.status = status
  BY <1>1 DEF Round
<1>3. rounds' = [rounds EXCEPT ![i] = r] /\ rounds \in [DOMAIN rounds -> Round]
  BY DEF RoundsType
<1> HIDE DEF r
<1>4. /\ DOMAIN rounds' = DOMAIN rounds /\ rounds'[i] = r
      /\ \A j \in DOMAIN rounds : j # i => rounds'[j] = rounds[j]
      /\ rounds' \in [DOMAIN rounds -> Round]
  BY <1>2, <1>3
<1>5. \A j \in DOMAIN rounds : rounds'[j].event.id = j
  BY <1>1, <1>2, <1>4 DEF RoundsType
<1> QED BY <1>2, <1>4, <1>5 DEF RoundsType

\* A submission is of a round's event, or of none.
LEMMA ReachedStep ==
  ASSUME EngineType, NEW i, ConsensusReached(i)
  PROVE  /\ i \in DOMAIN rounds /\ rounds[i].status = "open"
         /\ rounds' = [rounds EXCEPT ![i].status = "reached"] /\ UNCHANGED landed
         /\ excused \subseteq excused'
         /\ rounds[i].type = "mint" =>
              /\ submitting' = submitting \cup {[type |-> "mint", event |-> rounds[i].event]}
              /\ [type |-> "mint", event |-> rounds[i].event] \in Submission
         /\ rounds[i].type # "mint" => UNCHANGED submitting
<1>1. rounds[i] \in Round
  BY DEF ConsensusReached, EngineType, RoundsType
<1>2. rounds[i].type = "mint" =>
        /\ submitting' = submitting \cup {[type |-> "mint", event |-> rounds[i].event]}
        /\ UNCHANGED excused /\ [type |-> "mint", event |-> rounds[i].event] \in Submission
  BY <1>1 DEF ConsensusReached, submitMintToDcc, Submit, Round, Submission
<1>3. rounds[i].type # "mint" => UNCHANGED submitting /\ excused \subseteq excused'
  BY DEF ConsensusReached, submitUnlockToSolana, PayerReadable
<1> QED BY <1>2, <1>3 DEF ConsensusReached

-----------------------------------------------------------------------------
(* The node, at every step: its types, and what stands still while it is   *)
(* down or starting.                                                       *)

Resting ==
  /\ ~ Watching => logs = {} /\ pendingEvents = <<>> /\ sweep.at = "sleep"
  /\ phase # "up" => poll.at = "sleep"

TypeInv == NodeType /\ SolanaSweep /\ DccSweep /\ PollAhead /\ Resting

LEMMA SameTyped ==
  ASSUME TypeInv
  PROVE  /\ UNCHANGED sol_vars => SolanaType' /\ SolanaSweep'
         /\ UNCHANGED dcc_vars => DccType' /\ DccSweep' /\ PollAhead'
         /\ UNCHANGED <<rounds, submitting, landed, phase>> => EngineType'
<1>1. ASSUME UNCHANGED sol_vars
      PROVE  SolanaType' /\ SolanaSweep'
  BY <1>1 DEF TypeInv, NodeType, SolanaType, SolanaSweep, AtDueEntry, sol_vars, chain_vars, watcher_vars
<1>2. ASSUME UNCHANGED dcc_vars
      PROVE  DccType' /\ DccSweep' /\ PollAhead'
  BY <1>2 DEF TypeInv, NodeType, DccType, DccSweep, PollAhead, AtDueEntry, dcc_vars,
              dcc_chain_vars, poll_vars
<1>3. ASSUME UNCHANGED <<rounds, submitting, landed, phase>>
      PROVE  EngineType'
  BY <1>3 DEF TypeInv, NodeType, EngineType, RoundsType
<1> QED BY <1>1, <1>2, <1>3

LEMMA NodeStarts == NodeInit => TypeInv
<1> SUFFICES ASSUME NodeInit
             PROVE  TypeInv
  OBVIOUS
<1>1. SolanaType /\ SolanaSweep
  BY SolanaAssumption
  DEF SolanaAssumption, NodeInit, SolInit, SolanaType, SolanaSweep, Sleeping, SweepState, AtDueEntry
<1>2. DccType /\ DccSweep /\ PollAhead
  BY DccAssumption
  DEF DccAssumption, NodeInit, DccInit, DccType, DccSweep, PollAhead, Sleeping, SweepState,
      AtDueEntry, Idle
<1>3. EngineType
  BY DEF NodeInit, EngineType, RoundsType
<1>4. Resting
  BY DEF NodeInit, SolInit, DccInit, Resting, Watching, Sleeping, Idle
<1> QED BY <1>1, <1>2, <1>3, <1>4 DEF TypeInv, NodeType

LEMMA SolanaWatcherTyped ==
  ASSUME TypeInv, SolanaWatcherStep
  PROVE  TypeInv'
<1>1. /\ Watching /\ UNCHANGED phase /\ UNCHANGED dcc_vars
      /\ SolanaType /\ SolanaSweep /\ EngineType
  BY DEF SolanaWatcherStep, TypeInv, NodeType
<1>2. DccType' /\ DccSweep' /\ PollAhead'
  BY <1>1, SameTyped
<1>3. Resting'
  BY <1>1 DEF TypeInv, Resting, Watching, dcc_vars, poll_vars
<1>4. ASSUME NEW i \in DOMAIN pendingEvents, DepositFinalized(pendingEvents[i]),
             Propose("mint", pendingEvents[i]), UNCHANGED <<submitting, landed>>
      PROVE  SolanaType' /\ SolanaSweep' /\ EngineType'
  <2>1. SolanaType' /\ SolanaSweep'
    BY <1>1, <1>4, SolanaTyped
  <2>2. pendingEvents[i] \in DepositEvent
    BY <1>1 DEF SolanaType
  <2>3. RoundsType'
    BY <1>1, <1>4, <2>2, Proposed DEF EngineType
  <2> QED BY <1>1, <1>4, <2>1, <2>3 DEF EngineType
<1>5. ASSUME UNCHANGED engine_vars,
             \/ StartSweep \/ \E l \in logs : ReceiveLogs(l) \/ LoseLogs(l)
             \/ \E e : DepositInvalidated(e, FALSE) \/ DepositInvalidated(e, TRUE)
      PROVE  SolanaType' /\ SolanaSweep' /\ EngineType'
  <2>1. SolanaType' /\ SolanaSweep'
    BY <1>1, <1>5, SolanaTyped
  <2>2. EngineType'
    BY <1>1, <1>5, SameTyped DEF engine_vars
  <2> QED BY <2>1, <2>2
<1>6. SolanaType' /\ SolanaSweep' /\ EngineType'
  BY <1>4, <1>5 DEF SolanaWatcherStep, Range
<1> QED BY <1>2, <1>3, <1>6 DEF TypeInv, NodeType

LEMMA DccWatcherTyped ==
  ASSUME TypeInv, DccWatcherStep
  PROVE  TypeInv'
<1>1. /\ phase = "up" /\ UNCHANGED phase /\ UNCHANGED sol_vars
      /\ DccType /\ DccSweep /\ PollAhead /\ EngineType
  BY DEF DccWatcherStep, TypeInv, NodeType
<1>2. SolanaType' /\ SolanaSweep'
  BY <1>1, SameTyped
<1>3. Resting'
  BY <1>1 DEF TypeInv, Resting, Watching, sol_vars, watcher_vars
<1>4. ASSUME NEW i \in DOMAIN pendingBurns, BurnFinalized(pendingBurns[i]),
             Propose("unlock", pendingBurns[i]), UNCHANGED <<submitting, landed>>
      PROVE  DccType' /\ DccSweep' /\ PollAhead' /\ EngineType'
  <2>1. DccType' /\ DccSweep' /\ PollAhead'
    BY <1>1, <1>4, DccTyped
  <2>2. pendingBurns[i] \in BurnEventType
    BY <1>1 DEF DccType
  <2>3. RoundsType'
    BY <1>1, <1>4, <2>2, Proposed DEF EngineType
  <2> QED BY <1>1, <1>4, <2>1, <2>3 DEF EngineType
<1>5. ASSUME UNCHANGED engine_vars,
             \/ StartPoll \/ ScanBlock(FALSE) \/ ScanBlock(TRUE) \/ StartBurnSweep
             \/ \E e : BurnInvalidated(e, FALSE) \/ BurnInvalidated(e, TRUE)
      PROVE  DccType' /\ DccSweep' /\ PollAhead' /\ EngineType'
  <2>1. DccType' /\ DccSweep' /\ PollAhead'
    BY <1>1, <1>5, DccTyped
  <2>2. EngineType'
    BY <1>1, <1>5, SameTyped DEF engine_vars
  <2> QED BY <2>1, <2>2
<1>6. DccType' /\ DccSweep' /\ PollAhead' /\ EngineType'
  BY <1>4, <1>5 DEF DccWatcherStep, Range
<1> QED BY <1>2, <1>3, <1>6 DEF TypeInv, NodeType

LEMMA MainTyped ==
  ASSUME TypeInv, MainStep
  PROVE  TypeInv'
<1>1. /\ UNCHANGED <<phase, sol_vars, dcc_vars>> /\ EngineType /\ RoundsType
      /\ submitting \subseteq Submission /\ landed \subseteq Submission
  BY DEF MainStep, TypeInv, NodeType, EngineType
<1>2. /\ SolanaType' /\ SolanaSweep' /\ DccType' /\ DccSweep' /\ PollAhead'
  BY <1>1, SameTyped
<1>3. Resting'
  BY <1>1 DEF TypeInv, Resting, Watching, sol_vars, watcher_vars, dcc_vars, poll_vars
<1>4. ASSUME NEW i, ConsensusReached(i)
      PROVE  EngineType'
  <2>1. RoundsType'
    BY <1>1, <1>4, ReachedStep, RoundOver
  <2>2. submitting' \subseteq Submission /\ UNCHANGED landed
    BY <1>1, <1>4, ReachedStep
  <2> QED BY <1>1, <2>1, <2>2 DEF EngineType
<1>5. ASSUME NEW i, ConsensusFailed(i)
      PROVE  EngineType'
  <2>1. /\ i \in DOMAIN rounds /\ rounds' = [rounds EXCEPT ![i].status = "failed"]
        /\ UNCHANGED <<submitting, landed>>
    BY <1>5 DEF ConsensusFailed
  <2>2. RoundsType'
    BY <1>1, <2>1, RoundOver
  <2> QED BY <1>1, <2>1, <2>2 DEF EngineType
<1>6. ASSUME NEW s \in submitting, SubmissionReturns(s)
      PROVE  EngineType'
  <2>1. UNCHANGED rounds /\ submitting' \subseteq Submission /\ landed' \subseteq Submission
    BY <1>1, <1>6 DEF SubmissionReturns, signAndBroadcastMint
  <2> QED BY <1>1, <2>1 DEF EngineType, RoundsType
<1>7. EngineType'
  BY <1>4, <1>5, <1>6 DEF MainStep
<1> QED BY <1>2, <1>3, <1>7 DEF TypeInv, NodeType

LEMMA StartTyped ==
  ASSUME TypeInv, StartNext \/ Crash
  PROVE  TypeInv'
<1>1. SolanaType /\ SolanaSweep /\ DccType /\ DccSweep /\ PollAhead /\ EngineType /\ Resting
  BY DEF TypeInv, NodeType
<1>2. CASE GenerateKey \/ SaveEncryptionKey \/ LoadKey \/ StartSolanaWatcher
  <2>1. /\ phase \in {"down", "saving", "keyed"} /\ phase' \in {"saving", "keyed", "watching"}
        /\ UNCHANGED <<sol_vars, dcc_vars, engine_vars>>
    BY <1>2 DEF GenerateKey, SaveEncryptionKey, LoadKey, StartSolanaWatcher
  <2>2. SolanaType' /\ SolanaSweep' /\ DccType' /\ DccSweep' /\ PollAhead'
    BY <2>1, SameTyped
  <2>3. EngineType'
    BY <1>1, <2>1 DEF EngineType, RoundsType, engine_vars
  <2>4. Resting'
    BY <1>1, <2>1 DEF Resting, Watching, sol_vars, watcher_vars, dcc_vars, poll_vars
  <2> QED BY <2>2, <2>3, <2>4 DEF TypeInv, NodeType
<1>3. CASE StartRest
  <2>1. /\ phase = "watching" /\ phase' = "up" /\ StartDccWatcher
        /\ UNCHANGED <<sol_vars, engine_vars>>
    BY <1>3 DEF StartRest
  <2>2. poll.at = "sleep"
    BY <1>1, <2>1 DEF Resting
  <2>3. SolanaType' /\ SolanaSweep'
    BY <2>1, SameTyped
  <2>4. DccType' /\ DccSweep' /\ PollAhead'
    BY <1>1, <2>1, <2>2, DccTyped
  <2>5. EngineType'
    BY <1>1, <2>1 DEF EngineType, RoundsType, engine_vars
  <2>6. Resting'
    BY <2>1 DEF Resting, Watching
  <2> QED BY <2>3, <2>4, <2>5, <2>6 DEF TypeInv, NodeType
<1>4. CASE Crash
  <2>1. /\ phase' = "down" /\ StopSolanaWatcher /\ StopDccWatcher
        /\ rounds' = [i \in {} |-> 0] /\ submitting' = {} /\ UNCHANGED landed
    BY <1>4 DEF Crash
  <2>2. SolanaType' /\ SolanaSweep'
    BY <1>1, <2>1, SolanaTyped
  <2>3. DccType' /\ DccSweep' /\ PollAhead'
    BY <1>1, <2>1, DccTyped
  <2>4. EngineType'
    BY <1>1, <2>1 DEF EngineType, RoundsType
  <2>5. Resting'
    BY <2>1 DEF Resting, Watching, StopSolanaWatcher, StopDccWatcher, Sleeping, Idle
  <2> QED BY <2>2, <2>3, <2>4, <2>5 DEF TypeInv, NodeType
<1> QED BY <1>2, <1>3, <1>4 DEF StartNext

LEMMA ChainsTyped ==
  ASSUME TypeInv, SolanaStep \/ DccStep
  PROVE  TypeInv'
<1>1. SolanaType /\ SolanaSweep /\ DccType /\ DccSweep /\ PollAhead /\ EngineType /\ Resting
  BY DEF TypeInv, NodeType
<1>2. CASE SolanaStep
  <2>1. UNCHANGED <<phase, engine_vars, dcc_vars>>
    BY <1>2 DEF SolanaStep
  <2>2. Watching \in BOOLEAN
    BY DEF Watching
  <2>3. \/ SolanaBlock \/ Finalize \/ \E t \in Transactions : SolanaFork(t)
        \/ \E t \in Transactions : IncludeTransaction(t, Watching)
    BY <1>2 DEF SolanaStep
  <2>4. SolanaType' /\ SolanaSweep'
    BY <1>1, <2>2, <2>3, SolanaTyped
  <2>5. DccType' /\ DccSweep' /\ PollAhead' /\ EngineType'
    BY <2>1, SameTyped DEF engine_vars
  <2>6. Resting'
    <3>1. UNCHANGED <<pendingEvents, sweep>>
      BY <2>3 DEF SolanaBlock, Finalize, SolanaFork, IncludeTransaction, watcher_vars
    <3>2. ~ Watching /\ logs = {} => logs' = {}
      BY <2>3 DEF SolanaBlock, Finalize, SolanaFork, IncludeTransaction, watcher_vars
    <3> QED BY <1>1, <2>1, <3>1, <3>2 DEF Resting, Watching, dcc_vars, poll_vars
  <2> QED BY <2>4, <2>5, <2>6 DEF TypeInv, NodeType
<1>3. CASE DccStep
  <2>1. UNCHANGED <<phase, engine_vars, sol_vars>>
    BY <1>3 DEF DccStep, main_vars
  <2>2. DccBlock \/ \E b \in Burns : IncludeBurn(b) \/ DccReorg(b)
    BY <1>3 DEF DccStep
  <2>3. DccType' /\ DccSweep' /\ PollAhead'
    BY <1>1, <2>2, DccTyped
  <2>4. SolanaType' /\ SolanaSweep' /\ EngineType'
    BY <2>1, SameTyped DEF engine_vars
  <2>5. UNCHANGED poll
    BY <2>2 DEF DccBlock, IncludeBurn, DccReorg, poll_vars
  <2>6. Resting'
    BY <1>1, <2>1, <2>5 DEF Resting, Watching, sol_vars, watcher_vars
  <2> QED BY <2>3, <2>4, <2>6 DEF TypeInv, NodeType
<1> QED BY <1>2, <1>3

LEMMA TypeKept == TypeInv /\ [NodeNext]_node_vars => TypeInv'
<1> SUFFICES ASSUME TypeInv, [NodeNext]_node_vars
             PROVE  TypeInv'
  OBVIOUS
<1>1. CASE UNCHANGED node_vars
  <2>1. UNCHANGED <<sol_vars, dcc_vars, rounds, submitting, landed, phase>>
    BY <1>1 DEF node_vars, main_vars, engine_vars
  <2>2. Resting'
    BY <2>1 DEF TypeInv, Resting, Watching, sol_vars, watcher_vars, dcc_vars, poll_vars
  <2> QED BY <2>1, <2>2, SameTyped DEF TypeInv, NodeType
<1> QED BY <1>1, StartTyped, ChainsTyped, SolanaWatcherTyped, DccWatcherTyped, MainTyped DEF NodeNext

-----------------------------------------------------------------------------
(* Deposits.                                                               *)

\* A notice of a deposit tells the slot it came in, or what is read for it.
LogsSay ==
  \A l \in logs : l.tx \in Deposits =>
    l.told = IF l.tx \in SplDeposits THEN FarSlot ELSE l.slot

\* What was emitted is where it was said to be, for good.
Final(e) ==
  /\ e.position # 0 /\ included[e.tx] = e.position /\ e.position <= finalized
  /\ e.tx \notin Failed

MintsFinal ==
  /\ \A i \in DOMAIN rounds : rounds[i].type = "mint" => Final(rounds[i].event)
  /\ \A s \in submitting \cup landed : Final(s.event)

\* What the engine agreed on was submitted.
Submitted(t) == \E s \in submitting \cup landed : s.event.tx = t

ReachedInHand ==
  \A i \in DOMAIN rounds : rounds[i].type = "mint" /\ rounds[i].status = "reached" =>
    rounds[i].event.tx \in excused \/ Submitted(rounds[i].event.tx)

\* The event of a deposit in a block, as the watcher holds it.
Tells(e, d) == e.tx = d /\ e.position \in {included[d], FarSlot}

Announced(d) == \E l \in logs : l.tx = d /\ l.slot = included[d]
Pending(d) == \E i \in DOMAIN pendingEvents : Tells(pendingEvents[i], d)
Tracked(d) == Announced(d) \/ Pending(d) \/ InHand(d)

\* Of a deposit that came while the node did not watch, it does not know.
AllTracked ==
  \A d \in Deposits : included[d] # 0 /\ d \notin excused => Watching /\ Tracked(d)

DepositInv == TypeInv /\ LogsSay /\ MintsFinal /\ ReachedInHand /\ AllTracked

\* The engine's part of the invariant, while neither the engine nor Solana moves.
LEMMA EngineKept ==
  ASSUME MintsFinal, ReachedInHand, UNCHANGED <<included, finalized, engine_vars>>,
         excused \subseteq excused'
  PROVE  MintsFinal' /\ ReachedInHand' /\ \A d : InHand(d) => InHand(d)'
<1>1. MintsFinal' /\ \A t : Submitted(t) => Submitted(t)'
  BY DEF MintsFinal, Final, Submitted, engine_vars
<1>2. ReachedInHand'
  BY <1>1 DEF ReachedInHand, engine_vars
<1>3. \A d : InHand(d) => InHand(d)'
  BY DEF InHand, engine_vars
<1> QED BY <1>1, <1>2, <1>3

\* All of it, when only excuses come.
LEMMA NothingForgotten ==
  ASSUME DepositInv, TypeInv', UNCHANGED <<included, finalized, logs, pendingEvents, engine_vars>>,
         excused \subseteq excused', Watching => Watching'
  PROVE  DepositInv'
<1>1. LogsSay'
  BY DEF DepositInv, LogsSay
<1>2. MintsFinal' /\ ReachedInHand' /\ \A d : InHand(d) => InHand(d)'
  BY EngineKept DEF DepositInv
<1>3. \A d : Tracked(d) => Tracked(d)'
  BY <1>2 DEF Tracked, Announced, Pending, Tells
<1>4. AllTracked'
  BY <1>3 DEF DepositInv, AllTracked
<1> QED BY <1>1, <1>2, <1>4 DEF DepositInv

LEMMA DepositsStart == NodeInit => DepositInv
<1> SUFFICES ASSUME NodeInit
             PROVE  DepositInv
  OBVIOUS
<1>1. TypeInv
  BY NodeStarts
<1>2. LogsSay /\ MintsFinal /\ ReachedInHand
  BY DEF NodeInit, SolInit, LogsSay, MintsFinal, ReachedInHand
<1>3. AllTracked
  BY SolanaAssumption DEF SolanaAssumption, NodeInit, SolInit, AllTracked
<1> QED BY <1>1, <1>2, <1>3 DEF DepositInv

\* Solana: the finalized slots stay, whatever happens past them.
LEMMA FinalStays ==
  ASSUME DepositInv, SolanaStep
  PROVE  /\ \A e \in DepositEvent : Final(e) => Final(e)'
         /\ UNCHANGED engine_vars /\ MintsFinal'
<1>1. /\ SolanaType /\ EngineType /\ MintsFinal /\ UNCHANGED engine_vars
      /\ \A e \in DepositEvent : e.tx \in Transactions /\ e.position \in Nat
  BY DEF SolanaStep, DepositInv, TypeInv, NodeType, DepositEvent, Event
<1>2. /\ slot \in Nat /\ finalized \in Nat /\ included \in [Transactions -> Nat]
  BY <1>1 DEF SolanaType
<1>3. ASSUME NEW e \in DepositEvent, Final(e)
      PROVE  Final(e)'
  <2>1. CASE SolanaBlock \/ Finalize
    BY <1>1, <1>2, <1>3, <2>1 DEF SolanaBlock, Finalize, Final
  <2>2. ASSUME NEW t \in Transactions, IncludeTransaction(t, Watching)
        PROVE  Final(e)'
    BY <1>1, <1>2, <1>3, <2>2 DEF IncludeTransaction, Final
  <2>3. ASSUME NEW t \in Transactions, SolanaFork(t)
        PROVE  Final(e)'
    BY <1>1, <1>2, <1>3, <2>3 DEF SolanaFork, Final
  <2> QED BY <2>1, <2>2, <2>3 DEF SolanaStep
<1>4. MintsFinal'
  BY <1>1, <1>3 DEF MintsFinal, EngineType, RoundsType, Round, Submission, engine_vars
<1> QED BY <1>1, <1>3, <1>4

LEMMA SolanaGoesOn ==
  ASSUME DepositInv, TypeInv', SolanaStep
  PROVE  DepositInv'
<1>1. /\ UNCHANGED <<phase, engine_vars>> /\ Watching' = Watching
      /\ SolanaType /\ EngineType /\ RoundsType
      /\ LogsSay /\ MintsFinal /\ ReachedInHand /\ AllTracked
  BY DEF SolanaStep, Watching, DepositInv, TypeInv, NodeType, EngineType
<1>2. /\ slot \in Nat /\ finalized \in Nat /\ included \in [Transactions -> Nat]
      /\ pendingEvents \in Seq(DepositEvent) /\ logs \subseteq Log
      /\ Deposits \subseteq Transactions
  BY <1>1, SolanaAssumption DEF SolanaAssumption, SolanaType
<1>3. /\ MintsFinal' /\ \A d : InHand(d) => InHand(d)'
      /\ \A t : Submitted(t) => Submitted(t)'
  BY <1>1, FinalStays DEF InHand, Submitted, engine_vars
<1>4. CASE SolanaBlock /\ UNCHANGED excused
  BY <1>1, <1>4, NothingForgotten DEF SolanaBlock, watcher_vars
<1>5. CASE Finalize /\ UNCHANGED excused
  <2>1. UNCHANGED <<included, logs, pendingEvents, excused>>
    BY <1>5 DEF Finalize, watcher_vars
  <2>2. LogsSay' /\ ReachedInHand'
    BY <1>1, <1>3, <2>1 DEF LogsSay, ReachedInHand, engine_vars
  <2>3. \A d : Tracked(d) => Tracked(d)'
    BY <1>3, <2>1 DEF Tracked, Announced, Pending, Tells
  <2>4. AllTracked'
    BY <1>1, <2>1, <2>3 DEF AllTracked
  <2> QED BY <1>3, <2>2, <2>4 DEF DepositInv
<1>6. ASSUME NEW t \in Transactions, IncludeTransaction(t, Watching),
             excused' = IF Watching THEN excused \ {t} ELSE excused \cup {t}
      PROVE  DepositInv'
  <2>1. /\ included[t] = 0 /\ slot # 0
        /\ included' = [included EXCEPT ![t] = slot]
        /\ UNCHANGED <<slot, finalized, pendingEvents>>
    BY <1>2, <1>6 DEF IncludeTransaction
  <2>2. included'[t] = slot /\ \A u \in Transactions : u # t => included'[u] = included[u]
    BY <1>2, <2>1
  <2>3. \/ ~ Watching /\ UNCHANGED logs
        \/ \E l \in Log :
             /\ Watching /\ logs' = logs \cup {l} /\ l.tx = t /\ l.slot = slot
             /\ t \in Deposits => l.told = IF t \in SplDeposits THEN FarSlot ELSE slot
    <3>1. Watching \in BOOLEAN
      BY DEF Watching
    <3> QED BY <1>2, <1>6, <3>1, IncludedLog
  <2>4. logs \subseteq logs' /\ (Watching => \E l \in logs' : l.tx = t /\ l.slot = slot)
    BY <2>3
  <2>5. LogsSay'
    BY <1>1, <2>3 DEF LogsSay
  <2>6. ReachedInHand'
    <3>1. \A i \in DOMAIN rounds : rounds[i].type = "mint" => rounds[i].event.tx # t
      BY <1>1, <2>1 DEF MintsFinal, Final
    <3> QED BY <1>1, <1>3, <1>6, <3>1 DEF ReachedInHand, engine_vars
  <2>7. ASSUME NEW d \in Deposits, included'[d] # 0, d \notin excused'
        PROVE  Watching' /\ Tracked(d)'
    <3>1. CASE d = t
      <4>1. Watching
        BY <1>6, <2>7, <3>1
      <4>2. Announced(d)'
        BY <2>2, <2>4, <3>1, <4>1 DEF Announced
      <4> QED BY <1>1, <4>1, <4>2 DEF Tracked
    <3>2. CASE d # t
      <4>1. included'[d] = included[d] /\ d \notin excused
        BY <1>2, <1>6, <2>2, <2>7, <3>2
      <4>2. Watching /\ Tracked(d)
        BY <1>1, <2>7, <4>1 DEF AllTracked
      <4>3. /\ Announced(d) => Announced(d)'
            /\ Pending(d) => Pending(d)'
        BY <2>1, <2>4, <4>1 DEF Announced, Pending, Tells
      <4> QED BY <1>1, <1>3, <4>2, <4>3 DEF Tracked
    <3> QED BY <3>1, <3>2
  <2>8. AllTracked'
    BY <2>7 DEF AllTracked
  <2> QED BY <1>3, <2>5, <2>6, <2>8 DEF DepositInv
<1>7. ASSUME NEW t \in Transactions, SolanaFork(t), UNCHANGED excused
      PROVE  DepositInv'
  <2>1. /\ included' = [included EXCEPT ![t] = 0]
        /\ UNCHANGED <<slot, finalized, logs, pendingEvents>>
    BY <1>7 DEF SolanaFork, watcher_vars
  <2>2. included'[t] = 0 /\ \A u \in Transactions : u # t => included'[u] = included[u]
    BY <1>2, <2>1
  <2>3. LogsSay' /\ ReachedInHand'
    BY <1>1, <1>3, <1>7, <2>1 DEF LogsSay, ReachedInHand, engine_vars
  <2>4. ASSUME NEW d \in Deposits, included'[d] # 0, d \notin excused'
        PROVE  Watching' /\ Tracked(d)'
    <3>1. included'[d] = included[d] /\ d \notin excused
      BY <1>2, <1>7, <2>2, <2>4
    <3>2. Watching /\ Tracked(d)
      BY <1>1, <2>4, <3>1 DEF AllTracked
    <3>3. /\ Announced(d) => Announced(d)'
          /\ Pending(d) => Pending(d)'
      BY <2>1, <3>1 DEF Announced, Pending, Tells
    <3> QED BY <1>1, <1>3, <3>2, <3>3 DEF Tracked
  <2>5. AllTracked'
    BY <2>4 DEF AllTracked
  <2> QED BY <1>3, <2>3, <2>5 DEF DepositInv
<1> QED BY <1>4, <1>5, <1>6, <1>7 DEF SolanaStep

\* What a sweep settles is deleted, and nothing else.
LEMMA Settled ==
  ASSUME TypeInv, NEW e, AtVerify(e), Drop
  PROVE  /\ e \in DepositEvent /\ e.position <= finalized /\ e.position # FarSlot
         /\ \E i \in DOMAIN pendingEvents : e = pendingEvents[i]
         /\ \A j \in DOMAIN pendingEvents : pendingEvents[j] # e =>
              \E i \in DOMAIN pendingEvents' : pendingEvents'[i] = pendingEvents[j]
<1> DEFINE c == sweep.cursor
<1>1. /\ pendingEvents \in Seq(DepositEvent) /\ sweep \in SweepState
      /\ AtDueEntry(sweep, pendingEvents, requiredConfirmations)
      /\ sweep.now <= finalized /\ sweep.at = "verify" /\ finalized \in Nat
      /\ slot \in Nat /\ finalized <= slot /\ slot <= MaxSlot
  BY DEF TypeInv, NodeType, SolanaType, SolanaSweep, AtVerify
<1>2. /\ c \in 1 .. Len(pendingEvents) /\ e = pendingEvents[c]
      /\ sweep.now - e.position >= requiredConfirmations
      /\ sweep.now \in Nat /\ DOMAIN pendingEvents = 1 .. Len(pendingEvents)
  BY <1>1 DEF AtDueEntry, AtVerify, Due, SweepState
<1>3. e \in DepositEvent /\ e.position \in Nat
  BY <1>1, <1>2 DEF DepositEvent, Event
<1>4. e.position <= finalized
  BY <1>1, <1>2, <1>3, SolanaAssumption DEF SolanaAssumption
<1>5. e.position # FarSlot
  BY <1>1, <1>3, <1>4, SolanaAssumption DEF SolanaAssumption
<1>6. \A j \in DOMAIN pendingEvents : j # c =>
        \E i \in DOMAIN pendingEvents' : pendingEvents'[i] = pendingEvents[j]
  BY <1>1, <1>2, Removed DEF Drop
<1> QED BY <1>2, <1>3, <1>4, <1>5, <1>6

LEMMA SolanaWatched ==
  ASSUME DepositInv, TypeInv', SolanaWatcherStep
  PROVE  DepositInv'
<1>1. /\ UNCHANGED phase /\ Watching /\ Watching' = Watching
      /\ SolanaType /\ EngineType /\ TypeInv
      /\ LogsSay /\ MintsFinal /\ ReachedInHand /\ AllTracked
  BY DEF SolanaWatcherStep, Watching, DepositInv, TypeInv, NodeType
<1>2. /\ included \in [Transactions -> Nat] /\ finalized \in Nat
      /\ pendingEvents \in Seq(DepositEvent) /\ logs \subseteq Log
  BY <1>1 DEF SolanaType
<1>3. CASE StartSweep /\ UNCHANGED <<engine_vars, excused>>
  BY <1>1, <1>3, NothingForgotten DEF StartSweep, chain_vars
<1>4. ASSUME UNCHANGED <<included, finalized, engine_vars>>, excused \subseteq excused',
             logs' \subseteq logs,
             \A d \in Deposits : included[d] # 0 /\ d \notin excused' =>
               (Announced(d) \/ Pending(d) => Tracked(d)')
      PROVE  DepositInv'
  <2>1. MintsFinal' /\ ReachedInHand' /\ \A d : InHand(d) => InHand(d)'
    BY <1>1, <1>4, EngineKept
  <2>2. LogsSay'
    BY <1>1, <1>4 DEF LogsSay
  <2>3. AllTracked'
    <3> SUFFICES ASSUME NEW d \in Deposits, included[d] # 0, d \notin excused'
                 PROVE  Tracked(d)'
      BY <1>1, <1>4 DEF AllTracked
    <3>1. Tracked(d)
      BY <1>1, <1>4 DEF AllTracked
    <3> QED BY <1>4, <2>1, <3>1 DEF Tracked
  <2> QED BY <2>1, <2>2, <2>3 DEF DepositInv
<1>5. ASSUME NEW l \in logs, ReceiveLogs(l), UNCHANGED engine_vars,
             IF OtherPending(Decode(l)) THEN Lost(l, l.slot) ELSE UNCHANGED excused
      PROVE  DepositInv'
  <2> DEFINE e == Decode(l)
  <2>1. e \in DepositEvent /\ e.tx = l.tx /\ e.position = l.told
    <3>1. l.tx \in Transactions /\ l.told \in Nat
      BY <1>2 DEF Log
    <3> QED BY <3>1 DEF Decode, DepositEvent, Event
  <2>2. /\ logs' = logs \ {l} /\ UNCHANGED <<included, finalized>>
        /\ pendingEvents' = IF Has(pendingEvents, e.id) THEN pendingEvents ELSE Append(pendingEvents, e)
        /\ excused \subseteq excused'
        /\ OtherPending(e) => (included[l.tx] = l.slot => l.tx \in excused')
    BY <1>5 DEF ReceiveLogs, processLogs, chain_vars, Lost
  <2> HIDE DEF e
  <2>3. /\ \A i \in DOMAIN pendingEvents : \E j \in DOMAIN pendingEvents' :
              pendingEvents'[j] = pendingEvents[i]
        /\ ~ OtherPending(e) => \E j \in DOMAIN pendingEvents' : pendingEvents'[j] = e
    <3>1. CASE Has(pendingEvents, e.id)
      BY <2>2, <3>1 DEF OtherPending, Range
    <3>2. CASE ~ Has(pendingEvents, e.id)
      <4>1. pendingEvents' = Append(pendingEvents, e)
        BY <2>2, <3>2
      <4>2. pendingEvents \in Seq(DepositEvent) /\ e \in DepositEvent
        BY <1>2, <2>1
      <4>3. /\ \A i \in DOMAIN pendingEvents : \E j \in DOMAIN pendingEvents' :
                  pendingEvents'[j] = pendingEvents[i]
            /\ \A j \in DOMAIN pendingEvents' :
                  pendingEvents'[j] = e \/ \E i \in DOMAIN pendingEvents : pendingEvents'[j] = pendingEvents[i]
            /\ \E j \in DOMAIN pendingEvents' : pendingEvents'[j] = e
        BY <4>1, <4>2, AppendedOne
      <4> QED BY <4>3
    <3> QED BY <3>1, <3>2
  <2>4. ASSUME NEW d \in Deposits, included[d] # 0, d \notin excused', Announced(d) \/ Pending(d)
        PROVE  Tracked(d)'
    <3>1. CASE Pending(d)
      BY <2>2, <2>3, <3>1 DEF Tracked, Pending, Tells
    <3>2. ASSUME NEW m \in logs, m.tx = d, m.slot = included[d]
          PROVE  Tracked(d)'
      <4>1. CASE m # l
        BY <2>2, <3>2, <4>1 DEF Tracked, Announced
      <4>2. CASE m = l
        <5>1. ~ OtherPending(e)
          BY <2>2, <2>4, <3>2, <4>2
        <5>2. e.tx = d /\ e.position \in {included[d], FarSlot}
          BY <1>1, <2>1, <3>2, <4>2 DEF LogsSay
        <5> QED BY <2>2, <2>3, <5>1, <5>2 DEF Tracked, Pending, Tells
      <4> QED BY <4>1, <4>2
    <3> QED BY <2>4, <3>1, <3>2 DEF Announced
  <2>5. logs' \subseteq logs
    BY <2>2
  <2> QED BY <1>4, <1>5, <2>2, <2>4, <2>5
<1>6. ASSUME NEW l \in logs, LoseLogs(l), Lost(l, l.slot), UNCHANGED engine_vars
      PROVE  DepositInv'
  <2>1. /\ logs' = logs \ {l} /\ UNCHANGED <<included, finalized, pendingEvents>>
        /\ excused \subseteq excused' /\ (included[l.tx] = l.slot => l.tx \in excused')
    BY <1>6 DEF LoseLogs, chain_vars, Lost
  <2>2. ASSUME NEW d \in Deposits, included[d] # 0, d \notin excused', Announced(d) \/ Pending(d)
        PROVE  Tracked(d)'
    <3>1. CASE Pending(d)
      BY <2>1, <3>1 DEF Tracked, Pending, Tells
    <3>2. CASE Announced(d)
      BY <2>1, <2>2, <3>2 DEF Tracked, Announced
    <3> QED BY <2>2, <3>1, <3>2
  <2>3. logs' \subseteq logs
    BY <2>1
  <2> QED BY <1>4, <1>6, <2>1, <2>2, <2>3
<1>7. ASSUME NEW e, DepositFinalized(e), Propose("mint", e), UNCHANGED <<submitting, landed>>,
             IF OtherRound("mint", e) THEN Lost(e, e.position) ELSE UNCHANGED excused
      PROVE  DepositInv'
  <2>1. /\ AtVerify(e) /\ TransactionValid(e) /\ Drop
        /\ UNCHANGED <<included, finalized, logs>>
    BY <1>7 DEF DepositFinalized, chain_vars
  <2>2. /\ e \in DepositEvent /\ e.position <= finalized /\ e.position # FarSlot
        /\ \A j \in DOMAIN pendingEvents : pendingEvents[j] # e =>
             \E i \in DOMAIN pendingEvents' : pendingEvents'[i] = pendingEvents[j]
    BY <1>1, <2>1, Settled
  <2>3. Final(e)
    BY <2>1, <2>2 DEF TransactionValid, Final
  <2>4. /\ e.id \in DOMAIN rounds'
        /\ \A i \in DOMAIN rounds : i \in DOMAIN rounds' /\ rounds'[i] = rounds[i]
        /\ \A i \in DOMAIN rounds' : i \notin DOMAIN rounds =>
              i = e.id /\ rounds'[i] = [type |-> "mint", event |-> e, status |-> "open"]
    BY <1>1, <1>7, <2>2, Proposed DEF EngineType
  <2>5. MintsFinal'
    <3>1. \A i \in DOMAIN rounds' : rounds'[i].type = "mint" => Final(rounds'[i].event)
      BY <1>1, <2>3, <2>4 DEF MintsFinal
    <3>2. \A s \in submitting' \cup landed' : Final(s.event)
      BY <1>1, <1>7 DEF MintsFinal
    <3> QED BY <2>1, <3>1, <3>2 DEF MintsFinal, Final
  <2>6. /\ excused \subseteq excused'
        /\ OtherRound("mint", e) => e.tx \in excused'
    BY <1>7, <2>3 DEF Lost, Final
  <2>7. \A t : Submitted(t)' = Submitted(t)
    BY <1>7 DEF Submitted
  <2>8. ReachedInHand'
    <3> SUFFICES ASSUME NEW i \in DOMAIN rounds', rounds'[i].type = "mint", rounds'[i].status = "reached"
                 PROVE  rounds'[i].event.tx \in excused' \/ Submitted(rounds'[i].event.tx)
      BY <1>7 DEF ReachedInHand, Submitted
    <3>1. i \in DOMAIN rounds /\ rounds'[i] = rounds[i]
      BY <2>4
    <3> QED BY <1>1, <2>6, <3>1 DEF ReachedInHand
  <2>9. \A d : InHand(d) => InHand(d)'
    BY <1>7, <2>4 DEF InHand
  <2>10. AllTracked'
    <3> SUFFICES ASSUME NEW d \in Deposits, included[d] # 0, d \notin excused'
                 PROVE  Tracked(d)'
      BY <1>1, <2>1 DEF AllTracked
    <3>1. Tracked(d) /\ d \notin excused
      BY <1>1, <2>6 DEF AllTracked
    <3>2. CASE Announced(d)
      BY <2>1, <3>2 DEF Tracked, Announced
    <3>3. CASE InHand(d)
      BY <2>9, <3>3 DEF Tracked
    <3>4. ASSUME NEW j \in DOMAIN pendingEvents, Tells(pendingEvents[j], d)
          PROVE  Tracked(d)'
      <4>1. CASE pendingEvents[j] # e
        BY <2>1, <2>2, <3>4, <4>1 DEF Tracked, Pending, Tells
      <4>2. CASE pendingEvents[j] = e
        <5>1. e.tx = d /\ e.id = transferId[d] /\ ~ OtherRound("mint", e)
          BY <2>2, <2>6, <3>4, <4>2 DEF Tells, DepositEvent
        <5>2. CASE e.id \in DOMAIN rounds
          <6>1. rounds[e.id].type = "mint" /\ rounds[e.id].event = e
            BY <5>1, <5>2 DEF OtherRound
          <6>2. rounds[e.id].status = "reached" => Submitted(d)
            BY <1>1, <3>1, <5>1, <5>2, <6>1 DEF ReachedInHand
          <6>3. InHand(d)
            BY <5>1, <5>2, <6>1, <6>2 DEF InHand, Submitted
          <6> QED BY <2>9, <6>3 DEF Tracked
        <5>3. CASE e.id \notin DOMAIN rounds
          <6>1. rounds'[e.id] = [type |-> "mint", event |-> e, status |-> "open"]
            BY <2>4, <5>3
          <6>2. InHand(d)'
            BY <2>4, <5>1, <6>1 DEF InHand
          <6> QED BY <6>2 DEF Tracked
        <5> QED BY <5>2, <5>3
      <4> QED BY <4>1, <4>2
    <3> QED BY <3>1, <3>2, <3>3, <3>4 DEF Tracked, Pending
  <2>11. LogsSay'
    BY <1>1, <2>1 DEF LogsSay
  <2> QED BY <2>5, <2>8, <2>10, <2>11 DEF DepositInv
<1>8. ASSUME NEW e, NEW failed \in BOOLEAN, DepositInvalidated(e, failed), UNCHANGED engine_vars,
             IF failed THEN Lost(e, e.position) ELSE UNCHANGED excused
      PROVE  DepositInv'
  <2>1. /\ AtVerify(e) /\ (failed \/ ~ TransactionValid(e)) /\ Drop
        /\ UNCHANGED <<included, finalized, logs>>
    BY <1>8 DEF DepositInvalidated, chain_vars
  <2>2. /\ e \in DepositEvent /\ e.position <= finalized /\ e.position # FarSlot
        /\ \A j \in DOMAIN pendingEvents : pendingEvents[j] # e =>
             \E i \in DOMAIN pendingEvents' : pendingEvents'[i] = pendingEvents[j]
    BY <1>1, <2>1, Settled
  <2>3. /\ excused \subseteq excused'
        /\ failed => (included[e.tx] = e.position => e.tx \in excused')
    BY <1>8 DEF Lost
  <2>4. ASSUME NEW d \in Deposits, included[d] # 0, d \notin excused', Tells(e, d)
        PROVE  FALSE
    <3>1. e.tx = d /\ e.position = included[d] /\ e.position \in Nat /\ d \notin Failed
      BY <2>2, <2>4, SolanaAssumption DEF SolanaAssumption, Tells, DepositEvent, Event
    <3>2. TransactionValid(e)
      BY <1>2, <2>2, <2>4, <3>1 DEF TransactionValid
    <3> QED BY <2>1, <2>3, <2>4, <3>1, <3>2
  <2>5. ASSUME NEW d \in Deposits, included[d] # 0, d \notin excused', Announced(d) \/ Pending(d)
        PROVE  Tracked(d)'
    <3>1. CASE Announced(d)
      BY <2>1, <3>1 DEF Tracked, Announced
    <3>2. ASSUME NEW j \in DOMAIN pendingEvents, Tells(pendingEvents[j], d)
          PROVE  Tracked(d)'
      <4>1. pendingEvents[j] # e
        BY <2>4, <2>5, <3>2
      <4> QED BY <2>1, <2>2, <3>2, <4>1 DEF Tracked, Pending, Tells
    <3> QED BY <2>5, <3>1, <3>2 DEF Pending
  <2>6. logs' \subseteq logs
    BY <2>1
  <2> QED BY <1>4, <1>8, <2>1, <2>3, <2>5, <2>6
<1> QED BY <1>3, <1>5, <1>6, <1>7, <1>8 DEF SolanaWatcherStep

LEMMA BurnsWatched ==
  ASSUME DepositInv, TypeInv', DccWatcherStep
  PROVE  DepositInv'
<1>1. /\ UNCHANGED <<phase, included, finalized, logs, pendingEvents>> /\ Watching' = Watching
      /\ EngineType /\ TypeInv /\ DccType
      /\ LogsSay /\ MintsFinal /\ ReachedInHand /\ AllTracked
  BY DEF DccWatcherStep, sol_vars, chain_vars, watcher_vars, Watching, DepositInv, TypeInv, NodeType
<1>2. CASE UNCHANGED engine_vars /\ excused \subseteq excused'
  BY <1>1, <1>2, NothingForgotten
<1>3. ASSUME NEW i \in DOMAIN pendingBurns, Propose("unlock", pendingBurns[i]),
             UNCHANGED <<submitting, landed>>, excused \subseteq excused'
      PROVE  DepositInv'
  <2> DEFINE e == pendingBurns[i]
  <2>1. e \in BurnEventType
    BY <1>1 DEF DccType
  <2> HIDE DEF e
  <2>2. /\ \A j \in DOMAIN rounds : j \in DOMAIN rounds' /\ rounds'[j] = rounds[j]
        /\ \A j \in DOMAIN rounds' : j \notin DOMAIN rounds =>
              j = e.id /\ rounds'[j] = [type |-> "unlock", event |-> e, status |-> "open"]
    <3>1. Propose("unlock", e) /\ RoundsType
      BY <1>1, <1>3 DEF e, EngineType
    <3> QED BY <2>1, <3>1, Proposed
  <2>3. LogsSay'
    BY <1>1 DEF LogsSay
  <2>4. MintsFinal'
    <3>1. \A j \in DOMAIN rounds' : rounds'[j].type = "mint" => Final(rounds'[j].event)
      BY <1>1, <2>2 DEF MintsFinal
    <3> QED BY <1>1, <1>3, <3>1 DEF MintsFinal, Final
  <2>5. ReachedInHand'
    <3> SUFFICES ASSUME NEW j \in DOMAIN rounds', rounds'[j].type = "mint", rounds'[j].status = "reached"
                 PROVE  rounds'[j].event.tx \in excused' \/ Submitted(rounds'[j].event.tx)
      BY <1>3 DEF ReachedInHand, Submitted
    <3>1. j \in DOMAIN rounds /\ rounds'[j] = rounds[j]
      BY <2>2
    <3> QED BY <1>1, <1>3, <3>1 DEF ReachedInHand
  <2>6. \A d : InHand(d) => InHand(d)'
    BY <1>3, <2>2 DEF InHand
  <2>7. \A d : Tracked(d) => Tracked(d)'
    BY <1>1, <2>6 DEF Tracked, Announced, Pending, Tells
  <2>8. AllTracked'
    BY <1>1, <1>3, <2>7 DEF AllTracked
  <2> QED BY <2>3, <2>4, <2>5, <2>8 DEF DepositInv
<1> QED BY <1>2, <1>3 DEF DccWatcherStep, Range

LEMMA EngineSettles ==
  ASSUME DepositInv, TypeInv', MainStep
  PROVE  DepositInv'
<1>1. /\ UNCHANGED <<phase, included, finalized, logs, pendingEvents>> /\ Watching' = Watching
      /\ EngineType /\ TypeInv /\ RoundsType
      /\ submitting \subseteq Submission /\ landed \subseteq Submission
      /\ LogsSay /\ MintsFinal /\ ReachedInHand /\ AllTracked
  BY DEF MainStep, sol_vars, chain_vars, watcher_vars, Watching, DepositInv, TypeInv, NodeType,
         EngineType
<1>2. ASSUME excused \subseteq excused', MintsFinal', ReachedInHand',
             \A d \in Deposits : included[d] # 0 /\ d \notin excused' /\ InHand(d) => InHand(d)'
      PROVE  DepositInv'
  <2>1. LogsSay'
    BY <1>1 DEF LogsSay
  <2>2. \A d : /\ Announced(d) => Announced(d)'
               /\ Pending(d) => Pending(d)'
    BY <1>1 DEF Announced, Pending, Tells
  <2>3. AllTracked'
    <3> SUFFICES ASSUME NEW d \in Deposits, included[d] # 0, d \notin excused'
                 PROVE  Watching /\ Tracked(d)'
      BY <1>1 DEF AllTracked
    <3>1. Watching /\ Tracked(d)
      BY <1>1, <1>2 DEF AllTracked
    <3> QED BY <1>2, <2>2, <3>1 DEF Tracked
  <2> QED BY <1>2, <2>1, <2>3 DEF DepositInv
<1>3. ASSUME NEW i, ConsensusReached(i)
      PROVE  DepositInv'
  <2> DEFINE sent == [type |-> "mint", event |-> rounds[i].event]
  <2>1. /\ i \in DOMAIN rounds /\ rounds[i].status = "open" /\ UNCHANGED landed
        /\ rounds' = [rounds EXCEPT ![i].status = "reached"] /\ excused \subseteq excused'
    BY <1>1, <1>3, ReachedStep
  <2>2. /\ rounds[i].type = "mint" => submitting' = submitting \cup {sent}
        /\ rounds[i].type # "mint" => UNCHANGED submitting
    BY <1>1, <1>3, ReachedStep
  <2>3. /\ DOMAIN rounds' = DOMAIN rounds
        /\ \A j \in DOMAIN rounds : j # i => rounds'[j] = rounds[j]
        /\ rounds'[i].type = rounds[i].type /\ rounds'[i].event = rounds[i].event
    BY <1>1, <2>1, RoundOver
  <2>4. /\ submitting \subseteq submitting'
        /\ \A t \in submitting' : t \in submitting \/ (rounds[i].type = "mint" /\ t.event = rounds[i].event)
        /\ rounds[i].type = "mint" => \E s \in submitting' : s.event.tx = rounds[i].event.tx
    <3>1. rounds[i].type = "mint" => sent \in submitting' /\ sent.event.tx = rounds[i].event.tx
      BY <2>2
    <3> QED BY <2>2, <3>1
  <2>5. MintsFinal'
    <3>1. \A j \in DOMAIN rounds' : rounds'[j].type = "mint" => Final(rounds'[j].event)
      BY <1>1, <2>3 DEF MintsFinal
    <3>2. \A t \in submitting' \cup landed' : Final(t.event)
      BY <1>1, <2>1, <2>4 DEF MintsFinal
    <3> QED BY <1>1, <3>1, <3>2 DEF MintsFinal, Final
  <2>6. /\ \A t : Submitted(t) => Submitted(t)'
        /\ \A t : rounds[i].type = "mint" /\ rounds[i].event.tx = t => Submitted(t)'
    BY <2>1, <2>4 DEF Submitted
  <2>7. ReachedInHand'
    <3> SUFFICES ASSUME NEW j \in DOMAIN rounds', rounds'[j].type = "mint", rounds'[j].status = "reached"
                 PROVE  \/ rounds'[j].event.tx \in excused'
                        \/ \E s \in submitting' \cup landed' : s.event.tx = rounds'[j].event.tx
      BY <2>3 DEF ReachedInHand, Submitted
    <3>1. CASE j = i
      BY <2>3, <2>4, <3>1
    <3>2. CASE j # i
      <4>1. /\ j \in DOMAIN rounds /\ rounds'[j] = rounds[j]
            /\ rounds[j].event.tx \in excused \/ Submitted(rounds[j].event.tx)
        BY <1>1, <2>3, <3>2 DEF ReachedInHand
      <4> QED BY <2>1, <2>6, <4>1 DEF Submitted
    <3> QED BY <3>1, <3>2
  <2>8. ASSUME NEW d \in Deposits, InHand(d)
        PROVE  InHand(d)'
    <3>1. CASE transferId[d] = i
      BY <2>3, <2>6, <2>8, <3>1 DEF InHand, Submitted
    <3>2. CASE transferId[d] # i
      BY <2>3, <2>6, <2>8, <3>2 DEF InHand, Submitted
    <3> QED BY <3>1, <3>2
  <2> QED BY <1>2, <2>1, <2>5, <2>7, <2>8
<1>4. ASSUME NEW i, ConsensusFailed(i)
      PROVE  DepositInv'
  <2>1. /\ i \in DOMAIN rounds /\ rounds' = [rounds EXCEPT ![i].status = "failed"]
        /\ UNCHANGED <<submitting, landed, excused>>
    BY <1>4 DEF ConsensusFailed
  <2>2. /\ DOMAIN rounds' = DOMAIN rounds
        /\ \A j \in DOMAIN rounds : j # i => rounds'[j] = rounds[j]
        /\ rounds'[i].type = rounds[i].type /\ rounds'[i].event = rounds[i].event
        /\ rounds'[i].status = "failed"
    BY <1>1, <2>1, RoundOver
  <2>3. MintsFinal'
    <3>1. \A j \in DOMAIN rounds' : rounds'[j].type = "mint" => Final(rounds'[j].event)
      BY <1>1, <2>2 DEF MintsFinal
    <3> QED BY <1>1, <2>1, <3>1 DEF MintsFinal, Final
  <2>4. ReachedInHand'
    BY <1>1, <2>1, <2>2 DEF ReachedInHand, Submitted
  <2>5. \A d : InHand(d) => InHand(d)'
    BY <2>1, <2>2 DEF InHand
  <2> QED BY <1>2, <2>1, <2>3, <2>4, <2>5
<1>5. ASSUME NEW s \in submitting, SubmissionReturns(s)
      PROVE  DepositInv'
  <2> DEFINE t == s.event.tx
  <2>1. submitting' = submitting \ {s} /\ UNCHANGED rounds /\ signAndBroadcastMint(s)
    BY <1>5 DEF SubmissionReturns
  <2>2. Final(s.event)
    BY <1>1 DEF MintsFinal
  <2>3. /\ excused \subseteq excused' /\ landed \subseteq landed' /\ landed' \subseteq landed \cup {s}
        /\ t \in excused' \/ \E l \in landed' : l.event.tx = t
    <3>1. CASE /\ landed' = IF \E l \in landed : l.event.id = s.event.id THEN landed ELSE landed \cup {s}
               /\ IF OtherLanded(s.event) THEN Lost(s.event, s.event.position) ELSE UNCHANGED excused
      <4>1. landed \subseteq landed' /\ landed' \subseteq landed \cup {s}
        BY <3>1
      <4>2. CASE OtherLanded(s.event)
        BY <2>2, <3>1, <4>1, <4>2 DEF Lost, Final
      <4>3. CASE ~ OtherLanded(s.event)
        <5>1. \E l \in landed' : l.event = s.event
          BY <3>1, <4>3 DEF OtherLanded
        <5> QED BY <3>1, <4>1, <4>3, <5>1
      <4> QED BY <4>2, <4>3
    <3>2. CASE Lost(s.event, s.event.position) /\ UNCHANGED landed
      BY <2>2, <3>2 DEF Lost, Final
    <3> QED BY <2>1, <3>1, <3>2 DEF signAndBroadcastMint
  <2>4. MintsFinal'
    <3>1. \A u \in submitting' \cup landed' : Final(u.event)
      BY <1>1, <1>5, <2>1, <2>3 DEF MintsFinal
    <3> QED BY <1>1, <2>1, <3>1 DEF MintsFinal, Final
  <2>5. \A u : u \notin excused' /\ Submitted(u) => Submitted(u)'
    BY <2>1, <2>3 DEF Submitted
  <2>6. ReachedInHand'
    BY <1>1, <2>1, <2>3, <2>5 DEF ReachedInHand
  <2>7. \A d : d \notin excused' /\ InHand(d) => InHand(d)'
    BY <2>1, <2>5 DEF InHand, Submitted
  <2> QED BY <1>2, <2>3, <2>4, <2>6, <2>7
<1> QED BY <1>3, <1>4, <1>5 DEF MainStep

LEMMA RestartForgets ==
  ASSUME DepositInv, TypeInv', StartNext \/ Crash
  PROVE  DepositInv'
<1>1. CASE StartNext
  <2>1. /\ UNCHANGED <<included, finalized, logs, pendingEvents, engine_vars, excused>>
        /\ Watching => Watching'
    BY <1>1 DEF StartNext, GenerateKey, SaveEncryptionKey, LoadKey, StartSolanaWatcher, StartRest,
                Watching, sol_vars, chain_vars, watcher_vars
  <2> QED BY <2>1, NothingForgotten
<1>2. CASE Crash
  <2>1. /\ logs' = {} /\ pendingEvents' = <<>> /\ UNCHANGED <<included, finalized, landed>>
        /\ rounds' = [i \in {} |-> 0] /\ submitting' = {}
        /\ excused \subseteq excused' /\ {d \in Transactions : included[d] # 0} \subseteq excused'
    BY <1>2 DEF Crash, StopSolanaWatcher, chain_vars
  <2>2. MintsFinal
    BY DEF DepositInv
  <2>3. LogsSay'
    BY <2>1 DEF LogsSay
  <2>4. MintsFinal' /\ ReachedInHand'
    BY <2>1, <2>2 DEF MintsFinal, Final, ReachedInHand
  <2>5. AllTracked'
    BY <2>1, SolanaAssumption DEF SolanaAssumption, AllTracked
  <2> QED BY <2>3, <2>4, <2>5 DEF DepositInv
<1> QED BY <1>1, <1>2

LEMMA DepositsKept == DepositInv /\ [NodeNext]_node_vars => DepositInv'
<1> SUFFICES ASSUME DepositInv, [NodeNext]_node_vars
             PROVE  DepositInv'
  OBVIOUS
<1>1. TypeInv'
  BY TypeKept DEF DepositInv
<1>2. CASE DccStep \/ UNCHANGED node_vars
  <2>1. /\ UNCHANGED <<included, finalized, logs, pendingEvents, engine_vars, excused>>
        /\ Watching => Watching'
    BY <1>2 DEF DccStep, node_vars, main_vars, Watching, sol_vars, chain_vars, watcher_vars
  <2> QED BY <1>1, <2>1, NothingForgotten
<1> QED BY <1>1, <1>2, SolanaGoesOn, SolanaWatched, BurnsWatched, EngineSettles, RestartForgets
        DEF NodeNext

-----------------------------------------------------------------------------
(* Burns.                                                                  *)

UnlockRound(i) == i \in DOMAIN rounds /\ rounds[i].type = "unlock"

BurnTracked(b) ==
  \/ burnAt[b] > Scanned
  \/ Has(pendingBurns, <<b, burnAt[b]>>)
  \/ UnlockRound(<<b, burnAt[b]>>)

\* A burn the watcher is to know of.
Expected(b) == fields[b] = 5 /\ burnAt[b] # 0 /\ b \notin excused \cup unseen

\* The rounds there are stay, and stay about what they are about.
RoundsStay == \A i : UnlockRound(i) => UnlockRound(i)'

\* The burns stay tracked while the watcher stands still.
LEMMA BurnsLeftAlone ==
  ASSUME BurnsTracked, UNCHANGED <<burnAt, poll_vars, pendingBurns, unseen>>,
         excused \cap Burns \subseteq excused', RoundsStay, phase' = "up" => phase = "up"
  PROVE  BurnsTracked'
<1>1. Scanned' = Scanned
  BY DEF Scanned, poll_vars
<1>2. \A id : Has(pendingBurns, id) => Has(pendingBurns', id)
  OBVIOUS
<1>3. ASSUME NEW b \in Burns, Expected(b)', phase' = "up"
      PROVE  BurnTracked(b)'
  <2>1. Expected(b) /\ BurnTracked(b)
    BY <1>3 DEF Expected, BurnsTracked, BurnTracked, UnlockRound
  <2> QED BY <1>1, <1>2, <2>1 DEF BurnTracked, RoundsStay
<1> QED BY <1>3 DEF BurnsTracked, BurnTracked, Expected, UnlockRound

\* The sweep settles an entry that is deep enough, and deletes no other.
LEMMA BurnSettled ==
  ASSUME TypeInv, NEW e, AtVerifyBurn(e), DropBurn
  PROVE  /\ e \in BurnEventType /\ \E i \in DOMAIN pendingBurns : e = pendingBurns[i]
         /\ e.position <= height - requiredBlocks
         /\ \A id : Has(pendingBurns, id) => id = e.id \/ Has(pendingBurns', id)
<1> DEFINE c == burnSweep.cursor
<1>1. /\ pendingBurns \in Seq(BurnEventType) /\ burnSweep \in SweepState
      /\ AtDueEntry(burnSweep, pendingBurns, requiredBlocks)
      /\ burnSweep.now <= height /\ burnSweep.at = "verify" /\ height \in Nat
  BY DEF TypeInv, NodeType, DccType, DccSweep, AtVerifyBurn
<1>2. /\ c \in 1 .. Len(pendingBurns) /\ e = pendingBurns[c]
      /\ burnSweep.now - e.position >= requiredBlocks
      /\ burnSweep.now \in Nat /\ DOMAIN pendingBurns = 1 .. Len(pendingBurns)
  BY <1>1 DEF AtDueEntry, AtVerifyBurn, Due, SweepState
<1>3. e \in BurnEventType /\ e.position \in Nat
  BY <1>1, <1>2 DEF BurnEventType
<1>4. e.position <= height - requiredBlocks
  BY <1>1, <1>2, <1>3, DccAssumption DEF DccAssumption
<1>5. \A j \in DOMAIN pendingBurns : j # c =>
        \E i \in DOMAIN pendingBurns' : pendingBurns'[i] = pendingBurns[j]
  BY <1>1, <1>2, Removed DEF DropBurn
<1>6. \A id : Has(pendingBurns, id) => id = e.id \/ Has(pendingBurns', id)
  BY <1>2, <1>5 DEF Has
<1> QED BY <1>2, <1>3, <1>4, <1>6

LEMMA BlockScanned ==
  ASSUME TypeInv, BurnsTracked, phase = "up", UNCHANGED <<phase, rounds>>,
         NEW failed \in BOOLEAN, ScanBlock(failed),
         excused' = IF failed THEN excused \cup {b \in Burns : burnAt[b] = poll.h} ELSE excused
  PROVE  BurnsTracked'
<1>1. DccType /\ PollAhead
  BY DEF TypeInv, NodeType
<1>2. /\ poll.at = "scan" /\ NextBlock /\ UNCHANGED <<burnAt, unseen>>
      /\ pendingBurns' = IF failed THEN pendingBurns ELSE pendingBurns \o SetToSeq(NewBurns(poll.h))
  BY DEF ScanBlock, dcc_chain_vars
<1>3. /\ poll.h \in Nat /\ poll.upto \in Nat /\ poll.h <= poll.upto
      /\ burnAt \in [Burns -> Nat] /\ pendingBurns \in Seq(BurnEventType)
  BY <1>1, <1>2 DEF DccType, PollAhead
<1>4. Scanned = poll.h - 1 /\ Scanned' = poll.h
  BY <1>1, <1>2, <1>3 DEF Scanned, NextBlock, Idle, DccType
<1> DEFINE found == SetToSeq(NewBurns(poll.h))
<1>5. /\ found \in Seq(BurnEventType)
      /\ \A e \in NewBurns(poll.h) : \E i \in DOMAIN found : found[i] = e
  BY <1>1, <1>3, NewBurnsListed
<1> HIDE DEF found
<1>6. /\ \A i \in DOMAIN pendingBurns : \E j \in DOMAIN pendingBurns' : pendingBurns'[j] = pendingBurns[i]
      /\ ~ failed => \A i \in DOMAIN found : \E j \in DOMAIN pendingBurns' : pendingBurns'[j] = found[i]
  <2>1. CASE failed
    BY <1>2, <2>1
  <2>2. CASE ~ failed
    <3>1. pendingBurns' = pendingBurns \o found
      BY <1>2, <2>2 DEF found
    <3>2. pendingBurns \in Seq(BurnEventType) /\ found \in Seq(BurnEventType)
      BY <1>3, <1>5
    <3>3. /\ Len(pendingBurns) \in Nat /\ DOMAIN pendingBurns = 1 .. Len(pendingBurns)
          /\ Len(found) \in Nat /\ DOMAIN found = 1 .. Len(found)
          /\ DOMAIN pendingBurns' = 1 .. Len(pendingBurns) + Len(found)
          /\ \A i \in 1 .. Len(pendingBurns) : pendingBurns'[i] = pendingBurns[i]
          /\ \A i \in 1 .. Len(found) : pendingBurns'[Len(pendingBurns) + i] = found[i]
      BY <3>1, <3>2
    <3>4. \A i \in DOMAIN pendingBurns : i \in DOMAIN pendingBurns' /\ pendingBurns'[i] = pendingBurns[i]
      BY <3>3
    <3>5. \A i \in DOMAIN found :
            Len(pendingBurns) + i \in DOMAIN pendingBurns' /\ pendingBurns'[Len(pendingBurns) + i] = found[i]
      BY <3>3
    <3> QED BY <3>4, <3>5
  <2> QED BY <2>1, <2>2
<1>7. \A id : Has(pendingBurns, id) => Has(pendingBurns', id)
  BY <1>6 DEF Has
<1>8. ASSUME NEW b \in Burns, fields[b] = 5, burnAt[b] = poll.h, ~ failed
      PROVE  Has(pendingBurns', <<b, burnAt[b]>>)
  <2> DEFINE e == BurnEvent(b)
  <2>1. e.id = <<b, burnAt[b]>>
    BY DEF BurnEvent
  <2>2. CASE Has(pendingBurns, e.id)
    BY <1>7, <2>1, <2>2
  <2>3. CASE ~ Has(pendingBurns, e.id)
    <3>1. e \in NewBurns(poll.h)
      BY <1>8, <2>3 DEF NewBurns
    <3>2. \E j \in DOMAIN pendingBurns' : pendingBurns'[j] = e
      BY <1>5, <1>6, <1>8, <3>1
    <3> QED BY <2>1, <3>2 DEF Has
  <2> QED BY <2>2, <2>3
<1>9. ASSUME NEW b \in Burns, Expected(b)'
      PROVE  BurnTracked(b)'
  <2>1. Expected(b) /\ BurnTracked(b)
    BY <1>2, <1>9 DEF Expected, BurnsTracked, BurnTracked, UnlockRound
  <2>2. CASE burnAt[b] = poll.h
    <3>1. ~ failed
      BY <1>2, <1>9, <2>2 DEF Expected
    <3>2. Has(pendingBurns', <<b, burnAt[b]>>)
      BY <1>8, <2>1, <2>2, <3>1 DEF Expected
    <3> QED BY <1>2, <3>2 DEF BurnTracked
  <2>3. CASE burnAt[b] # poll.h
    <3>1. burnAt[b] > Scanned => burnAt[b] > Scanned'
      BY <1>3, <1>4, <2>3
    <3> QED BY <1>2, <1>7, <2>1, <3>1 DEF BurnTracked, UnlockRound
  <2> QED BY <2>2, <2>3
<1> QED BY <1>9 DEF BurnsTracked, BurnTracked, Expected, UnlockRound

LEMMA BurnsLookedAt ==
  ASSUME TypeInv, BurnsTracked, DccWatcherStep
  PROVE  BurnsTracked'
<1>1. /\ phase = "up" /\ UNCHANGED phase /\ DccType /\ PollAhead /\ RoundsType
  BY DEF DccWatcherStep, TypeInv, NodeType, EngineType
<1>2. CASE StartPoll /\ UNCHANGED <<engine_vars, excused>>
  <2>1. Scanned' = Scanned /\ UNCHANGED <<burnAt, pendingBurns, unseen, rounds, excused>>
    <3>1. /\ poll.at = "sleep" /\ poll' = [at |-> "scan", h |-> lastProcessedHeight + 1, upto |-> height]
          /\ UNCHANGED <<burnAt, lastProcessedHeight, pendingBurns, unseen, rounds, excused>>
      BY <1>2 DEF StartPoll, dcc_chain_vars, engine_vars
    <3>2. lastProcessedHeight \in Nat
      BY <1>1 DEF DccType
    <3> QED BY <3>1, <3>2 DEF Scanned
  <2> QED BY <1>1, <2>1 DEF BurnsTracked, Has
<1>3. CASE ScanBlock(FALSE) /\ UNCHANGED <<engine_vars, excused>>
  <2>1. excused' = IF FALSE THEN excused \cup {b \in Burns : burnAt[b] = poll.h} ELSE excused
    BY <1>3
  <2> QED BY <1>1, <1>3, <2>1, BlockScanned DEF engine_vars
<1>4. CASE ScanBlock(TRUE) /\ UNCHANGED engine_vars
           /\ excused' = excused \cup {b \in Burns : burnAt[b] = poll.h}
  <2>1. excused' = IF TRUE THEN excused \cup {b \in Burns : burnAt[b] = poll.h} ELSE excused
    BY <1>4
  <2> QED BY <1>1, <1>4, <2>1, BlockScanned DEF engine_vars
<1>5. CASE StartBurnSweep /\ UNCHANGED <<engine_vars, excused>>
  BY <1>1, <1>5, BurnsLeftAlone
  DEF StartBurnSweep, dcc_chain_vars, engine_vars, RoundsStay, UnlockRound
<1>6. ASSUME NEW e, AtVerifyBurn(e), DropBurn, UNCHANGED <<burnAt, poll_vars, unseen>>,
             excused \subseteq excused', RoundsStay,
             \/ e.id \in DOMAIN rounds' /\ rounds'[e.id].type = "unlock"
             \/ e.burn \in excused'
             \/ ~ BurnOnChain(e)
      PROVE  BurnsTracked'
  <2>1. /\ e \in BurnEventType
        /\ \A id : Has(pendingBurns, id) => id = e.id \/ Has(pendingBurns', id)
    BY <1>6, BurnSettled
  <2>2. Scanned' = Scanned
    BY <1>6 DEF Scanned, poll_vars
  <2>3. e.id = <<e.burn, e.position>>
    BY <2>1 DEF BurnEventType
  <2>4. ASSUME NEW b \in Burns, burnAt[b] # 0, b \notin excused', <<b, burnAt[b]>> = e.id
        PROVE  e.id \in DOMAIN rounds' /\ rounds'[e.id].type = "unlock"
    <3>1. b = e.burn /\ burnAt[b] = e.position
      BY <2>3, <2>4
    <3>2. BurnOnChain(e)
      BY <2>3, <2>4, <3>1 DEF BurnOnChain
    <3> QED BY <1>6, <2>4, <3>1, <3>2
  <2>5. ASSUME NEW b \in Burns, Expected(b)'
        PROVE  BurnTracked(b)'
    <3>1. burnAt[b] # 0 /\ b \notin excused' /\ BurnTracked(b)
      BY <1>1, <1>6, <2>5 DEF Expected, BurnsTracked, BurnTracked, UnlockRound
    <3>2. CASE <<b, burnAt[b]>> = e.id
      <4>1. e.id \in DOMAIN rounds' /\ rounds'[e.id].type = "unlock"
        BY <2>4, <3>1, <3>2
      <4> QED BY <1>6, <3>2, <4>1 DEF BurnTracked, UnlockRound
    <3>3. CASE <<b, burnAt[b]>> # e.id
      <4>1. Has(pendingBurns, <<b, burnAt[b]>>) => Has(pendingBurns', <<b, burnAt[b]>>)
        BY <2>1, <3>3
      <4> QED BY <1>6, <2>2, <3>1, <4>1 DEF BurnTracked, RoundsStay
    <3> QED BY <3>2, <3>3
  <2> QED BY <2>5 DEF BurnsTracked, BurnTracked, Expected, UnlockRound
<1>7. ASSUME NEW i \in DOMAIN pendingBurns, BurnFinalized(pendingBurns[i]),
             Propose("unlock", pendingBurns[i]),
             excused' = IF OtherRound("unlock", pendingBurns[i])
                        THEN excused \cup {pendingBurns[i].burn} ELSE excused
      PROVE  BurnsTracked'
  <2> DEFINE e == pendingBurns[i]
  <2>1. e \in BurnEventType
    BY <1>1 DEF DccType
  <2>2. AtVerifyBurn(e) /\ DropBurn /\ UNCHANGED <<burnAt, poll_vars, unseen>>
    BY <1>7 DEF BurnFinalized, dcc_chain_vars
  <2>3. /\ Propose("unlock", e)
        /\ excused' = IF OtherRound("unlock", e) THEN excused \cup {e.burn} ELSE excused
    BY <1>7
  <2> HIDE DEF e
  <2>4. /\ \A j \in DOMAIN rounds : j \in DOMAIN rounds' /\ rounds'[j] = rounds[j]
        /\ e.id \in DOMAIN rounds'
        /\ e.id \notin DOMAIN rounds => rounds'[e.id].type = "unlock"
    BY <1>1, <2>1, <2>3, Proposed
  <2>5. RoundsStay
    BY <2>4 DEF RoundsStay, UnlockRound
  <2>6. \/ e.id \in DOMAIN rounds' /\ rounds'[e.id].type = "unlock"
        \/ e.burn \in excused'
    <3>1. CASE OtherRound("unlock", e)
      BY <2>3, <3>1
    <3>2. CASE ~ OtherRound("unlock", e)
      BY <2>4, <3>2 DEF OtherRound
    <3> QED BY <3>1, <3>2
  <2>7. excused \subseteq excused'
    BY <2>3
  <2> QED BY <1>6, <2>2, <2>5, <2>6, <2>7
<1>8. ASSUME NEW e, BurnInvalidated(e, FALSE), UNCHANGED <<engine_vars, excused>>
      PROVE  BurnsTracked'
  BY <1>6, <1>8 DEF BurnInvalidated, dcc_chain_vars, engine_vars, RoundsStay, UnlockRound
<1>9. ASSUME NEW e, BurnInvalidated(e, TRUE), excused' = excused \cup {e.burn}, UNCHANGED engine_vars
      PROVE  BurnsTracked'
  BY <1>6, <1>9 DEF BurnInvalidated, dcc_chain_vars, engine_vars, RoundsStay, UnlockRound
<1> QED BY <1>2, <1>3, <1>4, <1>5, <1>7, <1>8, <1>9 DEF DccWatcherStep, Range

LEMMA DccGoesOn ==
  ASSUME TypeInv, BurnsTracked, DccStep
  PROVE  BurnsTracked'
<1>1. UNCHANGED <<phase, rounds, excused>> /\ DccType
  BY DEF DccStep, main_vars, engine_vars, TypeInv, NodeType
<1>2. height \in Nat /\ burnAt \in [Burns -> Nat]
  BY <1>1 DEF DccType
<1>3. UNCHANGED <<poll_vars, pendingBurns>> /\ Scanned' = Scanned
  BY DEF DccStep, DccBlock, IncludeBurn, DccReorg, Scanned, poll_vars
<1>4. CASE DccBlock
  BY <1>1, <1>3, <1>4, BurnsLeftAlone DEF DccBlock, RoundsStay, UnlockRound
<1>5. ASSUME NEW b \in Burns, IncludeBurn(b)
      PROVE  BurnsTracked'
  <2>1. /\ burnAt'[b] = height /\ \A c \in Burns : c # b => burnAt'[c] = burnAt[c]
        /\ unseen' = IF height <= Scanned THEN unseen \cup {b} ELSE unseen
    BY <1>2, <1>5 DEF IncludeBurn
  <2>2. Scanned \in Int
    BY <1>1 DEF Scanned, DccType
  <2>3. height <= Scanned \/ height > Scanned
    BY <1>2, <2>2
  <2>4. BurnTracked(b)' \/ b \in unseen'
    BY <1>3, <2>1, <2>3 DEF BurnTracked
  <2>5. ASSUME NEW c \in Burns, c # b, phase = "up", Expected(c)'
        PROVE  BurnTracked(c)'
    BY <1>1, <1>3, <2>1, <2>5 DEF BurnsTracked, BurnTracked, Expected, Has, UnlockRound
  <2> QED BY <1>1, <2>4, <2>5 DEF BurnsTracked, BurnTracked, Expected, UnlockRound
<1>6. ASSUME NEW b \in Burns, DccReorg(b)
      PROVE  BurnsTracked'
  <2>1. /\ burnAt'[b] = 0 /\ \A c \in Burns : c # b => burnAt'[c] = burnAt[c]
        /\ unseen' = unseen \ {b}
    BY <1>2, <1>6 DEF DccReorg
  <2> QED BY <1>1, <1>3, <2>1 DEF BurnsTracked, Has
<1> QED BY <1>4, <1>5, <1>6 DEF DccStep

LEMMA BurnsKept == TypeInv /\ BurnsTracked /\ [NodeNext]_node_vars => BurnsTracked'
<1> SUFFICES ASSUME TypeInv, BurnsTracked, [NodeNext]_node_vars
             PROVE  BurnsTracked'
  OBVIOUS
<1>1. RoundsType /\ EngineType
  BY DEF TypeInv, NodeType, EngineType
<1>2. CASE SolanaStep \/ UNCHANGED node_vars
  <2>1. UNCHANGED <<phase, burnAt, poll_vars, pendingBurns, unseen, rounds>>
    BY <1>2 DEF SolanaStep, node_vars, main_vars, engine_vars, dcc_vars, dcc_chain_vars
  <2>2. UNCHANGED excused \/ \E t \in Transactions : excused \ {t} \subseteq excused'
    BY <1>2 DEF SolanaStep, node_vars, main_vars
  <2>3. excused \cap Burns \subseteq excused'
    BY <2>2, NodeAssumption DEF NodeAssumption
  <2> QED BY <2>1, <2>3, BurnsLeftAlone DEF RoundsStay, UnlockRound
<1>3. CASE SolanaWatcherStep
  <2>1. UNCHANGED <<phase, burnAt, poll_vars, pendingBurns, unseen>> /\ excused \subseteq excused'
    BY <1>3 DEF SolanaWatcherStep, dcc_vars, dcc_chain_vars, Lost
  <2>2. UNCHANGED rounds \/ \E e : Propose("mint", e)
    BY <1>3 DEF SolanaWatcherStep, engine_vars
  <2>3. \A i \in DOMAIN rounds : i \in DOMAIN rounds' /\ rounds'[i] = rounds[i]
    BY <2>2 DEF Propose
  <2> QED BY <2>1, <2>3, BurnsLeftAlone DEF RoundsStay, UnlockRound
<1>4. CASE MainStep
  <2>1. UNCHANGED <<phase, burnAt, poll_vars, pendingBurns, unseen>>
    BY <1>4 DEF MainStep, dcc_vars, dcc_chain_vars
  <2>2. RoundsStay /\ excused \subseteq excused'
    <3>1. ASSUME NEW i, ConsensusReached(i)
          PROVE  RoundsStay /\ excused \subseteq excused'
      <4>1. /\ i \in DOMAIN rounds /\ rounds' = [rounds EXCEPT ![i].status = "reached"]
            /\ excused \subseteq excused'
        BY <1>1, <3>1, ReachedStep
      <4>2. /\ DOMAIN rounds' = DOMAIN rounds
            /\ \A j \in DOMAIN rounds : rounds'[j].type = rounds[j].type
        BY <1>1, <4>1, RoundOver
      <4> QED BY <4>1, <4>2 DEF RoundsStay, UnlockRound
    <3>2. ASSUME NEW i, ConsensusFailed(i)
          PROVE  RoundsStay /\ excused \subseteq excused'
      <4>1. /\ i \in DOMAIN rounds /\ rounds' = [rounds EXCEPT ![i].status = "failed"]
            /\ UNCHANGED excused
        BY <3>2 DEF ConsensusFailed
      <4>2. /\ DOMAIN rounds' = DOMAIN rounds
            /\ \A j \in DOMAIN rounds : rounds'[j].type = rounds[j].type
        BY <1>1, <4>1, RoundOver
      <4> QED BY <4>1, <4>2 DEF RoundsStay, UnlockRound
    <3>3. ASSUME NEW s \in submitting, SubmissionReturns(s)
          PROVE  RoundsStay /\ excused \subseteq excused'
      BY <3>3 DEF SubmissionReturns, signAndBroadcastMint, Lost, RoundsStay, UnlockRound
    <3> QED BY <1>4, <3>1, <3>2, <3>3 DEF MainStep
  <2> QED BY <2>1, <2>2, BurnsLeftAlone
<1>5. CASE StartNext \/ Crash
  <2>1. CASE GenerateKey \/ SaveEncryptionKey \/ LoadKey \/ StartSolanaWatcher \/ Crash
    <3>1. phase' # "up"
      BY <2>1 DEF GenerateKey, SaveEncryptionKey, LoadKey, StartSolanaWatcher, Crash
    <3> QED BY <3>1 DEF BurnsTracked
  <2>2. CASE StartRest
    <3>1. unseen' = {b \in Burns : burnAt[b] # 0} /\ UNCHANGED burnAt
      BY <2>2 DEF StartRest, StartDccWatcher, dcc_chain_vars
    <3> QED BY <3>1 DEF BurnsTracked
  <2> QED BY <1>5, <2>1, <2>2 DEF StartNext
<1> QED BY <1>2, <1>3, <1>4, <1>5, BurnsLookedAt, DccGoesOn DEF NodeNext

-----------------------------------------------------------------------------
(* What is attested of burns.                                              *)

\* A burn in the engine is in the block it was in, too deep to be replaced.
UnlocksDeep ==
  \A i \in DOMAIN rounds : rounds[i].type = "unlock" =>
    LET e == rounds[i].event IN
    /\ e.position # 0 /\ burnAt[e.burn] = e.position
    /\ e.position <= height - ReorgDepth

LEMMA DeepKept ==
  ASSUME requiredBlocks >= ReorgDepth
  PROVE  TypeInv /\ UnlocksDeep /\ [NodeNext]_node_vars => UnlocksDeep'
<1> SUFFICES ASSUME TypeInv, UnlocksDeep, [NodeNext]_node_vars
             PROVE  UnlocksDeep'
  OBVIOUS
<1>1. /\ RoundsType /\ EngineType /\ DccType
      /\ height \in Nat /\ burnAt \in [Burns -> Nat] /\ pendingBurns \in Seq(BurnEventType)
      /\ ReorgDepth \in Nat /\ requiredBlocks \in Nat
  BY DccAssumption DEF DccAssumption, TypeInv, NodeType, EngineType, DccType
<1>2. \A i \in DOMAIN rounds : rounds[i].type = "unlock" =>
        /\ rounds[i].event.burn \in Burns /\ rounds[i].event.position \in Nat
  BY <1>1 DEF RoundsType, Round, BurnEventType
\* The rounds are those of before, as far as burns go.
<1>3. ASSUME UNCHANGED <<height, burnAt>>, DOMAIN rounds' \subseteq DOMAIN rounds,
             \A i \in DOMAIN rounds' :
               rounds'[i].type = rounds[i].type /\ rounds'[i].event = rounds[i].event
      PROVE  UnlocksDeep'
  BY <1>3 DEF UnlocksDeep
<1>4. CASE UNCHANGED node_vars \/ SolanaStep \/ StartNext
  <2>1. UNCHANGED <<height, burnAt, rounds>>
    BY <1>4 DEF node_vars, main_vars, engine_vars, dcc_vars, dcc_chain_vars, SolanaStep, StartNext,
                GenerateKey, SaveEncryptionKey, LoadKey, StartSolanaWatcher, StartRest, StartDccWatcher
  <2> QED BY <1>3, <2>1
<1>5. CASE Crash
  BY <1>5 DEF Crash, UnlocksDeep
<1>6. CASE SolanaWatcherStep
  <2>1. UNCHANGED <<height, burnAt>>
    BY <1>6 DEF SolanaWatcherStep, dcc_vars, dcc_chain_vars
  <2>2. CASE UNCHANGED rounds
    BY <1>3, <2>1, <2>2
  <2>3. ASSUME NEW i \in DOMAIN pendingEvents, Propose("mint", pendingEvents[i])
        PROVE  UnlocksDeep'
    <3> DEFINE e == pendingEvents[i]
    <3>1. e \in DepositEvent
      BY DEF TypeInv, NodeType, SolanaType
    <3>2. Propose("mint", e)
      BY <2>3
    <3> HIDE DEF e
    <3>3. /\ \A j \in DOMAIN rounds : j \in DOMAIN rounds' /\ rounds'[j] = rounds[j]
          /\ \A j \in DOMAIN rounds' : j \notin DOMAIN rounds =>
                j = e.id /\ rounds'[j] = [type |-> "mint", event |-> e, status |-> "open"]
      BY <1>1, <3>1, <3>2, Proposed
    <3> QED BY <2>1, <3>3 DEF UnlocksDeep
  <2> QED BY <1>6, <2>2, <2>3 DEF SolanaWatcherStep, Range, engine_vars
<1>7. CASE DccWatcherStep
  <2>1. UNCHANGED <<height, burnAt>>
    BY <1>7 DEF DccWatcherStep, StartPoll, ScanBlock, StartBurnSweep, BurnFinalized, BurnInvalidated,
                dcc_chain_vars
  <2>2. CASE UNCHANGED rounds
    BY <1>3, <2>1, <2>2
  <2>3. ASSUME NEW i \in DOMAIN pendingBurns, BurnFinalized(pendingBurns[i]),
               Propose("unlock", pendingBurns[i])
        PROVE  UnlocksDeep'
    <3> DEFINE e == pendingBurns[i]
    <3>1. e \in BurnEventType
      BY <1>1
    <3>2. Propose("unlock", e) /\ AtVerifyBurn(e) /\ BurnOnChain(e) /\ DropBurn
      BY <2>3 DEF BurnFinalized
    <3> HIDE DEF e
    <3>3. /\ \A j \in DOMAIN rounds : j \in DOMAIN rounds' /\ rounds'[j] = rounds[j]
          /\ \A j \in DOMAIN rounds' : j \notin DOMAIN rounds =>
                j = e.id /\ rounds'[j] = [type |-> "unlock", event |-> e, status |-> "open"]
      BY <1>1, <3>1, <3>2, Proposed
    <3>4. e.position <= height - requiredBlocks
      BY <3>2, BurnSettled
    <3>5. e.burn \in Burns /\ e.position \in Nat /\ e.id = <<e.burn, e.position>>
      BY <3>1 DEF BurnEventType
    <3>6. e.position # 0 /\ burnAt[e.burn] = e.position
      BY <3>2, <3>5 DEF BurnOnChain
    <3>7. e.position <= height - ReorgDepth
      BY <1>1, <3>4, <3>5
    <3> QED BY <2>1, <3>3, <3>6, <3>7 DEF UnlocksDeep
  <2> QED BY <1>7, <2>2, <2>3 DEF DccWatcherStep, Range, engine_vars
<1>8. CASE MainStep
  <2>1. UNCHANGED <<height, burnAt>>
    BY <1>8 DEF MainStep, dcc_vars, dcc_chain_vars
  <2>2. \/ UNCHANGED rounds
        \/ \E i \in DOMAIN rounds, status \in {"reached", "failed"} :
             rounds' = [rounds EXCEPT ![i].status = status]
    BY <1>8 DEF MainStep, ConsensusReached, ConsensusFailed, SubmissionReturns
  <2>3. ASSUME NEW i \in DOMAIN rounds, NEW status \in {"reached", "failed"},
               rounds' = [rounds EXCEPT ![i].status = status]
        PROVE  UnlocksDeep'
    <3>1. /\ DOMAIN rounds' = DOMAIN rounds
          /\ \A j \in DOMAIN rounds : j # i => rounds'[j] = rounds[j]
          /\ rounds'[i].type = rounds[i].type /\ rounds'[i].event = rounds[i].event
      BY <1>1, <2>3, RoundOver
    <3> QED BY <1>3, <2>1, <3>1
  <2> QED BY <1>3, <2>1, <2>2, <2>3
<1>9. CASE DccStep
  <2>1. UNCHANGED rounds
    BY <1>9 DEF DccStep, main_vars, engine_vars
  <2> SUFFICES ASSUME NEW i \in DOMAIN rounds, rounds[i].type = "unlock"
               PROVE  /\ burnAt'[rounds[i].event.burn] = rounds[i].event.position
                      /\ rounds[i].event.position <= height' - ReorgDepth
    BY <2>1 DEF UnlocksDeep
  <2> DEFINE c == rounds[i].event.burn
             p == rounds[i].event.position
  <2>2. /\ c \in Burns /\ p \in Nat /\ p # 0 /\ burnAt[c] = p /\ p <= height - ReorgDepth
    BY <1>2 DEF UnlocksDeep
  <2> HIDE DEF c, p
  <2>3. CASE DccBlock
    BY <1>1, <2>2, <2>3 DEF DccBlock, c, p
  <2>4. ASSUME NEW b \in Burns, IncludeBurn(b)
        PROVE  burnAt'[c] = p /\ p <= height' - ReorgDepth
    <3>1. b # c
      BY <2>2, <2>4 DEF IncludeBurn
    <3> QED BY <1>1, <2>2, <2>4, <3>1 DEF IncludeBurn
  <2>5. ASSUME NEW b \in Burns, DccReorg(b)
        PROVE  burnAt'[c] = p /\ p <= height' - ReorgDepth
    <3>1. b # c
      BY <1>1, <2>2, <2>5 DEF DccReorg
    <3> QED BY <1>1, <2>2, <2>5, <3>1 DEF DccReorg
  <2> QED BY <1>9, <2>3, <2>4, <2>5 DEF DccStep, c, p
<1> QED BY <1>4, <1>5, <1>6, <1>7, <1>8, <1>9 DEF NodeNext

LEMMA StaysOnChain == TypeInv /\ MintsFinal /\ UnlocksDeep => AttestsWhatStays
<1> SUFFICES ASSUME TypeInv, MintsFinal, UnlocksDeep
             PROVE  AttestsWhatStays
  OBVIOUS
<1>1. \A i \in DOMAIN rounds : rounds[i].type \in {"mint", "unlock"}
  BY DEF TypeInv, NodeType, EngineType, RoundsType, Round
<1>2. \A i \in DOMAIN rounds : OnChain(rounds[i])
  BY <1>1 DEF MintsFinal, UnlocksDeep, OnChain, Final
<1>3. \A s \in submitting \cup landed : s.type = "mint"
  BY DEF TypeInv, NodeType, EngineType, Submission
<1>4. \A s \in submitting \cup landed : OnChain(s)
  BY <1>3 DEF MintsFinal, OnChain, Final
<1> QED BY <1>2, <1>4 DEF AttestsWhatStays

-----------------------------------------------------------------------------
(* The key.                                                                *)

\* The node runs with the key of its key file, whatever it has in memory.
KeyInv ==
  /\ identities \subseteq {keyFile}
  /\ keyFile = 0 => identities = {}
  /\ phase = "saving" => keyPair = keyFile /\ keyFile # 0

LEMMA KeyKept == KeyInv /\ [NodeNext]_node_vars => KeyInv'
<1> SUFFICES ASSUME KeyInv, [NodeNext]_node_vars
             PROVE  KeyInv'
  OBVIOUS
<1> USE DEF KeyInv
<1>1. CASE GenerateKey
  <2>1. keyFile = 0 /\ identities = {}
    BY <1>1 DEF GenerateKey, NoKeyYet
  <2>2. keyPair' = 1
    BY <1>1, <2>1, FS_EmptySet DEF GenerateKey
  <2>3. keyFile' = 1 /\ identities' \subseteq {1}
    BY <1>1, <2>1, <2>2 DEF GenerateKey
  <2> QED BY <2>2, <2>3
<1>2. CASE SaveEncryptionKey
  BY <1>2 DEF SaveEncryptionKey
<1>3. CASE LoadKey
  BY <1>3 DEF LoadKey, Decryptable
<1>4. CASE Crash
  BY <1>4 DEF Crash
<1>5. CASE StartSolanaWatcher \/ StartRest
  BY <1>5 DEF StartSolanaWatcher, StartRest, key_vars
<1>6. CASE SolanaStep \/ DccStep \/ SolanaWatcherStep \/ DccWatcherStep \/ MainStep
           \/ UNCHANGED node_vars
  <2>1. UNCHANGED <<key_vars, phase>>
    BY <1>6 DEF SolanaStep, DccStep, SolanaWatcherStep, DccWatcherStep, MainStep, node_vars, main_vars
  <2> QED BY <2>1 DEF key_vars
<1> QED BY <1>1, <1>2, <1>3, <1>4, <1>5, <1>6 DEF NodeNext, StartNext

-----------------------------------------------------------------------------

\* The node's state has its types: every event, round and submission is one the
\* watchers make, a sweep waits at an entry that is deep enough, and a scan stays
\* between the last height that was processed and the chain's.
THEOREM NodeTypeCorrect == NodeSpec => []TypeInv
<1>1. NodeInit => TypeInv
  BY NodeStarts
<1>2. TypeInv /\ [NodeNext]_node_vars => TypeInv'
  BY TypeKept
<1> QED BY <1>1, <1>2, PTL DEF NodeSpec

LEMMA DepositsInvariant == NodeSpec => []DepositInv
<1>1. NodeInit => DepositInv
  BY DepositsStart
<1>2. DepositInv /\ [NodeNext]_node_vars => DepositInv'
  BY DepositsKept
<1> QED BY <1>1, <1>2, PTL DEF NodeSpec

\* A deposit that is in a block is on its way through this node, whatever the order
\* of blocks, forks, notifications, requests and rounds, unless there is a cause.
THEOREM DepositsStayTracked == NodeSpec => []DepositsTracked
<1>1. DepositInv => DepositsTracked
  BY DEF DepositInv, AllTracked, Tracked, Announced, Pending, Tells, DepositsTracked, Range
<1> QED BY <1>1, DepositsInvariant, PTL

\* A burn whose record is read is to be scanned, pending or before the engine,
\* however the poll loop and the finality loop interleave, unless there is a cause.
THEOREM BurnsStayTracked == NodeSpec => []BurnsTracked
<1>1. NodeInit => BurnsTracked
  BY DEF NodeInit, BurnsTracked
<1>2. TypeInv /\ BurnsTracked /\ [NodeNext]_node_vars => BurnsTracked'
  BY BurnsKept
<1> QED BY <1>1, <1>2, NodeTypeCorrect, PTL DEF NodeSpec

\* What is attested, submitted and landed is on its chain and stays there, where the
\* watcher waits for as many blocks as may be replaced.
THEOREM OnlyWhatStaysIsAttested ==
  ASSUME requiredBlocks >= ReorgDepth
  PROVE  NodeSpec => []AttestsWhatStays
<1>1. NodeInit => UnlocksDeep
  BY DEF NodeInit, UnlocksDeep
<1>2. TypeInv /\ UnlocksDeep /\ [NodeNext]_node_vars => UnlocksDeep'
  BY DeepKept
<1>3. DepositInv /\ UnlocksDeep => AttestsWhatStays
  BY StaysOnChain DEF DepositInv
<1> QED BY <1>1, <1>2, <1>3, NodeTypeCorrect, DepositsInvariant, PTL DEF NodeSpec

\* The node runs with one key for good, wherever a crash interrupts its start.
THEOREM OneIdentity == NodeSpec => []IdentityKept
<1>1. NodeInit => KeyInv
  BY DEF NodeInit, KeyInv
<1>2. KeyInv /\ [NodeNext]_node_vars => KeyInv'
  BY KeyKept
<1>3. KeyInv => IdentityKept
  <2> SUFFICES ASSUME KeyInv
               PROVE  Cardinality(identities) <= 1
    BY DEF IdentityKept
  <2>1. identities = {} \/ identities = {keyFile}
    BY DEF KeyInv
  <2>2. Cardinality({}) = 0 /\ Cardinality({keyFile}) = 1
    BY FS_EmptySet, FS_Singleton
  <2>3. Cardinality(identities) = 0 \/ Cardinality(identities) = 1
    <3>1. CASE identities = {}
      BY <2>2, <3>1, Zenon
    <3>2. CASE identities = {keyFile}
      BY <2>2, <3>2, Zenon
    <3> QED BY <2>1, <3>1, <3>2
  <2> QED BY <2>3
<1> QED BY <1>1, <1>2, <1>3, PTL DEF NodeSpec

-----------------------------------------------------------------------------
(* Transport.                                                              *)

AliveHasEnds == \A s \in Slots : InUse(s) /\ connection[s].alive => connection[s].open = Sides

Inductive == TypeOK /\ AliveHasEnds /\ NoGhosts

\* An entry of n's Map under k.
Held(n, k, e) ==
  /\ connection[e[1]] # None /\ e[2] \in connection[e[1]].open
  /\ n = NodeAt(connection[e[1]], e[2]) /\ k = Name(e[1], connection[e[1]], e[2])

\* Set changes one entry of a Map, Delete removes one.
LEMMA MapOps ==
  ASSUME NEW map, NEW name, NEW end
  PROVE  /\ \A k \in DOMAIN Set(map, name, end) :
              \/ k = name /\ Set(map, name, end)[k] = end
              \/ k \in DOMAIN map /\ Set(map, name, end)[k] = map[k]
         /\ \A k \in DOMAIN Delete(map, name) :
              k # name /\ k \in DOMAIN map /\ Delete(map, name)[k] = map[k]
BY DEF Set, Delete, Restrict

\* A connection in use is a Connection.
LEMMA InUseTyped ==
  ASSUME TypeOK, NEW s \in Slots, InUse(s)
  PROVE  connection[s] \in Connection
BY DEF TypeOK, InUse

\* An end that was held is held if its connection keeps it and its names.
LEMMA HeldKept ==
  ASSUME NEW n, NEW k, NEW s, NEW side, Held(n, k, <<s, side>>),
         connection'[s] # None, side \in connection'[s].open,
         connection'[s].from = connection[s].from, connection'[s].to = connection[s].to,
         side \in connection'[s].known <=> side \in connection[s].known
  PROVE  Held(n, k, <<s, side>>)'
<1>1. NodeAt(connection'[s], side) = NodeAt(connection[s], side)
  BY DEF NodeAt
<1>2. Name(s, connection'[s], side) = Name(s, connection[s], side)
  <2>1. NodeAt(connection'[s], Other(side)) = NodeAt(connection[s], Other(side))
    BY DEF NodeAt
  <2> QED BY <2>1 DEF Name
<1> QED BY <1>1, <1>2 DEF Held

\* An entry is an end of a typed connection, held by one node under one name.
LEMMA EntryIs ==
  ASSUME TypeOK, NoGhosts, NEW n \in Nodes, NEW k \in DOMAIN peers[n]
  PROVE  \E s \in Slots, side \in Sides :
           /\ peers[n][k] = <<s, side>> /\ Held(n, k, <<s, side>>)
           /\ InUse(s) /\ connection[s] \in Connection /\ side \in connection[s].open
           /\ n = NodeAt(connection[s], side) /\ k = Name(s, connection[s], side)
<1>1. PICK s \in Slots, side \in Sides : peers[n][k] = <<s, side>>
  BY DEF TypeOK
<1>2. /\ InUse(s) /\ side \in connection[s].open
      /\ n = NodeAt(connection[s], side) /\ k = Name(s, connection[s], side)
  BY <1>1 DEF NoGhosts
<1> QED BY <1>1, <1>2, InUseTyped DEF Held, InUse

\* Whoever keeps what it held, and adds what it holds, has no ghosts.
LEMMA HeldThenNoGhosts ==
  ASSUME \A n \in Nodes : \A k \in DOMAIN peers'[n] :
           \E s \in Slots, side \in Sides :
             peers'[n][k] = <<s, side>> /\ Held(n, k, <<s, side>>)'
  PROVE  NoGhosts'
BY DEF NoGhosts, Held, InUse

\* A connection changes and keeps what an end's Map says about it.
LEMMA OneConnection ==
  ASSUME Inductive, NEW s \in Slots, NEW new \in Connection \cup {None},
         connection' = [connection EXCEPT ![s] = new],
         UNCHANGED isRunning, dials' \in [Nodes \X Nodes -> Nat], incidents' \in Nat,
         new # None => (new.alive => new.open = Sides)
  PROVE  /\ isRunning' \in [Nodes -> BOOLEAN]
         /\ connection' \in [Slots -> Connection \cup {None}]
         /\ connection'[s] = new
         /\ \A r \in Slots : r # s => connection'[r] = connection[r]
         /\ AliveHasEnds'
<1>1. TypeOK /\ AliveHasEnds
  BY DEF Inductive
<1>2. /\ connection' \in [Slots -> Connection \cup {None}] /\ connection'[s] = new
      /\ \A r \in Slots : r # s => connection'[r] = connection[r]
  BY <1>1 DEF TypeOK
<1>3. AliveHasEnds'
  BY <1>1, <1>2 DEF AliveHasEnds, InUse
<1> QED BY <1>1, <1>2, <1>3 DEF TypeOK

\* Inductive holds in the initial states.
LEMMA InitInductive == Init => Inductive
<1> SUFFICES ASSUME Init PROVE Inductive
  OBVIOUS
<1>1. TypeOK
  BY DEF Init, TypeOK
<1>2. AliveHasEnds
  BY DEF Init, AliveHasEnds, InUse
<1>3. NoGhosts
  BY DEF Init, NoGhosts
<1> QED BY <1>1, <1>2, <1>3 DEF Inductive

\* A node stops: what the others hold stays theirs.
LEMMA StopStep ==
  ASSUME Inductive, NEW n \in Nodes, stop(n)
  PROVE  Inductive'
<1>ty. TypeOK /\ AliveHasEnds /\ NoGhosts
  BY DEF Inductive
<1>1. \A s \in Slots :
        connection'[s] = IF InUse(s) /\ n \in {connection[s].from, connection[s].to}
                         THEN Left(connection[s], n) ELSE connection[s]
  BY DEF stop
<1>2. \A s \in Slots : InUse(s) =>
        LET c == connection[s]  ends == {x \in c.open : NodeAt(c, x) # n} IN
        \/ connection'[s] = connection[s]
        \/ ends = {} /\ connection'[s] = None
        \/ ends # {} /\ connection'[s] = [c EXCEPT !.alive = FALSE, !.open = ends]
  BY <1>1 DEF Left
<1>3. \A s \in Slots : connection'[s] \in Connection \cup {None}
  <2> SUFFICES ASSUME NEW s \in Slots, InUse(s)
               PROVE  connection'[s] \in Connection \cup {None}
    BY <1>ty, <1>1 DEF TypeOK, InUse
  <2>1. connection[s] \in Connection
    BY <1>ty, InUseTyped
  <2> DEFINE ends == {x \in connection[s].open : NodeAt(connection[s], x) # n}
  <2>2. ends \in SUBSET Sides
    BY <2>1 DEF Connection
  <2>3. \/ connection'[s] = connection[s] \/ connection'[s] = None
        \/ connection'[s] = [connection[s] EXCEPT !.alive = FALSE, !.open = ends]
    BY <1>2
  <2> HIDE DEF ends
  <2> QED BY <2>1, <2>2, <2>3 DEF Connection
<1>4. TypeOK'
  <2>1. connection' \in [Slots -> Connection \cup {None}]
    BY <1>3 DEF stop
  <2>2. dials' \in [Nodes \X Nodes -> Nat] /\ isRunning' \in [Nodes -> BOOLEAN]
        /\ incidents' \in Nat
    BY <1>ty DEF stop, TypeOK, Incident
  <2>3. DOMAIN peers' = Nodes
        /\ \A m \in Nodes : \A k \in DOMAIN peers'[m] : peers'[m][k] \in Slots \X Sides
    BY <1>ty DEF stop, TypeOK
  <2> QED BY <2>1, <2>2, <2>3 DEF TypeOK
<1>5. AliveHasEnds'
  <2> SUFFICES ASSUME NEW s \in Slots, InUse(s)', connection'[s].alive
               PROVE  connection'[s].open = Sides
    BY DEF AliveHasEnds
  <2>1. InUse(s)
    BY <1>1 DEF InUse
  <2>2. connection[s] \in Connection
    BY <1>ty, <2>1, InUseTyped
  <2>3. connection'[s] = connection[s]
    BY <1>2, <2>1, <2>2 DEF Connection, InUse
  <2> QED BY <1>ty, <2>1, <2>3 DEF AliveHasEnds
<1>6. NoGhosts'
  <2> SUFFICES ASSUME NEW m \in Nodes, NEW k \in DOMAIN peers'[m]
               PROVE  \E s \in Slots, side \in Sides :
                        peers'[m][k] = <<s, side>> /\ Held(m, k, <<s, side>>)'
    BY HeldThenNoGhosts
  <2>1. m # n /\ k \in DOMAIN peers[m] /\ peers'[m][k] = peers[m][k]
    BY <1>ty DEF stop, TypeOK
  <2>2. PICK s \in Slots, side \in Sides :
          /\ peers[m][k] = <<s, side>> /\ Held(m, k, <<s, side>>)
          /\ InUse(s) /\ connection[s] \in Connection /\ side \in connection[s].open
          /\ m = NodeAt(connection[s], side)
    BY <1>ty, <2>1, EntryIs
  <2> DEFINE c == connection[s]
             ends == {x \in c.open : NodeAt(c, x) # n}
  <2>3. side \in ends
    BY <2>1, <2>2
  <2>4. \/ connection'[s] = c
        \/ connection'[s] = [c EXCEPT !.alive = FALSE, !.open = ends]
    BY <1>2, <2>2, <2>3
  <2> HIDE DEF ends
  <2>5. /\ side \in connection'[s].open /\ connection'[s].from = c.from
        /\ connection'[s].to = c.to /\ connection'[s].known = c.known
    BY <2>2, <2>3, <2>4 DEF Connection
  <2>6. connection'[s] # None
    <3>1. CASE connection'[s] = c
      BY <2>2, <3>1 DEF InUse
    <3>2. CASE connection'[s] = [c EXCEPT !.alive = FALSE, !.open = ends]
      <4>1. ends \in SUBSET Sides
        BY <2>2 DEF ends, Connection
      <4>2. connection'[s] \in Connection
        BY <2>2, <3>2, <4>1 DEF Connection
      <4> QED BY <4>2, NoneAssumption
    <3> QED BY <2>4, <3>1, <3>2
  <2>7. Held(m, k, <<s, side>>)'
    BY <2>2, <2>5, <2>6, HeldKept
  <2> QED BY <2>1, <2>2, <2>7
<1> QED BY <1>4, <1>5, <1>6 DEF Inductive

\* A connection breaks.
LEMMA BreakStep ==
  ASSUME Inductive, NEW s \in Slots, Break(s)
  PROVE  Inductive'
<1>ty. TypeOK /\ AliveHasEnds /\ NoGhosts
  BY DEF Inductive
<1> DEFINE c == connection[s]
           new == [c EXCEPT !.alive = FALSE]
<1>1. InUse(s) /\ c \in Connection
  BY <1>ty, InUseTyped DEF Break
<1>2. /\ new \in Connection /\ new # None /\ new.alive = FALSE /\ new.open = c.open
      /\ new.from = c.from /\ new.to = c.to /\ new.known = c.known
  BY <1>1, NoneAssumption DEF Connection
<1>3. connection' = [connection EXCEPT ![s] = new] /\ UNCHANGED <<isRunning, dials, peers>>
      /\ incidents' \in Nat
  BY <1>ty, <1>1 DEF Break, Incident, TypeOK
<1> HIDE DEF new
<1>4. dials' \in [Nodes \X Nodes -> Nat]
  BY <1>ty, <1>3 DEF TypeOK
<1>5. /\ isRunning' \in [Nodes -> BOOLEAN]
      /\ connection' \in [Slots -> Connection \cup {None}]
      /\ connection'[s] = new
      /\ \A r \in Slots : r # s => connection'[r] = connection[r]
      /\ AliveHasEnds'
  BY <1>1, <1>2, <1>3, <1>4, OneConnection
<1>6. TypeOK'
  BY <1>ty, <1>3, <1>4, <1>5 DEF TypeOK
<1>7. ASSUME NEW m \in Nodes, NEW k \in DOMAIN peers'[m]
      PROVE  \E r \in Slots, side \in Sides :
               peers'[m][k] = <<r, side>> /\ Held(m, k, <<r, side>>)'
  <2>1. PICK r \in Slots, side \in Sides :
          /\ peers[m][k] = <<r, side>> /\ Held(m, k, <<r, side>>)
          /\ InUse(r) /\ side \in connection[r].open
    BY <1>ty, <1>3, EntryIs
  <2>2. Held(m, k, <<r, side>>)'
    BY <1>2, <1>5, <2>1, HeldKept DEF InUse
  <2> QED BY <1>3, <2>1, <2>2
<1> QED BY <1>5, <1>6, <1>7, HeldThenNoGhosts DEF Inductive

\* An end sees the close of its connection and forgets its name.
LEMMA CloseStep ==
  ASSUME Inductive, NEW s \in Slots, NEW side \in Sides, NEW error \in BOOLEAN,
         Close(s, side, error)
  PROVE  Inductive'
<1>ty. TypeOK /\ AliveHasEnds /\ NoGhosts
  BY DEF Inductive
<1> DEFINE c == connection[s]
           n == NodeAt(c, side)
           open == c.open \ {side}
           new == IF open = {} THEN None ELSE [c EXCEPT !.open = open]
<1>1. InUse(s) /\ c \in Connection /\ c.alive = FALSE /\ side \in c.open
  BY <1>ty, InUseTyped DEF Close, Connection
<1>2. n \in Nodes /\ c.to \in Nodes /\ open \in SUBSET Sides
  BY <1>1 DEF NodeAt, Connection
<1>3. [c EXCEPT !.open = open].open = open /\ [c EXCEPT !.open = open] \in Connection
      /\ [c EXCEPT !.open = open].alive = FALSE
  BY <1>1, <1>2 DEF Connection
<1>4. connection' = [connection EXCEPT ![s] = new]
  BY <1>3 DEF Close, Put
<1>5. /\ peers' = [peers EXCEPT ![n] = Delete(@, Name(s, c, side))]
      /\ UNCHANGED isRunning
  BY DEF Close
<1>6. incidents' \in Nat
  BY <1>ty DEF Close, Incident, TypeOK
<1>7. dials' \in [Nodes \X Nodes -> Nat]
  <2>1. dials' = IF side = "out"
                 THEN [dials EXCEPT ![<<n, c.to>>] = @ + (IF error THEN 2 ELSE 1)] ELSE dials
    BY DEF Close, Redial
  <2> HIDE DEF n, c
  <2> QED BY <1>ty, <1>2, <2>1 DEF TypeOK
<1>8. new \in Connection \cup {None} /\ (new # None => new.alive = FALSE)
  BY <1>3
<1> HIDE DEF new
<1>9. /\ isRunning' \in [Nodes -> BOOLEAN]
      /\ connection' \in [Slots -> Connection \cup {None}]
      /\ connection'[s] = new
      /\ \A r \in Slots : r # s => connection'[r] = connection[r]
      /\ AliveHasEnds'
  BY <1>1, <1>4, <1>5, <1>6, <1>7, <1>8, OneConnection
<1>10. ASSUME NEW m \in Nodes, NEW k \in DOMAIN peers'[m]
       PROVE  /\ k \in DOMAIN peers[m] /\ peers'[m][k] = peers[m][k]
              /\ ~ (m = n /\ k = Name(s, c, side))
  <2>1. CASE m = n
    <3>1. peers'[m] = Delete(peers[m], Name(s, c, side))
      BY <1>ty, <1>5, <2>1 DEF TypeOK
    <3> QED BY <3>1, <2>1 DEF Delete, Restrict
  <2>2. CASE m # n
    BY <1>ty, <1>5, <2>2 DEF TypeOK
  <2> QED BY <2>1, <2>2
<1>11. TypeOK'
  <2>1. DOMAIN peers' = Nodes
    BY <1>ty, <1>5 DEF TypeOK
  <2> QED BY <1>ty, <1>6, <1>7, <1>9, <1>10, <2>1 DEF TypeOK
<1>12. ASSUME NEW m \in Nodes, NEW k \in DOMAIN peers'[m]
       PROVE  \E r \in Slots, x \in Sides :
                peers'[m][k] = <<r, x>> /\ Held(m, k, <<r, x>>)'
  <2>1. /\ k \in DOMAIN peers[m] /\ peers'[m][k] = peers[m][k]
        /\ ~ (m = n /\ k = Name(s, c, side))
    BY <1>10, <1>12
  <2>2. PICK r \in Slots, x \in Sides :
          /\ peers[m][k] = <<r, x>> /\ Held(m, k, <<r, x>>)
          /\ InUse(r) /\ x \in connection[r].open
          /\ m = NodeAt(connection[r], x) /\ k = Name(r, connection[r], x)
    BY <1>ty, <2>1, EntryIs
  <2>3. CASE r # s
    <3>1. Held(m, k, <<r, x>>)'
      BY <1>9, <2>2, <2>3, HeldKept DEF InUse
    <3> QED BY <2>1, <2>2, <3>1
  <2>4. CASE r = s
    <3>1. x \in open
      BY <2>1, <2>2, <2>4
    <3>2. /\ connection'[s] # None /\ connection'[s].open = open
          /\ connection'[s].from = c.from /\ connection'[s].to = c.to
          /\ connection'[s].known = c.known
      <4>1. connection'[s] = [c EXCEPT !.open = open]
        BY <1>9, <3>1 DEF new
      <4>2. connection'[s] \in Connection
        BY <1>3, <4>1
      <4> QED BY <1>1, <4>1, <4>2, NoneAssumption DEF Connection
    <3> HIDE DEF open
    <3>3. Held(m, k, <<s, x>>)'
      BY <2>2, <2>4, <3>1, <3>2, HeldKept
    <3> QED BY <2>1, <2>2, <2>4, <3>3
  <2> QED BY <2>3, <2>4
<1> QED BY <1>9, <1>11, <1>12, HeldThenNoGhosts DEF Inductive

\* A dial succeeds: each end is listed under a temporary name, and what these
\* replace is forgotten.
LEMMA ConnectStep ==
  ASSUME Inductive, NEW n \in Nodes, NEW a \in Nodes, Connect(n, a)
  PROVE  Inductive'
<1>ty. TypeOK /\ AliveHasEnds /\ NoGhosts
  BY DEF Inductive
<1> DEFINE new == [from |-> n, to |-> a, alive |-> TRUE, open |-> Sides, known |-> {}]
<1>1. PICK s \in Slots :
        /\ ~ InUse(s) /\ connection' = [connection EXCEPT ![s] = new]
        /\ peers' = [[peers EXCEPT ![n] = Set(@, <<"outbound", a>>, <<s, "out">>)]
                       EXCEPT ![a] = Set(@, <<"inbound", s>>, <<s, "in">>)]
  BY DEF Connect
<1>2. /\ new \in Connection /\ new # None /\ new.from = n /\ new.to = a
      /\ new.open = Sides /\ new.known = {}
  <2>1. new \in Connection
    BY DEF Connection
  <2>2. new # None
    BY <2>1, NoneAssumption
  <2> QED BY <2>1, <2>2
<1> HIDE DEF new
<1>3. dials' \in [Nodes \X Nodes -> Nat] /\ UNCHANGED <<isRunning, incidents>>
  <2>1. dials[<<n, a>>] \in Nat /\ dials[<<n, a>>] > 0
    BY <1>ty DEF Connect, TypeOK
  <2> QED BY <1>ty, <2>1 DEF Connect, TypeOK
<1>4. /\ isRunning' \in [Nodes -> BOOLEAN]
      /\ connection' \in [Slots -> Connection \cup {None}]
      /\ connection'[s] = new
      /\ \A r \in Slots : r # s => connection'[r] = connection[r]
      /\ AliveHasEnds'
  <2>1. incidents' \in Nat
    BY <1>ty, <1>3 DEF TypeOK
  <2> QED BY <1>1, <1>2, <1>3, <2>1, OneConnection
<1>5. ASSUME NEW m \in Nodes, NEW k \in DOMAIN peers'[m]
      PROVE  \/ k \in DOMAIN peers[m] /\ peers'[m][k] = peers[m][k]
             \/ m = n /\ k = <<"outbound", a>> /\ peers'[m][k] = <<s, "out">>
             \/ m = a /\ k = <<"inbound", s>> /\ peers'[m][k] = <<s, "in">>
  <2> DEFINE dialed == [peers EXCEPT ![n] = Set(@, <<"outbound", a>>, <<s, "out">>)]
  <2>1. /\ DOMAIN dialed = Nodes
        /\ dialed[m] = IF m = n THEN Set(peers[n], <<"outbound", a>>, <<s, "out">>)
                       ELSE peers[m]
    BY <1>ty DEF TypeOK
  <2>2. \A x \in DOMAIN dialed[m] :
          \/ x \in DOMAIN peers[m] /\ dialed[m][x] = peers[m][x]
          \/ m = n /\ x = <<"outbound", a>> /\ dialed[m][x] = <<s, "out">>
    BY <2>1, MapOps
  <2>3. peers'[m] = IF m = a THEN Set(dialed[m], <<"inbound", s>>, <<s, "in">>)
                    ELSE dialed[m]
    BY <1>1, <2>1
  <2> HIDE DEF dialed
  <2>4. \/ k \in DOMAIN dialed[m] /\ peers'[m][k] = dialed[m][k]
        \/ m = a /\ k = <<"inbound", s>> /\ peers'[m][k] = <<s, "in">>
    BY <1>5, <2>3, MapOps
  <2> QED BY <2>2, <2>4
<1>6. ASSUME NEW m \in Nodes, NEW k \in DOMAIN peers'[m]
      PROVE  \E r \in Slots, x \in Sides :
               peers'[m][k] = <<r, x>> /\ Held(m, k, <<r, x>>)'
  <2>1. CASE k \in DOMAIN peers[m] /\ peers'[m][k] = peers[m][k]
    <3>1. PICK r \in Slots, x \in Sides :
            /\ peers[m][k] = <<r, x>> /\ Held(m, k, <<r, x>>)
            /\ InUse(r) /\ x \in connection[r].open
      BY <1>ty, <2>1, EntryIs
    <3>2. r # s
      BY <1>1, <3>1
    <3>3. Held(m, k, <<r, x>>)'
      BY <1>4, <3>1, <3>2, HeldKept DEF InUse
    <3> QED BY <2>1, <3>1, <3>3
  <2>2. CASE m = n /\ k = <<"outbound", a>> /\ peers'[m][k] = <<s, "out">>
    <3>1. NodeAt(new, "out") = n /\ Name(s, new, "out") = <<"outbound", a>>
      BY <1>2 DEF NodeAt, Name
    <3>2. Held(m, k, <<s, "out">>)'
      BY <1>2, <1>4, <2>2, <3>1 DEF Held, Sides
    <3> QED BY <2>2, <3>2 DEF Sides
  <2>3. CASE m = a /\ k = <<"inbound", s>> /\ peers'[m][k] = <<s, "in">>
    <3>1. NodeAt(new, "in") = a /\ Name(s, new, "in") = <<"inbound", s>>
      BY <1>2 DEF NodeAt, Name
    <3>2. Held(m, k, <<s, "in">>)'
      BY <1>2, <1>4, <2>3, <3>1 DEF Held, Sides
    <3> QED BY <2>3, <3>2 DEF Sides
  <2> QED BY <1>5, <1>6, <2>1, <2>2, <2>3
<1>7. TypeOK'
  <2>1. DOMAIN peers' = Nodes
    BY <1>ty, <1>1 DEF TypeOK
  <2>2. ASSUME NEW m \in Nodes, NEW k \in DOMAIN peers'[m]
       PROVE  peers'[m][k] \in Slots \X Sides
    <3>1. \E r \in Slots, x \in Sides : peers'[m][k] = <<r, x>>
      BY <1>6, <2>2
    <3> QED BY <3>1
  <2> QED BY <1>ty, <1>3, <1>4, <2>1, <2>2 DEF TypeOK
<1> QED BY <1>4, <1>6, <1>7, HeldThenNoGhosts DEF Inductive

\* A message renames the entry of its end; an alive connection has both ends.
LEMMA RenameStep ==
  ASSUME Inductive, NEW s \in Slots, NEW side \in Sides, MessageAt(s, side),
         Rename(s, side), UNCHANGED isRunning,
         dials' \in [Nodes \X Nodes -> Nat], incidents' \in Nat
  PROVE  Inductive'
<1>ty. TypeOK /\ AliveHasEnds /\ NoGhosts
  BY DEF Inductive
<1> DEFINE c == connection[s]
           n == NodeAt(c, side)
           id == NodeAt(c, Other(side))
           known == c.known \cup {side}
           new == [c EXCEPT !.known = known]
<1>1. InUse(s) /\ c \in Connection /\ c.alive /\ c.open = Sides
  BY <1>ty, InUseTyped DEF MessageAt, AliveHasEnds
<1>2. CASE side \in c.known
  <2>1. UNCHANGED <<connection, peers>>
    BY <1>2 DEF Rename
  <2>2. TypeOK' /\ AliveHasEnds'
    BY <1>ty, <2>1 DEF TypeOK, AliveHasEnds, InUse
  <2>3. NoGhosts'
    BY <1>ty, <2>1 DEF NoGhosts, InUse
  <2> QED BY <2>2, <2>3 DEF Inductive
<1>3. CASE side \notin c.known
  <2>1. /\ new \in Connection /\ new # None /\ new.from = c.from /\ new.to = c.to
        /\ new.open = Sides /\ new.known = known
    BY <1>1, NoneAssumption DEF Connection
  <2>2. Sides # {}
    BY DEF Sides
  <2>3. /\ connection' = [connection EXCEPT ![s] = new]
        /\ peers' = [peers EXCEPT ![n] =
             Set(Delete(@, Name(s, c, side)), id, <<s, side>>)]
    BY <1>3, <2>1, <2>2 DEF Rename, Put
  <2> HIDE DEF new
  <2>4. /\ isRunning' \in [Nodes -> BOOLEAN]
        /\ connection' \in [Slots -> Connection \cup {None}]
        /\ connection'[s] = new
        /\ \A r \in Slots : r # s => connection'[r] = connection[r]
        /\ AliveHasEnds'
    BY <2>1, <2>3, OneConnection
  <2>5. NodeAt(new, side) = n /\ NodeAt(new, Other(side)) = id /\ Name(s, new, side) = id
    <3>1. NodeAt(new, side) = n /\ NodeAt(new, Other(side)) = id
      BY <2>1 DEF NodeAt
    <3> QED BY <2>1, <3>1 DEF Name
  <2> HIDE DEF id, n
  <2>6. ASSUME NEW m \in Nodes, NEW k \in DOMAIN peers'[m]
        PROVE  \/ /\ k \in DOMAIN peers[m] /\ peers'[m][k] = peers[m][k]
                  /\ ~ (m = n /\ k = Name(s, c, side))
               \/ m = n /\ k = id /\ peers'[m][k] = <<s, side>>
    <3>1. CASE m = n
      <4> DEFINE less == Delete(peers[m], Name(s, c, side))
      <4>1. peers'[m] = Set(less, id, <<s, side>>)
        BY <1>ty, <2>3, <3>1 DEF TypeOK
      <4>2. \A x \in DOMAIN less :
              x # Name(s, c, side) /\ x \in DOMAIN peers[m] /\ less[x] = peers[m][x]
        BY MapOps
      <4> HIDE DEF less
      <4>3. \/ k = id /\ peers'[m][k] = <<s, side>>
            \/ k \in DOMAIN less /\ peers'[m][k] = less[k]
        BY <2>6, <4>1, MapOps
      <4> QED BY <3>1, <4>2, <4>3
    <3>2. CASE m # n
      BY <1>ty, <2>3, <3>2 DEF TypeOK
    <3> QED BY <3>1, <3>2
  <2>7. ASSUME NEW m \in Nodes, NEW k \in DOMAIN peers'[m]
        PROVE  \E r \in Slots, x \in Sides :
                 peers'[m][k] = <<r, x>> /\ Held(m, k, <<r, x>>)'
    <3>1. CASE /\ k \in DOMAIN peers[m] /\ peers'[m][k] = peers[m][k]
               /\ ~ (m = n /\ k = Name(s, c, side))
      <4>1. PICK r \in Slots, x \in Sides :
              /\ peers[m][k] = <<r, x>> /\ Held(m, k, <<r, x>>)
              /\ InUse(r) /\ x \in connection[r].open
              /\ m = NodeAt(connection[r], x) /\ k = Name(r, connection[r], x)
        BY <1>ty, <3>1, EntryIs
      <4>2. r = s => x # side
        BY <3>1, <4>1 DEF n
      <4>3. Held(m, k, <<r, x>>)'
        BY <2>1, <2>4, <4>1, <4>2, HeldKept DEF InUse
      <4> QED BY <3>1, <4>1, <4>3
    <3>2. CASE m = n /\ k = id /\ peers'[m][k] = <<s, side>>
      <4>1. Held(m, k, <<s, side>>)'
        BY <2>1, <2>4, <2>5, <3>2 DEF Held
      <4> QED BY <3>2, <4>1
    <3> QED BY <2>6, <2>7, <3>1, <3>2
  <2>8. TypeOK'
    <3>1. DOMAIN peers' = Nodes
      BY <1>ty, <2>3 DEF TypeOK
    <3>2. ASSUME NEW m \in Nodes, NEW k \in DOMAIN peers'[m]
         PROVE  peers'[m][k] \in Slots \X Sides
      <4>1. \E r \in Slots, x \in Sides : peers'[m][k] = <<r, x>>
        BY <2>7, <3>2
      <4> QED BY <4>1
    <3> QED BY <2>4, <3>1, <3>2 DEF TypeOK
  <2> QED BY <2>4, <2>7, <2>8, HeldThenNoGhosts DEF Inductive
<1> QED BY <1>2, <1>3

\* Every step keeps Inductive.
LEMMA NextInductive == Inductive /\ [Next]_vars => Inductive'
<1> SUFFICES ASSUME Inductive, [Next]_vars PROVE Inductive'
  OBVIOUS
<1>ty. TypeOK /\ AliveHasEnds /\ NoGhosts
  BY DEF Inductive
<1>quiet. ASSUME isRunning' \in [Nodes -> BOOLEAN], dials' \in [Nodes \X Nodes -> Nat],
                 incidents' \in Nat, UNCHANGED <<connection, peers>>
          PROVE  Inductive'
  <2>1. TypeOK' /\ AliveHasEnds'
    BY <1>ty, <1>quiet DEF TypeOK, AliveHasEnds, InUse
  <2>2. NoGhosts'
    BY <1>ty, <1>quiet DEF NoGhosts, InUse
  <2> QED BY <2>1, <2>2 DEF Inductive
<1>1. ASSUME NEW n \in Nodes, start(n) PROVE Inductive'
  <2>1. dials' \in [Nodes \X Nodes -> Nat]
    BY <1>ty, <1>1 DEF start, TypeOK
  <2> QED BY <1>ty, <1>1, <2>1, <1>quiet DEF start, TypeOK
<1>2. ASSUME NEW n \in Nodes, NEW a \in Nodes, DialFails(n, a) PROVE Inductive'
  BY <1>ty, <1>2, <1>quiet DEF DialFails, Reschedule, Incident, TypeOK
<1>3. ASSUME NEW s \in Slots, NEW side \in Sides, pruneDeadPeers(s, side)
      PROVE  Inductive'
  <2>1. \A m \in Nodes : \A k \in DOMAIN peers'[m] :
          k \in DOMAIN peers[m] /\ peers'[m][k] = peers[m][k]
    BY <1>ty, <1>3 DEF pruneDeadPeers, TypeOK, Restrict
  <2>2. DOMAIN peers' = Nodes /\ UNCHANGED <<isRunning, dials, connection, incidents>>
    BY <1>ty, <1>3 DEF pruneDeadPeers, TypeOK
  <2>3. TypeOK' /\ AliveHasEnds'
    BY <1>ty, <2>1, <2>2 DEF TypeOK, AliveHasEnds, InUse
  <2>4. NoGhosts'
    BY <1>ty, <2>1, <2>2 DEF NoGhosts, InUse
  <2> QED BY <2>3, <2>4 DEF Inductive
<1>4. ASSUME NEW s \in Slots, NEW side \in Sides, Heartbeat(s, side) PROVE Inductive'
  BY <1>ty, <1>4, RenameStep DEF Heartbeat, TypeOK
<1>5. ASSUME NEW s \in Slots, NEW side \in Sides, PeerList(s, side) PROVE Inductive'
  <2>1. PICK n, learned : dials' = [p \in DOMAIN dials |->
          IF p[1] = n /\ p[2] \in learned THEN dials[p] + 1 ELSE dials[p]]
    BY <1>5 DEF PeerList
  <2>2. dials' \in [Nodes \X Nodes -> Nat]
    BY <1>ty, <2>1 DEF TypeOK
  <2>3. incidents' \in Nat /\ UNCHANGED isRunning /\ MessageAt(s, side) /\ Rename(s, side)
    BY <1>ty, <1>5 DEF PeerList, Incident, TypeOK
  <2> QED BY <2>2, <2>3, RenameStep
<1>6. CASE UNCHANGED vars
  BY <1>ty, <1>6, <1>quiet DEF vars, TypeOK
<1> QED BY <1>1, <1>2, <1>3, <1>4, <1>5, <1>6, StopStep, ConnectStep, BreakStep, CloseStep
        DEF Next

\* The types of Transport are kept by every behaviour.
THEOREM TypeCorrect == Spec => []TypeOK
<1> QED BY InitInductive, NextInductive, PTL DEF Spec, Inductive

\* NoGhosts: however dials, closes and renamings replace and delete each other's
\* entries, a Map holds only ends its node still has, under the name their close
\* handler will delete (p2p/transport.ts).
THEOREM MapsHaveNoGhosts == Spec => []NoGhosts
<1> QED BY InitInductive, NextInductive, PTL DEF Spec, Inductive
=============================================================================
