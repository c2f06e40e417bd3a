--------------------------- MODULE BotBurnsProofs ---------------------------
(***************************************************************************)
(* Proofs about BotBurns. That a burn is relayed at most once follows from *)
(* an invariant that says who may still start its relay: as long as a burn *)
(* has no row nobody does, and afterwards it is the one poll that inserted *)
(* the row, while its announcement is out. A second part says that the     *)
(* polls hold burns of the ledger, which the cursors' type rests on.       *)
(***************************************************************************)
EXTENDS BotBurns, TLAPS

Announces(p, b) == dccPoll[p].pc = "notify" /\ dccPoll[p].now = b

NoRowNoRelay ==
  \A b \in BurnIds : unlocks[b] = "none" =>
    relays[b] = 0 /\ \A p \in Polls : ~ Announces(p, b)

OneAnnouncer ==
  \A b \in BurnIds : \A p \in Polls : Announces(p, b) =>
    relays[b] = 0 /\ \A q \in Polls : Announces(q, b) => q = p

Inductive == TypeOK /\ NoRowNoRelay /\ OneAnnouncer /\ RelayedOnce

\* What polls have listed are burns of users in the ledger.
Burns == {b \in 1..Len(ledger) : ledger[b].sender \in Users}

ListsOnLedger ==
  \A p \in Polls :
    /\ dccPoll[p].pc \in {"list", "notify"} => dccPoll[p].todo \subseteq Burns
    /\ dccPoll[p].pc = "notify" => dccPoll[p].now \in Burns

\* The entries of a sequence are of its set.
LEMMA EntryOf ==
  ASSUME NEW S, NEW seq \in Seq(S)
  PROVE  \A n \in 1..Len(seq) : seq[n] \in S
OBVIOUS

\* Inductive holds in the initial states.
LEMMA InitInductive == Init => Inductive /\ ListsOnLedger
<1> SUFFICES ASSUME Init PROVE Inductive /\ ListsOnLedger
  OBVIOUS
<1> USE BotBurnsAssumption DEF BotBurnsAssumption
<1>1. TypeOK
  BY DEF Init, TypeOK, DccPoll, Relay, Idle, Statuses, Settled, BurnIds
<1>2. \A p \in Polls, b \in BurnIds : ~ Announces(p, b)
  BY DEF Init, Announces, Idle
<1>3. ListsOnLedger
  BY DEF Init, ListsOnLedger, Idle
<1> QED BY <1>1, <1>2, <1>3 DEF Init, Inductive, NoRowNoRelay, OneAnnouncer, RelayedOnce

\* Going on with a list, a poll announces nothing, or a burn whose row it inserts.
LEMMA ContinueStep ==
  ASSUME TypeOK, NEW p \in Polls, NEW todo \in SUBSET BurnIds,
         NEW rows \in [BurnIds -> Statuses], NEW cursor, Continue(p, todo, rows, cursor)
  PROVE  /\ dccPoll' \in [Polls -> DccPoll] /\ unlocks' \in [BurnIds -> Statuses]
         /\ \A q \in Polls : q # p => dccPoll'[q] = dccPoll[q]
         /\ \/ dccPoll'[p] = Idle /\ unlocks' = rows
            \/ \E b \in BurnIds :
                 /\ rows[b] = "none" /\ unlocks' = [rows EXCEPT ![b] = "pending"]
                 /\ dccPoll'[p].pc = "notify" /\ dccPoll'[p].now = b
<1>1. CASE dccPoll' = [dccPoll EXCEPT ![p] = Idle] /\ unlocks' = rows
  BY <1>1 DEF TypeOK, DccPoll
<1>2. ASSUME NEW b \in todo, rows[b] = "none",
             unlocks' = [rows EXCEPT ![b] = "pending"],
             dccPoll' = [dccPoll EXCEPT ![p] =
               [pc |-> "notify", now |-> b, todo |-> {c \in todo : c < b}]]
      PROVE  /\ dccPoll' \in [Polls -> DccPoll] /\ unlocks' \in [BurnIds -> Statuses]
             /\ \A q \in Polls : q # p => dccPoll'[q] = dccPoll[q]
             /\ dccPoll'[p].pc = "notify" /\ dccPoll'[p].now = b
  <2>1. [pc |-> "notify", now |-> b, todo |-> {c \in todo : c < b}] \in DccPoll
    BY DEF DccPoll
  <2>2. "pending" \in Statuses
    BY DEF Statuses
  <2> QED BY <1>2, <2>1, <2>2 DEF TypeOK
<1> QED BY <1>1, <1>2 DEF Continue, IsNew

\* Every step keeps Inductive.
LEMMA NextInductive == Inductive /\ ListsOnLedger /\ [Next]_vars => Inductive'
<1> SUFFICES ASSUME Inductive, ListsOnLedger, [Next]_vars PROVE Inductive'
  OBVIOUS
<1> USE BotBurnsAssumption DEF BotBurnsAssumption
<1>ty. TypeOK /\ NoRowNoRelay /\ OneAnnouncer /\ RelayedOnce
  BY DEF Inductive
<1>1. ASSUME NEW sender \in Users \cup {Others}, NEW height \in Heights,
             Transact(sender, height)
      PROVE  Inductive'
  <2>1. /\ ledger' \in Seq([sender: Users \cup {Others}, height: Heights])
        /\ Len(ledger') <= MaxTransactions
    <3>1. [sender |-> sender, height |-> height] \in [sender: Users \cup {Others}, height: Heights]
      OBVIOUS
    <3> QED BY <1>ty, <1>1, <3>1 DEF Transact, TypeOK
  <2>2. TypeOK'
    BY <1>ty, <1>1, <2>1 DEF Transact, TypeOK
  <2> QED BY <1>ty, <1>1, <2>2 DEF Transact, Inductive, NoRowNoRelay, OneAnnouncer,
             RelayedOnce, Announces
<1>2. ASSUME NEW p \in Polls, pollDcc(p) PROVE Inductive'
  <2>1. PICK todo \in SUBSET BurnIds : dccPoll' =
          [dccPoll EXCEPT ![p] = [pc |-> "list", todo |-> todo]]
    <3>1. scanBurnRecords \subseteq BurnIds
      BY <1>ty DEF scanBurnRecords, TypeOK, BurnIds
    <3> QED BY <1>2, <3>1 DEF pollDcc
  <2>2. [pc |-> "list", todo |-> todo] \in DccPoll
    BY DEF DccPoll
  <2>3. dccPoll' \in [Polls -> DccPoll]
    BY <1>ty, <2>1, <2>2 DEF TypeOK
  <2>4. faults' \in 0..MaxFaults
    BY <1>ty, <1>2 DEF pollDcc, TypeOK
  <2>5. TypeOK'
    BY <1>ty, <1>2, <2>3, <2>4 DEF pollDcc, TypeOK
  <2>6. \A q \in Polls, b \in BurnIds : Announces(q, b)' => Announces(q, b)
    BY <1>ty, <2>1 DEF Announces, TypeOK
  <2> QED BY <1>ty, <1>2, <2>5, <2>6 DEF pollDcc, Inductive, NoRowNoRelay, OneAnnouncer,
             RelayedOnce
<1>3. ASSUME NEW p \in Polls, Scanned(p) PROVE Inductive'
  <2>1. dccPoll[p].todo \in SUBSET BurnIds
    BY <1>ty, <1>3 DEF Scanned, TypeOK, DccPoll, Idle
  <2>2. /\ dccPoll' \in [Polls -> DccPoll] /\ unlocks' \in [BurnIds -> Statuses]
        /\ \A q \in Polls : q # p => dccPoll'[q] = dccPoll[q]
        /\ \/ dccPoll'[p] = Idle /\ unlocks' = unlocks
           \/ \E b \in BurnIds :
                /\ unlocks[b] = "none" /\ unlocks' = [unlocks EXCEPT ![b] = "pending"]
                /\ dccPoll'[p].pc = "notify" /\ dccPoll'[p].now = b
    <3>1. unlocks \in [BurnIds -> Statuses] /\ Continue(p, dccPoll[p].todo, unlocks, dccHeightMap)
      BY <1>ty, <1>3 DEF Scanned, TypeOK
    <3> QED BY <1>ty, <2>1, <3>1, ContinueStep
  <2>3. TypeOK'
    BY <1>ty, <1>3, <2>2 DEF Scanned, TypeOK
  <2>4. CASE dccPoll'[p] = Idle /\ unlocks' = unlocks
    <3>1. \A q \in Polls, b \in BurnIds : Announces(q, b)' => Announces(q, b)
      BY <2>2, <2>4 DEF Announces, Idle
    <3> QED BY <1>ty, <1>3, <2>3, <2>4, <3>1 DEF Scanned, Inductive, NoRowNoRelay,
               OneAnnouncer, RelayedOnce
  <2>5. ASSUME NEW b \in BurnIds,
               unlocks[b] = "none", unlocks' = [unlocks EXCEPT ![b] = "pending"],
               dccPoll'[p].pc = "notify", dccPoll'[p].now = b
        PROVE  Inductive'
    <3>1. \A q \in Polls, c \in BurnIds : Announces(q, c)' =>
            (Announces(q, c) /\ q # p /\ c # b) \/ (q = p /\ c = b)
      BY <1>ty, <2>2, <2>5 DEF Announces, NoRowNoRelay
    <3>2. relays' = relays
      BY <1>3 DEF Scanned
    <3>3. \A c \in BurnIds : unlocks'[c] = "none" => unlocks[c] = "none" /\ c # b
      BY <1>ty, <2>5 DEF TypeOK
    <3>4. NoRowNoRelay'
      BY <1>ty, <3>1, <3>2, <3>3 DEF NoRowNoRelay
    <3>5. OneAnnouncer'
      BY <1>ty, <2>5, <3>1, <3>2 DEF NoRowNoRelay, OneAnnouncer
    <3> QED BY <1>ty, <2>3, <3>2, <3>4, <3>5 DEF Inductive, RelayedOnce
  <2> QED BY <2>2, <2>4, <2>5
<1>4. ASSUME NEW p \in Polls, Announced(p) PROVE Inductive'
  <2> DEFINE now == dccPoll[p].now
             rows == [unlocks EXCEPT ![now] = "dcc_confirmed"]
             burn == ledger[now]
             cursor == [dccHeightMap EXCEPT ![burn.sender] = NextHeight(burn.height)]
  <2>1. now \in BurnIds /\ dccPoll[p].todo \in SUBSET BurnIds /\ Announces(p, now)
    BY <1>ty, <1>4 DEF Announced, Announces, TypeOK, DccPoll, Idle
  <2>2. rows \in [BurnIds -> Statuses] /\ cursor \in [Users -> 0..MaxTransactions]
    <3>0. now \in Burns
      BY <1>4 DEF Announced, ListsOnLedger
    <3>1. now \in BurnIds /\ "dcc_confirmed" \in Statuses
      BY <2>1 DEF Statuses
    <3> HIDE DEF now
    <3>2. rows \in [BurnIds -> Statuses]
      BY <1>ty, <3>1 DEF TypeOK
    <3>3. burn \in [sender: Users \cup {Others}, height: Heights] /\ burn.sender \in Users
      <4>1. ledger \in Seq([sender: Users \cup {Others}, height: Heights])
        BY <1>ty DEF TypeOK
      <4>2. now \in 1..Len(ledger) /\ ledger[now].sender \in Users
        BY <3>0 DEF Burns
      <4>3. \A n \in 1..Len(ledger) : ledger[n] \in [sender: Users \cup {Others}, height: Heights]
        BY <4>1, EntryOf
      <4> QED BY <4>2, <4>3
    <3>4. burn.height \in 0..MaxTransactions
      BY <3>3 DEF Heights
    <3> HIDE DEF burn
    <3>5. cursor \in [Users -> 0..MaxTransactions]
      BY <1>ty, <3>3, <3>4 DEF TypeOK, NextHeight
    <3> QED BY <3>2, <3>5
  <2>3. /\ dccHeightMap' = cursor
        /\ Continue(p, dccPoll[p].todo, rows, cursor)
        /\ relays' = [relays EXCEPT ![now] = @ + 1]
        /\ relay' = [relay EXCEPT ![now] =
             [pc |-> IF useConsensus THEN "calling" ELSE "notifying", attempt |-> 1]]
        /\ UNCHANGED <<ledger, useConsensus, faults, crashes>>
    BY <1>4 DEF Announced
  <2> HIDE DEF cursor
  <2>4. /\ dccPoll' \in [Polls -> DccPoll] /\ unlocks' \in [BurnIds -> Statuses]
        /\ \A q \in Polls : q # p => dccPoll'[q] = dccPoll[q]
        /\ \/ dccPoll'[p] = Idle /\ unlocks' = rows
           \/ \E b \in BurnIds :
                /\ rows[b] = "none" /\ unlocks' = [rows EXCEPT ![b] = "pending"]
                /\ dccPoll'[p].pc = "notify" /\ dccPoll'[p].now = b
    <3> HIDE DEF rows
    <3> QED BY <1>ty, <2>1, <2>2, <2>3, ContinueStep
  <2>5. relay' \in [BurnIds -> Relay] /\ relays' \in [BurnIds -> Nat]
    <3>1. [pc |-> IF useConsensus THEN "calling" ELSE "notifying", attempt |-> 1] \in Relay
      BY DEF Relay
    <3> QED BY <1>ty, <2>1, <2>3, <3>1 DEF TypeOK
  <2>6. TypeOK'
    <3> HIDE DEF rows
    <3> QED BY <1>ty, <2>2, <2>3, <2>4, <2>5 DEF TypeOK
  <2>7. \A c \in BurnIds : rows[c] = "none" => unlocks[c] = "none" /\ c # now
    BY <1>ty, <2>1 DEF TypeOK
  <2> HIDE DEF rows
  <2>8. \A q \in Polls, c \in BurnIds : q # p /\ Announces(q, c) => c # now
    BY <1>ty, <2>1 DEF OneAnnouncer
  <2>9. relays[now] = 0 /\ \A c \in BurnIds : relays'[c] = IF c = now THEN 1 ELSE relays[c]
    BY <1>ty, <2>1, <2>3 DEF OneAnnouncer, TypeOK
  <2> HIDE DEF now
  <2>10. CASE dccPoll'[p] = Idle /\ unlocks' = rows
    <3>1. \A q \in Polls, c \in BurnIds : Announces(q, c)' => Announces(q, c) /\ c # now
      BY <2>4, <2>8, <2>10 DEF Announces, Idle
    <3>2. NoRowNoRelay'
      BY <1>ty, <2>7, <2>9, <2>10, <3>1 DEF NoRowNoRelay
    <3>3. OneAnnouncer'
      BY <1>ty, <2>9, <3>1 DEF OneAnnouncer
    <3> QED BY <1>ty, <2>6, <2>9, <3>2, <3>3 DEF Inductive, RelayedOnce
  <2>11. ASSUME NEW b \in BurnIds,
                rows[b] = "none", unlocks' = [rows EXCEPT ![b] = "pending"],
                dccPoll'[p].pc = "notify", dccPoll'[p].now = b
         PROVE  Inductive'
    <3>1. \A q \in Polls, c \in BurnIds : Announces(q, c)' =>
            c # now /\ ((Announces(q, c) /\ q # p /\ c # b) \/ (q = p /\ c = b))
      BY <1>ty, <2>4, <2>7, <2>8, <2>11 DEF Announces, NoRowNoRelay
    <3>2. \A c \in BurnIds : unlocks'[c] = "none" => unlocks[c] = "none" /\ c # b /\ c # now
      BY <2>2, <2>7, <2>11
    <3>3. NoRowNoRelay'
      BY <1>ty, <2>9, <3>1, <3>2 DEF NoRowNoRelay
    <3>4. OneAnnouncer'
      BY <1>ty, <2>7, <2>9, <2>11, <3>1 DEF NoRowNoRelay, OneAnnouncer
    <3> QED BY <1>ty, <2>6, <2>9, <3>3, <3>4 DEF Inductive, RelayedOnce
  <2> QED BY <2>4, <2>10, <2>11
<1>5. ASSUME NEW b \in BurnIds, relayDccToSol(b) PROVE Inductive'
  <2>1. unlocks' = unlocks \/ \E status \in Settled : unlocks' = [unlocks EXCEPT ![b] = status]
    BY <1>5 DEF relayDccToSol, Settled
  <2>2. unlocks' \in [BurnIds -> Statuses]
    BY <1>ty, <2>1 DEF TypeOK, Statuses
  <2>3. relay' \in [BurnIds -> Relay]
    <3>1. Idle \in Relay
      BY DEF Relay
    <3>2. CASE relay' = [relay EXCEPT ![b] = Idle]
      BY <1>ty, <3>1, <3>2 DEF TypeOK
    <3>3. CASE /\ relay[b].pc = "calling" /\ MoreAttempts(relay[b])
               /\ relay' = [relay EXCEPT ![b].attempt = @ + 1]
      <4>1. relay[b] \in [pc: {"calling", "notifying"}, attempt: 1..MAX_RETRIES]
        BY <1>ty, <3>3 DEF TypeOK, Relay, Idle
      <4>2. [relay[b] EXCEPT !.attempt = @ + 1] \in Relay
        BY <3>3, <4>1 DEF Relay, MoreAttempts
      <4> QED BY <1>ty, <3>3, <4>2 DEF TypeOK
    <3> QED BY <1>5, <3>2, <3>3 DEF relayDccToSol
  <2>4. UNCHANGED <<ledger, dccHeightMap, dccPoll, useConsensus, faults, crashes, relays>>
    BY <1>5 DEF relayDccToSol
  <2>5. TypeOK'
    BY <1>ty, <2>2, <2>3, <2>4 DEF TypeOK
  <2>6. \A c \in BurnIds : unlocks'[c] = "none" => unlocks[c] = "none"
    BY <1>ty, <2>1 DEF TypeOK, Settled
  <2> QED BY <1>ty, <2>4, <2>5, <2>6 DEF Inductive, NoRowNoRelay, OneAnnouncer, RelayedOnce,
             Announces
<1>6. ASSUME Restart PROVE Inductive'
  <2>1. Idle \in DccPoll /\ Idle \in Relay
    BY DEF DccPoll, Relay
  <2>2. TypeOK'
    BY <1>ty, <1>6, <2>1 DEF Restart, TypeOK
  <2>3. \A p \in Polls, b \in BurnIds : ~ Announces(p, b)'
    BY <1>6 DEF Restart, Announces, Idle
  <2> QED BY <1>ty, <1>6, <2>2, <2>3 DEF Restart, Inductive, NoRowNoRelay, OneAnnouncer,
             RelayedOnce
<1>7. CASE UNCHANGED vars
  <2>1. TypeOK'
    BY <1>ty, <1>7 DEF vars, TypeOK
  <2> QED BY <1>ty, <1>7, <2>1 DEF vars, Inductive, NoRowNoRelay, OneAnnouncer, RelayedOnce,
             Announces
<1> QED BY <1>1, <1>2, <1>3, <1>4, <1>5, <1>6, <1>7 DEF Next

\* Going on with a list, a poll keeps to it.
LEMMA ContinueLists ==
  ASSUME TypeOK, ListsOnLedger, UNCHANGED ledger, NEW p \in Polls,
         NEW todo \in SUBSET Burns, NEW rows, NEW cursor, Continue(p, todo, rows, cursor)
  PROVE  ListsOnLedger'
<1>1. CASE dccPoll' = [dccPoll EXCEPT ![p] = Idle]
  BY <1>1 DEF TypeOK, ListsOnLedger, Burns, Idle
<1>2. ASSUME NEW b \in todo,
             dccPoll' = [dccPoll EXCEPT ![p] =
               [pc |-> "notify", now |-> b, todo |-> {c \in todo : c < b}]]
      PROVE  ListsOnLedger'
  BY <1>2 DEF TypeOK, ListsOnLedger, Burns
<1> QED BY <1>1, <1>2 DEF Continue

\* Every step keeps ListsOnLedger: the ledger only grows.
LEMMA NextLists == TypeOK /\ ListsOnLedger /\ [Next]_vars => ListsOnLedger'
<1> SUFFICES ASSUME TypeOK, ListsOnLedger, [Next]_vars PROVE ListsOnLedger'
  OBVIOUS
<1>1. ASSUME NEW sender \in Users \cup {Others}, NEW height \in Heights,
             Transact(sender, height)
      PROVE  ListsOnLedger'
  <2>1. ledger \in Seq([sender: Users \cup {Others}, height: Heights])
    BY DEF TypeOK
  <2>2. Len(ledger') = Len(ledger) + 1 /\ \A b \in 1..Len(ledger) : ledger'[b] = ledger[b]
    BY <1>1, <2>1 DEF Transact
  <2>3. Burns \subseteq Burns'
    BY <2>1, <2>2 DEF Burns
  <2> QED BY <1>1, <2>3 DEF Transact, ListsOnLedger
<1>2. ASSUME NEW p \in Polls, pollDcc(p) PROVE ListsOnLedger'
  <2>1. scanBurnRecords \subseteq Burns
    BY DEF scanBurnRecords, Burns
  <2>2. PICK todo \in SUBSET Burns : dccPoll' =
          [dccPoll EXCEPT ![p] = [pc |-> "list", todo |-> todo]]
    BY <1>2, <2>1 DEF pollDcc
  <2>3. UNCHANGED ledger
    BY <1>2 DEF pollDcc
  <2> QED BY <2>2, <2>3 DEF TypeOK, ListsOnLedger, Burns
<1>3. ASSUME NEW p \in Polls, Scanned(p) PROVE ListsOnLedger'
  <2>1. dccPoll[p].todo \in SUBSET Burns
    BY <1>3 DEF Scanned, ListsOnLedger
  <2>2. Continue(p, dccPoll[p].todo, unlocks, dccHeightMap) /\ UNCHANGED ledger
    BY <1>3 DEF Scanned
  <2> QED BY <2>1, <2>2, ContinueLists
<1>4. ASSUME NEW p \in Polls, Announced(p) PROVE ListsOnLedger'
  <2>1. dccPoll[p].todo \in SUBSET Burns
    BY <1>4 DEF Announced, ListsOnLedger
  <2>2. UNCHANGED ledger /\ \E rows, cursor : Continue(p, dccPoll[p].todo, rows, cursor)
    BY <1>4 DEF Announced
  <2> QED BY <2>1, <2>2, ContinueLists
<1>5. ASSUME NEW b \in BurnIds, relayDccToSol(b) PROVE ListsOnLedger'
  BY <1>5 DEF relayDccToSol, ListsOnLedger, Burns
<1>6. ASSUME Restart PROVE ListsOnLedger'
  BY <1>6 DEF Restart, ListsOnLedger, Idle
<1>7. CASE UNCHANGED vars
  BY <1>7 DEF vars, ListsOnLedger, Burns
<1> QED BY <1>1, <1>2, <1>3, <1>4, <1>5, <1>6, <1>7 DEF Next

\* The invariant of both parts.
LEMMA Invariance == Spec => [](Inductive /\ ListsOnLedger)
<1>1. Inductive => TypeOK
  BY DEF Inductive
<1> QED BY <1>1, InitInductive, NextInductive, NextLists, PTL DEF Spec

\* The types of BotBurns are kept by every behaviour.
THEOREM TypeCorrect == Spec => []TypeOK
<1> QED BY Invariance, PTL DEF Inductive

\* RelayedOnce: however polls overlap, cursors go back and the bot restarts, a
\* burn's unlock is asked for at most once (recordDeposit in bridge/store.cjs).
THEOREM RelayedAtMostOnce == Spec => []RelayedOnce
<1> QED BY Invariance, PTL DEF Inductive
=============================================================================
