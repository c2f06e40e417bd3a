------------------------- MODULE BotDepositsProofs -------------------------
(***************************************************************************)
(* Theorems about BotDeposits for any wallets, tokens, overlapping calls,  *)
(* faults and restarts, and for a ledger of any length: what the rows say, *)
(* what is relayed and minted, and what the cursors leave behind.          *)
(***************************************************************************)
EXTENDS BotDeposits, FiniteSetTheorems, TLAPS

-----------------------------------------------------------------------------
(* The inductive invariant.                                                *)

Announcing(q) == q.pc \in {"notify_spl", "notify_sol"}
Listing(q) == q.pc \in {"list_spl", "list_sol"} \/ Announcing(q)

OnLedger(s, token) == s <= Len(deposits) /\ token \in deposits[s].tokens

\* Lists and rows tell what is on the ledger.
ListsOnLedger ==
  \A p \in Polls : Listing(poll[p]) => \A t \in poll[p].todo : OnLedger(t.sig, t.token)
RowsOnLedger ==
  \A s \in Sigs : transfers[s].status # "none" => OnLedger(s, transfers[s].token)

\* A row that is pending has at most one call that announces it.
OneClaim ==
  /\ \A p \in Polls : Announcing(poll[p]) => transfers[poll[p].now].status = "pending"
  /\ \A p, r \in Polls :
       Announcing(poll[p]) /\ Announcing(poll[r]) /\ poll[p].now = poll[r].now => p = r

\* A relay starts when its row leaves pending, and nothing is sent before.
OneRelay ==
  /\ \A s \in Sigs : relays[s] \in {0, 1}
  /\ \A s \in Sigs : transfers[s].status \in {"none", "pending"} => relays[s] = 0
  /\ \A s \in Sigs : relay[s] # Idle => relays[s] = 1
  /\ \A x \in utx : relays[x[1]] = 1

\* What was minted is the token of a row that was relayed, once.
OneMint ==
  \A s \in Sigs :
    \/ mints[s] = <<>>
    \/ s \in processed /\ relays[s] = 1 /\ mints[s] = <<transfers[s].token>>

IInv == TypeOK /\ ListsOnLedger /\ RowsOnLedger /\ OneClaim /\ OneRelay /\ OneMint

-----------------------------------------------------------------------------
(* What going on with a list does to the rows and the call: the call leaves  *)
(* the list, or a new row gets an announcement.                              *)

Continued(p, todo, rows) ==
  \/ /\ transfers' = rows
     /\ \E x \in Poll : ~ Listing(x) /\ poll' = [poll EXCEPT ![p] = x]
  \/ \E t \in todo, x \in Poll :
       /\ IsNew(rows, t.sig)
       /\ transfers' = [rows EXCEPT ![t.sig] = [status |-> "pending", token |-> t.token]]
       /\ Announcing(x) /\ x.now = t.sig /\ x.todo \subseteq todo
       /\ poll' = [poll EXCEPT ![p] = x]

\* The fields of a call that has a list.
LEMMA ListFields ==
  ASSUME NEW q \in Poll, Listing(q)
  PROVE  /\ q.user \in Users /\ q.since \in 0..MaxDeposits /\ q.todo \subseteq Transfer
         /\ Announcing(q) => q.now \in Sigs
BY DEF Poll, Listing, Announcing, Idle

LEMMA ContinueOutcome ==
  ASSUME NEW p \in Polls, NEW kind \in {"spl", "sol"}, NEW q \in Poll, Listing(q), NEW rows,
         Continue(p, kind, q, q.todo, rows)
  PROVE  Continued(p, q.todo, rows)
<1>1. /\ q.user \in Users /\ q.since \in 0..MaxDeposits
      /\ \A t \in q.todo : t \in Transfer /\ t.sig \in Sigs
  BY ListFields DEF Transfer
<1>2. CASE /\ transfers' = rows
           /\ poll' = [poll EXCEPT ![p] =
                IF kind = "spl" THEN [pc |-> "sol", user |-> q.user, since |-> q.since] ELSE Idle]
  <2> DEFINE x == IF kind = "spl" THEN [pc |-> "sol", user |-> q.user, since |-> q.since] ELSE Idle
  <2>1. x \in Poll /\ ~ Listing(x)
    BY <1>1 DEF Poll, Listing, Announcing, Idle
  <2>2. QED
    BY <1>2, <2>1 DEF Continued
<1>3. ASSUME NEW t \in q.todo, IsNew(rows, t.sig),
             transfers' = [rows EXCEPT ![t.sig] = [status |-> "pending", token |-> t.token]],
             poll' = [poll EXCEPT ![p] =
               [pc |-> IF kind = "spl" THEN "notify_spl" ELSE "notify_sol",
                user |-> q.user, since |-> q.since, now |-> t.sig,
                todo |-> {r \in q.todo : r.sig <= t.sig} \ {t}]]
      PROVE  Continued(p, q.todo, rows)
  <2> DEFINE rest == {r \in q.todo : r.sig <= t.sig} \ {t}
             pc == IF kind = "spl" THEN "notify_spl" ELSE "notify_sol"
             x == [pc |-> pc, user |-> q.user, since |-> q.since, now |-> t.sig, todo |-> rest]
  <2>1. rest \subseteq q.todo /\ rest \in SUBSET Transfer /\ pc \in {"notify_spl", "notify_sol"}
    BY <1>1
  <2>2. poll' = [poll EXCEPT ![p] = x]
    BY <1>3
  <2> HIDE DEF rest, pc
  <2>3. x \in Poll /\ Announcing(x) /\ x.now = t.sig /\ x.todo \subseteq q.todo
    BY <1>1, <2>1 DEF Poll, Announcing
  <2> HIDE DEF x
  <2>4. QED
    BY <1>3, <2>2, <2>3 DEF Continued
<1>4. QED
  BY <1>2, <1>3 DEF Continue

\* The same for the two actions that go on with a list.
LEMMA ScannedContinues ==
  ASSUME TypeOK, NEW p \in Polls, Scanned(p)
  PROVE  Listing(poll[p]) /\ Continued(p, poll[p].todo, transfers)
<1>1. PICK q, rows : q = poll[p] /\ rows = transfers
  OBVIOUS
<1>2. q \in Poll /\ Listing(q)
  BY <1>1 DEF TypeOK, Scanned, Listing
<1>3. Continue(p, Kind(q), q, q.todo, rows) /\ Kind(q) \in {"spl", "sol"}
  BY <1>1 DEF Scanned, Kind
<1>4. QED
  BY <1>1, <1>2, <1>3, ContinueOutcome

\* The rows after the announcement: the relay has taken its row over, or throws.
Released(p) ==
  IF CanRelay THEN [transfers EXCEPT ![poll[p].now].status = "sol_confirmed"] ELSE transfers

LEMMA AnnouncedContinues ==
  ASSUME TypeOK, NEW p \in Polls, Announced(p)
  PROVE  Announcing(poll[p]) /\ Continued(p, poll[p].todo, Released(p))
<1>1. PICK q, rows : q = poll[p] /\ rows = Released(p)
  OBVIOUS
<1>2. q \in Poll /\ Listing(q) /\ Announcing(q)
  BY <1>1 DEF TypeOK, Announced, Listing, Announcing
<1>3. Continue(p, Kind(q), q, q.todo, rows) /\ Kind(q) \in {"spl", "sol"}
  <2>1. Kind(q) \in {"spl", "sol"}
    BY DEF Kind
  <2>2. CASE CanRelay
    BY <1>1, <2>1, <2>2 DEF Announced, Released
  <2>3. CASE ~ CanRelay
    BY <1>1, <2>1, <2>3 DEF Announced, Released
  <2>4. QED
    BY <2>2, <2>3
<1>4. QED
  BY <1>1, <1>2, <1>3, ContinueOutcome

\* What an announcement does to the row and the call of its deposit.
Effects(p) ==
  /\ CanRelay =>
       /\ relay' = [relay EXCEPT ![poll[p].now] = [pc |-> "calling", attempt |-> 1]]
       /\ relays' = [relays EXCEPT ![poll[p].now] = @ + 1]
       /\ Released(p) = [transfers EXCEPT ![poll[p].now].status = "sol_confirmed"]
  /\ ~ CanRelay => relay' = relay /\ relays' = relays /\ Released(p) = transfers

LEMMA AnnouncedEffects ==
  ASSUME TypeOK, NEW p \in Polls, Announced(p)
  PROVE  Effects(p)
<1>1. CASE CanRelay
  BY <1>1 DEF Announced, Released, Effects
<1>2. CASE ~ CanRelay
  BY <1>2 DEF Announced, Released, Effects
<1>3. QED
  BY <1>1, <1>2

\* Going on keeps the types of the rows and of the calls.
LEMMA ContinuedType ==
  ASSUME TypeOK, NEW p \in Polls, NEW todo \in SUBSET Transfer, NEW rows \in [Sigs -> Row],
         Continued(p, todo, rows)
  PROVE  transfers' \in [Sigs -> Row] /\ poll' \in [Polls -> Poll]
<1>1. \A x \in Poll : [poll EXCEPT ![p] = x] \in [Polls -> Poll]
  BY DEF TypeOK
<1>2. \A t \in todo : [rows EXCEPT ![t.sig] = [status |-> "pending", token |-> t.token]] \in [Sigs -> Row]
  BY DEF Transfer, Row, Statuses
<1>3. QED
  BY <1>1, <1>2 DEF Continued

-----------------------------------------------------------------------------
(* Types.                                                                  *)

LEMMA InitType == Init => TypeOK
BY BotDepositsAssumption DEF Init, TypeOK, Row, Statuses, Poll, Relay, Sigs

\* The request of an attempt, and what may be repeated after it.
LEMMA RetryType ==
  ASSUME TypeOK, NEW s \in Sigs, relay[s] # Idle, Retry(s)
  PROVE  relay' \in [Sigs -> Relay] /\ transfers' \in [Sigs -> Row]
<1>1. relay[s] \in [pc: {"calling", "confirming"}, attempt: Attempts]
  BY DEF TypeOK, Relay
<1>2. CASE MoreAttempts(relay[s]) /\ relay' = [relay EXCEPT ![s].attempt = @ + 1] /\ UNCHANGED transfers
  <2>1. relay[s].attempt + 1 \in Attempts
    BY <1>1, <1>2, BotDepositsAssumption DEF MoreAttempts, Attempts
  <2>2. [relay[s] EXCEPT !.attempt = @ + 1] \in Relay
    BY <1>1, <2>1 DEF Relay
  <2>3. QED
    BY <1>2, <2>2 DEF TypeOK
<1>3. CASE /\ transfers' = [transfers EXCEPT ![s].status = "failed"]
           /\ relay' = [relay EXCEPT ![s] = Idle]
  BY <1>3 DEF TypeOK, Row, Statuses, Settled, Relay
<1>4. QED
  BY <1>2, <1>3 DEF Retry

LEMMA NextType == TypeOK /\ [Next]_vars => TypeOK'
<1> SUFFICES ASSUME TypeOK, [Next]_vars PROVE TypeOK'
  OBVIOUS
<1> USE DEF chains
<1>1. ASSUME NEW u \in Users, NEW carried \in SUBSET Tokens, Transact(u, carried)
      PROVE  TypeOK'
  <2>1. /\ deposits' \in Seq([user: Users, tokens: SUBSET Tokens])
        /\ Len(deposits') = Len(deposits) + 1 /\ Len(deposits) \in Nat
    BY <1>1 DEF Transact, TypeOK
  <2>2. QED
    BY <1>1, <2>1, BotDepositsAssumption DEF Transact, TypeOK
<1>2. ASSUME NEW x \in utx, Mine(x) PROVE TypeOK'
  <2>1. x \in Sigs \X Attempts /\ x[1] \in Sigs /\ transferId(x[1], x[2]) \in Sigs
    BY DEF TypeOK, transferId
  <2>2. transfers[x[1]].token \in Tokens
    BY <2>1 DEF TypeOK, Row
  <2>3. mints' \in [Sigs -> Seq(Tokens)]
    <3>1. Append(mints[x[1]], transfers[x[1]].token) \in Seq(Tokens)
      BY <2>1, <2>2 DEF TypeOK
    <3>2. QED
      BY <1>2, <2>1, <3>1 DEF Mine, TypeOK
  <2>4. QED
    BY <1>2, <2>1, <2>3 DEF Mine, TypeOK
<1>3. ASSUME NEW p \in Polls, NEW u \in Users, pollSolanaUser(p, u) PROVE TypeOK'
  <2>1. [pc |-> "spl", user |-> u, since |-> solSlotMap[u]] \in Poll
    BY DEF TypeOK, Poll
  <2>2. poll' \in [Polls -> Poll]
    BY <1>3, <2>1 DEF pollSolanaUser, TypeOK
  <2>3. QED
    BY <1>3, <2>2 DEF pollSolanaUser, TypeOK
<1>4. ASSUME NEW p \in Polls, scanIncoming(p) PROVE TypeOK'
  <2>1. PICK q : q = poll[p] /\ q \in Poll /\ q.pc \in {"spl", "sol"}
    BY <1>4 DEF scanIncoming, TypeOK
  <2>2. q.user \in Users /\ q.since \in 0..MaxDeposits
    BY <2>1 DEF Poll, Idle
  <2>3. Idle \in Poll
    BY DEF Poll
  <2>4. poll' \in [Polls -> Poll] /\ faults' \in 0..MaxFaults
    <3>1. ASSUME NEW unreadable \in SUBSET {s \in Recent(q.user) : s > q.since},
                 faults + Cardinality(unreadable) <= MaxFaults,
                 faults' = faults + Cardinality(unreadable),
                 poll' = [poll EXCEPT ![p] =
                   [pc |-> IF q.pc = "spl" THEN "list_spl" ELSE "list_sol", user |-> q.user,
                    since |-> q.since,
                    todo |-> Listed(q.pc, {s \in Recent(q.user) : s > q.since} \ unreadable)]]
          PROVE  poll' \in [Polls -> Poll] /\ faults' \in 0..MaxFaults
      <4>1. Recent(q.user) \subseteq Sigs /\ IsFiniteSet(Recent(q.user))
        <5>1. 1..Len(deposits) \subseteq Sigs /\ IsFiniteSet(1..Len(deposits))
          BY FS_Interval, BotDepositsAssumption DEF TypeOK, Sigs
        <5>2. Recent(q.user) \subseteq 1..Len(deposits)
          BY DEF Recent
        <5>3. QED
          BY <5>1, <5>2, FS_Subset
      <4>2. IsFiniteSet(unreadable)
        BY <4>1, FS_Subset
      <4>3. Cardinality(unreadable) \in Nat
        BY <4>2, FS_CardinalityType
      <4>4. Listed(q.pc, {s \in Recent(q.user) : s > q.since} \ unreadable) \in SUBSET Transfer
        BY <4>1 DEF Listed, Transfer
      <4>5. [pc |-> IF q.pc = "spl" THEN "list_spl" ELSE "list_sol", user |-> q.user,
             since |-> q.since,
             todo |-> Listed(q.pc, {s \in Recent(q.user) : s > q.since} \ unreadable)] \in Poll
        BY <2>2, <4>4 DEF Poll
      <4>6. QED
        BY <3>1, <4>3, <4>5 DEF TypeOK
    <3>2. ASSUME faults < MaxFaults, faults' = faults + 1, poll' = [poll EXCEPT ![p] = Idle]
          PROVE  poll' \in [Polls -> Poll] /\ faults' \in 0..MaxFaults
      BY <2>3, <3>2, BotDepositsAssumption DEF TypeOK
    <3>3. QED
      BY <1>4, <2>1, <3>1, <3>2, Zenon DEF scanIncoming
  <2>5. QED
    BY <1>4, <2>4 DEF scanIncoming, TypeOK
<1>5. ASSUME NEW p \in Polls, Scanned(p) PROVE TypeOK'
  <2>1. Continued(p, poll[p].todo, transfers) /\ poll[p].todo \in SUBSET Transfer
    BY <1>5, ScannedContinues, ListFields DEF TypeOK
  <2>2. transfers' \in [Sigs -> Row] /\ poll' \in [Polls -> Poll]
    BY <2>1, ContinuedType DEF TypeOK
  <2>3. QED
    BY <1>5, <2>2 DEF Scanned, TypeOK
<1>6. ASSUME NEW p \in Polls, Announced(p) PROVE TypeOK'
  <2>0. Effects(p)
    BY <1>6, AnnouncedEffects
  <2>1. /\ Continued(p, poll[p].todo, Released(p)) /\ poll[p].todo \in SUBSET Transfer
        /\ poll[p].now \in Sigs /\ poll[p].user \in Users
    BY <1>6, AnnouncedContinues, ListFields DEF TypeOK, Listing
  <2>2. Released(p) \in [Sigs -> Row]
    BY <2>1 DEF Released, TypeOK, Row, Statuses
  <2>3. transfers' \in [Sigs -> Row] /\ poll' \in [Polls -> Poll]
    BY <2>1, <2>2, ContinuedType
  <2>4. [pc |-> "calling", attempt |-> 1] \in Relay
    BY BotDepositsAssumption DEF Relay, Attempts
  <2>5. relay' \in [Sigs -> Relay] /\ relays' \in [Sigs -> Nat]
    <3>1. CASE CanRelay
      <4>1. relay \in [Sigs -> Relay] /\ relays \in [Sigs -> Nat]
        BY DEF TypeOK
      <4>2. /\ relay' = [relay EXCEPT ![poll[p].now] = [pc |-> "calling", attempt |-> 1]]
            /\ relays' = [relays EXCEPT ![poll[p].now] = @ + 1]
        BY <3>1, <2>0 DEF Effects
      <4>3. QED
        BY <2>1, <2>4, <4>1, <4>2
    <3>2. CASE ~ CanRelay
      BY <3>2, <2>0 DEF Effects, TypeOK
    <3>3. QED
      BY <3>1, <3>2
  <2>6. solSlotMap' \in [Users -> 0..MaxDeposits]
    BY <1>6, <2>1 DEF Announced, TypeOK, NextCursor, Larger, Sigs
  <2>7. QED
    BY <1>6, <2>3, <2>5, <2>6 DEF Announced, TypeOK
<1>7. ASSUME NEW s \in Sigs, mintCall(s) PROVE TypeOK'
  <2>1. relay[s] \in [pc: {"calling", "confirming"}, attempt: Attempts] /\ relay[s] # Idle
    BY <1>7 DEF TypeOK, Relay, mintCall, Idle
  <2>2. <<s, relay[s].attempt>> \in Sigs \X Attempts
    BY <2>1
  <2>3. utx' \subseteq Sigs \X Attempts
    BY <1>7, <2>2 DEF mintCall, TypeOK
  <2>4. relay' \in [Sigs -> Relay] /\ transfers' \in [Sigs -> Row]
    <3>1. CASE Retry(s)
      BY <2>1, <3>1, RetryType
    <3>2. CASE /\ transfers' = [transfers EXCEPT ![s].status = "dcc_minted"]
               /\ relay' = [relay EXCEPT ![s].pc = "confirming"]
      <4>1. [relay[s] EXCEPT !.pc = "confirming"] \in Relay
        BY <2>1 DEF Relay
      <4>2. QED
        BY <3>2, <4>1 DEF TypeOK, Row, Statuses
    <3>3. CASE /\ transfers' = [transfers EXCEPT ![s].status = "pending_confirmation"]
               /\ relay' = [relay EXCEPT ![s] = Idle]
      BY <3>3 DEF TypeOK, Row, Statuses, Settled, Relay
    <3>4. QED
      BY <1>7, <3>1, <3>2, <3>3 DEF mintCall
  <2>5. QED
    BY <1>7, <2>3, <2>4 DEF mintCall, TypeOK
<1>8. ASSUME NEW s \in Sigs, waitForTx(s) PROVE TypeOK'
  <2>1. transfers' \in [Sigs -> Row]
    <3>1. ASSUME NEW x \in {"complete", "pending_confirmation"},
                 transfers' = [transfers EXCEPT ![s].status = x]
          PROVE  transfers' \in [Sigs -> Row]
      <4>1. [transfers[s] EXCEPT !.status = x] \in Row
        BY DEF TypeOK, Row, Statuses, Settled
      <4>2. QED
        BY <3>1, <4>1 DEF TypeOK
    <3>2. QED
      BY <1>8, <3>1 DEF waitForTx
  <2>2. relay' \in [Sigs -> Relay]
    BY <1>8 DEF waitForTx, TypeOK, Relay
  <2>3. QED
    BY <1>8, <2>1, <2>2 DEF waitForTx, TypeOK
<1>9. ASSUME Restart PROVE TypeOK'
  <2>1. \A s \in Sigs : relay[s].pc = "calling" => <<s, relay[s].attempt>> \in Sigs \X Attempts
    BY DEF TypeOK, Relay, Idle
  <2>2. utx' \subseteq Sigs \X Attempts
    BY <1>9, <2>1 DEF Restart, TypeOK
  <2>3. poll' \in [Polls -> Poll] /\ relay' \in [Sigs -> Relay]
    BY <1>9 DEF Restart, Poll, Relay
  <2>4. QED
    BY <1>9, <2>2, <2>3, BotDepositsAssumption DEF Restart, TypeOK
<1>10. CASE UNCHANGED vars
  BY <1>10 DEF vars, TypeOK
<1>11. QED
  BY <1>1, <1>2, <1>3, <1>4, <1>5, <1>6, <1>7, <1>8, <1>9, <1>10 DEF Next

\* Whatever the bot, its requests and the chains do, the rows, the cursors, the
\* calls and the relays keep their types; an attempt is never beyond the last.
THEOREM TypeCorrect == Spec => []TypeOK
BY InitType, NextType, PTL DEF Spec

-----------------------------------------------------------------------------
(* The invariant is inductive.                                             *)

LEMMA InitInv == Init => IInv
BY InitType DEF Init, IInv, ListsOnLedger, RowsOnLedger, OneClaim, OneRelay, OneMint,
                Listing, Announcing, Idle, Row, Sigs

\* What is on the ledger stays there.
LEMMA LedgerGrows ==
  ASSUME TypeOK, NEW u \in Users, NEW carried, Transact(u, carried),
         NEW s \in Sigs, NEW token, OnLedger(s, token)
  PROVE  OnLedger(s, token)'
<1>1. /\ deposits' = Append(deposits, [user |-> u, tokens |-> carried])
      /\ s \in 1..Len(deposits)
  BY DEF Transact, OnLedger, Sigs
<1>2. deposits'[s] = deposits[s] /\ s <= Len(deposits')
  BY <1>1 DEF TypeOK
<1>3. QED
  BY <1>2 DEF OnLedger

\* A list that goes on, over rows of which one at most was released.
LEMMA ContinuedInv ==
  ASSUME IInv, UNCHANGED deposits,
         NEW p \in Polls, Listing(poll[p]),
         NEW rows \in [Sigs -> Row],
         Continued(p, poll[p].todo, rows),
         \A s \in Sigs : rows[s].token = transfers[s].token,
         \A s \in Sigs : rows[s].status = "none" <=> transfers[s].status = "none",
         \A s \in Sigs : rows[s] # transfers[s] => Announcing(poll[p]) /\ s = poll[p].now
  PROVE  /\ ListsOnLedger' /\ RowsOnLedger' /\ OneClaim'
         /\ \A s \in Sigs :
              transfers'[s] = rows[s] \/ (rows[s].status = "none" /\ transfers'[s].status = "pending")
<1>1. poll \in [Polls -> Poll] /\ transfers \in [Sigs -> Row]
  BY DEF IInv, TypeOK
<1>2. poll[p].todo \subseteq Transfer /\ \A t \in poll[p].todo : t.sig \in Sigs /\ OnLedger(t.sig, t.token)
  BY <1>1, ListFields DEF IInv, ListsOnLedger, Transfer
<1>3. \A s, token : OnLedger(s, token)' <=> OnLedger(s, token)
  BY DEF OnLedger
<1>a. \A s \in Sigs : rows[s].status # "none" => OnLedger(s, rows[s].token)
  BY DEF IInv, RowsOnLedger
<1>b. ASSUME NEW r \in Polls, r # p, Announcing(poll[r])
      PROVE  poll[r].now \in Sigs /\ rows[poll[r].now].status = "pending"
  <2>1. poll[r].now \in Sigs /\ transfers[poll[r].now].status = "pending"
    BY <1>1, <1>b, ListFields DEF IInv, OneClaim, Listing
  <2>2. Announcing(poll[p]) => poll[p].now # poll[r].now
    BY <1>b DEF IInv, OneClaim
  <2>3. QED
    BY <2>1, <2>2
<1>4. CASE transfers' = rows /\ \E x \in Poll : ~ Listing(x) /\ poll' = [poll EXCEPT ![p] = x]
  <2>1. PICK x \in Poll : ~ Listing(x) /\ poll' = [poll EXCEPT ![p] = x]
    BY <1>4
  <2>2. \A r \in Polls : poll'[r] = IF r = p THEN x ELSE poll[r]
    BY <1>1, <2>1
  <2>3. ListsOnLedger'
    BY <1>3, <2>1, <2>2 DEF IInv, ListsOnLedger, Listing, Announcing
  <2>4. RowsOnLedger'
    BY <1>3, <1>4, <1>a DEF RowsOnLedger
  <2>5. OneClaim'
    <3>1. \A r \in Polls : Announcing(poll'[r]) => r # p /\ Announcing(poll[r]) /\ poll'[r] = poll[r]
      BY <2>1, <2>2 DEF Listing
    <3>2. \A r \in Polls : Announcing(poll'[r]) => transfers'[poll'[r].now].status = "pending"
      BY <1>4, <1>b, <3>1
    <3>3. \A r, o \in Polls :
            Announcing(poll'[r]) /\ Announcing(poll'[o]) /\ poll'[r].now = poll'[o].now => r = o
      BY <3>1 DEF IInv, OneClaim
    <3>4. QED
      BY <3>2, <3>3 DEF OneClaim, Announcing
  <2>6. QED
    BY <1>4, <2>3, <2>4, <2>5
<1>5. ASSUME NEW t \in poll[p].todo, NEW x \in Poll,
             IsNew(rows, t.sig),
             transfers' = [rows EXCEPT ![t.sig] = [status |-> "pending", token |-> t.token]],
             Announcing(x), x.now = t.sig, x.todo \subseteq poll[p].todo,
             poll' = [poll EXCEPT ![p] = x]
      PROVE  /\ ListsOnLedger' /\ RowsOnLedger' /\ OneClaim'
             /\ \A s \in Sigs :
                  transfers'[s] = rows[s] \/ (rows[s].status = "none" /\ transfers'[s].status = "pending")
  <2>1. \A r \in Polls : poll'[r] = IF r = p THEN x ELSE poll[r]
    BY <1>1, <1>5
  <2>2. /\ transfers'[t.sig].status = "pending" /\ transfers'[t.sig].token = t.token
        /\ \A s \in Sigs : s # t.sig => transfers'[s] = rows[s]
        /\ rows[t.sig].status = "none"
    BY <1>2, <1>5 DEF IsNew
  <2>3. ListsOnLedger'
    BY <1>2, <1>3, <1>5, <2>1 DEF IInv, ListsOnLedger
  <2>4. RowsOnLedger'
    BY <1>2, <1>3, <1>a, <2>2 DEF RowsOnLedger
  <2>5. OneClaim'
    <3>1. \A r \in Polls : r # p /\ Announcing(poll'[r]) =>
            Announcing(poll[r]) /\ poll'[r] = poll[r] /\ poll'[r].now \in Sigs /\ poll'[r].now # t.sig
      BY <1>b, <2>1, <2>2
    <3>2. \A r \in Polls : Announcing(poll'[r]) => transfers'[poll'[r].now].status = "pending"
      BY <1>5, <1>b, <2>1, <2>2, <3>1
    <3>3. \A r, o \in Polls :
            Announcing(poll'[r]) /\ Announcing(poll'[o]) /\ poll'[r].now = poll'[o].now => r = o
      BY <1>5, <2>1, <3>1 DEF IInv, OneClaim
    <3>4. QED
      BY <3>2, <3>3 DEF OneClaim, Announcing
  <2>6. QED
    BY <2>2, <2>3, <2>4, <2>5
<1>6. QED
  BY <1>4, <1>5 DEF Continued

\* An action that leaves the ledger, the calls and the rows' tokens alone and
\* changes the row of a relay under way.
LEMMA RelayStep ==
  ASSUME IInv, NEW s \in Sigs, relay[s] # Idle, NEW status \in Settled \cup {"dcc_minted"},
         UNCHANGED <<deposits, poll, relays, mints, processed>>,
         transfers' = [transfers EXCEPT ![s].status = status],
         relay' \in [Sigs -> Relay], \A t \in Sigs \ {s} : relay'[t] = relay[t],
         \A x \in utx' : x \in utx \/ x[1] = s
  PROVE  ListsOnLedger' /\ RowsOnLedger' /\ OneClaim' /\ OneRelay' /\ OneMint'
<1>1. transfers \in [Sigs -> Row] /\ relays[s] = 1
  BY DEF IInv, TypeOK, OneRelay
<1>2. /\ \A t \in Sigs : transfers'[t].token = transfers[t].token
      /\ \A t \in Sigs \ {s} : transfers'[t] = transfers[t]
      /\ transfers'[s].status = status
  BY <1>1 DEF Row
<1>3. transfers[s].status \notin {"none", "pending"} /\ status \notin {"none", "pending"}
  BY <1>1 DEF IInv, OneRelay, Settled
<1>4. \A t, token : OnLedger(t, token)' <=> OnLedger(t, token)
  BY DEF OnLedger
<1>5. ListsOnLedger' /\ RowsOnLedger'
  BY <1>2, <1>3, <1>4 DEF IInv, ListsOnLedger, RowsOnLedger
<1>6. OneClaim'
  <2>1. \A p \in Polls : Announcing(poll[p]) => poll[p].now \in Sigs \ {s}
    BY <1>3, ListFields DEF IInv, TypeOK, OneClaim, Listing
  <2>2. QED
    BY <1>2, <2>1 DEF IInv, OneClaim
<1>7. OneRelay'
  BY <1>1, <1>2, <1>3 DEF IInv, OneRelay
<1>8. OneMint'
  BY <1>2 DEF IInv, OneMint
<1>9. QED
  BY <1>5, <1>6, <1>7, <1>8

\* A call that has no list any more claims nothing.
LEMMA QuietStep ==
  ASSUME IInv, TypeOK', NEW p \in Polls,
         \A r \in Polls : (r = p /\ ~ Listing(poll'[r])) \/ poll'[r] = poll[r],
         UNCHANGED <<deposits, transfers, relay, relays, utx, mints, processed>>
  PROVE  IInv'
<1>1. ListsOnLedger'
  BY DEF IInv, ListsOnLedger, OnLedger, Listing, Announcing
<1>2. OneClaim'
  <2>1. \A r \in Polls : Announcing(poll'[r]) => Announcing(poll[r]) /\ poll'[r] = poll[r]
    BY DEF Listing
  <2>2. QED
    BY <2>1 DEF IInv, OneClaim, Announcing
<1>3. RowsOnLedger' /\ OneRelay' /\ OneMint'
  BY DEF IInv, RowsOnLedger, OnLedger, OneRelay, OneMint
<1>4. QED
  BY <1>1, <1>2, <1>3 DEF IInv

LEMMA NextInv == IInv /\ [Next]_vars => IInv'
<1> SUFFICES ASSUME IInv, [Next]_vars PROVE IInv'
  OBVIOUS
<1>0. TypeOK /\ TypeOK'
  BY NextType DEF IInv
<1> USE DEF chains
<1>1. ASSUME NEW u \in Users, NEW carried \in SUBSET Tokens, Transact(u, carried)
      PROVE  IInv'
  <2>1. \A s \in Sigs : \A token : OnLedger(s, token) => OnLedger(s, token)'
    BY <1>0, <1>1, LedgerGrows
  <2>2. ListsOnLedger' /\ RowsOnLedger'
    <3>1. \A p \in Polls : Listing(poll[p]) => \A t \in poll[p].todo : t.sig \in Sigs
      BY <1>0, ListFields DEF TypeOK, Transfer
    <3>2. QED
      BY <1>1, <2>1, <3>1 DEF Transact, IInv, ListsOnLedger, RowsOnLedger
  <2>3. OneClaim' /\ OneRelay' /\ OneMint'
    BY <1>1 DEF Transact, IInv, OneClaim, OneRelay, OneMint
  <2>4. QED
    BY <1>0, <2>2, <2>3 DEF IInv
<1>2. ASSUME NEW x \in utx, Mine(x) PROVE IInv'
  <2>1. x[1] \in Sigs /\ relays[x[1]] = 1 /\ transferId(x[1], x[2]) = x[1]
    BY <1>0 DEF TypeOK, IInv, OneRelay, transferId
  <2>2. ListsOnLedger' /\ RowsOnLedger' /\ OneClaim'
    BY <1>2 DEF Mine, IInv, ListsOnLedger, RowsOnLedger, OneClaim, OnLedger
  <2>3. OneRelay'
    BY <1>2 DEF Mine, IInv, OneRelay
  <2>4. OneMint'
    <3>1. CASE UNCHANGED <<processed, mints>>
      BY <1>2, <3>1 DEF Mine, IInv, OneMint
    <3>2. CASE /\ x[1] \notin processed /\ processed' = processed \cup {x[1]}
               /\ mints' = [mints EXCEPT ![x[1]] = Append(@, transfers[x[1]].token)]
      <4>1. mints[x[1]] = <<>>
        BY <2>1, <3>2 DEF IInv, OneMint
      <4>2. /\ mints'[x[1]] = <<transfers[x[1]].token>>
            /\ \A s \in Sigs : s # x[1] => mints'[s] = mints[s]
        BY <1>0, <2>1, <3>2, <4>1 DEF TypeOK
      <4>3. transfers' = transfers /\ relays' = relays
        BY <1>2 DEF Mine
      <4>4. QED
        BY <2>1, <3>2, <4>2, <4>3 DEF IInv, OneMint
    <3>3. QED
      BY <1>2, <2>1, <3>1, <3>2 DEF Mine
  <2>5. QED
    BY <1>0, <2>2, <2>3, <2>4 DEF IInv
<1>3. ASSUME NEW p \in Polls, NEW u \in Users, pollSolanaUser(p, u) PROVE IInv'
  <2>1. \A r \in Polls : (r = p /\ ~ Listing(poll'[r])) \/ poll'[r] = poll[r]
    BY <1>0, <1>3 DEF pollSolanaUser, TypeOK, Listing, Announcing
  <2>2. QED
    BY <1>0, <1>3, <2>1, QuietStep DEF pollSolanaUser
<1>4. ASSUME NEW p \in Polls, scanIncoming(p) PROVE IInv'
  <2>1. PICK q : q = poll[p] /\ q.pc \in {"spl", "sol"}
    BY <1>4 DEF scanIncoming
  <2>2. CASE poll' = [poll EXCEPT ![p] = Idle]
    <3>1. \A r \in Polls : (r = p /\ ~ Listing(poll'[r])) \/ poll'[r] = poll[r]
      BY <1>0, <2>2 DEF TypeOK, Listing, Announcing, Idle
    <3>2. QED
      BY <1>0, <1>4, <3>1, QuietStep DEF scanIncoming
  <2>3. ASSUME NEW readable \in SUBSET Recent(q.user),
               poll' = [poll EXCEPT ![p] =
                 [pc |-> IF q.pc = "spl" THEN "list_spl" ELSE "list_sol", user |-> q.user,
                  since |-> q.since, todo |-> Listed(q.pc, readable)]]
        PROVE  IInv'
    <3>1. \A t \in Listed(q.pc, readable) : OnLedger(t.sig, t.token)
      <4>1. readable \subseteq 1..Len(deposits)
        BY DEF Recent
      <4>2. \A t \in Listed(q.pc, readable) : t.sig \in readable /\ t.token \in deposits[t.sig].tokens
        BY DEF Listed
      <4>3. QED
        BY <4>1, <4>2 DEF OnLedger
    <3>2. /\ ~ Announcing(poll'[p]) /\ poll'[p].todo = Listed(q.pc, readable)
          /\ \A r \in Polls \ {p} : poll'[r] = poll[r]
      BY <1>0, <2>1, <2>3 DEF TypeOK, Announcing
    <3>3. UNCHANGED <<deposits, transfers, relay, relays, utx, mints, processed>>
      BY <1>4 DEF scanIncoming
    <3>4. ListsOnLedger'
      BY <3>1, <3>2, <3>3 DEF IInv, ListsOnLedger, OnLedger, Listing, Announcing
    <3>5. OneClaim'
      BY <3>2, <3>3 DEF IInv, OneClaim, Announcing
    <3>6. RowsOnLedger' /\ OneRelay' /\ OneMint'
      BY <3>3 DEF IInv, RowsOnLedger, OnLedger, OneRelay, OneMint
    <3>7. QED
      BY <1>0, <3>4, <3>5, <3>6 DEF IInv
  <2>4. \/ \E unreadable \in SUBSET {s \in Recent(q.user) : s > q.since} :
             poll' = [poll EXCEPT ![p] =
               [pc |-> IF q.pc = "spl" THEN "list_spl" ELSE "list_sol", user |-> q.user,
                since |-> q.since,
                todo |-> Listed(q.pc, {s \in Recent(q.user) : s > q.since} \ unreadable)]]
        \/ poll' = [poll EXCEPT ![p] = Idle]
    BY <1>4, <2>1, Zenon DEF scanIncoming
  <2>5. \A unreadable : {s \in Recent(q.user) : s > q.since} \ unreadable \in SUBSET Recent(q.user)
    OBVIOUS
  <2>6. QED
    BY <2>2, <2>3, <2>4, <2>5, Zenon
<1>5. ASSUME NEW p \in Polls, Scanned(p) PROVE IInv'
  <2>1. Listing(poll[p]) /\ Continued(p, poll[p].todo, transfers) /\ transfers \in [Sigs -> Row]
    BY <1>0, <1>5, ScannedContinues DEF TypeOK
  <2>2. UNCHANGED <<deposits, relay, relays, utx, mints, processed>>
    BY <1>5 DEF Scanned
  <2>3. PICK rows \in [Sigs -> Row] : rows = transfers
    BY <2>1
  <2>4. /\ ListsOnLedger' /\ RowsOnLedger' /\ OneClaim'
        /\ \A s \in Sigs :
             transfers'[s] = transfers[s]
               \/ (transfers[s].status = "none" /\ transfers'[s].status = "pending")
    BY <2>1, <2>2, <2>3, ContinuedInv
  <2>5. OneRelay'
    BY <2>2, <2>4 DEF IInv, OneRelay
  <2>6. OneMint'
    BY <2>2, <2>4 DEF IInv, OneRelay, OneMint
  <2>7. QED
    BY <1>0, <2>4, <2>5, <2>6 DEF IInv
<1>6. ASSUME NEW p \in Polls, Announced(p), CanRelay PROVE IInv'
  <2>0. Effects(p)
    BY <1>0, <1>6, AnnouncedEffects
  <2>1. /\ Announcing(poll[p]) /\ Listing(poll[p]) /\ poll[p].now \in Sigs
        /\ Continued(p, poll[p].todo, Released(p)) /\ transfers[poll[p].now].status = "pending"
    BY <1>0, <1>6, AnnouncedContinues, ListFields DEF TypeOK, Listing, IInv, OneClaim
  <2>2. UNCHANGED <<deposits, utx, mints, processed>>
    BY <1>6 DEF Announced
  <2>3. PICK rows : rows = Released(p)
    OBVIOUS
  <2>4. PICK now \in Sigs : now = poll[p].now
    BY <2>1
  <2>5. /\ rows \in [Sigs -> Row] /\ rows[now].status = "sol_confirmed"
        /\ \A s \in Sigs : rows[s].token = transfers[s].token
        /\ \A s \in Sigs \ {now} : rows[s] = transfers[s]
    <3>1. rows = [transfers EXCEPT ![now].status = "sol_confirmed"]
      BY <1>0, <1>6, <2>3, <2>4, <2>0 DEF Effects
    <3>2. transfers \in [Sigs -> [status: Statuses, token: Tokens]]
      BY <1>0 DEF TypeOK, Row
    <3>3. QED
      BY <3>1, <3>2 DEF Row, Statuses
  <2>6. /\ ListsOnLedger' /\ RowsOnLedger' /\ OneClaim'
        /\ \A s \in Sigs :
             transfers'[s] = rows[s] \/ (rows[s].status = "none" /\ transfers'[s].status = "pending")
    BY <2>1, <2>2, <2>3, <2>4, <2>5, ContinuedInv
  <2>7. /\ relays'[now] = relays[now] + 1 /\ \A s \in Sigs \ {now} : relays'[s] = relays[s]
        /\ \A s \in Sigs \ {now} : relay'[s] = relay[s]
    BY <1>0, <1>6, <2>4, <2>0 DEF Effects, TypeOK
  <2>8. relays[now] = 0
    BY <2>1, <2>4 DEF IInv, OneRelay
  <2>9. OneRelay'
    <3>1. \A s \in Sigs : relays'[s] \in {0, 1}
      BY <2>7, <2>8 DEF IInv, OneRelay
    <3>2. \A s \in Sigs : transfers'[s].status \in {"none", "pending"} => relays'[s] = 0
      <4>1. transfers'[now].status = "sol_confirmed"
        BY <2>5, <2>6
      <4>2. QED
        BY <2>5, <2>6, <2>7, <4>1 DEF IInv, OneRelay
    <3>3. \A s \in Sigs : relay'[s] # Idle => relays'[s] = 1
      BY <2>7, <2>8 DEF IInv, OneRelay
    <3>4. \A x \in utx : x[1] \in Sigs /\ relays[x[1]] = 1
      BY <1>0 DEF IInv, OneRelay, TypeOK
    <3>5. \A x \in utx' : relays'[x[1]] = 1
      BY <2>2, <2>7, <2>8, <3>4
    <3>6. QED
      BY <3>1, <3>2, <3>3, <3>5 DEF OneRelay
  <2>10. OneMint'
    BY <2>2, <2>5, <2>6, <2>7, <2>8 DEF IInv, OneRelay, OneMint
  <2>11. QED
    BY <1>0, <2>6, <2>9, <2>10 DEF IInv
<1>12. ASSUME NEW p \in Polls, Announced(p), ~ CanRelay PROVE IInv'
  <2>1. Listing(poll[p]) /\ Continued(p, poll[p].todo, transfers) /\ transfers \in [Sigs -> Row]
    BY <1>0, <1>12, AnnouncedContinues DEF TypeOK, Released, Listing
  <2>2. UNCHANGED <<deposits, relay, relays, utx, mints, processed>>
    BY <1>12 DEF Announced
  <2>3. PICK rows \in [Sigs -> Row] : rows = transfers
    BY <2>1
  <2>4. /\ ListsOnLedger' /\ RowsOnLedger' /\ OneClaim'
        /\ \A s \in Sigs :
             transfers'[s] = transfers[s]
               \/ (transfers[s].status = "none" /\ transfers'[s].status = "pending")
    BY <2>1, <2>2, <2>3, ContinuedInv
  <2>5. OneRelay'
    BY <2>2, <2>4 DEF IInv, OneRelay
  <2>6. OneMint'
    BY <2>2, <2>4 DEF IInv, OneRelay, OneMint
  <2>7. QED
    BY <1>0, <2>4, <2>5, <2>6 DEF IInv
<1>7. ASSUME NEW s \in Sigs, mintCall(s) PROVE IInv'
  <2>1. relay[s] # Idle
    BY <1>7 DEF mintCall, Idle
  <2>2. \A t \in Sigs \ {s} : relay'[t] = relay[t]
    BY <1>0, <1>7 DEF mintCall, Retry, TypeOK
  <2>3. \A x \in utx' : x \in utx \/ x[1] = s
    BY <1>7 DEF mintCall
  <2>4. CASE UNCHANGED transfers
    <3>1. relays[s] = 1
      BY <2>1 DEF IInv, OneRelay
    <3>2. UNCHANGED <<deposits, poll, relays, mints, processed>>
      BY <1>7 DEF mintCall
    <3>3. OneRelay'
      BY <2>2, <2>3, <2>4, <3>1, <3>2 DEF IInv, OneRelay
    <3>4. QED
      BY <1>0, <2>4, <3>2, <3>3 DEF IInv, ListsOnLedger, RowsOnLedger, OnLedger, OneClaim, OneMint
  <2>5. ASSUME NEW status \in Settled \cup {"dcc_minted"},
               transfers' = [transfers EXCEPT ![s].status = status]
        PROVE  IInv'
    BY <1>0, <1>7, <2>1, <2>2, <2>3, <2>5, RelayStep DEF mintCall, IInv, TypeOK
  <2>6. QED
    BY <1>7, <2>4, <2>5 DEF mintCall, Retry, Settled
<1>8. ASSUME NEW s \in Sigs, waitForTx(s) PROVE IInv'
  <2>1. PICK status \in Settled : transfers' = [transfers EXCEPT ![s].status = status]
    BY <1>8 DEF waitForTx, Settled
  <2>2. \A t \in Sigs \ {s} : relay'[t] = relay[t]
    BY <1>0, <1>8 DEF waitForTx, TypeOK
  <2>3. relay[s] # Idle
    BY <1>8 DEF waitForTx, Idle
  <2>4. QED
    BY <1>0, <1>8, <2>1, <2>2, <2>3, RelayStep DEF waitForTx, IInv, TypeOK
<1>9. ASSUME Restart PROVE IInv'
  <2>1. /\ UNCHANGED <<deposits, transfers, relays, mints, processed>>
        /\ poll' = [p \in Polls |-> Idle] /\ relay' = [s \in Sigs |-> Idle]
    BY <1>9 DEF Restart
  <2>2. \A x \in utx' : relays[x[1]] = 1
    <3>1. PICK sent \in SUBSET {s \in Sigs : relay[s].pc = "calling"} :
            utx' = utx \cup {<<s, relay[s].attempt>> : s \in sent}
      BY <1>9 DEF Restart
    <3>2. \A s \in sent : relays[s] = 1
      BY <3>1 DEF IInv, OneRelay, Idle
    <3>3. QED
      BY <3>1, <3>2 DEF IInv, OneRelay
  <2>3. ListsOnLedger' /\ OneClaim'
    BY <2>1 DEF ListsOnLedger, OneClaim, Listing, Announcing, Idle
  <2>4. RowsOnLedger' /\ OneRelay' /\ OneMint'
    BY <2>1, <2>2 DEF IInv, RowsOnLedger, OnLedger, OneRelay, OneMint
  <2>5. QED
    BY <1>0, <2>3, <2>4 DEF IInv
<1>10. CASE UNCHANGED vars
  BY <1>0, <1>10 DEF vars, IInv, ListsOnLedger, RowsOnLedger, OneClaim, OneRelay, OneMint, OnLedger
<1>11. QED
  BY <1>1, <1>2, <1>3, <1>4, <1>5, <1>6, <1>7, <1>8, <1>9, <1>10, <1>12 DEF Next

-----------------------------------------------------------------------------
(* What follows from it.                                                   *)

LEMMA RelayedMinted == IInv => RelayedOnce /\ MintedOnce
<1> SUFFICES ASSUME IInv PROVE RelayedOnce /\ MintedOnce
  OBVIOUS
<1>1. RelayedOnce
  BY DEF IInv, OneRelay, RelayedOnce
<1>2. ASSUME NEW s \in Sigs
      PROVE  /\ Len(mints[s]) <= relays[s] /\ Len(mints[s]) <= 1
             /\ \A n \in DOMAIN mints[s] :
                  mints[s][n] = transfers[s].token /\ mints[s][n] \in deposits[s].tokens
  <2>1. relays[s] \in {0, 1}
    BY DEF IInv, OneRelay
  <2>2. CASE mints[s] = <<>>
    BY <2>1, <2>2
  <2>3. CASE relays[s] = 1 /\ mints[s] = <<transfers[s].token>>
    <3>1. transfers[s].status # "none"
      BY <2>3 DEF IInv, OneRelay
    <3>2. transfers[s].token \in deposits[s].tokens
      BY <3>1 DEF IInv, RowsOnLedger, OnLedger
    <3>3. QED
      BY <2>3, <3>2
  <2>4. QED
    BY <2>2, <2>3 DEF IInv, OneMint
<1>3. QED
  BY <1>1, <1>2 DEF MintedOnce

\* However many calls of pollSolanaUser overlap and however often the bot is
\* restarted, recordDeposit lets a deposit be relayed at most once.
THEOREM RelaysOnce == Spec => []RelayedOnce
BY InitInv, NextInv, RelayedMinted, PTL DEF Spec

\* For any number of attempts, of lost answers and of late invocations, the
\* controller mints a deposit at most once, and in a token it carried.
THEOREM MintsOnce == Spec => []MintedOnce
BY InitInv, NextInv, RelayedMinted, PTL DEF Spec

LEMMA NextComplete == TypeOK /\ CompleteIsOnChain /\ [Next]_vars => CompleteIsOnChain'
<1> SUFFICES ASSUME TypeOK, CompleteIsOnChain, [Next]_vars PROVE CompleteIsOnChain'
  OBVIOUS
<1>1. onchain \subseteq onchain'
  BY DEF Next, vars, chains, Transact, Mine, pollSolanaUser, scanIncoming, Scanned, Announced,
         mintCall, waitForTx, Restart
<1>2. \A s \in Sigs : transfers'[s].status = "complete" =>
        transfers[s].status = "complete" \/ \E n \in Attempts : <<s, n>> \in onchain
  <2>1. ASSUME NEW p \in Polls, NEW todo, NEW rows,
               \A s \in Sigs : rows[s].status = "complete" => transfers[s].status = "complete",
               rows \in [Sigs -> Row], todo \in SUBSET Transfer, Continued(p, todo, rows)
        PROVE  \A s \in Sigs :
                 transfers'[s].status = "complete" => transfers[s].status = "complete"
    <3>1. CASE transfers' = rows
      BY <2>1, <3>1
    <3>2. ASSUME NEW t \in todo,
                 transfers' = [rows EXCEPT ![t.sig] = [status |-> "pending", token |-> t.token]]
          PROVE  \A s \in Sigs :
                   transfers'[s].status = "complete" => transfers[s].status = "complete"
      BY <2>1, <3>2
    <3>3. QED
      BY <2>1, <3>1, <3>2 DEF Continued
  <2>2. ASSUME NEW p \in Polls, Scanned(p)
        PROVE  \A s \in Sigs :
                 transfers'[s].status = "complete" => transfers[s].status = "complete"
    <3>1. Continued(p, poll[p].todo, transfers) /\ poll[p].todo \in SUBSET Transfer
      BY <2>2, ScannedContinues, ListFields DEF TypeOK
    <3>2. QED
      BY <2>1, <3>1 DEF TypeOK
  <2>3. ASSUME NEW p \in Polls, Announced(p)
        PROVE  \A s \in Sigs :
                 transfers'[s].status = "complete" => transfers[s].status = "complete"
    <3>0. Effects(p)
      BY <2>3, AnnouncedEffects
    <3>1. /\ Continued(p, poll[p].todo, Released(p)) /\ poll[p].todo \in SUBSET Transfer
          /\ poll[p].now \in Sigs
      BY <2>3, AnnouncedContinues, ListFields DEF TypeOK, Listing
    <3>2. /\ Released(p) \in [Sigs -> Row]
          /\ \A s \in Sigs :
               Released(p)[s].status = "complete" => transfers[s].status = "complete"
      <4>1. CASE CanRelay
        <5>1. transfers \in [Sigs -> [status: Statuses, token: Tokens]]
          BY DEF TypeOK, Row
        <5>2. Released(p) = [transfers EXCEPT ![poll[p].now].status = "sol_confirmed"]
          BY <3>0, <4>1 DEF Effects
        <5>3. QED
          BY <3>1, <5>1, <5>2 DEF Row, Statuses
      <4>2. CASE ~ CanRelay
        BY <4>2, <3>0 DEF Effects, TypeOK
      <4>3. QED
        BY <4>1, <4>2
    <3>3. QED
      BY <2>1, <3>1, <3>2
  <2>4. ASSUME NEW s \in Sigs, mintCall(s)
        PROVE  \A t \in Sigs :
                 transfers'[t].status = "complete" => transfers[t].status = "complete"
    BY <2>4 DEF mintCall, Retry, TypeOK, Row
  <2>5. ASSUME NEW s \in Sigs, waitForTx(s)
        PROVE  \A t \in Sigs : transfers'[t].status = "complete" =>
                 transfers[t].status = "complete" \/ \E n \in Attempts : <<t, n>> \in onchain
    <3>1. relay[s].attempt \in Attempts
      BY <2>5 DEF waitForTx, TypeOK, Relay, Idle
    <3>2. transfers \in [Sigs -> Row]
      BY DEF TypeOK
    <3>3. \/ /\ <<s, relay[s].attempt>> \in onchain
             /\ transfers' = [transfers EXCEPT ![s].status = "complete"]
          \/ transfers' = [transfers EXCEPT ![s].status = "pending_confirmation"]
      BY <2>5 DEF waitForTx
    <3>4. \A t \in Sigs \ {s} : transfers'[t] = transfers[t]
      BY <3>2, <3>3
    <3>5. transfers'[s].status = "complete" => <<s, relay[s].attempt>> \in onchain
      BY <3>2, <3>3 DEF Row
    <3>6. QED
      BY <3>1, <3>4, <3>5
  <2>6. CASE UNCHANGED transfers
    BY <2>6
  <2>7. QED
    BY <2>2, <2>3, <2>4, <2>5, <2>6
    DEF Next, vars, chains, Transact, Mine, pollSolanaUser, scanIncoming, Restart
<1>3. QED
  BY <1>1, <1>2 DEF CompleteIsOnChain

\* A row is complete only with an invocation for it on the chain, whatever the
\* number of attempts and of restarts: relaySolToDcc never counts a timeout.
THEOREM CompletesOnChain == Spec => []CompleteIsOnChain
<1>1. Init => CompleteIsOnChain
  BY DEF Init, CompleteIsOnChain
<1>2. QED
  BY InitType, NextType, <1>1, NextComplete, PTL DEF Spec

-----------------------------------------------------------------------------
(* Who drives a row.                                                       *)

Driven(s) ==
  \/ transfers[s].status \in Settled \cup {"none"}
  \/ relay[s] # Idle
  \/ \E p \in Polls : Announcing(poll[p]) /\ poll[p].now = s
  \/ ~ CanRelay /\ transfers[s].status = "pending" /\ relays[s] = 0

\* A step that changes neither rows nor relays, nor a call that announces.
LEMMA DrivenKept ==
  ASSUME UNCHANGED <<config, transfers, relay, relays>>, NEW s \in Sigs, Driven(s),
         \A p \in Polls : Announcing(poll[p]) => poll'[p] = poll[p]
  PROVE  Driven(s)'
BY DEF Driven, Announcing, CanRelay

\* Going on with a list leaves a new row to the announcement of the same call.
LEMMA DrivenContinued ==
  ASSUME TypeOK, NEW p \in Polls, NEW todo \in SUBSET Transfer, NEW rows \in [Sigs -> Row],
         UNCHANGED config, Continued(p, todo, rows), NEW s \in Sigs,
         \/ rows[s].status \in Settled \cup {"none"}
         \/ relay'[s] # Idle
         \/ \E r \in Polls \ {p} : Announcing(poll[r]) /\ poll[r].now = s
         \/ ~ CanRelay /\ rows[s].status = "pending" /\ relays'[s] = 0
  PROVE  Driven(s)'
<1>1. \A r \in Polls \ {p} : poll'[r] = poll[r]
  BY DEF Continued, TypeOK
<1>2. CASE transfers'[s] = rows[s]
  BY <1>1, <1>2 DEF Driven, Announcing, CanRelay
<1>3. ASSUME NEW t \in todo, NEW x \in Poll, Announcing(x), x.now = t.sig,
             transfers' = [rows EXCEPT ![t.sig] = [status |-> "pending", token |-> t.token]],
             poll' = [poll EXCEPT ![p] = x]
      PROVE  Driven(s)'
  <2>1. CASE t.sig = s
    <3>1. poll'[p] = x
      BY <1>3 DEF TypeOK
    <3>2. QED
      BY <1>3, <2>1, <3>1 DEF Driven, Announcing
  <2>2. CASE t.sig # s
    BY <1>2, <1>3, <2>2
  <2>3. QED
    BY <2>1, <2>2
<1>4. QED
  BY <1>2, <1>3 DEF Continued

LEMMA DrivenNext ==
  ASSUME IInv, [Next]_vars, crashes' = 0, NEW s \in Sigs, Driven(s)
  PROVE  Driven(s)'
<1>0. TypeOK /\ crashes \in Nat
  BY BotDepositsAssumption DEF IInv, TypeOK
<1>1. CASE \/ \E u \in Users, carried \in SUBSET Tokens : Transact(u, carried)
           \/ \E x \in utx : Mine(x)
           \/ UNCHANGED vars
  BY <1>1, DrivenKept DEF Transact, Mine, vars, chains
<1>2. ASSUME NEW p \in Polls, NEW u \in Users, pollSolanaUser(p, u) PROVE Driven(s)'
  <2>1. ~ Announcing(poll[p]) /\ \A r \in Polls \ {p} : poll'[r] = poll[r]
    BY <1>0, <1>2 DEF pollSolanaUser, TypeOK, Announcing, Idle
  <2>2. QED
    BY <1>2, <2>1, DrivenKept DEF pollSolanaUser
<1>3. ASSUME NEW p \in Polls, scanIncoming(p) PROVE Driven(s)'
  <2>1. ~ Announcing(poll[p]) /\ \A r \in Polls \ {p} : poll'[r] = poll[r]
    BY <1>0, <1>3 DEF scanIncoming, TypeOK, Announcing
  <2>2. QED
    BY <1>3, <2>1, DrivenKept DEF scanIncoming
<1>4. ASSUME NEW p \in Polls, Scanned(p) PROVE Driven(s)'
  <2>1. /\ Continued(p, poll[p].todo, transfers) /\ poll[p].todo \in SUBSET Transfer
        /\ transfers \in [Sigs -> Row]
    BY <1>0, <1>4, ScannedContinues, ListFields DEF TypeOK
  <2>2. ~ Announcing(poll[p]) /\ UNCHANGED <<config, relay, relays>>
    BY <1>4 DEF Scanned, Announcing
  <2>3. \/ transfers[s].status \in Settled \cup {"none"} \/ relay'[s] # Idle
        \/ \E r \in Polls \ {p} : Announcing(poll[r]) /\ poll[r].now = s
        \/ ~ CanRelay /\ transfers[s].status = "pending" /\ relays'[s] = 0
    BY <2>2 DEF Driven
  <2>4. QED
    BY <1>0, <2>1, <2>2, <2>3, DrivenContinued
<1>5. ASSUME NEW p \in Polls, Announced(p) PROVE Driven(s)'
  <2>0. Effects(p)
    BY <1>0, <1>5, AnnouncedEffects
  <2>1. /\ Continued(p, poll[p].todo, Released(p)) /\ poll[p].todo \in SUBSET Transfer
        /\ poll[p].now \in Sigs /\ Announcing(poll[p])
    BY <1>0, <1>5, AnnouncedContinues, ListFields DEF TypeOK, Listing
  <2>2. /\ Released(p) \in [Sigs -> Row] /\ UNCHANGED config
        /\ s # poll[p].now => Released(p)[s] = transfers[s]
    <3>1. UNCHANGED config
      BY <1>5 DEF Announced
    <3>2. CASE CanRelay
      <4>1. transfers \in [Sigs -> [status: Statuses, token: Tokens]]
        BY <1>0 DEF TypeOK, Row
      <4>2. Released(p) = [transfers EXCEPT ![poll[p].now].status = "sol_confirmed"]
        BY <2>0, <3>2 DEF Effects
      <4>3. QED
        BY <2>1, <3>1, <4>1, <4>2 DEF Row, Statuses
    <3>3. CASE ~ CanRelay
      BY <1>0, <3>1, <3>3, <2>0 DEF Effects, TypeOK
    <3>4. QED
      BY <3>2, <3>3
  <2>3. s # poll[p].now => relay'[s] = relay[s] /\ relays'[s] = relays[s]
    <3>1. CASE CanRelay
      <4>1. relay \in [Sigs -> Relay] /\ relays \in [Sigs -> Nat]
        BY <1>0 DEF TypeOK
      <4>2. /\ relay' = [relay EXCEPT ![poll[p].now] = [pc |-> "calling", attempt |-> 1]]
            /\ relays' = [relays EXCEPT ![poll[p].now] = @ + 1]
        BY <3>1, <2>0 DEF Effects
      <4>3. QED
        BY <2>1, <4>1, <4>2
    <3>2. CASE ~ CanRelay
      BY <3>2, <2>0 DEF Effects
    <3>3. QED
      BY <3>1, <3>2
  <2>4. CASE s = poll[p].now /\ CanRelay
    <3>1. relay'[s] # Idle
      BY <1>0, <1>5, <2>4 DEF Announced, TypeOK, Idle
    <3>2. QED
      BY <1>0, <2>1, <2>2, <3>1, DrivenContinued
  <2>5. CASE s = poll[p].now /\ ~ CanRelay
    <3>1. transfers[s].status = "pending" /\ relays[s] = 0
      BY <2>1, <2>5 DEF IInv, OneClaim, OneRelay
    <3>2. Released(p)[s].status = "pending" /\ relays'[s] = 0
      BY <1>5, <2>5, <3>1 DEF Announced, Released
    <3>3. QED
      BY <1>0, <2>1, <2>2, <2>5, <3>2, DrivenContinued
  <2>6. CASE s # poll[p].now
    <3>1. \/ Released(p)[s].status \in Settled \cup {"none"} \/ relay'[s] # Idle
          \/ \E r \in Polls \ {p} : Announcing(poll[r]) /\ poll[r].now = s
          \/ ~ CanRelay /\ Released(p)[s].status = "pending" /\ relays'[s] = 0
      BY <2>2, <2>3, <2>6 DEF Driven
    <3>2. QED
      BY <1>0, <2>1, <2>2, <3>1, DrivenContinued
  <2>7. QED
    BY <2>4, <2>5, <2>6
<1>6. ASSUME NEW t \in Sigs, mintCall(t) \/ waitForTx(t) PROVE Driven(s)'
  <2>1. poll' = poll /\ relay[t] # Idle /\ UNCHANGED <<config, relays>>
    BY <1>6 DEF mintCall, waitForTx, Idle
  <2>2. s # t => relay'[s] = relay[s] /\ transfers'[s] = transfers[s]
    BY <1>0, <1>6 DEF mintCall, waitForTx, Retry, TypeOK
  <2>3. relay'[t] # Idle \/ transfers'[t].status \in Settled
    <3>1. relay[t] \in [pc: {"calling", "confirming"}, attempt: Attempts]
      BY <1>0, <2>1 DEF TypeOK, Relay
    <3>2. /\ [relay[t] EXCEPT !.attempt = @ + 1] # Idle
          /\ [relay[t] EXCEPT !.pc = "confirming"] # Idle
      BY <3>1 DEF Idle
    <3>3. \A status : [transfers EXCEPT ![t].status = status][t].status = status
      BY <1>0 DEF TypeOK, Row
    <3>4. QED
      BY <1>0, <1>6, <3>2, <3>3 DEF mintCall, waitForTx, Retry, TypeOK, Settled
  <2>4. QED
    BY <2>1, <2>2, <2>3 DEF Driven, Announcing, CanRelay
<1>7. ASSUME Restart PROVE FALSE
  BY <1>0, <1>7 DEF Restart
<1>8. QED
  BY <1>1, <1>2, <1>3, <1>4, <1>5, <1>6, <1>7 DEF Next

\* Until the bot is restarted, a row that is not settled has a call that
\* announces it or a relay, for any number of calls, tokens and failures; only
\* where the bot has neither consensus nor a validator key it stays pending,
\* because relaySolToDcc throws before its first write.
THEOREM EveryRowIsDriven == Spec => []NobodyAbandonsARow
<1>1. NobodyAbandonsARow <=> (crashes = 0 => \A s \in Sigs : Driven(s))
  BY DEF NobodyAbandonsARow, Driven, Announcing
<1>2. Init => NobodyAbandonsARow
  BY DEF Init, NobodyAbandonsARow
<1>3. IInv /\ NobodyAbandonsARow /\ [Next]_vars => NobodyAbandonsARow'
  <2> SUFFICES ASSUME IInv, NobodyAbandonsARow, [Next]_vars, crashes' = 0
               PROVE  \A s \in Sigs : Driven(s)'
    BY DEF NobodyAbandonsARow, Driven, Announcing
  <2>1. crashes = 0
    <3>1. crashes \in Nat
      BY BotDepositsAssumption DEF IInv, TypeOK
    <3>2. crashes' = crashes \/ crashes' = crashes + 1
      BY DEF Next, vars, chains, Transact, Mine, pollSolanaUser, scanIncoming, Scanned,
         Announced, mintCall, waitForTx, Restart
    <3>3. QED
      BY <3>1, <3>2
  <2>2. QED
    BY <1>1, <2>1, DrivenNext
<1>4. QED
  BY <1>2, <1>3, InitInv, NextInv, PTL DEF Spec

-----------------------------------------------------------------------------
(* What the cursor leaves behind. Of the deposits the node still lists, a     *)
(* list tells of all it could see, and one that a cursor passed has a row,   *)
(* was overtaken, or is still seen by a call. What has left the node's list  *)
(* never comes back to it, so nothing is said of it.                         *)

Reachable(s) == deposits[s].tokens # {} /\ ~ PushedOut(s)
Quiet == faults = 0 /\ crashes = 0

HasRow(s) == transfers[s].status # "none"
Polled(q, s) == q # Idle /\ q.user = deposits[s].user
Carries(kind, s) == \E token \in deposits[s].tokens : (token = NativeSol) = (kind = "sol")
InHand(q, s) == \E t \in q.todo : t.sig = s
Ahead(q, s) == (\E t \in q.todo : s < t.sig) \/ (Announcing(q) /\ s < q.now)

Passed(s) ==
  \/ s <= solSlotMap[deposits[s].user]
  \/ \E p \in Polls : Polled(poll[p], s) /\ s <= poll[p].since
Covered(s) ==
  HasRow(s) \/ Overtaken(s) \/ \E p \in Polls : Sees(poll[p], s) /\ Polled(poll[p], s)

\* Cursors are on the ledger, and what a list announces is of its kind.
CursorsOnLedger ==
  /\ \A u \in Users : solSlotMap[u] <= Len(deposits)
  /\ \A p \in Polls : poll[p] # Idle => poll[p].since <= Len(deposits)
  /\ \A p \in Polls : Listing(poll[p]) =>
       \A t \in poll[p].todo :
         (t.token = NativeSol) = (Kind(poll[p]) = "sol") /\ deposits[t.sig].user = poll[p].user
  /\ \A p \in Polls : Announcing(poll[p]) =>
       Carries(Kind(poll[p]), poll[p].now) /\ deposits[poll[p].now].user = poll[p].user

\* Below what a list goes on with, nothing of its kind is missing.
ListsWhole ==
  \A p \in Polls, s \in 1..Len(deposits) :
    (/\ Reachable(s) /\ Listing(poll[p]) /\ Polled(poll[p], s) /\ poll[p].since < s
     /\ Carries(Kind(poll[p]), s) /\ Ahead(poll[p], s))
      => HasRow(s) \/ InHand(poll[p], s)

PassedCovered == \A s \in 1..Len(deposits) : Reachable(s) /\ Passed(s) => Covered(s)

CursorInv == CursorsOnLedger /\ (Quiet => ListsWhole /\ PassedCovered)

\* The fields of a call that has begun.
LEMMA CallFields ==
  ASSUME TypeOK, NEW p \in Polls, poll[p] # Idle
  PROVE  poll[p].user \in Users /\ poll[p].since \in 0..MaxDeposits
BY DEF TypeOK, Poll

\* How a list goes on: a new row is of the list, nothing before it is dropped,
\* and what the call saw it still sees, or has given a row.
LEMMA ContinueKeeps ==
  ASSUME NEW p \in Polls, poll \in [Polls -> Poll], Listing(poll[p]),
         NEW rows \in [Sigs -> Row],
         \A s \in Sigs : rows[s].status = "none" <=> transfers[s].status = "none",
         Continue(p, Kind(poll[p]), poll[p], poll[p].todo, rows)
  PROVE  /\ \A r \in Polls : r # p => poll'[r] = poll[r]
         /\ poll'[p] # Idle => poll'[p].user = poll[p].user /\ poll'[p].since = poll[p].since
         /\ Listing(poll'[p]) =>
              /\ Announcing(poll'[p]) /\ Kind(poll'[p]) = Kind(poll[p])
              /\ poll'[p].todo \subseteq poll[p].todo
              /\ \E t \in poll[p].todo : poll'[p].now = t.sig
         /\ \A s \in Sigs : HasRow(s) => HasRow(s)'
         /\ \A s \in Sigs : InHand(poll[p], s) =>
              HasRow(s)' \/ (Listing(poll'[p]) /\ InHand(poll'[p], s))
         /\ Kind(poll[p]) = "spl" => poll'[p].pc \in {"sol", "notify_spl"}
<1> DEFINE q == poll[p]
<1>1. /\ q \in Poll /\ q.pc \in {"list_spl", "list_sol", "notify_spl", "notify_sol"}
      /\ \A t \in q.todo : t \in Transfer /\ t.sig \in Sigs
  BY ListFields DEF Listing, Announcing, Transfer
<1>2. CASE /\ {t \in q.todo : IsNew(rows, t.sig)} = {}
           /\ transfers' = rows
           /\ poll' = [poll EXCEPT ![p] =
                IF Kind(q) = "spl" THEN [pc |-> "sol", user |-> q.user, since |-> q.since] ELSE Idle]
  <2>1. /\ poll'[p] = IF Kind(q) = "spl" THEN [pc |-> "sol", user |-> q.user, since |-> q.since] ELSE Idle
        /\ \A r \in Polls : r # p => poll'[r] = poll[r]
    BY <1>2
  <2>2. \A s \in Sigs : (InHand(q, s) => HasRow(s)') /\ (HasRow(s) => HasRow(s)')
    BY <1>1, <1>2 DEF InHand, HasRow, IsNew
  <2>3. ~ Listing(poll'[p])
    BY <2>1 DEF Listing, Announcing, Idle
  <2>4. /\ poll'[p] # Idle => poll'[p].user = q.user /\ poll'[p].since = q.since
        /\ Kind(q) = "spl" => poll'[p].pc \in {"sol", "notify_spl"}
    BY <2>1
  <2>5. QED
    BY <2>1, <2>2, <2>3, <2>4
<1>3. ASSUME NEW t \in q.todo, IsNew(rows, t.sig),
             \A r \in {r \in q.todo : IsNew(rows, r.sig)} : r.sig <= t.sig,
             transfers' = [rows EXCEPT ![t.sig] = [status |-> "pending", token |-> t.token]],
             poll' = [poll EXCEPT ![p] =
               [pc |-> IF Kind(q) = "spl" THEN "notify_spl" ELSE "notify_sol",
                user |-> q.user, since |-> q.since, now |-> t.sig,
                todo |-> {r \in q.todo : r.sig <= t.sig} \ {t}]]
      PROVE  /\ \A r \in Polls : r # p => poll'[r] = poll[r]
             /\ poll'[p] # Idle => poll'[p].user = q.user /\ poll'[p].since = q.since
             /\ Listing(poll'[p]) =>
                  /\ Announcing(poll'[p]) /\ Kind(poll'[p]) = Kind(q)
                  /\ poll'[p].todo \subseteq q.todo
                  /\ \E r \in q.todo : poll'[p].now = r.sig
             /\ \A s \in Sigs : HasRow(s) => HasRow(s)'
             /\ \A s \in Sigs : InHand(q, s) =>
                  HasRow(s)' \/ (Listing(poll'[p]) /\ InHand(poll'[p], s))
             /\ Kind(q) = "spl" => poll'[p].pc \in {"sol", "notify_spl"}
  <2> DEFINE pc == IF Kind(q) = "spl" THEN "notify_spl" ELSE "notify_sol"
             todo == {r \in q.todo : r.sig <= t.sig} \ {t}
  <2>1. /\ poll'[p].user = q.user /\ poll'[p].since = q.since /\ poll'[p].now = t.sig
        /\ poll'[p].pc = pc /\ poll'[p].todo = todo
        /\ \A r \in Polls : r # p => poll'[r] = poll[r]
    BY <1>3
  <2>2. /\ transfers'[t.sig].status = "pending"
        /\ \A s \in Sigs : s # t.sig => transfers'[s] = rows[s]
    BY <1>1, <1>3
  <2>3. \A s \in Sigs : HasRow(s) => HasRow(s)'
    BY <2>2 DEF HasRow
  <2>4. Announcing(poll'[p]) /\ Kind(poll'[p]) = Kind(q) /\ Listing(poll'[p])
    BY <2>1 DEF Announcing, Kind, Listing
  <2>5. ASSUME NEW s \in Sigs, InHand(q, s), ~ HasRow(s)'
        PROVE  InHand(poll'[p], s)
    <3>1. PICK r \in q.todo : r.sig = s
      BY <2>5 DEF InHand
    <3>2. s # t.sig /\ rows[s].status = "none"
      BY <1>1, <2>2, <2>5 DEF HasRow
    <3>3. r.sig <= t.sig /\ r # t
      BY <1>3, <3>1, <3>2 DEF IsNew
    <3>4. QED
      BY <2>1, <3>1, <3>3 DEF InHand
  <2>6. todo \subseteq q.todo
    OBVIOUS
  <2> HIDE DEF todo
  <2>7. QED
    BY <2>1, <2>3, <2>4, <2>5, <2>6
<1>4. QED
  BY <1>2, <1>3 DEF Continue

\* A kept ledger, kept rows and calls that still see what they saw.
LEMMA CoveredKept ==
  ASSUME deposits \in Seq([user: Users, tokens: SUBSET Tokens]), Len(deposits) <= Len(deposits'),
         Len(deposits') \in Nat,
         \A r \in 1..Len(deposits) : deposits'[r] = deposits[r],
         NEW s \in 1..Len(deposits), Covered(s), HasRow(s) => HasRow(s)',
         \A p \in Polls : Sees(poll[p], s) /\ Polled(poll[p], s) =>
            HasRow(s)' \/ (Sees(poll[p], s)' /\ Polled(poll[p], s)')
  PROVE  Covered(s)'
<1>1. Overtaken(s) => Overtaken(s)'
  <2>1. ASSUME NEW r \in s + 1 .. Len(deposits)
        PROVE  /\ r \in s + 1 .. Len(deposits') /\ deposits'[r] = deposits[r]
               /\ deposits'[s] = deposits[s]
    OBVIOUS
  <2>2. QED
    BY <2>1 DEF Overtaken
<1>2. QED
  BY <1>1 DEF Covered

\* Neither the ledger, the calls nor the cursors change, and no row goes away.
LEMMA CursorStutter ==
  ASSUME CursorInv, TypeOK, UNCHANGED <<deposits, poll, solSlotMap, faults, crashes>>,
         \A s \in Sigs : HasRow(s) => HasRow(s)'
  PROVE  CursorInv'
<1>1. CursorsOnLedger'
  BY DEF CursorInv, CursorsOnLedger, Carries
<1>2. Quiet' => Quiet
  BY DEF Quiet
<1>3. \A s \in 1..Len(deposits) : s \in Sigs /\ (HasRow(s) => HasRow(s)')
  BY BotDepositsAssumption DEF TypeOK, Sigs
<1>4. \A p \in Polls, s \in 1..Len(deposits) :
        /\ Polled(poll[p], s)' <=> Polled(poll[p], s)
        /\ Ahead(poll[p], s)' <=> Ahead(poll[p], s)
        /\ InHand(poll[p], s)' <=> InHand(poll[p], s)
        /\ Sees(poll[p], s)' <=> Sees(poll[p], s)
        /\ Carries(Kind(poll[p]), s)' <=> Carries(Kind(poll[p]), s)
  BY DEF Polled, Ahead, InHand, Sees, Carries, Announcing, Kind
<1>8. \A s \in 1..Len(deposits) : Reachable(s)' <=> Reachable(s)
  BY DEF Reachable, PushedOut, Recent
<1>5. ListsWhole => ListsWhole'
  BY <1>3, <1>4, <1>8 DEF ListsWhole, Listing, Announcing
<1>6. PassedCovered => PassedCovered'
  <2> SUFFICES ASSUME PassedCovered, NEW s \in 1..Len(deposits), Reachable(s)', Passed(s)'
               PROVE  Covered(s)'
    BY DEF PassedCovered
  <2>1. Passed(s)
    BY <1>4 DEF Passed
  <2>2. Covered(s)
    BY <1>8, <2>1 DEF PassedCovered
  <2>3. QED
    BY <1>3, <1>4, <2>2 DEF Covered, Overtaken
<1>7. QED
  BY <1>1, <1>2, <1>5, <1>6 DEF CursorInv

\* The ledger grows beyond all cursors.
LEMMA CursorDeposit ==
  ASSUME CursorInv, IInv, NEW u \in Users, NEW carried \in SUBSET Tokens, Transact(u, carried)
  PROVE  CursorInv'
<1>1. /\ deposits \in Seq([user: Users, tokens: SUBSET Tokens])
      /\ deposits' = Append(deposits, [user |-> u, tokens |-> carried])
      /\ UNCHANGED <<transfers, solSlotMap, poll, faults, crashes>>
      /\ TypeOK
  BY DEF Transact, IInv, TypeOK
<1>2. /\ Len(deposits) \in Nat /\ Len(deposits') = Len(deposits) + 1 /\ Len(deposits') <= MaxDeposits
      /\ \A r \in 1..Len(deposits) : deposits'[r] = deposits[r]
      /\ deposits'[Len(deposits')] = [user |-> u, tokens |-> carried]
  BY <1>1, BotDepositsAssumption DEF Transact
<1>3. ASSUME NEW r \in 1..Len(deposits)
      PROVE  /\ r \in 1..Len(deposits') /\ deposits'[r] = deposits[r] /\ r \in Sigs
             /\ r # Len(deposits')
  BY <1>2, BotDepositsAssumption DEF Sigs
<1>4. \A r \in 1..Len(deposits') : r \in 1..Len(deposits) \/ r = Len(deposits')
  BY <1>2
<1>5. \A p \in Polls : Listing(poll[p]) =>
        /\ poll[p].since \in 0..Len(deposits)
        /\ \A t \in poll[p].todo : t.sig \in 1..Len(deposits)
        /\ Announcing(poll[p]) => poll[p].now \in 1..Len(deposits)
  <2> SUFFICES ASSUME NEW p \in Polls, Listing(poll[p])
               PROVE  /\ poll[p].since \in 0..Len(deposits)
                      /\ \A t \in poll[p].todo : t.sig \in 1..Len(deposits)
                      /\ Announcing(poll[p]) => poll[p].now \in 1..Len(deposits)
    OBVIOUS
  <2>1. poll[p] \in Poll /\ poll[p] # Idle
    BY <1>1 DEF TypeOK, Listing, Announcing, Idle
  <2>2. /\ poll[p].since \in 0..MaxDeposits /\ poll[p].todo \subseteq Transfer
        /\ Announcing(poll[p]) => poll[p].now \in Sigs
    BY <2>1, ListFields
  <2>3. poll[p].since \in 0..Len(deposits)
    BY <1>2, <2>1, <2>2 DEF CursorInv, CursorsOnLedger
  <2>4. \A t \in poll[p].todo : t.sig \in 1..Len(deposits)
    BY <1>2, <2>2 DEF IInv, ListsOnLedger, OnLedger, Transfer, Sigs
  <2>5. Announcing(poll[p]) => poll[p].now \in 1..Len(deposits)
    BY <1>2, <2>2 DEF IInv, OneClaim, RowsOnLedger, OnLedger, Sigs
  <2>6. QED
    BY <2>3, <2>4, <2>5
<1>6. CursorsOnLedger'
  <2>2. \A w \in Users : solSlotMap'[w] <= Len(deposits')
    <3>1. \A w \in Users : solSlotMap[w] \in 0..MaxDeposits /\ solSlotMap[w] <= Len(deposits)
      BY <1>1 DEF CursorInv, CursorsOnLedger, TypeOK
    <3>2. QED
      BY <1>1, <1>2, <3>1, BotDepositsAssumption
  <2>3. \A p \in Polls : poll'[p] # Idle => poll'[p].since <= Len(deposits')
    <3>1. \A p \in Polls : poll[p] # Idle => poll[p].since \in 0..MaxDeposits /\ poll[p].since <= Len(deposits)
      BY <1>1, CallFields DEF CursorInv, CursorsOnLedger
    <3>2. QED
      BY <1>1, <1>2, <3>1, BotDepositsAssumption
  <2>4. \A p \in Polls : Announcing(poll[p]) =>
          Carries(Kind(poll[p]), poll[p].now)' /\ deposits'[poll[p].now].user = poll[p].user
    BY <1>1, <1>3, <1>5 DEF CursorInv, CursorsOnLedger, Carries, Listing, Kind
  <2>5. \A p \in Polls : Listing(poll[p]) =>
          \A t \in poll[p].todo :
            (t.token = NativeSol) = (Kind(poll[p]) = "sol") /\ deposits'[t.sig].user = poll[p].user
    BY <1>3, <1>5 DEF CursorInv, CursorsOnLedger
  <2>6. QED
    BY <1>1, <2>2, <2>3, <2>4, <2>5 DEF CursorsOnLedger, Listing, Announcing, Kind
<1>7. ASSUME NEW s \in 1..Len(deposits), Reachable(s)'
      PROVE  Reachable(s)
  <2> DEFINE later == {r \in s + 1 .. Len(deposits) : deposits[r].user = deposits[s].user}
             later2 == {r \in s + 1 .. Len(deposits') : deposits'[r].user = deposits'[s].user}
  <2>1. later \subseteq later2
    BY <1>2
  <2>2. IsFiniteSet(later2) /\ Cardinality(later2) \in Nat
    <3>1. s + 1 \in Int /\ Len(deposits') \in Int
      BY <1>2
    <3>2. IsFiniteSet(s + 1 .. Len(deposits'))
      BY <3>1, FS_Interval
    <3>3. later2 \subseteq s + 1 .. Len(deposits')
      OBVIOUS
    <3> HIDE DEF later2
    <3>4. QED
      BY <3>2, <3>3, FS_Subset, FS_CardinalityType
  <2>3. Cardinality(later) <= Cardinality(later2) /\ Cardinality(later) \in Nat
    BY <2>1, <2>2, FS_Subset, FS_CardinalityType
  <2>4. Cardinality(later2) < ScanLimit
    BY <1>7 DEF Reachable, PushedOut, Recent
  <2>5. Cardinality(later) < ScanLimit
    BY <2>2, <2>3, <2>4, BotDepositsAssumption
  <2>6. s \in Recent(deposits[s].user)
    BY <2>5 DEF Recent
  <2>7. QED
    BY <1>2, <1>7, <2>6 DEF Reachable, PushedOut
<1>8. ASSUME Quiet' PROVE Quiet
  BY <1>1, <1>8 DEF Quiet
<1>9. ASSUME NEW p \in Polls, NEW s \in 1..Len(deposits)
      PROVE  /\ Polled(poll[p], s)' <=> Polled(poll[p], s)
             /\ Ahead(poll[p], s)' <=> Ahead(poll[p], s)
             /\ InHand(poll[p], s)' <=> InHand(poll[p], s)
             /\ Sees(poll[p], s)' <=> Sees(poll[p], s)
             /\ Carries(Kind(poll[p]), s)' <=> Carries(Kind(poll[p]), s)
             /\ HasRow(s)' <=> HasRow(s)
  BY <1>1, <1>3 DEF Polled, Ahead, InHand, Sees, Carries, Announcing, Kind, HasRow
<1>10. ASSUME ListsWhole PROVE ListsWhole'
  <2> SUFFICES ASSUME NEW p \in Polls, NEW s \in 1..Len(deposits'), Reachable(s)',
                      Listing(poll[p]), Polled(poll[p], s)', poll[p].since < s,
                      Carries(Kind(poll[p]), s)', Ahead(poll[p], s)'
               PROVE  HasRow(s)' \/ InHand(poll[p], s)'
    BY <1>1 DEF ListsWhole, Listing, Announcing
  <2>1. s # Len(deposits')
    BY <1>1, <1>2, <1>5 DEF Ahead, Announcing
  <2>2. s \in 1..Len(deposits)
    BY <1>4, <2>1
  <2>3. QED
    BY <1>7, <1>9, <1>10, <2>2 DEF ListsWhole
<1>11. ASSUME PassedCovered PROVE PassedCovered'
  <2> SUFFICES ASSUME NEW s \in 1..Len(deposits'), Reachable(s)', Passed(s)'
               PROVE  Covered(s)'
    BY DEF PassedCovered
  <2>1. s # Len(deposits')
    <3>1. \A w \in Users : solSlotMap[w] \in 0..MaxDeposits /\ solSlotMap[w] <= Len(deposits)
      BY <1>1 DEF CursorInv, CursorsOnLedger, TypeOK
    <3>2. \A p \in Polls : poll[p] # Idle => poll[p].since \in 0..MaxDeposits /\ poll[p].since <= Len(deposits)
      BY <1>1, CallFields DEF CursorInv, CursorsOnLedger
    <3>3. ASSUME s = Len(deposits') PROVE FALSE
      <4>1. deposits'[s].user = u
        BY <1>2, <3>3
      <4>2. CASE s <= solSlotMap[u]
        BY <1>2, <3>1, <3>3, <4>2
      <4>3. ASSUME NEW p \in Polls, poll[p] # Idle, s <= poll[p].since PROVE FALSE
        BY <1>2, <3>2, <3>3, <4>3
      <4>4. QED
        BY <1>1, <4>1, <4>2, <4>3 DEF Passed, Polled
    <3>4. QED
      BY <3>3
  <2>2. s \in 1..Len(deposits)
    BY <1>4, <2>1
  <2>3. Passed(s)
    BY <1>1, <1>3, <1>9, <2>2 DEF Passed
  <2>4. Covered(s)
    BY <1>7, <1>11, <2>2, <2>3 DEF PassedCovered
  <2>5. HasRow(s) => HasRow(s)'
    BY <1>1 DEF HasRow
  <2>6. \A p \in Polls : Sees(poll[p], s) /\ Polled(poll[p], s) =>
          HasRow(s)' \/ (Sees(poll[p], s)' /\ Polled(poll[p], s)')
    BY <1>9, <2>2
  <2>7. Len(deposits) <= Len(deposits') /\ Len(deposits') \in Nat
    BY <1>2
  <2>8. \A r \in 1..Len(deposits) : deposits'[r] = deposits[r]
    BY <1>2
  <2>9. QED
    BY <1>1, <2>2, <2>4, <2>5, <2>6, <2>7, <2>8, CoveredKept
<1>12. QED
  BY <1>6, <1>8, <1>10, <1>11 DEF CursorInv

\* One call goes on: what it saw it sees, or has given a row; its list is whole;
\* and it moves a cursor past nothing that is not covered.
LEMMA CursorCall ==
  ASSUME CursorInv, TypeOK, UNCHANGED deposits, NEW p \in Polls,
         \A r \in Polls : r # p => poll'[r] = poll[r],
         \A s \in Sigs : HasRow(s) => HasRow(s)',
         \A u \in Users : solSlotMap'[u] <= Len(deposits),
         poll'[p] # Idle => poll'[p].since <= Len(deposits),
         Listing(poll'[p]) =>
           \A t \in poll'[p].todo :
             (t.token = NativeSol) = (Kind(poll'[p]) = "sol") /\ deposits[t.sig].user = poll'[p].user,
         Announcing(poll'[p]) =>
           Carries(Kind(poll'[p]), poll'[p].now) /\ deposits[poll'[p].now].user = poll'[p].user,
         Quiet' => Quiet,
         ASSUME Quiet', Quiet, ListsWhole, PassedCovered, NEW s \in 1..Len(deposits), Reachable(s)
         PROVE  /\ Sees(poll[p], s) /\ Polled(poll[p], s) =>
                     HasRow(s)' \/ (Sees(poll'[p], s) /\ Polled(poll'[p], s))
                /\ (/\ Listing(poll'[p]) /\ Polled(poll'[p], s) /\ poll'[p].since < s
                    /\ Carries(Kind(poll'[p]), s) /\ Ahead(poll'[p], s))
                     => HasRow(s)' \/ InHand(poll'[p], s)
                /\ s <= solSlotMap'[deposits[s].user] => Passed(s) \/ Covered(s)
                /\ Polled(poll'[p], s) /\ s <= poll'[p].since => Passed(s) \/ Covered(s)
  PROVE  CursorInv'
<1>1. CursorsOnLedger'
  <2>1. \A q, s : Carries(Kind(q), s)' <=> Carries(Kind(q), s)
    BY DEF Carries, Kind
  <2>2. \A r \in Polls : poll'[r] # Idle => poll'[r].since <= Len(deposits)
    BY DEF CursorInv, CursorsOnLedger
  <2>3. \A r \in Polls : Listing(poll'[r]) =>
          \A t \in poll'[r].todo :
            (t.token = NativeSol) = (Kind(poll'[r]) = "sol") /\ deposits[t.sig].user = poll'[r].user
    BY DEF CursorInv, CursorsOnLedger
  <2>4. \A r \in Polls : Announcing(poll'[r]) =>
          Carries(Kind(poll'[r]), poll'[r].now) /\ deposits[poll'[r].now].user = poll'[r].user
    BY DEF CursorInv, CursorsOnLedger
  <2>6. QED
    BY <2>1, <2>2, <2>3, <2>4 DEF CursorsOnLedger, Listing, Announcing, Kind, Carries
<1>2. SUFFICES ASSUME Quiet' PROVE ListsWhole' /\ PassedCovered'
  BY <1>1 DEF CursorInv
<1>3. Quiet /\ ListsWhole /\ PassedCovered
  BY <1>2 DEF CursorInv
<1>4. \A s \in 1..Len(deposits) : s \in Sigs
  BY BotDepositsAssumption DEF TypeOK, Sigs
<1>5. \A r \in Polls, s \in 1..Len(deposits) : r # p =>
        /\ Polled(poll'[r], s) <=> Polled(poll[r], s)
        /\ Sees(poll'[r], s) <=> Sees(poll[r], s)
        /\ poll'[r] = poll[r]
  OBVIOUS
<1>6. \A q, s : /\ Polled(q, s)' <=> Polled(q, s)
                /\ Sees(q, s)' <=> Sees(q, s)
                /\ InHand(q, s)' <=> InHand(q, s)
                /\ Ahead(q, s)' <=> Ahead(q, s)
                /\ Carries(Kind(q), s)' <=> Carries(Kind(q), s)
  BY DEF Polled, Sees, InHand, Ahead, Carries, Kind, Announcing
<1>10. \A s \in 1..Len(deposits) : Reachable(s)' <=> Reachable(s)
  BY DEF Reachable, PushedOut, Recent
<1>7. ListsWhole'
  <2> SUFFICES ASSUME NEW r \in Polls, NEW s \in 1..Len(deposits), Reachable(s), Listing(poll'[r]),
                      Polled(poll'[r], s), poll'[r].since < s,
                      Carries(Kind(poll'[r]), s), Ahead(poll'[r], s)
               PROVE  HasRow(s)' \/ InHand(poll'[r], s)
    BY <1>10 DEF ListsWhole, Listing, Announcing, Polled, InHand, Ahead, Carries, Kind
  <2>1. CASE r = p
    BY <1>2, <1>3, <2>1
  <2>2. CASE r # p
    <3>1. HasRow(s) \/ InHand(poll[r], s)
      BY <1>3, <1>5, <2>2 DEF ListsWhole
    <3>2. QED
      BY <1>4, <1>5, <2>2, <3>1
  <2>3. QED
    BY <2>1, <2>2
<1>8. ASSUME NEW s \in 1..Len(deposits), Reachable(s), Passed(s)'
      PROVE  Covered(s)'
  <2>1. Passed(s) \/ Covered(s)
    <3>1. CASE s <= solSlotMap'[deposits[s].user]
      BY <1>2, <1>3, <1>8, <3>1
    <3>2. ASSUME NEW r \in Polls, Polled(poll'[r], s), s <= poll'[r].since
          PROVE  Passed(s) \/ Covered(s)
      <4>1. CASE r = p
        BY <1>2, <1>3, <1>8, <3>2, <4>1
      <4>2. CASE r # p
        BY <1>5, <3>2, <4>2 DEF Passed
      <4>3. QED
        BY <4>1, <4>2
    <3>3. QED
      BY <1>8, <3>1, <3>2 DEF Passed, Polled
  <2>2. Covered(s)
    BY <1>3, <1>8, <2>1 DEF PassedCovered
  <2>3. HasRow(s) => HasRow(s)'
    BY <1>4
  <2>4. \A r \in Polls : Sees(poll[r], s) /\ Polled(poll[r], s) =>
          HasRow(s)' \/ (Sees(poll'[r], s) /\ Polled(poll'[r], s))
    BY <1>2, <1>3, <1>5, <1>8
  <2>5. Overtaken(s)' <=> Overtaken(s)
    BY DEF Overtaken
  <2>6. (\E r \in Polls : Sees(poll'[r], s) /\ Polled(poll'[r], s)) => Covered(s)'
    BY DEF Covered, Sees, Polled
  <2>7. QED
    BY <2>2, <2>3, <2>4, <2>5, <2>6 DEF Covered
<1>9. QED
  BY <1>7, <1>8, <1>10 DEF PassedCovered

LEMMA CursorPoll ==
  ASSUME CursorInv, TypeOK, NEW p \in Polls, NEW u \in Users, pollSolanaUser(p, u)
  PROVE  CursorInv'
<1>1. /\ UNCHANGED <<deposits, transfers, solSlotMap, faults, crashes>>
      /\ poll[p] = Idle /\ poll'[p] = [pc |-> "spl", user |-> u, since |-> solSlotMap[u]]
      /\ \A r \in Polls : r # p => poll'[r] = poll[r]
      /\ solSlotMap[u] <= Len(deposits)
  BY DEF pollSolanaUser, chains, TypeOK, CursorInv, CursorsOnLedger
<1>2. ~ Listing(poll'[p]) /\ ~ Announcing(poll'[p]) /\ \A s : ~ Sees(poll[p], s)
  BY <1>1 DEF Listing, Announcing, Sees, Idle
<1>3. Quiet' => Quiet
  BY <1>1 DEF Quiet
<1>4. \A s \in Sigs : HasRow(s) => HasRow(s)'
  BY <1>1 DEF HasRow
<1>5. \A s \in 1..Len(deposits) :
        /\ s <= solSlotMap'[deposits[s].user] => Passed(s)
        /\ Polled(poll'[p], s) /\ s <= poll'[p].since => Passed(s)
  BY <1>1 DEF Passed, Polled
<1>6. \A w \in Users : solSlotMap'[w] <= Len(deposits)
  BY <1>1 DEF CursorInv, CursorsOnLedger
<1>7. poll'[p].since <= Len(deposits)
  BY <1>1
<1>8. UNCHANGED deposits
  BY <1>1
<1>9. ASSUME NEW s \in 1..Len(deposits)
      PROVE  /\ ~ Sees(poll[p], s) /\ ~ Listing(poll'[p])
             /\ s <= solSlotMap'[deposits[s].user] => Passed(s) \/ Covered(s)
             /\ Polled(poll'[p], s) /\ s <= poll'[p].since => Passed(s) \/ Covered(s)
  BY <1>2, <1>5
<1>10. /\ \A r \in Polls : r # p => poll'[r] = poll[r]
       /\ ~ Listing(poll'[p]) /\ ~ Announcing(poll'[p])
  BY <1>1, <1>2
<1> QED
  BY <1>3, <1>4, <1>6, <1>7, <1>8, <1>9, <1>10, CursorCall

LEMMA EntryOf ==
  ASSUME NEW S, NEW q \in Seq(S), NEW n \in 1..Len(q)
  PROVE  q[n] \in S
OBVIOUS

\* A scan that fails nowhere lists all it could see.
LEMMA CursorScan ==
  ASSUME CursorInv, TypeOK, NEW p \in Polls, scanIncoming(p)
  PROVE  CursorInv'
<1> DEFINE q == poll[p]
           past == {s \in Recent(q.user) : s > q.since}
<1>1. /\ UNCHANGED <<deposits, transfers, solSlotMap, crashes>>
      /\ q.pc \in {"spl", "sol"} /\ q # Idle
      /\ \A r \in Polls : r # p => poll'[r] = poll[r]
  <2>1. UNCHANGED <<deposits, transfers, solSlotMap, crashes>> /\ q.pc \in {"spl", "sol"}
    BY DEF scanIncoming, chains
  <2>2. q # Idle
    BY <2>1 DEF Idle
  <2>3. \E x : poll' = [poll EXCEPT ![p] = x]
    BY DEF scanIncoming
  <2>4. QED
    BY <2>1, <2>2, <2>3 DEF TypeOK
<1>2. /\ q.user \in Users /\ q.since \in 0..MaxDeposits /\ q.since <= Len(deposits)
      /\ faults \in 0..MaxFaults /\ MaxFaults \in Nat
  BY <1>1, CallFields, BotDepositsAssumption DEF CursorInv, CursorsOnLedger, TypeOK
<1>3. \A s \in Sigs : HasRow(s) => HasRow(s)'
  BY <1>1 DEF HasRow
<1>4. \A w \in Users : solSlotMap'[w] <= Len(deposits)
  BY <1>1 DEF CursorInv, CursorsOnLedger
<1>5. \A s \in 1..Len(deposits) : s <= solSlotMap'[deposits[s].user] => Passed(s)
  BY <1>1 DEF Passed
<1>6. ASSUME NEW unreadable \in SUBSET past,
             faults' = faults + Cardinality(unreadable),
             poll' = [poll EXCEPT ![p] =
               [pc |-> IF q.pc = "spl" THEN "list_spl" ELSE "list_sol", user |-> q.user,
                since |-> q.since, todo |-> Listed(q.pc, past \ unreadable)]]
      PROVE  CursorInv'
  <2>1. /\ poll'[p].pc = IF q.pc = "spl" THEN "list_spl" ELSE "list_sol"
        /\ poll'[p].user = q.user /\ poll'[p].since = q.since
        /\ poll'[p].todo = Listed(q.pc, past \ unreadable)
    BY <1>6 DEF TypeOK
  <2>2. /\ ~ Announcing(poll'[p]) /\ Listing(poll'[p]) /\ poll'[p] # Idle
        /\ Kind(poll'[p]) = q.pc
    BY <1>1, <2>1 DEF Announcing, Listing, Kind, Idle
  <2>3. \A t \in poll'[p].todo :
          (t.token = NativeSol) = (Kind(poll'[p]) = "sol") /\ deposits[t.sig].user = poll'[p].user
    BY <2>1, <2>2 DEF Listed, Recent
  <2>4. unreadable \subseteq 1..Len(deposits) /\ Len(deposits) \in Nat
    <3>1. Recent(q.user) \subseteq 1..Len(deposits)
      BY DEF Recent
    <3>2. Len(deposits) \in Nat
      BY DEF TypeOK
    <3>3. QED
      BY <3>1, <3>2
  <2>5. IsFiniteSet(unreadable) /\ Cardinality(unreadable) \in Nat
    <3>1. IsFiniteSet(1..Len(deposits))
      BY <2>4, FS_Interval
    <3>2. QED
      BY <2>4, <3>1, FS_Subset, FS_CardinalityType
  <2>6. faults' = 0 => faults = 0 /\ unreadable = {}
    <3>1. faults' = 0 => faults = 0 /\ Cardinality(unreadable) = 0
      BY <1>2, <1>6, <2>5
    <3>2. QED
      BY <2>5, <3>1, FS_EmptySet
  <2>7. Quiet' => Quiet
    BY <1>1, <2>6 DEF Quiet
  <2>8. ASSUME Quiet', NEW s \in 1..Len(deposits), Reachable(s), deposits[s].user = q.user, q.since < s,
               Carries(q.pc, s)
        PROVE  InHand(poll'[p], s)
    <3>1. s \in past \ unreadable
      BY <2>6, <2>8, <1>2 DEF Quiet, Reachable, PushedOut
    <3>2. PICK token \in deposits[s].tokens : (token = NativeSol) = (q.pc = "sol")
      BY <2>8 DEF Carries
    <3>3. token \in Tokens
      <4>1. deposits \in Seq([user: Users, tokens: SUBSET Tokens])
        BY DEF TypeOK
      <4>2. deposits[s] \in [user: Users, tokens: SUBSET Tokens]
        BY <4>1, EntryOf
      <4>3. QED
        BY <3>2, <4>2
    <3>4. [sig |-> s, token |-> token] \in poll'[p].todo
      BY <2>1, <3>1, <3>2, <3>3 DEF Listed
    <3>5. QED
      BY <3>4 DEF InHand
  <2>9. ASSUME Quiet', NEW s \in 1..Len(deposits), Reachable(s), Sees(q, s), Polled(q, s)
        PROVE  Sees(poll'[p], s) /\ Polled(poll'[p], s)
    <3>1. q.since < s /\ (q.pc = "spl" \/ NativeSol \in deposits[s].tokens)
      BY <1>1, <2>9 DEF Sees
    <3>2. deposits[s].tokens # {} /\ deposits[s].user = q.user
      BY <2>9 DEF Reachable, Polled
    <3>3. Carries(q.pc, s) => Sees(poll'[p], s)
      BY <2>1, <2>2, <2>8, <2>9, <3>1, <3>2 DEF Sees, InHand
    <3>4. ASSUME ~ Carries(q.pc, s) PROVE Sees(poll'[p], s)
      <4>1. q.pc = "spl"
        BY <1>1, <3>1, <3>4 DEF Carries
      <4>2. NativeSol \in deposits[s].tokens
        BY <3>2, <3>4, <4>1 DEF Carries
      <4>3. poll'[p].pc = "list_spl" /\ poll'[p].since = q.since /\ q.since < s
        BY <2>1, <3>1, <4>1
      <4>4. poll'[p].since < s
        BY <4>3
      <4> QED
        BY <4>2, <4>3, <4>4 DEF Sees
    <3>5. Polled(poll'[p], s)
      BY <2>1, <2>2, <3>2 DEF Polled
    <3>6. QED
      BY <3>3, <3>4, <3>5
  <2>10. ASSUME NEW s \in 1..Len(deposits), Polled(poll'[p], s)
         PROVE  deposits[s].user = q.user /\ (s <= poll'[p].since => Passed(s))
    BY <1>1, <2>1, <2>10 DEF Polled, Passed
  <2>11. QED
    BY <1>1, <1>2, <1>3, <1>4, <1>5, <2>1, <2>2, <2>3, <2>7, <2>8, <2>9, <2>10, CursorCall
<1>7. ASSUME faults' = faults + 1, poll' = [poll EXCEPT ![p] = Idle]
      PROVE  CursorInv'
  <2>1. ~ Quiet'
    BY <1>2, <1>7 DEF Quiet
  <2>2. poll'[p] = Idle /\ ~ Listing(poll'[p]) /\ ~ Announcing(poll'[p])
    BY <1>7 DEF TypeOK, Listing, Announcing, Idle
  <2>3. QED
    BY <1>1, <1>3, <1>4, <2>1, <2>2, CursorCall
<1>8. QED
  BY <1>6, <1>7 DEF scanIncoming

\* What lies below an announcement is covered: of the same kind it is in the
\* list, a native transfer is still to be scanned behind an SPL one, and an SPL
\* transfer below a native one is overtaken.
LEMMA BelowAnnouncement ==
  ASSUME CursorsOnLedger, IInv, ListsWhole, PassedCovered, NEW p \in Polls, Announcing(poll[p]),
         NEW s \in 1..Len(deposits), Reachable(s), deposits[s].user = poll[p].user,
         s <= poll[p].now
  PROVE  Covered(s)
<1> DEFINE q == poll[p]
<1>1. /\ q \in Poll /\ q # Idle /\ Listing(q) /\ TypeOK /\ Len(deposits) \in Nat
      /\ q.pc \in {"notify_spl", "notify_sol"}
  BY DEF IInv, TypeOK, Listing, Announcing, Idle
<1>2. q.now \in Sigs /\ q.since \in 0..MaxDeposits /\ Polled(q, s)
  BY <1>1, ListFields DEF Polled
<1>3. transfers[q.now].status = "pending" /\ q.now <= Len(deposits)
  BY <1>2 DEF IInv, OneClaim, RowsOnLedger, OnLedger
<1>4. Carries(Kind(q), q.now) /\ deposits[q.now].user = q.user
  BY DEF CursorsOnLedger
<1>5. deposits[s].tokens # {}
  BY DEF Reachable
<1>6. CASE s = q.now
  BY <1>3, <1>6 DEF Covered, HasRow
<1>7. CASE s <= q.since
  BY <1>2, <1>7 DEF PassedCovered, Passed
<1>8. ASSUME q.since < s, s < q.now, Carries(Kind(q), s)
      PROVE  Covered(s)
  <2>1. HasRow(s) \/ InHand(q, s)
    BY <1>1, <1>2, <1>8 DEF ListsWhole, Ahead
  <2>2. InHand(q, s) => Sees(q, s)
    BY <1>1 DEF Sees, InHand
  <2>3. QED
    BY <1>2, <2>1, <2>2 DEF Covered
<1>9. ASSUME q.since < s, s < q.now, ~ Carries(Kind(q), s)
      PROVE  Covered(s)
  <2>1. CASE Kind(q) = "spl"
    <3>1. NativeSol \in deposits[s].tokens
      BY <1>5, <1>9, <2>1 DEF Carries
    <3>2. q.pc = "notify_spl"
      BY <1>1, <2>1 DEF Kind
    <3>3. Sees(q, s)
      BY <1>9, <3>1, <3>2 DEF Sees
    <3>4. QED
      BY <1>2, <3>3 DEF Covered
  <2>2. CASE Kind(q) = "sol"
    <3>1. NativeSol \in deposits[q.now].tokens /\ NativeSol \notin deposits[s].tokens
      BY <1>4, <1>9, <2>2 DEF Carries
    <3>2. Overtaken(s)
      <4>1. q.now \in s + 1 .. Len(deposits)
        BY <1>1, <1>2, <1>3, <1>9 DEF Sigs
      <4>2. QED
        BY <1>4, <3>1, <4>1 DEF Overtaken
    <3>3. QED
      BY <3>2 DEF Covered
  <2>3. QED
    BY <2>1, <2>2 DEF Kind
<1>10. QED
  BY <1>1, <1>2, <1>6, <1>7, <1>8, <1>9 DEF Sigs

\* A list goes on: the rest is as whole as the list was, and the cursor moves to
\* what was announced at most.
LEMMA CursorGoesOn ==
  ASSUME CursorInv, IInv, NEW p \in Polls, Listing(poll[p]), NEW rows \in [Sigs -> Row],
         \A s \in Sigs : rows[s].status = "none" <=> transfers[s].status = "none",
         Continue(p, Kind(poll[p]), poll[p], poll[p].todo, rows),
         UNCHANGED <<deposits, faults, crashes>>,
         \A u \in Users :
           \/ solSlotMap'[u] = solSlotMap[u]
           \/ Announcing(poll[p]) /\ u = poll[p].user /\ solSlotMap'[u] = poll[p].now
  PROVE  CursorInv'
<1> DEFINE q == poll[p]
<1>1. /\ q \in Poll /\ q # Idle /\ TypeOK
      /\ q.pc \in {"list_spl", "list_sol", "notify_spl", "notify_sol"}
  BY DEF IInv, TypeOK, Listing, Announcing, Idle
<1>2. /\ \A r \in Polls : r # p => poll'[r] = poll[r]
      /\ poll'[p] # Idle => poll'[p].user = q.user /\ poll'[p].since = q.since
      /\ Listing(poll'[p]) =>
           /\ Announcing(poll'[p]) /\ Kind(poll'[p]) = Kind(q)
           /\ poll'[p].todo \subseteq q.todo
           /\ \E t \in q.todo : poll'[p].now = t.sig
      /\ \A s \in Sigs : HasRow(s) => HasRow(s)'
      /\ \A s \in Sigs : InHand(q, s) =>
           HasRow(s)' \/ (Listing(poll'[p]) /\ InHand(poll'[p], s))
      /\ Kind(q) = "spl" => poll'[p].pc \in {"sol", "notify_spl"}
  BY <1>1, ContinueKeeps DEF TypeOK
<1>3. /\ q.since \in 0..MaxDeposits /\ q.since <= Len(deposits)
      /\ q.todo \subseteq Transfer /\ (Announcing(q) => q.now \in Sigs)
  BY <1>1, ListFields DEF CursorInv, CursorsOnLedger
<1>4. Announcing(q) => q.now <= Len(deposits)
  BY <1>3 DEF IInv, OneClaim, RowsOnLedger, OnLedger
<1>5. \A u \in Users : solSlotMap'[u] <= Len(deposits)
  BY <1>4 DEF CursorInv, CursorsOnLedger
<1>6. poll'[p] # Idle => poll'[p].since <= Len(deposits)
  BY <1>2, <1>3
<1>7. Listing(poll'[p]) => poll'[p] # Idle
  BY DEF Listing, Announcing, Idle
<1>8. Listing(poll'[p]) =>
        \A t \in poll'[p].todo :
          (t.token = NativeSol) = (Kind(poll'[p]) = "sol") /\ deposits[t.sig].user = poll'[p].user
  BY <1>2, <1>7 DEF CursorInv, CursorsOnLedger
<1>9. Announcing(poll'[p]) =>
        Carries(Kind(poll'[p]), poll'[p].now) /\ deposits[poll'[p].now].user = poll'[p].user
  <2> SUFFICES ASSUME Announcing(poll'[p])
               PROVE  Carries(Kind(poll'[p]), poll'[p].now) /\ deposits[poll'[p].now].user = poll'[p].user
    OBVIOUS
  <2>1. PICK t \in q.todo : poll'[p].now = t.sig
    BY <1>2 DEF Listing
  <2>2. t.token \in deposits[t.sig].tokens
    BY DEF IInv, ListsOnLedger, OnLedger
  <2>3. (t.token = NativeSol) = (Kind(q) = "sol") /\ deposits[t.sig].user = q.user
    BY DEF CursorInv, CursorsOnLedger
  <2>4. Kind(poll'[p]) = Kind(q) /\ poll'[p].user = q.user
    BY <1>2, <1>7 DEF Listing
  <2>5. QED
    BY <2>1, <2>2, <2>3, <2>4 DEF Carries
<1>10. Quiet' => Quiet
  BY DEF Quiet
<1>11. \A s \in 1..Len(deposits) : s \in Sigs
  BY <1>1, BotDepositsAssumption DEF TypeOK, Sigs
<1>12. ASSUME NEW s \in 1..Len(deposits), Sees(q, s), Polled(q, s)
       PROVE  HasRow(s)' \/ (Sees(poll'[p], s) /\ Polled(poll'[p], s))
  <2>1. CASE InHand(q, s)
    <3>1. HasRow(s)' \/ (Listing(poll'[p]) /\ InHand(poll'[p], s))
      BY <1>2, <1>11, <2>1
    <3>2. Listing(poll'[p]) /\ InHand(poll'[p], s) => Sees(poll'[p], s)
      BY DEF Sees, InHand, Listing, Announcing
    <3>3. QED
      BY <1>2, <1>7, <1>12, <3>1, <3>2 DEF Polled
  <2>2. CASE ~ InHand(q, s)
    <3>1. Kind(q) = "spl" /\ q.since < s /\ NativeSol \in deposits[s].tokens
      BY <1>1, <1>12, <2>2 DEF Sees, InHand, Kind
    <3>2. poll'[p].pc \in {"sol", "notify_spl"} /\ poll'[p] # Idle
      BY <1>2, <3>1 DEF Idle
    <3>3. poll'[p].user = q.user /\ poll'[p].since = q.since
      BY <1>2, <3>2
    <3>4. Sees(poll'[p], s)
      BY <3>1, <3>2, <3>3 DEF Sees
    <3>5. QED
      BY <1>12, <3>2, <3>3, <3>4 DEF Polled
  <2>3. QED
    BY <2>1, <2>2
<1>13. ASSUME ListsWhole, NEW s \in 1..Len(deposits), Reachable(s), Listing(poll'[p]), Polled(poll'[p], s),
              poll'[p].since < s, Carries(Kind(poll'[p]), s), Ahead(poll'[p], s)
       PROVE  HasRow(s)' \/ InHand(poll'[p], s)
  <2>1. Polled(q, s) /\ q.since < s /\ Carries(Kind(q), s)
    BY <1>1, <1>2, <1>7, <1>13 DEF Polled
  <2>2. Ahead(q, s)
    BY <1>2, <1>13 DEF Ahead
  <2>3. HasRow(s) \/ InHand(q, s)
    BY <1>13, <2>1, <2>2 DEF ListsWhole
  <2>4. QED
    BY <1>2, <1>11, <2>3
<1>14. ASSUME ListsWhole, PassedCovered, NEW s \in 1..Len(deposits), Reachable(s),
              s <= solSlotMap'[deposits[s].user]
       PROVE  Passed(s) \/ Covered(s)
  <2>1. deposits[s].user \in Users
    <3>1. deposits \in Seq([user: Users, tokens: SUBSET Tokens])
      BY <1>1 DEF TypeOK
    <3>2. deposits[s] \in [user: Users, tokens: SUBSET Tokens]
      BY <3>1, EntryOf
    <3>3. QED
      BY <3>2
  <2>2. CASE solSlotMap'[deposits[s].user] = solSlotMap[deposits[s].user]
    BY <1>14, <2>2 DEF Passed
  <2>3. CASE Announcing(q) /\ deposits[s].user = q.user /\ solSlotMap'[deposits[s].user] = q.now
    BY <1>14, <2>3, BelowAnnouncement DEF CursorInv
  <2>4. QED
    BY <2>1, <2>2, <2>3
<1>15. ASSUME NEW s \in 1..Len(deposits), Polled(poll'[p], s), s <= poll'[p].since
       PROVE  Passed(s)
  BY <1>1, <1>2, <1>15 DEF Polled, Passed
<1>16. QED
  BY <1>1, <1>2, <1>5, <1>6, <1>8, <1>9, <1>10, <1>12, <1>13, <1>14, <1>15, CursorCall

LEMMA CursorNext == CursorInv /\ IInv /\ [Next]_vars => CursorInv'
<1> SUFFICES ASSUME CursorInv, IInv, [Next]_vars PROVE CursorInv'
  OBVIOUS
<1>0. TypeOK /\ transfers \in [Sigs -> Row] /\ crashes \in 0..MaxCrashes
  BY DEF IInv, TypeOK
<1>1. CASE (\E x \in utx : Mine(x)) \/ UNCHANGED vars
  <2>1. UNCHANGED <<deposits, transfers, poll, solSlotMap, faults, crashes>>
    BY <1>1 DEF Mine, vars, chains
  <2>2. \A s \in Sigs : HasRow(s) => HasRow(s)'
    BY <2>1 DEF HasRow
  <2>3. QED
    BY <1>0, <2>1, <2>2, CursorStutter
<1>2. ASSUME NEW u \in Users, NEW carried \in SUBSET Tokens, Transact(u, carried)
      PROVE  CursorInv'
  BY <1>2, CursorDeposit
<1>3. ASSUME NEW p \in Polls, NEW u \in Users, pollSolanaUser(p, u) PROVE CursorInv'
  BY <1>0, <1>3, CursorPoll
<1>4. ASSUME NEW p \in Polls, scanIncoming(p) PROVE CursorInv'
  BY <1>0, <1>4, CursorScan
<1>5. ASSUME NEW p \in Polls, Scanned(p) PROVE CursorInv'
  <2>1. /\ Listing(poll[p]) /\ UNCHANGED <<deposits, solSlotMap, faults, crashes>>
        /\ Continue(p, Kind(poll[p]), poll[p], poll[p].todo, transfers)
    BY <1>5 DEF Scanned, Listing, chains
  <2>2. QED
    BY <1>0, <2>1, CursorGoesOn
<1>6. ASSUME NEW p \in Polls, Announced(p) PROVE CursorInv'
  <2>1. /\ Listing(poll[p]) /\ Announcing(poll[p]) /\ UNCHANGED <<deposits, faults, crashes>>
        /\ Continue(p, Kind(poll[p]), poll[p], poll[p].todo, Released(p))
        /\ solSlotMap' =
             [solSlotMap EXCEPT ![poll[p].user] = NextCursor(Kind(poll[p]), @, poll[p].now)]
    <3>1. CASE CanRelay
      BY <1>6, <3>1 DEF Announced, Listing, Announcing, chains, Released
    <3>2. CASE ~ CanRelay
      BY <1>6, <3>2 DEF Announced, Listing, Announcing, chains, Released
    <3>3. QED
      BY <3>1, <3>2
  <2>2. poll[p] \in Poll /\ poll[p].user \in Users /\ poll[p].now \in Sigs
    BY <1>0, <2>1, ListFields DEF TypeOK
  <2>3. transfers[poll[p].now].status = "pending"
    BY <2>1 DEF IInv, OneClaim
  <2>4. /\ Released(p) \in [Sigs -> Row]
        /\ \A s \in Sigs : Released(p)[s].status = "none" <=> transfers[s].status = "none"
    <3>1. /\ Released(p)[poll[p].now].status # "none"
          /\ Released(p)[poll[p].now] \in Row
      BY <1>0, <2>2, <2>3 DEF Released, Row, Statuses
    <3>2. /\ DOMAIN Released(p) = Sigs
          /\ \A s \in Sigs : s # poll[p].now => Released(p)[s] = transfers[s]
          /\ Released(p) = [s \in Sigs |-> Released(p)[s]]
      BY <1>0 DEF Released
    <3>3. \A s \in Sigs : Released(p)[s] \in Row
      BY <1>0, <3>1, <3>2
    <3>4. QED
      BY <2>3, <3>1, <3>2, <3>3
  <2>5. \A u \in Users :
          \/ solSlotMap'[u] = solSlotMap[u]
          \/ Announcing(poll[p]) /\ u = poll[p].user /\ solSlotMap'[u] = poll[p].now
    BY <1>0, <2>1, <2>2 DEF TypeOK, NextCursor, Larger
  <2>6. QED
    BY <1>0, <2>1, <2>4, <2>5, CursorGoesOn
<1>7. ASSUME NEW t \in Sigs, mintCall(t) \/ waitForTx(t) PROVE CursorInv'
  <2>1. UNCHANGED <<deposits, poll, solSlotMap, faults, crashes>>
    BY <1>7 DEF mintCall, waitForTx, chains
  <2>2. \/ transfers' = transfers
        \/ \E status \in Settled \cup {"dcc_minted"} : transfers' = [transfers EXCEPT ![t].status = status]
    BY <1>7 DEF mintCall, waitForTx, Retry, Settled
  <2>3. \A s \in Sigs : HasRow(s) => HasRow(s)'
    BY <1>0, <2>2 DEF HasRow, Settled, Row
  <2>4. QED
    BY <1>0, <2>1, <2>3, CursorStutter
<1>8. ASSUME Restart PROVE CursorInv'
  <2>1. /\ UNCHANGED <<deposits, solSlotMap>> /\ \A p \in Polls : poll'[p] = Idle
        /\ crashes' = crashes + 1
    BY <1>8 DEF Restart
  <2>2. ~ Quiet'
    BY <1>0, <2>1, BotDepositsAssumption DEF Quiet
  <2>3. \A p \in Polls : ~ Listing(poll'[p]) /\ ~ Announcing(poll'[p])
    BY <2>1 DEF Listing, Announcing, Idle
  <2>4. CursorsOnLedger'
    BY <2>1, <2>3 DEF CursorInv, CursorsOnLedger, Listing, Announcing
  <2>5. QED
    BY <2>2, <2>4 DEF CursorInv
<1>9. QED
  BY <1>1, <1>2, <1>3, <1>4, <1>5, <1>6, <1>7, <1>8 DEF Next

\* Until a request fails or the bot is restarted, the cursor leaves no deposit
\* behind but one that was overtaken or that as many transactions of the wallet
\* followed as the node lists, for any number of wallets, tokens and overlapping
\* calls, any length of the list, and a ledger of any length.
THEOREM NothingPassedOver == Spec => []NonePassedOver
<1>1. Init => CursorInv
  <2> SUFFICES ASSUME Init PROVE CursorInv
    OBVIOUS
  <2>1. /\ Len(deposits) = 0 /\ \A u \in Users : solSlotMap[u] = 0
        /\ \A p \in Polls : poll[p] = Idle
    BY DEF Init
  <2>2. \A p \in Polls : ~ Listing(poll[p]) /\ ~ Announcing(poll[p])
    BY <2>1 DEF Listing, Announcing, Idle
  <2>3. QED
    BY <2>1, <2>2 DEF CursorInv, CursorsOnLedger, ListsWhole, PassedCovered
<1>2. CursorInv /\ IInv => NonePassedOver
  <2> SUFFICES ASSUME CursorInv, IInv, NEW s \in 1..Len(deposits), deposits[s].tokens # {},
                      s <= solSlotMap[deposits[s].user], transfers[s].status = "none",
                      ~ (faults > 0), ~ (crashes > 0), ~ PushedOut(s)
               PROVE  Overtaken(s) \/ \E p \in Polls : Sees(poll[p], s) /\ poll[p].user = deposits[s].user
    BY DEF NonePassedOver
  <2>1. Quiet
    BY BotDepositsAssumption DEF IInv, TypeOK, Quiet
  <2>2. Covered(s)
    BY <2>1 DEF CursorInv, PassedCovered, Passed, Reachable
  <2>3. QED
    BY <2>2 DEF Covered, HasRow, Polled
<1>3. QED
  BY <1>1, <1>2, CursorNext, InitInv, NextInv, PTL DEF Spec
=============================================================================
