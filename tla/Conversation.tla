---------------------------- MODULE Conversation ----------------------------
(***************************************************************************)
(* One user's conversation with the Telegram bot: the middleware of bot.cjs,*)
(* the bridge wizard (scenes/bridge-wizard.cjs) and the commands that      *)
(* register a user.                                                        *)
(*                                                                         *)
(* Telegram delivers updates in batches and Telegraf handles a batch        *)
(* concurrently: a handler runs up to its next call to Telegram or to a     *)
(* node, others run, it goes on. Such a call may fail, and ends the handler *)
(* (bot.catch). Buttons stay in the chat: every button may be pressed at any*)
(* time. The session is shared by the handlers of a user, but a handler     *)
(* keeps the scene's state it was dispatched with.                          *)
(*                                                                         *)
(* Telegraf's session, scene and wizard are external. The tokens offered are*)
(* alike: an order only knows whether one was chosen. Balances, history and *)
(* other messages that change nothing are left out.                         *)
(***************************************************************************)
EXTENDS Integers, Sequences

CONSTANTS
  Texts,                  \* what a user may type; commands are texts as well
  parseFloat,             \* text -> the number it starts with, or NaN
  AddressOf,              \* text -> the direction whose destination it may be, or None
  minAmountUsdc, maxAmountUsdc,
  NaN, None,
  MaxHandlers, MaxConversations, MaxOrders   \* bounds

VARIABLES
  session,                \* the scene, the wizard's cursor and its state
  data,                   \* conversation -> wizard.state.data
  conversations,          \* conversations started
  handlers,               \* slot -> a handler at work
  registered,             \* BOOLEAN: the user's row in users
  orders                  \* the rows of transfers

vars == <<session, data, conversations, handlers, registered, orders>>

Directions == {"sol_to_dcc", "dcc_to_sol"}
Buttons == Directions \cup {"token", "confirm", "cancel", "do:bridge"}
Updates == Texts \cup Buttons
Conversations == 1 .. MaxConversations

ASSUME ConversationAssumption ==
  /\ {"/start", "/wallet", "/bridge"} \subseteq Texts
  /\ parseFloat \in [Texts -> Int \cup {NaN}] /\ NaN \notin Int
  /\ AddressOf \in [Texts -> Directions \cup {None}] /\ None \notin Updates
  /\ MaxHandlers \in Nat /\ MaxConversations \in Nat /\ MaxOrders \in Nat
  /\ minAmountUsdc \in Nat \ {0} /\ maxAmountUsdc >= minAmountUsdc

NoData == [direction |-> None, token |-> FALSE, amount |-> NaN, destination |-> None]
Outside == [scene |-> FALSE, cursor |-> 0, conversation |-> None]

Init ==
  /\ session = Outside
  /\ data = [c \in Conversations |-> None]
  /\ conversations = 0
  /\ handlers = [h \in 1 .. MaxHandlers |-> None]
  /\ registered = FALSE
  /\ orders = <<>>

-----------------------------------------------------------------------------
(* The scene and the wizard's cursor (Telegraf).                           *)

\* scene.leave: does nothing outside a scene, so that a cursor which another
\* handler moved after the scene was left is still there.
AfterLeave(s) == IF s.scene THEN Outside ELSE s

leave == session' = AfterLeave(session)

\* scene.enter: leaves, starts a new state, and runs the step of the cursor,
\* which does nothing with it unless it is the first: stepDirection.
enter ==
  /\ conversations < MaxConversations
  /\ conversations' = conversations + 1
  /\ LET c == conversations + 1  cursor == AfterLeave(session).cursor IN
       /\ session' = IF cursor > 4 THEN Outside
                     ELSE [scene |-> TRUE, cursor |-> cursor, conversation |-> c]
       /\ data' = IF cursor = 0 THEN [data EXCEPT ![c] = NoData] ELSE data

\* wizard.next
next == session' = [session EXCEPT !.cursor = IF @ > 4 THEN @ ELSE @ + 1]

-----------------------------------------------------------------------------
(* The user's row: the wallets are derived from the user's id, so that what *)
(* is stored does not depend on who stores it.                             *)
upsertUser == registered' = TRUE

ensureUser == IF registered THEN UNCHANGED registered ELSE upsertUser

-----------------------------------------------------------------------------
(* The checks of a typed amount and of a typed destination.                *)

\* Variant: a number is all that is asked for.
AnyAmount(text) == parseFloat[text] # NaN

AmountAllowed(text) ==
  LET amount == parseFloat[text] IN
  amount # NaN /\ minAmountUsdc <= amount /\ amount <= maxAmountUsdc

\* validateDestination: without a direction only the length is looked at.
DestinationAllowed(direction, text) ==
  AddressOf[text] # None /\ direction \in {None, AddressOf[text]}

-----------------------------------------------------------------------------
(* An update is dispatched: the part of its handler before the first call. *)

Working(h, step, update) ==
  handlers' = [handlers EXCEPT ![h] =
    [step |-> step, update |-> update, conversation |-> session.conversation, amount |-> NaN]]

Ends(h) == handlers' = [handlers EXCEPT ![h] = None]

Data == data[session.conversation]

\* stepDirection: anything that reaches the first step starts it again.
AskDirection ==
  /\ session.cursor = 0
  /\ data' = [data EXCEPT ![session.conversation] = NoData]
  /\ UNCHANGED <<session, conversations, handlers, registered>>

\* Variant: the amount may be corrected later on.
AmountIsAskedAgain == session.cursor >= 2

AmountIsAsked == session.cursor = 2

\* stepDestination, with what was typed as the amount.
TypeAmount(h, text) ==
  /\ AmountIsAsked /\ AmountAllowed(text) /\ Data # None
  /\ data' = [data EXCEPT ![session.conversation].amount = parseFloat[text]]
  /\ Working(h, "next", None)
  /\ UNCHANGED <<session, conversations, registered>>

\* stepConfirm, with what was typed as the destination.
TypeDestination(h, text) ==
  /\ session.cursor = 3 /\ Data # None /\ DestinationAllowed(Data.direction, text)
  /\ data' = [data EXCEPT ![session.conversation].destination = text]
  /\ ensureUser
  /\ Working(h, "next", None)
  /\ UNCHANGED <<session, conversations>>

\* The wizard's actions come first, then the step; past the last step the
\* wizard leaves. A command is a text like any other inside the scene.
DispatchInside(h, u) ==
  /\ session.scene
  /\ \/ u \in Directions \cup {"cancel"} /\ Working(h, "answer", u)
        /\ UNCHANGED <<session, data, conversations, registered>>
     \/ u \notin Directions \cup {"cancel"} /\ session.cursor > 4 /\ leave
        /\ UNCHANGED <<data, conversations, handlers, registered>>
     \/ u \notin Directions \cup {"cancel"} /\ AskDirection
     \/ u = "token" /\ session.cursor = 1 /\ Working(h, "answer", u)
        /\ UNCHANGED <<session, data, conversations, registered>>
     \/ u = "confirm" /\ session.cursor = 4 /\ Working(h, "answer", u)
        /\ UNCHANGED <<session, data, conversations, registered>>
     \/ u \in Texts /\ (TypeAmount(h, u) \/ TypeDestination(h, u))

\* The commands that make sure the user is known; /balance does as /wallet does.
handleStart == upsertUser /\ UNCHANGED <<session, data, conversations, handlers>>
handleWallet == ensureUser /\ UNCHANGED <<session, data, conversations, handlers>>

\* Outside, the commands and buttons registered with the bot.
DispatchOutside(h, u) ==
  /\ ~ session.scene
  /\ \/ u = "/bridge" /\ enter /\ UNCHANGED <<handlers, registered>>
     \/ u = "do:bridge" /\ Working(h, "answer", u)
        /\ UNCHANGED <<session, data, conversations, registered>>
     \/ u = "/start" /\ handleStart
     \/ u = "/wallet" /\ handleWallet

DispatchUpdate(h, u) ==
  /\ handlers[h] = None /\ \A g \in 1 .. h - 1 : handlers[g] # None
  /\ DispatchInside(h, u) \/ DispatchOutside(h, u)
  /\ UNCHANGED orders

-----------------------------------------------------------------------------
(* A handler goes on after a call.                                         *)

\* A call fails, or no token is offered, or data is undefined: it ends there.
CallFails(h) ==
  /\ handlers[h] # None
  /\ Ends(h)
  /\ UNCHANGED <<session, data, conversations, registered, orders>>

\* stepToken sets the direction, whatever the step; stepAmount the token.
Choose(h) ==
  LET u == handlers[h].update  c == handlers[h].conversation IN
  /\ u \in Directions \cup {"token"} /\ data[c] # None
  /\ data' = [data EXCEPT ![c] =
       IF u = "token" THEN [@ EXCEPT !.token = TRUE] ELSE [@ EXCEPT !.direction = u]]
  /\ IF u = "token" THEN ensureUser ELSE UNCHANGED registered
  /\ handlers' = [handlers EXCEPT ![h].step = "next", ![h].update = None]
  /\ UNCHANGED <<session, conversations>>

Cancel(h) ==
  /\ handlers[h].update = "cancel"
  /\ leave /\ Ends(h)
  /\ UNCHANGED <<data, conversations, registered>>

EnterAgain(h) ==
  /\ handlers[h].update = "do:bridge"
  /\ enter /\ Ends(h)
  /\ UNCHANGED registered

\* stepExecute computes the amount before it calls Telegram once more.
StartExecute(h) ==
  LET c == handlers[h].conversation IN
  /\ handlers[h].update = "confirm" /\ data[c] # None
  /\ ensureUser
  /\ handlers' = [handlers EXCEPT ![h].step = "execute", ![h].update = None,
                                  ![h].amount = data[c].amount]
  /\ UNCHANGED <<session, data, conversations>>

Answered(h) ==
  /\ handlers[h] # None /\ handlers[h].step = "answer"
  /\ Choose(h) \/ Cancel(h) \/ EnterAgain(h) \/ StartExecute(h)
  /\ UNCHANGED orders

Advance(h) ==
  /\ handlers[h] # None /\ handlers[h].step = "next"
  /\ next /\ Ends(h)
  /\ UNCHANGED <<data, conversations, registered, orders>>

\* createTransfer, then the scene is left and the instructions are shown. The
\* columns NOT NULL refuse a missing direction, token or destination, but the
\* text 'NaN' is an amount.
createTransfer(h) ==
  /\ handlers[h] # None /\ handlers[h].step = "execute"
  /\ LET d == data[handlers[h].conversation] IN
       /\ d.direction # None /\ d.token /\ d.destination # None
       /\ Len(orders) < MaxOrders
       /\ orders' = Append(orders, [direction |-> d.direction, destination |-> d.destination,
                                    amount |-> handlers[h].amount])
  /\ leave /\ Ends(h)
  /\ UNCHANGED <<data, conversations, registered>>

Next ==
  \/ \E h \in 1 .. MaxHandlers :
       \/ \E u \in Updates : DispatchUpdate(h, u)
       \/ Answered(h) \/ Advance(h) \/ createTransfer(h) \/ CallFails(h)

Spec == Init /\ [][Next]_vars

-----------------------------------------------------------------------------
(* Whatever order buttons, texts and late answers come in, an order that is *)
(* stored was given a direction, a destination that was checked against one *)
(* direction or the other, and an amount within the limits unless none was  *)
(* given at all; and its user is one the monitor scans the deposits of.     *)
OrdersWellFormed ==
  /\ orders # <<>> => registered
  /\ \A i \in 1 .. Len(orders) : LET o == orders[i] IN
       /\ o.direction \in Directions
       /\ AddressOf[o.destination] \in Directions
       /\ o.amount # NaN => minAmountUsdc <= o.amount /\ o.amount <= maxAmountUsdc

(* The amount of the row, computed before a call to Telegram, is the amount *)
(* that the instructions after it tell the user to send: no other update     *)
(* handled meanwhile changes what the conversation holds.                   *)
InstructionsMatchOrder ==
  [][\A h \in 1 .. MaxHandlers : createTransfer(h) =>
       orders'[Len(orders')].amount = data'[handlers[h].conversation].amount]_vars
=============================================================================
