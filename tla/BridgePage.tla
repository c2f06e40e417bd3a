----------------------------- MODULE BridgePage -----------------------------
(***************************************************************************)
(* The bridge's web page (frontend/src) and the two routes of the API it   *)
(* posts to, POST /deposit and POST /redeem (api/src/routes). An action is *)
(* the code between two awaits, of the page or of a route. A wallet is      *)
(* connected and stays; the API is configured.                             *)
(*                                                                         *)
(* The page shows the form of one direction until a transfer is active.    *)
(* Nothing makes it inactive again but a reload: its id is 'pending', which *)
(* GET /transfer refuses as too short, so that no poll changes its status, *)
(* and only a final status has a button to leave it.                       *)
(***************************************************************************)
EXTENDS Integers

CONSTANTS
  Amounts,                \* numbers that may be typed, 0 for any that is not one
  Addresses,              \* addresses that may be typed
  LongEnough,             \* those of at least 20 characters
  ValidDccAddresses,      \* those isValidDccAddress accepts
  MaxAmount,              \* 1000 in the schemas
  Requests,               \* posts that may be under way together
  MaxMounts, MaxHalts     \* bounds: forms mounted; changes of `paused`

ASSUME PageAssumption ==
  /\ Amounts \subseteq Nat /\ MaxAmount \in Nat
  /\ LongEnough \subseteq Addresses /\ ValidDccAddresses \subseteq Addresses

VARIABLES
  direction,              \* of the store: which form is mounted
  fields,                 \* amount and address in the mounted form
  submitting,             \* isSubmitting of the mounted form
  mount,                  \* number of the mounted form
  active,                 \* activeTransfer of the store
  request,                \* post -> what was posted and how far its route is
  halted, halts,          \* the controller's entry "paused"
  instruction             \* history: the API's answer the active transfer came with

form_vars == <<direction, fields, submitting, mount>>
page_vars == <<form_vars, active, request, halted, halts, instruction>>

Ways == {"sol_to_dcc", "dcc_to_sol"}
Nothing == "nothing"
Empty == [amount |-> 0, address |-> Nothing]
NoTransfer == [direction |-> Nothing, typed |-> Empty]

\* `open`: since the post arrived the bridge was not paused at some moment, or
\* could not be read (history).
NoRequest == [step |-> "free", direction |-> Nothing, typed |-> Empty, mount |-> 0, open |-> FALSE]

PageInit ==
  /\ direction = "sol_to_dcc" /\ fields = Empty /\ submitting = FALSE /\ mount = 1
  /\ active = NoTransfer /\ instruction = NoRequest
  /\ request = [r \in Requests |-> NoRequest]
  /\ halted \in BOOLEAN /\ halts = 0

-----------------------------------------------------------------------------
(* The form                                                                *)

TypeIn(amount, address) ==
  /\ active = NoTransfer
  /\ fields' = [amount |-> amount, address |-> address]
  /\ UNCHANGED <<direction, submitting, mount, active, request, halted, halts, instruction>>

NewForm == fields' = Empty /\ submitting' = FALSE /\ mount' = mount + 1

\* setDirection: the other form is mounted, empty; a post goes on.
setDirection(d) ==
  /\ active = NoTransfer /\ direction # d /\ mount < MaxMounts
  /\ direction' = d /\ NewForm
  /\ UNCHANGED <<active, request, halted, halts, instruction>>

\* A reload starts over, and nobody waits for the posts any more.
Reload ==
  /\ mount < MaxMounts
  /\ direction' = "sol_to_dcc" /\ NewForm
  /\ active' = NoTransfer /\ instruction' = NoRequest
  /\ request' = [r \in Requests |-> NoRequest]
  /\ UNCHANGED <<halted, halts>>

\* handleDeposit and handleRedeem up to the post. The button is disabled meanwhile.
Submit(r) ==
  /\ active = NoTransfer /\ ~ submitting /\ request[r] = NoRequest
  /\ fields.amount > 0 /\ fields.address \in LongEnough
  /\ submitting' = TRUE
  /\ request' = [request EXCEPT ![r] =
       [step |-> "posted", direction |-> direction, typed |-> fields, mount |-> mount,
        open |-> FALSE]]
  /\ UNCHANGED <<direction, fields, mount, active, halted, halts, instruction>>

-----------------------------------------------------------------------------
(* The routes                                                              *)

At(r, step) == request[r].step = step

Goes(r, step, open) ==
  request' = [request EXCEPT ![r] = [@ EXCEPT !.step = step, !.open = open]]

OnServer == <<form_vars, active, halted, halts, instruction>>

\* The schema and the address are checked: the recipient of a deposit, the sender
\* of a redemption, which then is answered at once.
Accepted(r) ==
  request[r].typed.amount <= MaxAmount /\ request[r].typed.address \in ValidDccAddresses

PostDeposit(r) ==
  /\ At(r, "posted") /\ request[r].direction = "sol_to_dcc"
  /\ Goes(r, IF Accepted(r) THEN "getBridgeStats" ELSE "refused", ~ halted)
  /\ UNCHANGED OnServer

PostRedeem(r) ==
  /\ At(r, "posted") /\ request[r].direction = "dcc_to_sol"
  /\ Goes(r, IF Accepted(r) THEN "answered" ELSE "refused", ~ halted)
  /\ UNCHANGED OnServer

\* A node that cannot be reached does not hold up a deposit.
CheckPaused(r) ==
  /\ At(r, "getBridgeStats")
  /\ \/ Goes(r, IF halted THEN "refused" ELSE "getSlot", request[r].open)
     \/ Goes(r, "getSlot", TRUE)
  /\ UNCHANGED OnServer

\* The slot fails and the request with it, or the instruction is answered.
AnswerDeposit(r) ==
  /\ At(r, "getSlot")
  /\ \E step \in {"refused", "answered"} : Goes(r, step, request[r].open)
  /\ UNCHANGED OnServer

\* emergencyPause and resume of the controller.
ChangePaused ==
  /\ halts < MaxHalts
  /\ halts' = halts + 1 /\ halted' = ~ halted
  /\ request' = [r \in Requests |->
       IF request[r].step \in {"getBridgeStats", "getSlot"}
       THEN [request[r] EXCEPT !.open = @ \/ ~ halted'] ELSE request[r]]
  /\ UNCHANGED <<form_vars, active, instruction>>

-----------------------------------------------------------------------------
(* The page, after the post                                                *)

\* Variant: the form is read once more.
ShowForm(r) == [direction |-> direction, typed |-> fields]

\* What handleDeposit and handleRedeem make active: what they read before the post.
Show(r) == [direction |-> request[r].direction, typed |-> request[r].typed]

\* isSubmitting is the form's own; a form that is gone keeps nothing.
Finish(r) ==
  /\ request' = [request EXCEPT ![r] = NoRequest]
  /\ submitting' = (submitting /\ request[r].mount # mount)
  /\ UNCHANGED <<direction, fields, mount, halted, halts>>

\* The instruction came: the transfer is active, whatever is shown by now.
setActiveTransfer(r) ==
  /\ At(r, "answered")
  /\ active' = Show(r)
  /\ instruction' = request[r]
  /\ Finish(r)

\* Refused, failed or timed out: an error is shown.
PostFails(r) ==
  /\ request[r] # NoRequest
  /\ Finish(r)
  /\ UNCHANGED <<active, instruction>>

PageNext ==
  \/ \E a \in Amounts, x \in Addresses : TypeIn(a, x)
  \/ \E d \in Ways : setDirection(d)
  \/ Reload \/ ChangePaused
  \/ \E r \in Requests :
       \/ Submit(r) \/ PostDeposit(r) \/ PostRedeem(r) \/ CheckPaused(r) \/ AnswerDeposit(r)
       \/ setActiveTransfer(r) \/ PostFails(r)

PageSpec == PageInit /\ [][PageNext]_page_vars

-----------------------------------------------------------------------------
Typed == [amount: Amounts \cup {0}, address: Addresses \cup {Nothing}]
Post ==
  [step: {"free", "posted", "getBridgeStats", "getSlot", "answered", "refused"},
   direction: Ways \cup {Nothing}, typed: Typed, mount: Nat, open: BOOLEAN]

\* The page and its posts keep their types.
PageTypeOK ==
  /\ direction \in Ways /\ fields \in Typed /\ submitting \in BOOLEAN /\ mount \in Nat
  /\ active \in [direction: Ways \cup {Nothing}, typed: Typed]
  /\ instruction \in Post /\ request \in [Requests -> Post]
  /\ halted \in BOOLEAN /\ halts \in Nat

(* The transfer the page shows is the one the API made an instruction for,  *)
(* with the direction, the amount and the address it checked, however the   *)
(* user edits the form, switches it or posts another while the answer is    *)
(* awaited. If it is a deposit, the bridge was not paused all the time that *)
(* the route worked, as far as the route could read.                        *)
ShownAsInstructed ==
  active # NoTransfer =>
    /\ active.direction = instruction.direction
    /\ active.typed = instruction.typed
    /\ active.typed.amount \in 1 .. MaxAmount
    /\ active.typed.address \in ValidDccAddresses
    /\ active.direction = "sol_to_dcc" => instruction.open
=============================================================================
