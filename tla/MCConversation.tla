--------------------------- MODULE MCConversation ---------------------------
(***************************************************************************)
(* Small instances of what users meet: the bot's conversation and its rate *)
(* limiter, the status routes of the API, the web page. They have no state *)
(* in common, so a behaviour is one of a single one of them, its `part`.   *)
(*                                                                         *)
(* The texts are an amount, one too large and one too small, an address on *)
(* each chain, and the commands; parseFloat takes the 3 that an address on *)
(* DecentralChain starts with.                                             *)
(***************************************************************************)
EXTENDS Conversation, RateLimiter, TransferStatus, BridgePage, TLC

VARIABLE part

CallTexts == {"3", "9", "0.1", "3D..", "So..", "/start", "/wallet", "/bridge"}
Number ==
  [t \in CallTexts |-> CASE t = "3" -> 3 [] t = "9" -> 9 [] t = "0.1" -> 0
                         [] t = "3D.." -> 3 [] OTHER -> NaN]
Address ==
  [t \in CallTexts |-> CASE t = "3D.." -> "sol_to_dcc" [] t = "So.." -> "dcc_to_sol"
                         [] OTHER -> None]

PartInit ==
  /\ Init /\ LimiterInit /\ StatusInit /\ PageInit
  /\ part \in {"wizard", "limiter", "status", "page"}

PartNext ==
  /\ UNCHANGED part
  /\ \/ /\ part = "wizard" /\ Next
        /\ UNCHANGED <<limiter_vars, status_vars, page_vars>>
     \/ /\ part = "limiter" /\ LimiterNext
        /\ UNCHANGED <<vars, status_vars, page_vars>>
     \/ /\ part = "status" /\ StatusNext
        /\ UNCHANGED <<vars, limiter_vars, page_vars>>
     \/ /\ part = "page" /\ PageNext
        /\ UNCHANGED <<vars, limiter_vars, status_vars>>

PartSpec ==
  PartInit /\ [][PartNext]_<<vars, limiter_vars, status_vars, page_vars, part>>
=============================================================================
