--------------------------- MODULE TransferStatus ---------------------------
(***************************************************************************)
(* What the API tells about a transfer (api/src): GET /transfer/:id reads  *)
(* the row, then two entries of the controller, one request after the      *)
(* other; GET /transfer/:id/stream keeps an event stream open that PATCH   *)
(* /admin/transfer/:id/status writes to. An action is the code between two *)
(* awaits.                                                                 *)
(*                                                                         *)
(* The table outlives the process and nothing under api/ calls its         *)
(* createTransfer: InsertTransfer is that function, whoever calls it. Ids  *)
(* are long enough to be looked up. Of validStatuses those are kept that   *)
(* the code tells apart, with one of the others. Pages of the history and  *)
(* sums over the table change nothing and are left out.                    *)
(***************************************************************************)
EXTENDS FiniteSets, Integers

CONSTANTS
  TransferIds,            \* ids asked about, of deposits and of burns
  Lookups,                \* requests for a status that may overlap
  Clients                 \* responses of event streams

VARIABLES
  processed,              \* ids with an entry processed_<id> in the controller
  burned,                 \* ids with an entry burn_<id> in the controller
  table,                  \* id -> status of its row, or NoRow
  lookup,                 \* request -> its locals and its answer
  sseClients,             \* id -> responses subscribed to it
  stream                  \* response -> what was written to it

entry_vars == <<processed, burned>>
status_vars == <<entry_vars, table, lookup, sseClients, stream>>

NoRow == "no row"
Final == {"completed", "failed"}
ValidStatuses == {"pending_confirmation", "minting"} \cup Final

\* `row` is what the table held, `before` whether the controller had an entry when
\* the request came, `unread` whether a request to the node failed: history.
NoLookup == [step |-> "idle", id |-> NoRow, status |-> NoRow,
             row |-> NoRow, before |-> FALSE, unread |-> FALSE]
NoStream == [state |-> "free", id |-> NoRow, told |-> NoRow]

StatusInit ==
  /\ processed = {} /\ burned = {}
  /\ table = [i \in TransferIds |-> NoRow]
  /\ lookup = [q \in Lookups |-> NoLookup]
  /\ sseClients = [i \in TransferIds |-> {}]
  /\ stream = [c \in Clients |-> NoStream]

-----------------------------------------------------------------------------
(* The controller and the table.                                           *)

\* mintToken accepts a transfer, burnToken records a burn: an id is of one kind.
EntryWritten(i) ==
  /\ i \notin processed \cup burned
  /\ \/ processed' = processed \cup {i} /\ UNCHANGED burned
     \/ burned' = burned \cup {i} /\ UNCHANGED processed
  /\ UNCHANGED <<table, lookup, sseClients, stream>>

\* createTransfer: INSERT OR IGNORE, with the default status.
InsertTransfer(i) ==
  /\ table[i] = NoRow
  /\ table' = [table EXCEPT ![i] = "pending_confirmation"]
  /\ UNCHANGED <<entry_vars, lookup, sseClients, stream>>

-----------------------------------------------------------------------------
(* GET /transfer/:id                                                       *)

\* Up to the first request to the node, which a completed row spares.
GetTransfer(q, i) ==
  /\ lookup[q].step \in {"idle", "answered"}
  /\ lookup' = [lookup EXCEPT ![q] =
       [step |-> IF table[i] = "completed" THEN "answered" ELSE "processed", id |-> i,
        status |-> IF table[i] = NoRow THEN "pending_confirmation" ELSE table[i],
        row |-> table[i], before |-> i \in processed \cup burned, unread |-> FALSE]]
  /\ UNCHANGED <<entry_vars, table, sseClients, stream>>

\* Variant: the last read decides.
ReadsAnew(q, entries, then) ==
  \E readable \in BOOLEAN :
    lookup' = [lookup EXCEPT
      ![q].step = then,
      ![q].status = IF readable /\ lookup[q].id \in entries THEN "completed"
                    ELSE "pending_confirmation",
      ![q].unread = @ \/ ~ readable]

\* The answer of one read: a read that fails counts as no entry.
Reads(q, entries, then) ==
  LET l == lookup[q] IN
  \E readable \in BOOLEAN :
    lookup' = [lookup EXCEPT ![q] = [l EXCEPT
      !.step = then,
      !.status = IF readable /\ l.id \in entries THEN "completed" ELSE l.status,
      !.unread = l.unread \/ ~ readable]]

isTransferProcessed(q) ==
  /\ lookup[q].step = "processed"
  /\ Reads(q, processed, "burn")
  /\ UNCHANGED <<entry_vars, table, sseClients, stream>>

getBurnRecord(q) ==
  /\ lookup[q].step = "burn"
  /\ Reads(q, burned, "answered")
  /\ UNCHANGED <<entry_vars, table, sseClients, stream>>

-----------------------------------------------------------------------------
(* GET /transfer/:id/stream and PATCH /admin/transfer/:id/status           *)

\* The response is registered and told what the row says, if there is one.
Subscribe(c, i) ==
  /\ stream[c] = NoStream
  /\ sseClients' = [sseClients EXCEPT ![i] = @ \cup {c}]
  /\ stream' = [stream EXCEPT ![c] = [state |-> "open", id |-> i, told |-> table[i]]]
  /\ UNCHANGED <<entry_vars, table, lookup>>

\* A final status ends the responses and forgets the transfer. Writing to a
\* response whose client is gone does no harm.
broadcastTransferUpdate(i, status) ==
  /\ stream' = [c \in Clients |->
       IF c \notin sseClients[i] THEN stream[c]
       ELSE [stream[c] EXCEPT !.told = status,
               !.state = IF status \in Final /\ @ = "open" THEN "ended" ELSE @]]
  /\ sseClients' = IF status \in Final THEN [sseClients EXCEPT ![i] = {}] ELSE sseClients

\* An operator with the key changes a row that exists.
updateTransferStatus(i, status) ==
  /\ table[i] # NoRow
  /\ table' = [table EXCEPT ![i] = status]
  /\ broadcastTransferUpdate(i, status)
  /\ UNCHANGED <<entry_vars, lookup>>

\* The client goes, of its own accord or at the end of the response.
ClientLeaves(c) ==
  /\ stream[c].state \in {"open", "ended"}
  /\ stream' = [stream EXCEPT ![c].state = "left"]
  /\ UNCHANGED <<entry_vars, table, lookup, sseClients>>

\* Variant: the first client to leave takes the transfer's entry with it.
OnCloseForgets(c) ==
  /\ stream[c].state = "left"
  /\ sseClients' = [sseClients EXCEPT ![stream[c].id] = {}]
  /\ stream' = [stream EXCEPT ![c] = NoStream]
  /\ UNCHANGED <<entry_vars, table, lookup>>

\* The close event arrives later, when others may have subscribed to the id.
OnClose(c) ==
  /\ stream[c].state = "left"
  /\ sseClients' = [sseClients EXCEPT ![stream[c].id] = @ \ {c}]
  /\ stream' = [stream EXCEPT ![c] = NoStream]
  /\ UNCHANGED <<entry_vars, table, lookup>>

StatusNext ==
  \/ \E i \in TransferIds :
       \/ EntryWritten(i) \/ InsertTransfer(i)
       \/ \E q \in Lookups : GetTransfer(q, i)
       \/ \E c \in Clients : Subscribe(c, i)
       \/ \E s \in ValidStatuses : updateTransferStatus(i, s)
  \/ \E q \in Lookups : isTransferProcessed(q) \/ getBurnRecord(q)
  \/ \E c \in Clients : ClientLeaves(c) \/ OnClose(c)

StatusSpec == StatusInit /\ [][StatusNext]_status_vars

-----------------------------------------------------------------------------
Lookup ==
  [step: {"idle", "processed", "burn", "answered"}, id: TransferIds \cup {NoRow},
   status: ValidStatuses \cup {NoRow}, row: ValidStatuses \cup {NoRow},
   before: BOOLEAN, unread: BOOLEAN]
Stream ==
  [state: {"free", "open", "ended", "left"}, id: TransferIds \cup {NoRow},
   told: ValidStatuses \cup {NoRow}]

\* Rows, requests and streams keep their types.
StatusTypeOK ==
  /\ processed \subseteq TransferIds /\ burned \subseteq TransferIds
  /\ table \in [TransferIds -> ValidStatuses \cup {NoRow}]
  /\ lookup \in [Lookups -> Lookup]
  /\ sseClients \in [TransferIds -> SUBSET Clients]
  /\ stream \in [Clients -> Stream]

(* Whatever moves between the reads of one request and whichever of them    *)
(* fail, a transfer is answered completed only if its row was or one of its *)
(* entries is there, and it is not answered otherwise if an entry was there *)
(* before the request and both reads were answered.                         *)
StatusTrue ==
  \A q \in Lookups : lookup[q].step = "answered" =>
    /\ lookup[q].status = "completed" =>
         lookup[q].row = "completed" \/ lookup[q].id \in processed \cup burned
    /\ lookup[q].before /\ ~ lookup[q].unread => lookup[q].status = "completed"

(* No client misses a change of status: a response that is still open is    *)
(* subscribed, whoever else came and left and in whatever order the close   *)
(* events arrive, and the last thing it was told is what the row says. One  *)
(* that the server ended was told a final status.                           *)
StreamsHear ==
  \A c \in Clients :
    LET s == stream[c] IN
    /\ s.state = "open" =>
         /\ c \in sseClients[s.id]
         /\ \/ s.told = table[s.id]
            \/ s.told = NoRow /\ table[s.id] = "pending_confirmation"
    /\ s.state = "ended" => s.told \in Final
=============================================================================
