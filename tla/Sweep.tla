------------------------------- MODULE Sweep -------------------------------
(***************************************************************************)
(* The finality loop both watchers run over their Map of pending events: a *)
(* sweep takes the chain's position once, then goes through the entries in *)
(* insertion order, waiting for a request at each entry that is deep       *)
(* enough. Entries set meanwhile come at the end and are still visited;    *)
(* only the sweep deletes, and only the entry it is at.                    *)
(*                                                                         *)
(* A sweep is [at, now, cursor]: asleep between two sweeps, or waiting for *)
(* the answer about the entry at the cursor.                               *)
(***************************************************************************)
EXTENDS Integers, Sequences, SequencesExt, FiniteSetsExt

Sleeping == [at |-> "sleep", now |-> 0, cursor |-> 0]

Due(pending, i, now, required) == now - pending[i].position >= required

\* The first entry from `from` on that is deep enough, and the request for it.
Advance(pending, from, now, required) ==
  LET due == {i \in from .. Len(pending) : Due(pending, i, now, required)}
  IN  IF due = {} THEN Sleeping
      ELSE [at |-> "verify", now |-> now, cursor |-> Min(due)]

Has(pending, id) == \E i \in DOMAIN pending : pending[i].id = id
=============================================================================
