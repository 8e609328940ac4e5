-------------------------- MODULE AppendOnlyLedger --------------------------
(***************************************************************************)
(* What the mock Cardano ledger promises its readers: a log that only      *)
(* grows, one transaction at a time, at increasing slots ("append-only",   *)
(* "monotonically increasing slot": openwater_mk/pipeline.py and           *)
(* cardano.py).                                                            *)
(***************************************************************************)
EXTENDS Naturals, Sequences

CONSTANT Txs        \* transactions, records with a slot

VARIABLE log

Init == log = <<>>

Submit(t) ==
  /\ log # <<>> => t.slot > log[Len(log)].slot
  /\ log' = Append(log, t)

\* Some transaction is submitted: the one the new log ends with.
Next == /\ Len(log') = Len(log) + 1
        /\ log'[Len(log')] \in Txs
        /\ Submit(log'[Len(log')])

Spec == Init /\ [][Next]_log
=============================================================================
