------------------------------ MODULE ReceiptBook ------------------------------
(***************************************************************************)
(* What the fill loop takes the ledger to be (core/ledger.py): one book    *)
(* with at most one receipt per idempotency key, written before the action *)
(* it announces, and one execution per key.                                *)
(***************************************************************************)
EXTENDS Naturals

CONSTANT Keys

VARIABLES receipt, executions

(* The receipt of an attempt, or of the gate's refusal to attempt it.      *)
Open(k, result) ==
  /\ receipt[k] = "absent"
  /\ receipt' = [receipt EXCEPT ![k] = result]
  /\ UNCHANGED executions

Execute(k) ==
  /\ receipt[k] = "open"
  /\ executions[k] = 0
  /\ executions' = [executions EXCEPT ![k] = 1]
  /\ UNCHANGED receipt

(* Marking and closing follow the execution; a receipt is closed once.     *)
Advance(k, result) ==
  /\ executions[k] = 1
  /\ <<receipt[k], result>> \in
       {<<"open", "executed">>, <<"executed", "verified">>, <<"executed", "conflicted">>}
  /\ receipt' = [receipt EXCEPT ![k] = result]
  /\ UNCHANGED executions

Init ==
  /\ receipt = [k \in Keys |-> "absent"]
  /\ executions = [k \in Keys |-> 0]

Next ==
  \E k \in Keys :
    \/ \E result \in {"open", "blocked"} : Open(k, result)
    \/ Execute(k)
    \/ \E result \in {"executed", "verified", "conflicted"} : Advance(k, result)

Spec == Init /\ [][Next]_<<receipt, executions>>
=============================================================================
