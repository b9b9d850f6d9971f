---------------------------- MODULE AtomicLedger ----------------------------
(***************************************************************************)
(* What ProcessTransaction promises to its callers: "atomically updates     *)
(* balance and records transaction".  Posting is one step that adds the     *)
(* amount to the account's current balance and records it at the end of the *)
(* history; nothing else ever changes either of them.                       *)
(***************************************************************************)
EXTENDS Integers, Sequences

CONSTANTS Accounts, Calls

VARIABLES balance, history

Init ==
  /\ balance = [a \in Accounts |-> 0]
  /\ history = << >>

Post(c) ==
  /\ balance' = [balance EXCEPT ![c.acct] = balance[c.acct] + c.amount]
  /\ history' = Append(history, [acct |-> c.acct, amount |-> c.amount, ext |-> c.ext])

Next == \E c \in Calls : Post(c)

Spec == Init /\ [][Next]_<<balance, history>>
=============================================================================
