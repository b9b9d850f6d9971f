---------------------------- MODULE WithdrawalCLI ----------------------------
(***************************************************************************)
(* What a run of the withdrawal CLI does at Prime, whatever the store: it   *)
(* asks for the withdrawal after it has reserved the amount, and starts to  *)
(* roll back when the answer is an error.  WithdrawalFlow and FormanceFlow  *)
(* add what it does in the two stores.                                      *)
(*                                                                          *)
(* Every run draws a new idempotency key, so a run is identified with the   *)
(* transaction that Prime makes of it.                                      *)
(***************************************************************************)
EXTENDS Polling

CONSTANTS
  Runs,     \* the withdrawals made with the CLI
  Opening   \* what every user has deposited before

ASSUME RunsAssumption ==
  /\ Runs \subseteq Txs \ Spontaneous
  /\ \A r \in Runs : Info[r].type = "WITHDRAWAL" /\ Info[r].keyUser \in Users
  /\ \A r, q \in Runs : Info[r].key = Info[q].key => r = q

VARIABLES
  cli,   \* where each run of the CLI is
  lost   \* the runs whose withdrawal was made but reported as an error

flowVars == <<vars, cli, lost>>

-----------------------------------------------------------------------------
User(r) == Info[r].keyUser

CliInit == cli = [r \in Runs |-> "start"] /\ lost = {}

Moved(r, from, to) == cli[r] = from /\ cli' = [cli EXCEPT ![r] = to]

NotListener == UNCHANGED <<now, phase, since, work, cache>>

(* Mutations of Create: Prime is asked before the amount is reserved; an    *)
(* accepted withdrawal is taken for a refused one.                          *)
Create_BeforeReserve(r) ==
  /\ Moved(r, "verified", "created")
  /\ Appear(r, "CREATED")
  /\ NotListener
  /\ UNCHANGED <<ledger, faults, lost>>

Create_TakenForRefused(r) ==
  /\ Moved(r, "reserved", "rollback")
  /\ Appear(r, "CREATED")
  /\ NotListener
  /\ UNCHANGED <<ledger, faults, lost>>

(* executeWithdrawal: Prime accepts, ... *)
Create(r) ==
  /\ Moved(r, "reserved", "created")
  /\ Appear(r, "CREATED")
  /\ NotListener
  /\ UNCHANGED <<ledger, faults, lost>>

(* ... or refuses, ... *)
CreateRefused(r) ==
  /\ Moved(r, "reserved", "rollback")
  /\ NotListener
  /\ UNCHANGED <<prime, ledger, faults, lost>>

(* ... or accepts and the answer is lost, to the HTTP client's timeout. *)
CreateUnanswered(r) ==
  /\ Moved(r, "reserved", "rollback")
  /\ Fault
  /\ Appear(r, "CREATED")
  /\ lost' = lost \cup {r}
  /\ NotListener
  /\ UNCHANGED ledger

(* A call failed for good or the process was killed: no run is resumed.     *)
Die(r) ==
  /\ cli[r] \in {"verified", "checked", "reserved", "rollback", "refunding", "compensating"}
  /\ cli' = [cli EXCEPT ![r] = "dead"]
  /\ Fault
  /\ NotListener
  /\ UNCHANGED <<prime, ledger, lost>>

CliTypeOK ==
  /\ cli \in [Runs -> {"start", "refused", "verified", "checked", "reserved",
                       "created", "rollback", "refunding", "compensating",
                       "refunded", "dead"}]
  /\ lost \subseteq Runs
=============================================================================
