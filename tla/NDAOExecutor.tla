---------------------------- MODULE NDAOExecutor ----------------------------
(***************************************************************************)
(* NDAOExecutor (contracts/governance/NDAOExecutor.sol), the timelock: its *)
(* admin queues transactions, and runs or cancels them once their eta has  *)
(* come.  It is the treasury and the owner of the other contracts, and the *)
(* only address that may change its own delay or nominate an admin.        *)
(*                                                                         *)
(* The storage is a record and a call an operator on it, because one call  *)
(* of NDAOLogicV1 makes several calls here.  The hash of a transaction is  *)
(* modelled by the transaction; target, value, signature and data are one  *)
(* call, of which only the calls to governance itself have an effect here. *)
(***************************************************************************)
EXTENDS Integers, Sequences

CONSTANTS
  Zero,          \* address(0)
  Accounts,      \* the people and contracts outside governance
  Executor,      \* the address of this contract
  DAO,           \* the address of NDAOProxy, the first admin
  Calls,         \* what a transaction may do
  MinimumDelay, MaximumDelay, GracePeriod,
  FirstDelay,    \* delay_ of the constructor
  MaxTime        \* bound on block.timestamp

Address == Accounts \cup {Zero, Executor, DAO}

ASSUME NDAOExecutorAssumption ==
  /\ Zero \notin Accounts \cup {Executor, DAO}
  /\ {Executor, DAO} \cap Accounts = {} /\ Executor # DAO
  /\ {MinimumDelay, MaximumDelay, GracePeriod, FirstDelay, MaxTime} \subseteq Nat
  /\ 0 < MinimumDelay
  /\ FirstDelay \in MinimumDelay .. MaximumDelay
  /\ \A c \in Calls : c.fn = "setPendingAdmin" => c.arg \in Address

VARIABLES timelock, timestamp

Transaction == [call : Calls, eta : Nat]

\* The last two fields are history: what was ever queued, and what has run.
TimelockStorage ==
  [admin        : Address,
   pendingAdmin : Address,
   delay        : Nat,
   queued       : SUBSET Transaction,
   since        : SUBSET [tx : Transaction, at : Nat],
   ran          : Seq([tx : Transaction, at : Nat])]

TimelockDeployed ==
  [admin |-> DAO, pendingAdmin |-> Zero, delay |-> FirstDelay,
   queued |-> {}, since |-> {}, ran |-> <<>>]

-----------------------------------------------------------------------------
Entry(tx) == [tx |-> tx, at |-> timestamp]

CanQueue(t, sender, tx) ==
  /\ sender = t.admin
  /\ tx.eta >= timestamp + t.delay

Queue(t, tx) ==
  [t EXCEPT !.queued = @ \cup {tx}, !.since = @ \cup {Entry(tx)}]

CanCancel(t, sender) == sender = t.admin
Cancel(t, tx) == [t EXCEPT !.queued = @ \ {tx}]

\* The requires of executeTransaction.
CanRun(t, sender, tx) ==
  /\ sender = t.admin
  /\ tx \in t.queued
  /\ timestamp >= tx.eta
  /\ timestamp <= tx.eta + GracePeriod

\* Variant: the transaction stays queued.
RunStaysQueued(t, tx) == [t EXCEPT !.ran = Append(@, Entry(tx))]

\* executeTransaction up to the call: the entry is cleared first.
Run(t, tx) ==
  [t EXCEPT !.queued = @ \ {tx}, !.ran = Append(@, Entry(tx))]

\* setDelay, setPendingAdmin and acceptAdmin, called by the timelock itself.
SelfCalls == {"setDelay", "setPendingAdmin", "acceptAdmin"}

CanSelfCall(t, c) ==
  /\ c.fn = "setDelay" => c.arg \in MinimumDelay .. MaximumDelay
  /\ c.fn = "acceptAdmin" => t.pendingAdmin = Executor
SelfCall(t, c) ==
  CASE c.fn = "setDelay"        -> [t EXCEPT !.delay = c.arg]
    [] c.fn = "setPendingAdmin" -> [t EXCEPT !.pendingAdmin = c.arg]
    [] c.fn = "acceptAdmin"     ->
         [t EXCEPT !.admin = Executor, !.pendingAdmin = Zero]

-----------------------------------------------------------------------------
(* Calls of accounts: only an account that a vote made the admin has any   *)
(* but acceptAdmin.  Its executeTransaction is in NDAOLogicV1, which knows *)
(* what the called functions do.                                           *)

AcceptAdmin(sender) ==
  /\ sender = timelock.pendingAdmin
  /\ timelock' = [timelock EXCEPT !.admin = sender, !.pendingAdmin = Zero]

QueueTransaction(sender, tx) ==
  /\ CanQueue(timelock, sender, tx)
  /\ timelock' = Queue(timelock, tx)

CancelTransaction(sender, tx) ==
  /\ CanCancel(timelock, sender)
  /\ timelock' = Cancel(timelock, tx)
=============================================================================
