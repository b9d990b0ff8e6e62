----------------------------- MODULE LitVMChain -----------------------------
(***************************************************************************)
(* The part of the LitVM chain the two contracts run on: block time and    *)
(* the native-token balances of every account.  A call to a contract is    *)
(* one atomic transaction, and it either happens in full or reverts, so    *)
(* every require / revert of the contracts is a guard of an action.        *)
(***************************************************************************)
EXTENDS Integers

CONSTANTS
    Address,   \* accounts that send transactions (users, makers, accusers)
    Refusing,  \* those that are contracts whose receive hook reverts
    Registry,  \* the account of MwixnetRegistry
    Court,     \* the account of GrievanceCourt
    Zero,      \* address(0), where slashed stake is burned
    Funds,     \* native tokens each address starts with
    MaxTime    \* bound: the last block timestamp explored

ASSUME ChainAssumption ==
    /\ Refusing \subseteq Address
    /\ Registry \notin Address /\ Court \notin Address /\ Zero \notin Address
    /\ Registry # Court /\ Registry # Zero /\ Court # Zero
    /\ Funds \in Nat
    /\ MaxTime \in Nat

VARIABLES
    now,       \* block.timestamp
    balance    \* native balance of every account

Account == Address \cup {Registry, Court, Zero}

\* The balances after `from` sends `amount` to `to`.
Paid(bal, from, to, amount) ==
    [[bal EXCEPT ![from] = @ - amount] EXCEPT ![to] = @ + amount]

\* A call that carries value succeeds: the sender is solvent and the
\* recipient's receive hook, which runs even for value 0, does not revert.
CanPay(from, to, amount) == balance[from] >= amount /\ to \notin Refusing

ChainInit ==
    /\ now = 1
    /\ balance = [a \in Account |-> IF a \in Address THEN Funds ELSE 0]

\* A later block.
Tick ==
    /\ now < MaxTime
    /\ now' = now + 1
=============================================================================
