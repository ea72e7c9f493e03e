-------------------------------- MODULE Ledger --------------------------------
(***************************************************************************)
(* What the transactions table promises of an account: every entry has a   *)
(* reference, no two entries share one (its unique index), and an account  *)
(* changes by an entry's amount together with the entry's being written.   *)
(* So what a reference stands for is posted at most once, and an account   *)
(* is worth what was posted to it.  Components that pay by reference are   *)
(* shown to implement this.                                                *)
(***************************************************************************)
EXTENDS Integers

CONSTANTS
    Accounts,   \* wallets, tills
    Refs,       \* references of ledger entries
    Holder,     \* Holder[r]: the account that r is posted to
    Worth,      \* Worth[r]: what r adds to it (negative for a debit)
    Opening     \* Opening[a]: the balance at the start

VARIABLES
    account,    \* account[a]: the balance
    posted      \* the references that have an entry

ledger == <<account, posted>>

Init ==
    /\ account = Opening
    /\ posted = {}

\* The entry and the change of the balance are one transaction.
Post(r) ==
    /\ r \notin posted
    /\ posted' = posted \cup {r}
    /\ account' = [account EXCEPT ![Holder[r]] = @ + Worth[r]]

Next == \E r \in Refs : Post(r)

Spec == Init /\ [][Next]_ledger
===============================================================================
