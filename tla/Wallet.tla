------------------------------- MODULE Wallet -------------------------------
(***************************************************************************)
(* The wallet: users.balance_cents and the ledger_entries rows of each     *)
(* user, moved by the transactions Credit and Debit of store.go and by the *)
(* wallet part of MarkPaymentPaidAndCredit.  A committed transaction is    *)
(* one step here; WalletTx takes the same transactions statement by        *)
(* statement, under row locks, and refines this module.                    *)
(*                                                                         *)
(* OrderFlow and TopUp extend this module and perform these moves inside   *)
(* their handlers.                                                         *)
(***************************************************************************)
EXTENDS Integers, Sequences

CONSTANTS
    Users,        \* the rows of table users
    Refs,         \* ledger references: order ids and payment references
    Amounts       \* the amounts, in cents, a caller may pass

VARIABLES
    balance,      \* users.balance_cents
    ledger        \* the ledger rows of each user, in commit order

walletVars == <<balance, ledger>>

ASSUME AmountsAssumption == Amounts \subseteq Nat

\* The kinds the code writes; the CHECK of table ledger_entries also admits
\* 'adjustment', which no statement inserts.
Kinds == {"topup", "debit", "refund"}

Entry == [kind : Kinds, amount : Int, after : Int, reference : Refs]

WalletTypeOK ==
    /\ balance \in [Users -> Int]
    /\ ledger \in [Users -> Seq(Entry)]

WalletInit ==
    /\ balance = [u \in Users |-> 0]
    /\ ledger = [u \in Users |-> << >>]

-----------------------------------------------------------------------------
\* Mutant: the row carries the balance read before the update.
MoveStale(u, kind, amount, ref) ==
    /\ balance' = [balance EXCEPT ![u] = @ + amount]
    /\ ledger' = [ledger EXCEPT ![u] =
                    Append(@, [kind |-> kind, amount |-> amount,
                               after |-> balance[u], reference |-> ref])]

\* The two writes every wallet transaction makes before it commits: the new
\* balance of the user and one ledger row that carries it.
Move(u, kind, amount, ref) ==
    /\ balance' = [balance EXCEPT ![u] = @ + amount]
    /\ ledger' = [ledger EXCEPT ![u] =
                    Append(@, [kind |-> kind, amount |-> amount,
                               after |-> balance[u] + amount, reference |-> ref])]

\* store.Credit, committed.
Credit(u, kind, amount, ref) ==
    /\ amount > 0
    /\ Move(u, kind, amount, ref)

\* Mutant: an UPDATE without the condition.
CoversAnything(u, amount) == TRUE

\* The WHERE clause of the UPDATE in store.Debit.
Covers(u, amount) == balance[u] >= amount

\* store.Debit, committed.
Debit(u, amount, ref) ==
    /\ amount > 0
    /\ Covers(u, amount)
    /\ Move(u, "debit", -amount, ref)

WalletNext ==
    \E u \in Users, amount \in Amounts, ref \in Refs :
        \/ \E kind \in {"topup", "refund"} : Credit(u, kind, amount, ref)
        \/ Debit(u, amount, ref)

WalletSpec == WalletInit /\ [][WalletNext]_walletVars

-----------------------------------------------------------------------------
\* The row of user u's ledger at position i is a kind row for ref.
IsEntry(u, i, kind, ref) ==
    /\ i \in 1 .. Len(ledger[u])
    /\ ledger[u][i].kind = kind
    /\ ledger[u][i].reference = ref

HasEntry(u, kind, ref) == \E i \in 1 .. Len(ledger[u]) : IsEntry(u, i, kind, ref)

\* No wallet is ever overdrawn, whatever orders run at the same time: the
\* conditional UPDATE of store.Debit and the CHECK on users.balance_cents.
NonNegative == \A u \in Users : balance[u] >= 0

\* The balance the ledger of user u shows just before its row i.
BalanceBefore(u, i) == IF i = 1 THEN 0 ELSE ledger[u][i - 1].after

\* The ledger explains the balance: every row continues from the one before
\* it, and the newest row's balance_after is users.balance_cents.
LedgerChain ==
    \A u \in Users :
        /\ \A i \in 1 .. Len(ledger[u]) :
              ledger[u][i].after = BalanceBefore(u, i) + ledger[u][i].amount
        /\ balance[u] = BalanceBefore(u, Len(ledger[u]) + 1)
=============================================================================
