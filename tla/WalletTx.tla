------------------------------ MODULE WalletTx ------------------------------
(***************************************************************************)
(* The wallet transactions of the store, one SQL statement per step:       *)
(* Credit, Debit (store.go) and MarkPaymentPaidAndCredit                   *)
(* (store_orders.go), run concurrently on pooled connections.              *)
(*                                                                         *)
(* PostgreSQL is modelled from how the store uses it, at its default       *)
(* isolation level READ COMMITTED: an UPDATE and a SELECT ... FOR UPDATE   *)
(* wait for the lock of their row, keep it until the transaction ends and, *)
(* once they have it, evaluate their WHERE clause on the newest committed  *)
(* version; what a transaction writes is seen by itself alone until it     *)
(* commits.  pgx.BeginFunc rolls back on any error, which a cancelled      *)
(* context or a lost connection can raise at every statement.              *)
(*                                                                         *)
(* The committed state (balance, ledger) refines Wallet.                   *)
(***************************************************************************)
EXTENDS Wallet

CONSTANTS
    Txs,            \* calls of the three store functions
    NoTx            \* an unlocked row

ASSUME NoTxAssumption == NoTx \notin Txs

VARIABLES
    newBalance,     \* the uncommitted version of a users row, under rowLock
    rowLock,        \* the transaction that holds the users row
    credited,       \* payments.credited, committed
    payLock,        \* the transaction that holds the payments row
    tx              \* the locals of each transaction

txVars == <<newBalance, rowLock, credited, payLock, tx>>
vars == <<balance, ledger, newBalance, rowLock, credited, payLock, tx>>

Ops == {"topup", "refund", "debit"}

Steps == {"idle", "lockPayment", "update", "readBalance", "insert", "markPaid",
          "commit", "done", "insufficient", "already", "aborted"}

Ended == {"done", "insufficient", "already", "aborted"}

\* `after' is the Go variable balance: what RETURNING or the SELECT delivered.
TxRecord == [pc : Steps, op : Ops, user : Users, amount : Amounts,
             ref : Refs, after : Int]

TypeOK ==
    /\ WalletTypeOK
    /\ newBalance \in [Users -> Int]
    /\ rowLock \in [Users -> Txs \cup {NoTx}]
    /\ credited \in [Refs -> BOOLEAN]
    /\ payLock \in [Refs -> Txs \cup {NoTx}]
    /\ tx \in [Txs -> TxRecord]

Init ==
    /\ WalletInit
    /\ newBalance = [u \in Users |-> 0]
    /\ rowLock = [u \in Users |-> NoTx]
    /\ credited = [p \in Refs |-> FALSE]
    /\ payLock = [p \in Refs |-> NoTx]
    /\ tx \in [Txs -> [pc : {"idle"}, op : Ops, user : Users, amount : Amounts \ {0},
                       ref : Refs, after : {0}]]
    \* A payment belongs to one user and has one amount: its row says so.
    /\ \A s, t \in Txs :
          tx[s].op = "topup" /\ tx[t].op = "topup" /\ tx[s].ref = tx[t].ref
              => tx[s].user = tx[t].user /\ tx[s].amount = tx[t].amount

-----------------------------------------------------------------------------
Goto(t, pc) == tx' = [tx EXCEPT ![t].pc = pc]

\* The locks of a transaction are released when it commits or rolls back.
Release(t) ==
    /\ rowLock' = [u \in Users |-> IF rowLock[u] = t THEN NoTx ELSE rowLock[u]]
    /\ payLock' = [p \in Refs |-> IF payLock[p] = t THEN NoTx ELSE payLock[p]]

\* BEGIN; MarkPaymentPaidAndCredit starts at the payment row, the other two
\* at the users row.
Begin(t) ==
    /\ tx[t].pc = "idle"
    /\ Goto(t, IF tx[t].op = "topup" THEN "lockPayment" ELSE "update")
    /\ UNCHANGED <<balance, ledger, newBalance, rowLock, credited, payLock>>

\* Mutant: SELECT without FOR UPDATE.
LockPaymentUnlocked(t) ==
    /\ tx[t].pc = "lockPayment"
    /\ Goto(t, IF credited[tx[t].ref] THEN "already" ELSE "update")
    /\ UNCHANGED <<balance, ledger, newBalance, rowLock, credited, payLock>>

\* Mutant: the early return for a credited payment leaves the transaction open.
LockPaymentNeverEnds(t) ==
    LET p == tx[t].ref IN
    /\ tx[t].pc = "lockPayment"
    /\ payLock[p] = NoTx
    /\ payLock' = [payLock EXCEPT ![p] = t]
    /\ Goto(t, IF credited[p] THEN "already" ELSE "update")
    /\ UNCHANGED <<balance, ledger, newBalance, rowLock, credited>>

\* SELECT ... credited FROM payments ... FOR UPDATE.
LockPayment(t) ==
    LET p == tx[t].ref IN
    /\ tx[t].pc = "lockPayment"
    /\ payLock[p] = NoTx
    /\ \/ /\ ~credited[p]
          /\ payLock' = [payLock EXCEPT ![p] = t]
          /\ Goto(t, "update")
       \/ /\ credited[p]           \* no-op, commits nothing
          /\ Goto(t, "already")
          /\ UNCHANGED payLock
    /\ UNCHANGED <<balance, ledger, newBalance, rowLock, credited>>

\* The signed amount of the transaction's ledger row.
Signed(t) == IF tx[t].op = "debit" THEN -tx[t].amount ELSE tx[t].amount

\* Mutant: the new balance is computed from a plain SELECT, which does not
\* wait for the transaction that holds the row.
UpdateUserNoWait(t) ==
    LET u == tx[t].user IN
    /\ tx[t].pc = "update"
    /\ tx[t].op = "debit" => Covers(u, tx[t].amount)
    /\ newBalance' = [newBalance EXCEPT ![u] = balance[u] + Signed(t)]
    /\ tx' = [tx EXCEPT ![t].pc = "insert", ![t].after = balance[u] + Signed(t)]
    /\ UNCHANGED <<balance, ledger, rowLock, credited, payLock>>

\* UPDATE users ..., for Debit with balance_cents >= $1 in its WHERE clause.
UpdateUser(t) ==
    LET u == tx[t].user IN
    /\ tx[t].pc = "update"
    /\ rowLock[u] = NoTx
    /\ \/ /\ tx[t].op = "debit" => Covers(u, tx[t].amount)
          /\ rowLock' = [rowLock EXCEPT ![u] = t]
          /\ newBalance' = [newBalance EXCEPT ![u] = balance[u] + Signed(t)]
          /\ tx' = IF tx[t].op = "debit"
                     THEN [tx EXCEPT ![t].pc = "readBalance"]
                     ELSE [tx EXCEPT ![t].pc = "insert",
                                     ![t].after = balance[u] + Signed(t)]
          /\ UNCHANGED payLock
       \/ /\ tx[t].op = "debit" /\ ~Covers(u, tx[t].amount)
          /\ Goto(t, "insufficient")       \* RowsAffected() = 0
          /\ Release(t)
          /\ UNCHANGED newBalance
    /\ UNCHANGED <<balance, ledger, credited>>

\* Debit reads the balance it has just written.
ReadBalance(t) ==
    /\ tx[t].pc = "readBalance"
    /\ tx' = [tx EXCEPT ![t].pc = "insert", ![t].after = newBalance[tx[t].user]]
    /\ UNCHANGED <<balance, ledger, newBalance, rowLock, credited, payLock>>

\* INSERT INTO ledger_entries: invisible to others until the commit.
InsertEntry(t) ==
    /\ tx[t].pc = "insert"
    /\ Goto(t, IF tx[t].op = "topup" THEN "markPaid" ELSE "commit")
    /\ UNCHANGED <<balance, ledger, newBalance, rowLock, credited, payLock>>

\* UPDATE payments SET status='paid', credited=TRUE, on the row already locked.
MarkPaid(t) ==
    /\ tx[t].pc = "markPaid"
    /\ Goto(t, "commit")
    /\ UNCHANGED <<balance, ledger, newBalance, rowLock, credited, payLock>>

\* Mutant: credits are written with a kind of their own.
KindAsCredit(t) == IF tx[t].op = "debit" THEN "debit" ELSE "credit"

\* The kind of the ledger row: 'debit' and 'topup' are literals of the INSERTs,
\* Credit is called with "refund".
KindOf(t) == tx[t].op

\* COMMIT publishes the users row, the ledger row and the payments row at once.
Commit(t) ==
    LET u == tx[t].user IN
    /\ tx[t].pc = "commit"
    /\ balance' = [balance EXCEPT ![u] = newBalance[u]]
    /\ ledger' = [ledger EXCEPT ![u] =
                    Append(@, [kind |-> KindOf(t), amount |-> Signed(t),
                               after |-> tx[t].after, reference |-> tx[t].ref])]
    /\ credited' = [credited EXCEPT ![tx[t].ref] = @ \/ tx[t].op = "topup"]
    /\ Goto(t, "done")
    /\ Release(t)
    /\ UNCHANGED newBalance

\* ROLLBACK: an error, a cancelled context, a lost connection or a crash.
Abort(t) ==
    /\ tx[t].pc \notin Ended \cup {"idle"}
    /\ Goto(t, "aborted")
    /\ Release(t)
    /\ UNCHANGED <<balance, ledger, newBalance, credited>>

\* Every call has returned: the only state in which nothing more happens.
AllEnded ==
    /\ \A t \in Txs : tx[t].pc \in Ended
    /\ UNCHANGED vars

TxStep(t) ==
    \/ LockPayment(t) \/ UpdateUser(t) \/ ReadBalance(t) \/ InsertEntry(t)
    \/ MarkPaid(t) \/ Commit(t)

Next ==
    \/ \E t \in Txs : Begin(t) \/ TxStep(t) \/ Abort(t)
    \/ AllEnded

\* A transaction that has begun runs on; nothing is assumed of the calls that
\* have not begun, nor of aborts.
Fairness == \A t \in Txs : WF_vars(TxStep(t))

Spec == Init /\ [][Next]_vars /\ Fairness

-----------------------------------------------------------------------------
\* The transactions together behave as one atomic Credit or Debit per commit:
\* no update is lost, no balance_after is stale, no debit passes on a balance
\* another debit is about to take (store.go:213-257).
RefinesWallet == WalletSpec

\* MarkPaymentPaidAndCredit credits a payment once, however many deliveries
\* of the provider's event call it at the same time (store_orders.go:145).
TopupOnce ==
    \A u \in Users, p \in Refs : \A i, j \in 1 .. Len(ledger[u]) :
        IsEntry(u, i, "topup", p) /\ IsEntry(u, j, "topup", p) => i = j

\* Every call that has begun returns: no cycle of row locks is possible,
\* because a payments row is always locked before a users row.
EveryCallReturns == \A t \in Txs : tx[t].pc # "idle" ~> tx[t].pc \in Ended
=============================================================================
