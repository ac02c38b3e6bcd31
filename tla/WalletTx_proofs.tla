-------------------------- MODULE WalletTx_proofs --------------------------
(***************************************************************************)
(* The wallet's transactions, statement by statement and with row locks,   *)
(* implement the atomic wallet, for any number of transactions, users and  *)
(* payments.                                                               *)
(*                                                                         *)
(* The inductive invariant says what a transaction may rely on because of  *)
(* the locks it holds: that the balance it has written and the balance it  *)
(* has read are still those of the committed row, and that its payment is  *)
(* still not credited.  That the locks make no circle needs an invariant   *)
(* of its own, Holders.                                                    *)
(***************************************************************************)
EXTENDS WalletTx, Wallet_proofs

\* The steps at which a transaction has updated its users row.
Holding == {"readBalance", "insert", "markPaid", "commit"}

TxSound(t) ==
    /\ tx[t].amount > 0
    /\ tx[t].pc \in Holding =>
          /\ rowLock[tx[t].user] = t
          /\ newBalance[tx[t].user] = balance[tx[t].user] + Signed(t)
          /\ tx[t].op = "debit" => balance[tx[t].user] >= tx[t].amount
    /\ tx[t].pc \in Holding \ {"readBalance"} => tx[t].after = newBalance[tx[t].user]
    /\ tx[t].op = "topup" /\ tx[t].pc \in {"update"} \cup Holding =>
          payLock[tx[t].ref] = t /\ ~credited[tx[t].ref]

AllTxs == \A t \in Txs : TxSound(t)

\* The ledgers hold top-up rows of credited payments only, one of each.
RowsSound ==
    \A u \in Users, p \in Refs :
        OneRow(u, "topup", p) /\ (HasEntry(u, "topup", p) => credited[p])

Inv == TypeOK /\ AllTxs /\ RowsSound

\* Another transaction's locks keep what it relies on.
LEMMA Others ==
    ASSUME NEW s \in Txs, TxSound(s), tx'[s] = tx[s],
           rowLock[tx[s].user] = s =>
              /\ rowLock'[tx[s].user] = s
              /\ newBalance'[tx[s].user] = newBalance[tx[s].user]
              /\ balance'[tx[s].user] = balance[tx[s].user],
           payLock[tx[s].ref] = s =>
              payLock'[tx[s].ref] = s /\ credited'[tx[s].ref] = credited[tx[s].ref]
    PROVE  TxSound(s)'
BY DEF TxSound, Signed, Holding

LEMMA RowsStay ==
    ASSUME Inv, UNCHANGED <<ledger, credited>>
    PROVE  RowsSound'
BY DEF Inv, RowsSound, OneRow, HasEntry, IsEntry

LEMMA SignedAmount ==
    ASSUME NEW t \in Txs, tx[t] \in TxRecord
    PROVE  tx[t].user \in Users /\ tx[t].amount \in Nat /\ Signed(t) \in Int
<1>1. tx[t].user \in Users /\ tx[t].amount \in Amounts
    BY DEF TxRecord
<1>2. tx[t].amount \in Nat
    BY <1>1, AmountsAssumption
<1> QED BY <1>1, <1>2 DEF Signed

LEMMA InitInv == Init => Inv
<1> SUFFICES ASSUME Init PROVE Inv
    OBVIOUS
<1>1. WalletTypeOK
    BY DEF Init, WalletInit, WalletTypeOK
<1>2. tx \in [Txs -> TxRecord] /\ \A t \in Txs : tx[t].pc = "idle" /\ tx[t].amount > 0
    <2> DEFINE New == [pc : {"idle"}, op : Ops, user : Users, amount : Amounts \ {0},
                       ref : Refs, after : {0}]
    <2>1. ASSUME NEW r \in New PROVE r \in TxRecord /\ r.pc = "idle" /\ r.amount > 0
        <3>1. r = [pc |-> r.pc, op |-> r.op, user |-> r.user, amount |-> r.amount,
                   ref |-> r.ref, after |-> r.after]
            OBVIOUS
        <3>2. /\ r.pc = "idle" /\ r.op \in Ops /\ r.user \in Users /\ r.ref \in Refs
              /\ r.amount \in Amounts /\ r.amount # 0 /\ r.after = 0
            OBVIOUS
        <3>3. r.pc \in Steps /\ r.after \in Int
            BY <3>2 DEF Steps
        <3> HIDE DEF New
        <3>4. r.amount \in Nat /\ r.amount # 0
            BY <3>2, AmountsAssumption
        <3>5. r.amount > 0
            BY <3>4
        <3> QED BY <3>1, <3>2, <3>3, <3>5 DEF TxRecord
    <2>2. tx \in [Txs -> New]
        BY DEF Init
    <2> HIDE DEF New
    <2> QED BY <2>1, <2>2
<1>3. TypeOK
    BY <1>1, <1>2 DEF Init, TypeOK
<1>4. AllTxs
    BY <1>2 DEF AllTxs, TxSound, Holding
<1>5. RowsSound
    BY DEF Init, WalletInit, RowsSound, OneRow, HasEntry, IsEntry
<1> QED BY <1>3, <1>4, <1>5 DEF Inv

-----------------------------------------------------------------------------
(* Steps before the commit *)

\* A step that takes and releases no lock.
LEMMA QuietStep ==
    ASSUME Inv, NEW t \in Txs, NEW pc \in Steps,
           UNCHANGED <<balance, ledger, newBalance, rowLock, credited, payLock>>,
           tx' \in {[tx EXCEPT ![t].pc = pc],
                    [tx EXCEPT ![t].pc = pc, ![t].after = newBalance[tx[t].user]]},
           TxSound(t)'
    PROVE  Inv'
<1>1. tx[t] \in TxRecord /\ newBalance[tx[t].user] \in Int
    BY DEF Inv, TypeOK, TxRecord
<1>2. tx' \in [Txs -> TxRecord] /\ \A s \in Txs \ {t} : tx'[s] = tx[s]
    BY <1>1 DEF Inv, TypeOK, TxRecord
<1>3. TypeOK'
    BY <1>2 DEF Inv, TypeOK, WalletTypeOK
<1>4. AllTxs'
    BY <1>2, Others DEF Inv, AllTxs
<1> QED BY <1>3, <1>4, RowsStay DEF Inv

LEMMA BeginInv ==
    ASSUME Inv, NEW t \in Txs, Begin(t)
    PROVE  Inv'
<1>1. tx[t] \in TxRecord /\ TxSound(t) /\ tx \in [Txs -> TxRecord]
    BY DEF Inv, TypeOK, AllTxs
<1>2. PICK pc \in {"lockPayment", "update"} :
         tx' = [tx EXCEPT ![t].pc = pc] /\ (pc = "update" => tx[t].op # "topup")
    BY DEF Begin, Goto
<1>3. TxSound(t)'
    BY <1>1, <1>2 DEF Begin, TxSound, TxRecord, Holding, Signed
<1> QED BY <1>2, <1>3, QuietStep DEF Begin, Steps

LEMMA ReadBalanceInv ==
    ASSUME Inv, NEW t \in Txs, ReadBalance(t)
    PROVE  Inv'
<1>1. tx[t] \in TxRecord /\ TxSound(t) /\ tx \in [Txs -> TxRecord]
    BY DEF Inv, TypeOK, AllTxs
<1>2. TxSound(t)'
    BY <1>1 DEF ReadBalance, TxSound, TxRecord, Holding, Signed
<1> QED BY <1>2, QuietStep DEF ReadBalance, Steps

LEMMA InsertEntryInv ==
    ASSUME Inv, NEW t \in Txs, InsertEntry(t)
    PROVE  Inv'
<1>1. tx[t] \in TxRecord /\ TxSound(t) /\ tx \in [Txs -> TxRecord]
    BY DEF Inv, TypeOK, AllTxs
<1>2. PICK pc \in {"markPaid", "commit"} : tx' = [tx EXCEPT ![t].pc = pc]
    BY DEF InsertEntry, Goto
<1>3. TxSound(t)'
    BY <1>1, <1>2 DEF InsertEntry, TxSound, TxRecord, Holding, Signed
<1> QED BY <1>2, <1>3, QuietStep DEF InsertEntry, Steps

LEMMA MarkPaidInv ==
    ASSUME Inv, NEW t \in Txs, MarkPaid(t)
    PROVE  Inv'
<1>1. tx[t] \in TxRecord /\ TxSound(t) /\ tx \in [Txs -> TxRecord]
    BY DEF Inv, TypeOK, AllTxs
<1>2. tx' = [tx EXCEPT ![t].pc = "commit"]
    BY DEF MarkPaid, Goto
<1>3. TxSound(t)'
    BY <1>1, <1>2 DEF MarkPaid, TxSound, TxRecord, Holding, Signed
<1> QED BY <1>2, <1>3, QuietStep DEF MarkPaid, Steps

LEMMA LockPaymentInv ==
    ASSUME Inv, NEW t \in Txs, LockPayment(t)
    PROVE  Inv'
<1>1. tx[t] \in TxRecord /\ TxSound(t) /\ tx \in [Txs -> TxRecord]
      /\ payLock \in [Refs -> Txs \cup {NoTx}]
    BY DEF Inv, TypeOK, AllTxs
<1>2. /\ UNCHANGED <<balance, ledger, newBalance, rowLock, credited>>
      /\ tx[t].pc = "lockPayment" /\ payLock[tx[t].ref] = NoTx
      /\ \/ /\ ~credited[tx[t].ref] /\ payLock' = [payLock EXCEPT ![tx[t].ref] = t]
            /\ tx' = [tx EXCEPT ![t].pc = "update"]
         \/ /\ payLock' = payLock /\ tx' = [tx EXCEPT ![t].pc = "already"]
    BY DEF LockPayment, Goto
<1>3. tx' \in [Txs -> TxRecord] /\ \A s \in Txs \ {t} : tx'[s] = tx[s]
    BY <1>1, <1>2 DEF TxRecord, Steps
<1>4. payLock' \in [Refs -> Txs \cup {NoTx}]
    BY <1>1, <1>2 DEF TxRecord
<1>5. TypeOK'
    BY <1>2, <1>3, <1>4 DEF Inv, TypeOK, WalletTypeOK
<1>6. TxSound(t)'
    <2>1. /\ tx'[t].pc \in {"update", "already"}
          /\ tx'[t].op = tx[t].op /\ tx'[t].ref = tx[t].ref /\ tx'[t].amount = tx[t].amount
        BY <1>1, <1>2 DEF TxRecord
    <2>2. tx'[t].pc = "update" => payLock'[tx[t].ref] = t /\ ~credited'[tx[t].ref]
        BY <1>1, <1>2 DEF TxRecord
    <2> QED BY <1>1, <2>1, <2>2 DEF TxSound, Holding
<1>7. ASSUME NEW s \in Txs \ {t} PROVE TxSound(s)'
    <2>1. TxSound(s) /\ s # NoTx /\ tx[s].ref \in Refs
        BY NoTxAssumption DEF Inv, TypeOK, AllTxs, TxRecord
    <2>2. payLock[tx[s].ref] = s => payLock'[tx[s].ref] = s
        BY <1>1, <1>2, <2>1
    <2> QED BY <1>2, <1>3, <2>1, <2>2, Others
<1> QED BY <1>2, <1>5, <1>6, <1>7, RowsStay DEF Inv, AllTxs

\* The locks of t are released, those of the others are not.
LEMMA ReleaseOne ==
    ASSUME Inv, NEW t \in Txs, Release(t)
    PROVE  /\ rowLock' \in [Users -> Txs \cup {NoTx}]
           /\ payLock' \in [Refs -> Txs \cup {NoTx}]
           /\ \A s \in Txs \ {t} :
                 /\ rowLock[tx[s].user] = s => rowLock'[tx[s].user] = s
                 /\ payLock[tx[s].ref] = s => payLock'[tx[s].ref] = s
BY DEF Inv, TypeOK, TxRecord, Release

\* A transaction ends without a trace.
LEMMA EndsQuietly ==
    ASSUME Inv, NEW t \in Txs, NEW pc \in Ended, Release(t),
           UNCHANGED <<balance, ledger, newBalance, credited>>,
           tx' = [tx EXCEPT ![t].pc = pc]
    PROVE  Inv'
<1>1. tx[t] \in TxRecord /\ TxSound(t) /\ tx \in [Txs -> TxRecord]
    BY DEF Inv, TypeOK, AllTxs
<1>2. tx' \in [Txs -> TxRecord] /\ \A s \in Txs \ {t} : tx'[s] = tx[s]
    BY <1>1 DEF TxRecord, Steps, Ended
<1>3. TypeOK'
    BY <1>2, ReleaseOne DEF Inv, TypeOK, WalletTypeOK
<1>4. TxSound(t)'
    BY <1>1 DEF TxSound, TxRecord, Holding, Ended
<1>5. \A s \in Txs \ {t} : TxSound(s)'
    BY <1>2, ReleaseOne, Others DEF Inv, AllTxs
<1> QED BY <1>3, <1>4, <1>5, RowsStay DEF Inv, AllTxs

LEMMA AbortInv ==
    ASSUME Inv, NEW t \in Txs, Abort(t)
    PROVE  Inv'
BY EndsQuietly DEF Abort, Goto, Ended

\* The lock of the users row is taken and its new version written, or the
\* debit is not covered.
LEMMA UpdateUserInv ==
    ASSUME Inv, NEW t \in Txs, UpdateUser(t)
    PROVE  Inv'
<1>1. /\ tx[t] \in TxRecord /\ TxSound(t) /\ tx \in [Txs -> TxRecord]
      /\ rowLock \in [Users -> Txs \cup {NoTx}] /\ newBalance \in [Users -> Int]
      /\ balance \in [Users -> Int]
    BY DEF Inv, TypeOK, AllTxs, WalletTypeOK
<1>2. tx[t].user \in Users /\ tx[t].amount \in Nat /\ Signed(t) \in Int
    BY <1>1, SignedAmount
<1>3. CASE Goto(t, "insufficient") /\ Release(t) /\ UNCHANGED newBalance
    BY <1>3, EndsQuietly DEF UpdateUser, Goto, Ended
<1>4. CASE /\ tx[t].op = "debit" => Covers(tx[t].user, tx[t].amount)
           /\ rowLock' = [rowLock EXCEPT ![tx[t].user] = t]
           /\ newBalance' = [newBalance EXCEPT ![tx[t].user] = balance[tx[t].user] + Signed(t)]
           /\ tx' = IF tx[t].op = "debit"
                      THEN [tx EXCEPT ![t].pc = "readBalance"]
                      ELSE [tx EXCEPT ![t].pc = "insert",
                                      ![t].after = balance[tx[t].user] + Signed(t)]
           /\ UNCHANGED payLock
    <2>1. /\ UNCHANGED <<balance, ledger, credited>>
          /\ tx[t].pc = "update" /\ rowLock[tx[t].user] = NoTx
        BY DEF UpdateUser
    <2>2. balance[tx[t].user] + Signed(t) \in Int
        BY <1>1, <1>2
    <2>3. tx' \in [Txs -> TxRecord] /\ \A s \in Txs \ {t} : tx'[s] = tx[s]
        BY <1>1, <1>4, <2>2 DEF TxRecord, Steps
    <2>4. rowLock' \in [Users -> Txs \cup {NoTx}] /\ newBalance' \in [Users -> Int]
        BY <1>1, <1>2, <1>4, <2>2
    <2>5. TypeOK'
        BY <1>4, <2>1, <2>3, <2>4 DEF Inv, TypeOK, WalletTypeOK
    <2>6. TxSound(t)'
        BY <1>1, <1>2, <1>4, <2>1 DEF TxSound, TxRecord, Holding, Signed, Covers
    <2>7. ASSUME NEW s \in Txs \ {t} PROVE TxSound(s)'
        <3>1. TxSound(s) /\ s # NoTx /\ tx[s].user \in Users
            BY NoTxAssumption DEF Inv, TypeOK, AllTxs, TxRecord
        <3>2. rowLock[tx[s].user] = s =>
                 /\ rowLock'[tx[s].user] = s
                 /\ newBalance'[tx[s].user] = newBalance[tx[s].user]
            BY <1>1, <1>4, <2>1, <3>1
        <3> QED BY <1>4, <2>1, <2>3, <3>1, <3>2, Others
    <2> QED BY <2>1, <2>5, <2>6, <2>7, RowsStay DEF Inv, AllTxs
<1> QED BY <1>3, <1>4 DEF UpdateUser

-----------------------------------------------------------------------------
(* The commit *)

\* A commit is one atomic move of the wallet.
LEMMA CommitIsMove ==
    ASSUME Inv, NEW t \in Txs, Commit(t)
    PROVE  /\ tx[t].user \in Users /\ tx[t].ref \in Refs /\ tx[t].amount \in Amounts
           /\ Signed(t) \in Int /\ tx[t].op \in Kinds
           /\ Move(tx[t].user, tx[t].op, Signed(t), tx[t].ref)
           /\ IF tx[t].op = "debit" THEN Debit(tx[t].user, tx[t].amount, tx[t].ref)
                                    ELSE Credit(tx[t].user, tx[t].op, tx[t].amount, tx[t].ref)
<1>1. /\ tx[t] \in TxRecord /\ TxSound(t) /\ tx[t].pc = "commit"
    BY DEF Inv, TypeOK, AllTxs, Commit
<1>2. /\ tx[t].user \in Users /\ tx[t].ref \in Refs /\ tx[t].amount \in Amounts
      /\ tx[t].amount \in Nat /\ Signed(t) \in Int /\ tx[t].op \in Kinds
    BY <1>1, SignedAmount DEF TxRecord, Ops, Kinds
<1>3. /\ newBalance[tx[t].user] = balance[tx[t].user] + Signed(t)
      /\ tx[t].after = balance[tx[t].user] + Signed(t)
      /\ tx[t].op = "debit" => balance[tx[t].user] >= tx[t].amount
      /\ tx[t].amount > 0
    BY <1>1 DEF TxSound, Holding
<1>4. Move(tx[t].user, tx[t].op, Signed(t), tx[t].ref)
    BY <1>3, Zenon DEF Commit, Move, KindOf
<1>5. CASE tx[t].op = "debit"
    BY <1>2, <1>3, <1>4, <1>5 DEF Debit, Covers, Signed
<1>6. CASE tx[t].op # "debit"
    BY <1>2, <1>3, <1>4, <1>6 DEF Credit, Signed
<1> QED BY <1>2, <1>4, <1>5, <1>6

LEMMA CommitInv ==
    ASSUME Inv, NEW t \in Txs, Commit(t)
    PROVE  Inv'
<1>1. /\ tx[t] \in TxRecord /\ TxSound(t) /\ tx \in [Txs -> TxRecord] /\ WalletTypeOK
      /\ credited \in [Refs -> BOOLEAN]
    BY DEF Inv, TypeOK, AllTxs
<1>2. /\ tx' = [tx EXCEPT ![t].pc = "done"] /\ tx[t].pc = "commit"
      /\ credited' = [credited EXCEPT ![tx[t].ref] = @ \/ tx[t].op = "topup"]
      /\ Release(t) /\ UNCHANGED newBalance
      /\ balance' = [balance EXCEPT ![tx[t].user] = newBalance[tx[t].user]]
    BY DEF Commit, Goto
<1>3. tx' \in [Txs -> TxRecord] /\ \A s \in Txs \ {t} : tx'[s] = tx[s]
    BY <1>1, <1>2 DEF TxRecord, Steps
<1>4. WalletTypeOK'
    BY <1>1, CommitIsMove, MoveType
<1>5. credited' \in [Refs -> BOOLEAN]
    <2>1. \A p \in Refs : credited'[p] = credited[p] \/ credited'[p] \in BOOLEAN
        BY <1>1, <1>2 DEF TxRecord
    <2> QED BY <1>1, <1>2, <2>1
<1>6. TypeOK'
    BY <1>2, <1>3, <1>4, <1>5, ReleaseOne DEF Inv, TypeOK
<1>7. TxSound(t)'
    BY <1>1, <1>2 DEF TxSound, TxRecord, Holding
<1>8. ASSUME NEW s \in Txs \ {t} PROVE TxSound(s)'
    <2>1. TxSound(s) /\ rowLock[tx[t].user] = t /\ tx[s].user \in Users /\ tx[s].ref \in Refs
        BY <1>1, <1>2 DEF Inv, TypeOK, AllTxs, TxSound, TxRecord, Holding
    <2>2. rowLock[tx[s].user] = s => balance'[tx[s].user] = balance[tx[s].user]
        BY <1>1, <1>2, <2>1 DEF WalletTypeOK
    <2>3. payLock[tx[s].ref] = s => credited'[tx[s].ref] = credited[tx[s].ref]
        BY <1>1, <1>2, <2>1 DEF TxSound, TxRecord, Holding
    <2> QED BY <1>2, <1>3, <2>1, <2>2, <2>3, ReleaseOne, Others
<1>9. RowsSound'
    <2> SUFFICES ASSUME NEW u \in Users, NEW p \in Refs
                 PROVE  OneRow(u, "topup", p)' /\ (HasEntry(u, "topup", p)' => credited'[p])
        BY DEF RowsSound
    <2>1. OneRow(u, "topup", p) /\ (HasEntry(u, "topup", p) => credited[p])
        BY DEF Inv, RowsSound
    <2>2. "topup" = tx[t].op /\ p = tx[t].ref => ~HasEntry(tx[t].user, "topup", tx[t].ref)
        BY <1>1, <1>2, CommitIsMove DEF Inv, RowsSound, TxSound, Holding
    <2>3. OneRow(u, "topup", p)'
        BY <1>1, <2>1, <2>2, CommitIsMove, MoveOneRow
    <2>4. HasEntry(u, "topup", p)' <=> HasEntry(u, "topup", p)
             \/ (u = tx[t].user /\ "topup" = tx[t].op /\ p = tx[t].ref)
        BY <1>1, CommitIsMove, MoveEntries
    <2>5. credited[p] \/ ("topup" = tx[t].op /\ p = tx[t].ref) => credited'[p]
        BY <1>1, <1>2
    <2> QED BY <2>1, <2>3, <2>4, <2>5
<1> QED BY <1>6, <1>7, <1>8, <1>9 DEF Inv, AllTxs

-----------------------------------------------------------------------------
LEMMA NextInv == Inv /\ [Next]_vars => Inv'
<1> SUFFICES ASSUME Inv, [Next]_vars PROVE Inv'
    OBVIOUS
<1>1. ASSUME NEW t \in Txs, Begin(t) \/ TxStep(t) \/ Abort(t)
      PROVE  Inv'
    BY <1>1, BeginInv, LockPaymentInv, UpdateUserInv, ReadBalanceInv, InsertEntryInv, MarkPaidInv,
       CommitInv, AbortInv DEF TxStep
<1>2. CASE UNCHANGED vars
    <2>1. AllTxs'
        BY <1>2, Others DEF vars, Inv, AllTxs
    <2> QED BY <1>2, <2>1, RowsStay DEF vars, Inv, TypeOK, WalletTypeOK
<1> QED BY <1>1, <1>2 DEF Next, AllEnded

\* The inductive invariant holds in every reachable state.
THEOREM Invariance == Spec => []Inv
BY InitInv, NextInv, PTL DEF Spec

\* Every variable of WalletTx keeps its type.
THEOREM TypeCorrect == Spec => []TypeOK
<1>1. Inv => TypeOK
    BY DEF Inv
<1> QED BY <1>1, Invariance, PTL

\* However many deliveries call MarkPaymentPaidAndCredit at the same time, a
\* payment is credited once: FOR UPDATE makes the second one see the first.
THEOREM CreditedOnce == Spec => []TopupOnce
<1>1. Inv => TopupOnce
    BY DEF Inv, RowsSound, OneRow, TopupOnce
<1> QED BY <1>1, Invariance, PTL

\* The transactions implement the atomic wallet: every commit is one Credit
\* or Debit of the committed balance, and no other statement shows.
THEOREM ImplementsWallet == Spec => RefinesWallet
<1>1. Init => WalletInit
    BY DEF Init
<1>2. ASSUME Inv, [Next]_vars PROVE [WalletNext]_walletVars
    <2>1. ASSUME NEW t \in Txs, Commit(t) PROVE WalletNext
        <3>1. tx[t].op \in {"topup", "refund", "debit"}
            BY <1>2 DEF Inv, TypeOK, TxRecord, Ops
        <3> QED BY <1>2, <2>1, <3>1, CommitIsMove DEF WalletNext
    <2>2. (\E t \in Txs : Commit(t)) \/ UNCHANGED walletVars
        BY <1>2 DEF Next, vars, walletVars, AllEnded, TxStep, Begin, LockPayment, UpdateUser,
                    ReadBalance, InsertEntry, MarkPaid, Abort
    <2> QED BY <2>1, <2>2
<1> QED BY <1>1, <1>2, Invariance, PTL DEF Spec, RefinesWallet, WalletSpec

\* So the committed wallet is sound between any two statements: no balance is
\* negative, and every ledger explains its balance.
THEOREM CommittedWalletSound == Spec => []WalletInv
BY ImplementsWallet, WalletSound, PTL DEF RefinesWallet

-----------------------------------------------------------------------------
(* No cycle of locks                                                         *)

\* Transaction t cannot take its next statement before s has ended.
WaitsFor(t, s) ==
    \/ tx[t].pc = "lockPayment" /\ payLock[tx[t].ref] = s
    \/ tx[t].pc = "update" /\ rowLock[tx[t].user] = s

Waits(t) == \E s \in Txs : WaitsFor(t, s)

\* Locks are taken in one order, a payments row before a users row, and never
\* kept by a call that has returned: who is waited for runs, or waits for one
\* that runs.  So some call that has begun can always go on.
LocksInOrder ==
    /\ \A r, s, t \in Txs : WaitsFor(r, s) /\ WaitsFor(s, t) => ~Waits(t)
    /\ \A s, t \in Txs : WaitsFor(s, t) => tx[t].pc \notin Ended \cup {"idle"}

SomeCallRuns ==
    (\E t \in Txs : tx[t].pc \notin Ended \cup {"idle"})
        => \E t \in Txs : tx[t].pc \notin Ended \cup {"idle"} /\ ~Waits(t)

\* Who holds a row is between the statement that locks it and the end.
RowHolder(u, t) ==
    rowLock[u] = t => tx[t].user = u /\ tx[t].pc \in Holding

PayHolder(p, t) ==
    payLock[p] = t => tx[t].ref = p /\ tx[t].op = "topup" /\ tx[t].pc \in {"update"} \cup Holding

AtPayment(t) == tx[t].pc = "lockPayment" => tx[t].op = "topup"

Holders ==
    \A t \in Txs : /\ AtPayment(t)
                   /\ \A u \in Users : RowHolder(u, t)
                   /\ \A p \in Refs : PayHolder(p, t)

LEMMA HoldersInit == Init => Holders
<1> SUFFICES ASSUME Init, NEW t \in Txs
             PROVE  /\ AtPayment(t)
                    /\ \A u \in Users : RowHolder(u, t)
                    /\ \A p \in Refs : PayHolder(p, t)
    BY DEF Holders
<1>1. tx[t].pc = "idle"
    BY DEF Init
<1> QED BY <1>1, NoTxAssumption DEF Init, AtPayment, RowHolder, PayHolder

\* Transaction t comes to step pc, takes or keeps its locks or releases them,
\* and touches nobody else's.
LEMMA HoldersStep ==
    ASSUME TypeOK, Holders, NEW t \in Txs, NEW pc,
           \A s \in Txs \ {t} : tx'[s] = tx[s],
           /\ tx'[t].pc = pc
           /\ tx'[t].user = tx[t].user /\ tx'[t].ref = tx[t].ref /\ tx'[t].op = tx[t].op,
           pc = "lockPayment" => tx[t].op = "topup",
           \A u \in Users : rowLock'[u] = rowLock[u] \/ rowLock'[u] \in {t, NoTx},
           \A p \in Refs : payLock'[p] = payLock[p] \/ payLock'[p] \in {t, NoTx},
           \A u \in Users : rowLock'[u] = t => tx[t].user = u /\ pc \in Holding,
           \A p \in Refs : payLock'[p] = t => /\ tx[t].ref = p /\ tx[t].op = "topup"
                                              /\ pc \in {"update"} \cup Holding
    PROVE  Holders'
<1> SUFFICES ASSUME NEW s \in Txs
             PROVE  /\ AtPayment(s)'
                    /\ \A u \in Users : RowHolder(u, s)'
                    /\ \A p \in Refs : PayHolder(p, s)'
    BY DEF Holders
<1>1. CASE s = t
    BY <1>1 DEF AtPayment, RowHolder, PayHolder
<1>2. CASE s # t
    <2>1. /\ AtPayment(s)
          /\ \A u \in Users : RowHolder(u, s)
          /\ \A p \in Refs : PayHolder(p, s)
        BY DEF Holders
    <2>2. /\ \A u \in Users : rowLock'[u] = s => rowLock[u] = s
          /\ \A p \in Refs : payLock'[p] = s => payLock[p] = s
        BY <1>2, NoTxAssumption
    <2> QED BY <1>2, <2>1, <2>2 DEF AtPayment, RowHolder, PayHolder
<1> QED BY <1>1, <1>2

LEMMA HoldersBegin ==
    ASSUME TypeOK, Holders, NEW t \in Txs, Begin(t)
    PROVE  Holders'
<1>1. PICK pc : /\ tx' = [tx EXCEPT ![t].pc = pc]
                /\ pc = (IF tx[t].op = "topup" THEN "lockPayment" ELSE "update")
    BY DEF Begin, Goto
<1>2. /\ \A s \in Txs \ {t} : tx'[s] = tx[s]
      /\ tx'[t].pc = pc
      /\ tx'[t].user = tx[t].user /\ tx'[t].ref = tx[t].ref /\ tx'[t].op = tx[t].op
    BY <1>1 DEF TypeOK, TxRecord
<1>3. UNCHANGED <<rowLock, payLock>> /\ tx[t].pc = "idle"
    BY DEF Begin
<1>4. (\A u \in Users : rowLock[u] # t) /\ (\A p \in Refs : payLock[p] # t)
    BY <1>3 DEF Holders, RowHolder, PayHolder, Holding
<1> QED BY <1>1, <1>2, <1>3, <1>4, HoldersStep

LEMMA HoldersPayment ==
    ASSUME TypeOK, Holders, NEW t \in Txs, LockPayment(t)
    PROVE  Holders'
<1>1. PICK pc \in {"update", "already"} :
         /\ tx' = [tx EXCEPT ![t].pc = pc]
         /\ \/ pc = "update" /\ payLock' = [payLock EXCEPT ![tx[t].ref] = t]
            \/ UNCHANGED payLock
    BY DEF LockPayment, Goto
<1>2. /\ \A s \in Txs \ {t} : tx'[s] = tx[s]
      /\ tx'[t].pc = pc
      /\ tx'[t].user = tx[t].user /\ tx'[t].ref = tx[t].ref /\ tx'[t].op = tx[t].op
      /\ tx[t].ref \in Refs
    BY <1>1 DEF TypeOK, TxRecord
<1>3. UNCHANGED rowLock /\ tx[t].pc = "lockPayment" /\ tx[t].op = "topup"
    BY DEF LockPayment, Holders, AtPayment
<1>4. (\A u \in Users : rowLock[u] # t) /\ (\A p \in Refs : payLock[p] # t)
    BY <1>3 DEF Holders, RowHolder, PayHolder, Holding
<1>5. \A p \in Refs : \/ payLock'[p] = payLock[p]
                      \/ p = tx[t].ref /\ payLock'[p] = t /\ pc = "update"
    BY <1>1, <1>2 DEF TypeOK
<1> QED BY <1>1, <1>2, <1>3, <1>4, <1>5, HoldersStep

\* A step between the update of the users row and the commit.
LEMMA HoldersRest ==
    ASSUME TypeOK, Holders, NEW t \in Txs, ReadBalance(t) \/ InsertEntry(t) \/ MarkPaid(t)
    PROVE  Holders'
<1>1. PICK pc \in Holding :
         \E after : tx' \in {[tx EXCEPT ![t].pc = pc], [tx EXCEPT ![t].pc = pc, ![t].after = after]}
    BY DEF ReadBalance, InsertEntry, MarkPaid, Goto, Holding
<1>2. /\ \A s \in Txs \ {t} : tx'[s] = tx[s]
      /\ tx'[t].pc = pc
      /\ tx'[t].user = tx[t].user /\ tx'[t].ref = tx[t].ref /\ tx'[t].op = tx[t].op
    BY <1>1 DEF TypeOK, TxRecord
<1>3. UNCHANGED <<rowLock, payLock>> /\ pc # "lockPayment"
    BY <1>1 DEF ReadBalance, InsertEntry, MarkPaid, Holding
<1> QED BY <1>2, <1>3, HoldersStep DEF Holders, RowHolder, PayHolder

\* A transaction that ends leaves no lock behind.
LEMMA HoldersEnd ==
    ASSUME TypeOK, Holders, NEW t \in Txs, NEW pc \in Ended, Goto(t, pc), Release(t)
    PROVE  Holders'
<1>1. /\ \A s \in Txs \ {t} : tx'[s] = tx[s]
      /\ tx'[t].pc = pc
      /\ tx'[t].user = tx[t].user /\ tx'[t].ref = tx[t].ref /\ tx'[t].op = tx[t].op
    BY DEF Goto, TypeOK, TxRecord
<1>2. /\ \A u \in Users : rowLock'[u] = IF rowLock[u] = t THEN NoTx ELSE rowLock[u]
      /\ \A p \in Refs : payLock'[p] = IF payLock[p] = t THEN NoTx ELSE payLock[p]
    BY DEF Release
<1>3. /\ \A u \in Users : rowLock'[u] # t /\ (rowLock'[u] = rowLock[u] \/ rowLock'[u] = NoTx)
      /\ \A p \in Refs : payLock'[p] # t /\ (payLock'[p] = payLock[p] \/ payLock'[p] = NoTx)
    BY <1>2, NoTxAssumption
<1> QED BY <1>1, <1>3, HoldersStep DEF Ended

LEMMA HoldersUpdate ==
    ASSUME TypeOK, Holders, NEW t \in Txs, UpdateUser(t)
    PROVE  Holders'
<1>1. CASE Goto(t, "insufficient") /\ Release(t)
    BY <1>1, HoldersEnd DEF Ended
<1>2. CASE /\ rowLock' = [rowLock EXCEPT ![tx[t].user] = t] /\ UNCHANGED payLock
           /\ tx' = IF tx[t].op = "debit"
                      THEN [tx EXCEPT ![t].pc = "readBalance"]
                      ELSE [tx EXCEPT ![t].pc = "insert",
                                      ![t].after = balance[tx[t].user] + Signed(t)]
    <2>1. PICK pc \in Holding :
             \E after : tx' \in {[tx EXCEPT ![t].pc = pc], [tx EXCEPT ![t].pc = pc, ![t].after = after]}
        BY <1>2 DEF Holding
    <2>2. /\ \A s \in Txs \ {t} : tx'[s] = tx[s]
          /\ tx'[t].pc = pc
          /\ tx'[t].user = tx[t].user /\ tx'[t].ref = tx[t].ref /\ tx'[t].op = tx[t].op
          /\ tx[t].user \in Users
        BY <2>1 DEF TypeOK, TxRecord
    <2>3. pc # "lockPayment" /\ tx[t].pc = "update"
        BY DEF UpdateUser, Holding
    <2>4. \A u \in Users : rowLock[u] # t
        BY <2>3 DEF Holders, RowHolder, Holding
    <2>5. \A u \in Users : rowLock'[u] = rowLock[u] \/ (u = tx[t].user /\ rowLock'[u] = t)
        BY <1>2, <2>2 DEF TypeOK
    <2>6. \A p \in Refs : payLock[p] = t => tx[t].ref = p /\ tx[t].op = "topup"
        BY DEF Holders, PayHolder
    <2>7. \A u \in Users : rowLock'[u] = t => tx[t].user = u /\ pc \in Holding
        BY <2>4, <2>5
    <2>8. \A p \in Refs : payLock'[p] = t => /\ tx[t].ref = p /\ tx[t].op = "topup"
                                              /\ pc \in {"update"} \cup Holding
        BY <1>2, <2>6
    <2>9. /\ \A u \in Users : rowLock'[u] = rowLock[u] \/ rowLock'[u] \in {t, NoTx}
          /\ \A p \in Refs : payLock'[p] = payLock[p] \/ payLock'[p] \in {t, NoTx}
        BY <1>2, <2>5
    <2> QED BY <2>2, <2>3, <2>7, <2>8, <2>9, HoldersStep
<1> QED BY <1>1, <1>2 DEF UpdateUser

LEMMA HoldersNext ==
    ASSUME TypeOK, Holders, [Next]_vars
    PROVE  Holders'
<1>1. ASSUME NEW t \in Txs, Begin(t) \/ TxStep(t) \/ Abort(t)
      PROVE  Holders'
    <2>1. CASE Commit(t) \/ Abort(t)
        <3>1. \E pc \in Ended : Goto(t, pc)
            BY <2>1 DEF Commit, Abort, Ended
        <3>2. Release(t)
            BY <2>1 DEF Commit, Abort
        <3> QED BY <3>1, <3>2, HoldersEnd
    <2> QED BY <1>1, <2>1, HoldersBegin, HoldersPayment, HoldersRest, HoldersUpdate DEF TxStep
<1>2. CASE UNCHANGED vars
    BY <1>2 DEF vars, Holders, AtPayment, RowHolder, PayHolder
<1> QED BY <1>1, <1>2 DEF Next, AllEnded

\* No cycle of row locks is possible, however many calls run: the payments row
\* is locked before the users row, and nothing after the users row.
THEOREM NoLockCycle == Spec => [](LocksInOrder /\ SomeCallRuns)
<1>1. Init => Holders
    BY HoldersInit
<1>2. TypeOK /\ Holders /\ [Next]_vars => Holders'
    BY HoldersNext
<1>3. ASSUME TypeOK, Holders PROVE LocksInOrder /\ SomeCallRuns
    <2>1. ASSUME NEW s \in Txs, NEW t \in Txs, WaitsFor(s, t)
          PROVE  /\ tx[t].pc \in {"update"} \cup Holding
                 /\ tx[s].pc = "update" => tx[t].pc \in Holding
                 /\ tx[s].pc \in {"lockPayment", "update"}
        <3>1. tx[s].user \in Users /\ tx[s].ref \in Refs
            BY <1>3 DEF TypeOK, TxRecord
        <3>2. RowHolder(tx[s].user, t) /\ PayHolder(tx[s].ref, t)
            BY <1>3, <3>1 DEF Holders
        <3> QED BY <2>1, <3>2 DEF WaitsFor, RowHolder, PayHolder
    <2>2. \A t \in Txs : tx[t].pc \in Holding => ~Waits(t)
        BY DEF Waits, WaitsFor, Holding
    <2>3. \A r, s, t \in Txs : WaitsFor(r, s) /\ WaitsFor(s, t) => ~Waits(t)
        <3>1. SUFFICES ASSUME NEW r \in Txs, NEW s \in Txs, NEW t \in Txs,
                              WaitsFor(r, s), WaitsFor(s, t)
                       PROVE  ~Waits(t)
            OBVIOUS
        <3>2. tx[s].pc = "update"
            BY <2>1, <3>1 DEF Holding
        <3> QED BY <2>1, <2>2, <3>1, <3>2
    <2>4. \A s, t \in Txs : WaitsFor(s, t) => tx[t].pc \notin Ended \cup {"idle"}
        BY <2>1 DEF Holding, Ended
    <2>5. SomeCallRuns
        <3>1. SUFFICES ASSUME NEW r \in Txs, tx[r].pc \notin Ended \cup {"idle"}
                       PROVE  \E t \in Txs : tx[t].pc \notin Ended \cup {"idle"} /\ ~Waits(t)
            BY DEF SomeCallRuns
        <3>2. CASE ~Waits(r)
            BY <3>1, <3>2
        <3>3. CASE Waits(r)
            <4>1. PICK s \in Txs : WaitsFor(r, s)
                BY <3>3 DEF Waits
            <4>2. CASE ~Waits(s)
                BY <2>4, <4>1, <4>2
            <4>3. CASE Waits(s)
                <5>1. PICK t \in Txs : WaitsFor(s, t)
                    BY <4>3 DEF Waits
                <5> QED BY <2>3, <2>4, <4>1, <5>1
            <4> QED BY <4>2, <4>3
        <3> QED BY <3>2, <3>3
    <2> QED BY <2>3, <2>4, <2>5 DEF LocksInOrder
<1> QED BY <1>1, <1>2, <1>3, TypeCorrect, PTL DEF Spec
=============================================================================
