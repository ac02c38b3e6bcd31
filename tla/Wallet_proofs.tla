--------------------------- MODULE Wallet_proofs ----------------------------
(***************************************************************************)
(* What a move of money does to the wallet invariants, for any users,      *)
(* amounts and references.  The lemmas are about the operators Move,       *)
(* Credit and Debit, so that every module that moves money through them    *)
(* cites them; the theorems are about the wallet on its own.               *)
(***************************************************************************)
EXTENDS Wallet, TLAPS

\* A move keeps the types, whatever its sign.
LEMMA MoveType ==
    ASSUME WalletTypeOK,
           NEW u \in Users, NEW kind \in Kinds, NEW amount \in Int, NEW ref \in Refs,
           Move(u, kind, amount, ref)
    PROVE  WalletTypeOK'
<1> DEFINE e == [kind |-> kind, amount |-> amount,
                 after |-> balance[u] + amount, reference |-> ref]
<1>1. balance[u] \in Int /\ ledger[u] \in Seq(Entry)
    BY DEF WalletTypeOK
<1>2. e \in Entry
    BY <1>1 DEF Entry
<1>3. Append(ledger[u], e) \in Seq(Entry)
    BY <1>1, <1>2
<1>4. balance' \in [Users -> Int]
    BY <1>1 DEF WalletTypeOK, Move
<1>5. ledger' \in [Users -> Seq(Entry)]
    BY <1>3 DEF WalletTypeOK, Move
<1> QED BY <1>4, <1>5 DEF WalletTypeOK

\* What a move leaves behind: the old rows of its user and one more, and
\* everybody else's wallet as it was.
OneMoreRow(u, kind, amount, ref) ==
    /\ balance'[u] = balance[u] + amount
    /\ Len(ledger[u]) \in Nat
    /\ Len(ledger'[u]) = Len(ledger[u]) + 1
    /\ \A i \in 1 .. Len(ledger[u]) : ledger'[u][i] = ledger[u][i]
    /\ ledger'[u][Len(ledger[u]) + 1] =
          [kind |-> kind, amount |-> amount,
           after |-> balance[u] + amount, reference |-> ref]
    /\ \A v \in Users \ {u} : balance'[v] = balance[v] /\ ledger'[v] = ledger[v]

LEMMA MoveLedger ==
    ASSUME WalletTypeOK,
           NEW u \in Users, NEW kind \in Kinds, NEW amount \in Int, NEW ref \in Refs,
           Move(u, kind, amount, ref)
    PROVE  OneMoreRow(u, kind, amount, ref)
<1> DEFINE e == [kind |-> kind, amount |-> amount,
                 after |-> balance[u] + amount, reference |-> ref]
<1>1. ledger[u] \in Seq(Entry) /\ balance[u] \in Int
    BY DEF WalletTypeOK
<1>2. ledger'[u] = Append(ledger[u], e) /\ balance'[u] = balance[u] + amount
    BY DEF Move, WalletTypeOK
<1>3. e \in Entry
    BY <1>1 DEF Entry
<1>4. \A v \in Users \ {u} : balance'[v] = balance[v] /\ ledger'[v] = ledger[v]
    BY DEF Move, WalletTypeOK
<1>5. /\ Len(ledger[u]) \in Nat
      /\ Len(ledger'[u]) = Len(ledger[u]) + 1
      /\ \A i \in 1 .. Len(ledger[u]) : ledger'[u][i] = ledger[u][i]
      /\ ledger'[u][Len(ledger[u]) + 1] = e
    <2> HIDE DEF e
    <2> QED BY <1>1, <1>2, <1>3
<1> QED BY <1>2, <1>4, <1>5 DEF OneMoreRow

\* The rows of a ledger after a move: those before it and the new one.
LEMMA MoveEntries ==
    ASSUME WalletTypeOK,
           NEW u \in Users, NEW kind \in Kinds, NEW amount \in Int, NEW ref \in Refs,
           Move(u, kind, amount, ref),
           NEW v \in Users, NEW k, NEW p
    PROVE  HasEntry(v, k, p)' <=> HasEntry(v, k, p) \/ (v = u /\ k = kind /\ p = ref)
<1>1. OneMoreRow(u, kind, amount, ref)
    BY MoveLedger
<1>2. CASE v # u
    BY <1>1, <1>2 DEF OneMoreRow, HasEntry, IsEntry
<1>3. CASE v = u
    <2>1. 1 .. Len(ledger'[u]) = 1 .. Len(ledger[u]) \cup {Len(ledger[u]) + 1}
        BY <1>1 DEF OneMoreRow
    <2>2. /\ ledger'[u][Len(ledger[u]) + 1].kind = kind
          /\ ledger'[u][Len(ledger[u]) + 1].reference = ref
        BY <1>1 DEF OneMoreRow
    <2> QED BY <1>1, <1>3, <2>1, <2>2 DEF OneMoreRow, HasEntry, IsEntry
<1> QED BY <1>2, <1>3

\* User u's ledger has at most one row of this kind for ref.
OneRow(u, kind, ref) ==
    \A i, j \in 1 .. Len(ledger[u]) : IsEntry(u, i, kind, ref) /\ IsEntry(u, j, kind, ref) => i = j

\* A move that adds the first row of its kind and reference adds the only one,
\* and of other kinds and references it adds none.
LEMMA MoveOneRow ==
    ASSUME WalletTypeOK,
           NEW u \in Users, NEW kind \in Kinds, NEW amount \in Int, NEW ref \in Refs,
           Move(u, kind, amount, ref),
           NEW v \in Users, NEW k, NEW p, OneRow(v, k, p),
           k = kind /\ p = ref => ~HasEntry(u, kind, ref)
    PROVE  OneRow(v, k, p)'
<1>1. OneMoreRow(u, kind, amount, ref)
    BY MoveLedger
<1>2. CASE v # u
    BY <1>1, <1>2 DEF OneMoreRow, OneRow, IsEntry
<1>3. CASE v = u
    <2>0. PICK n \in Nat : n = Len(ledger[u])
        BY <1>1 DEF OneMoreRow
    <2>1. /\ Len(ledger'[u]) = n + 1
          /\ \A i \in 1 .. n : ledger'[u][i] = ledger[u][i]
          /\ ledger'[u][n + 1].kind = kind /\ ledger'[u][n + 1].reference = ref
        BY <1>1, <2>0 DEF OneMoreRow
    <2>2. SUFFICES ASSUME NEW i \in 1 .. n + 1, NEW j \in 1 .. n + 1,
                          IsEntry(u, i, k, p)', IsEntry(u, j, k, p)'
                   PROVE  i = j
        BY <1>3, <2>1 DEF OneRow
    <2>3. \A m \in 1 .. n : IsEntry(u, m, k, p)' => IsEntry(u, m, k, p)
        BY <2>0, <2>1 DEF IsEntry
    <2>4. IsEntry(u, n + 1, k, p)' => \A m \in 1 .. n : ~IsEntry(u, m, k, p)
        BY <2>0, <2>1 DEF IsEntry, HasEntry
    <2>5. CASE i \in 1 .. n /\ j \in 1 .. n
        BY <1>3, <2>0, <2>2, <2>3, <2>5 DEF OneRow
    <2>6. CASE i = n + 1 \/ j = n + 1
        <3>1. CASE i = n + 1 /\ j \in 1 .. n
            BY <2>2, <2>3, <2>4, <3>1
        <3>2. CASE j = n + 1 /\ i \in 1 .. n
            BY <2>2, <2>3, <2>4, <3>2
        <3>3. CASE i = n + 1 /\ j = n + 1
            BY <3>3
        <3> QED BY <2>1, <2>6, <3>1, <3>2, <3>3
    <2> QED BY <2>1, <2>5, <2>6
<1> QED BY <1>2, <1>3

\* A move keeps the chain of balance_after unbroken.
LEMMA MoveChain ==
    ASSUME WalletTypeOK, LedgerChain,
           NEW u \in Users, NEW kind \in Kinds, NEW amount \in Int, NEW ref \in Refs,
           Move(u, kind, amount, ref)
    PROVE  LedgerChain'
<1> DEFINE n == Len(ledger[u])
<1>0. OneMoreRow(u, kind, amount, ref)
    BY MoveLedger
<1>1. /\ balance'[u] = balance[u] + amount
      /\ n \in Nat
      /\ Len(ledger'[u]) = n + 1
      /\ \A i \in 1 .. n : ledger'[u][i] = ledger[u][i]
      /\ ledger'[u][n + 1].after = balance[u] + amount
      /\ ledger'[u][n + 1].amount = amount
      /\ \A v \in Users \ {u} : balance'[v] = balance[v] /\ ledger'[v] = ledger[v]
    BY <1>0 DEF OneMoreRow
<1>2. SUFFICES ASSUME NEW v \in Users
               PROVE  /\ \A i \in 1 .. Len(ledger'[v]) :
                            ledger'[v][i].after = BalanceBefore(v, i)' + ledger'[v][i].amount
                      /\ balance'[v] = BalanceBefore(v, Len(ledger[v]) + 1)'
    BY DEF LedgerChain
<1>3. /\ \A i \in 1 .. Len(ledger[v]) :
            ledger[v][i].after = BalanceBefore(v, i) + ledger[v][i].amount
      /\ balance[v] = BalanceBefore(v, Len(ledger[v]) + 1)
    BY DEF LedgerChain
<1>4. CASE v # u
    BY <1>1, <1>3, <1>4 DEF BalanceBefore
<1>5. CASE v = u
    <2>1. \A i \in 1 .. n + 1 : BalanceBefore(u, i)' = BalanceBefore(u, i)
        BY <1>1 DEF BalanceBefore
    <2>2. balance'[u] = BalanceBefore(u, Len(ledger[u]) + 1)'
        BY <1>1 DEF BalanceBefore
    <2>3. ASSUME NEW i \in 1 .. n + 1
          PROVE  ledger'[u][i].after = BalanceBefore(u, i)' + ledger'[u][i].amount
        <3>1. CASE i \in 1 .. n
            BY <3>1, <2>1, <1>1, <1>3, <1>5
        <3>2. CASE i = n + 1
            BY <3>2, <2>1, <1>1, <1>3, <1>5
        <3> QED BY <3>1, <3>2, <1>1
    <2> QED BY <1>1, <1>5, <2>2, <2>3
<1> QED BY <1>4, <1>5

\* A credit of a positive amount and a covered debit keep every wallet out of
\* the red.
LEMMA CreditKeeps ==
    ASSUME WalletTypeOK, NonNegative, LedgerChain,
           NEW u \in Users, NEW kind \in Kinds, NEW amount \in Int, NEW ref \in Refs,
           Credit(u, kind, amount, ref)
    PROVE  WalletTypeOK' /\ NonNegative' /\ LedgerChain'
<1>1. WalletTypeOK' /\ LedgerChain'
    BY MoveType, MoveChain DEF Credit
<1>2. NonNegative'
    BY DEF Credit, Move, NonNegative, WalletTypeOK
<1> QED BY <1>1, <1>2

LEMMA DebitKeeps ==
    ASSUME WalletTypeOK, NonNegative, LedgerChain,
           NEW u \in Users, NEW amount \in Int, NEW ref \in Refs,
           Debit(u, amount, ref)
    PROVE  WalletTypeOK' /\ NonNegative' /\ LedgerChain'
<1>1. -amount \in Int /\ "debit" \in Kinds /\ Move(u, "debit", -amount, ref)
    BY DEF Debit, Kinds
<1>2. WalletTypeOK' /\ LedgerChain'
    BY <1>1, MoveType, MoveChain
<1>3. NonNegative'
    BY DEF Debit, Covers, Move, NonNegative, WalletTypeOK
<1> QED BY <1>2, <1>3

LEMMA WalletUnchanged ==
    ASSUME UNCHANGED walletVars
    PROVE  /\ WalletTypeOK => WalletTypeOK'
           /\ NonNegative => NonNegative'
           /\ LedgerChain => LedgerChain'
BY DEF walletVars, WalletTypeOK, NonNegative, LedgerChain, BalanceBefore

-----------------------------------------------------------------------------
WalletInv == WalletTypeOK /\ NonNegative /\ LedgerChain

\* The wallet on its own: balances never negative (the promise of
\* docs/SECURITY.md:38), every ledger explains its balance.
THEOREM WalletSound == WalletSpec => []WalletInv
<1>1. WalletInit => WalletInv
    BY DEF WalletInit, WalletInv, WalletTypeOK, NonNegative, LedgerChain, BalanceBefore
<1>2. WalletInv /\ [WalletNext]_walletVars => WalletInv'
    <2> SUFFICES ASSUME WalletInv, [WalletNext]_walletVars PROVE WalletInv'
        OBVIOUS
    <2>1. ASSUME NEW u \in Users, NEW amount \in Amounts, NEW ref \in Refs,
                 NEW kind \in {"topup", "refund"}, Credit(u, kind, amount, ref)
          PROVE  WalletInv'
        BY <2>1, CreditKeeps, AmountsAssumption DEF WalletInv, Kinds
    <2>2. ASSUME NEW u \in Users, NEW amount \in Amounts, NEW ref \in Refs,
                 Debit(u, amount, ref)
          PROVE  WalletInv'
        BY <2>2, DebitKeeps, AmountsAssumption DEF WalletInv
    <2>3. CASE UNCHANGED walletVars
        BY <2>3, WalletUnchanged DEF WalletInv
    <2> QED BY <2>1, <2>2, <2>3 DEF WalletNext
<1> QED BY <1>1, <1>2, PTL DEF WalletSpec
=============================================================================
