---------------------------- MODULE LedgerProofs ----------------------------
(***************************************************************************)
(* Fees of forwarding: relayers and hooks settle among themselves.  The    *)
(* collateral backs what is abroad, on its way or to be delivered.  For    *)
(* every set of messages, hooks, denoms, prices and balances.              *)
(* The escrow ledger never promises more than the escrow on chain covers,  *)
(* for any number of Puts and refill goroutines, any amounts, watermarks,  *)
(* failures and restarts.                                                  *)
(***************************************************************************)
EXTENDS Bridge, EscrowLedger, SumTheorems

-----------------------------------------------------------------------------
(* Forwarding: the fees                                                    *)

Balances == [Accounts -> [Denoms -> Nat]]

\* No account is overdrawn, and a hook quotes a price in range.
BankSound ==
    /\ bank \in Balances
    /\ price \in [Hooks -> 0..MaxPrice]

\* The inductive invariant: what a relayer lacks is with the hooks, and the refund that
\* Forward computes from balances never takes more than the forwarding address holds.
FeeInv == BankSound /\ RelayerPaysFees

\* Balances that may be negative half way through a handler.
Ledgers == [Accounts -> [Denoms -> Int]]

\* c is b after a transfer.
Moved(b, c, from, to, d, coins) ==
    /\ c \in Ledgers
    /\ \A a \in Accounts, e \in Denoms :
          c[a][e] = IF e # d THEN b[a][e]
                    ELSE IF a = to THEN b[a][e] + coins
                    ELSE IF a = from THEN b[a][e] - coins
                    ELSE b[a][e]

\* The accounts of the model.
LEMMA AccountNames ==
    /\ "owner" \in Accounts /\ "forward" \in Accounts /\ "relayer" \in Accounts
    /\ "hook" \in Accounts /\ "collateral" \in Accounts
BY Zenon DEF Accounts

\* Move changes two balances of one denom and nothing else.
LEMMA MoveBalances ==
    ASSUME NEW b \in Ledgers, NEW from \in Accounts, NEW to \in Accounts,
           NEW d \in Denoms, NEW coins \in Int
    PROVE  Moved(b, Move(b, from, to, d, coins), from, to, d, coins)
<1> DEFINE x(a) == IF a = to THEN coins ELSE IF a = from THEN -coins ELSE 0
           row(a) == [b[a] EXCEPT ![d] = b[a][d] + x(a)]
           m == [a \in Accounts |-> row(a)]
<1>1. Move(b, from, to, d, coins) = m
    BY Zenon DEF Move, Ledgers
<1>2. ASSUME NEW a \in Accounts
      PROVE  /\ row(a) \in [Denoms -> Int]
             /\ \A e \in Denoms : row(a)[e] = IF e # d THEN b[a][e] ELSE b[a][d] + x(a)
    <2>1. b[a] \in [Denoms -> Int] /\ x(a) \in Int
        BY DEF Ledgers
    <2>2. b[a][d] + x(a) \in Int
        BY <2>1
    <2> HIDE DEF x
    <2> QED BY <2>1, <2>2, Zenon
<1>3. m \in Ledgers
    <2> HIDE DEF row
    <2> QED BY <1>2, Zenon DEF Ledgers
<1>4. ASSUME NEW a \in Accounts, NEW e \in Denoms
      PROVE  m[a][e] = IF e # d THEN b[a][e]
                       ELSE IF a = to THEN b[a][e] + coins
                       ELSE IF a = from THEN b[a][e] - coins
                       ELSE b[a][e]
    <2>1. m[a][e] = IF e # d THEN b[a][e] ELSE b[a][d] + x(a)
        <3> HIDE DEF row, x
        <3> QED BY <1>2, Zenon
    <2>2. b[a][e] \in Int
        BY Zenon DEF Ledgers
    <2> QED BY <2>1, <2>2
<1> HIDE DEF m
<1> QED BY <1>1, <1>3, <1>4, Zenon DEF Moved

\* The bank's side of BridgeInit.
LEMMA FeeInit == BridgeInit => FeeInv
<1> SUFFICES ASSUME BridgeInit PROVE FeeInv
    BY Zenon
<1>1. \A a \in Accounts, d \in Denoms :
          bank[a][d] = IF a = "owner" THEN OwnerFunds[d]
                       ELSE IF a = "relayer" THEN RelayerFunds[d] ELSE 0
    BY Zenon DEF BridgeInit
<1>2. bank \in Balances
    BY BridgeAssumption, Zenon DEF BridgeInit, Balances
<1>3. price \in [Hooks -> 0..MaxPrice]
    BY BridgeAssumption DEF BridgeInit
<1>4. RelayerPaysFees
    BY <1>1, BridgeAssumption, AccountNames DEF RelayerPaysFees
<1> QED BY <1>2, <1>3, <1>4, Zenon DEF FeeInv, BankSound

\* A coin moves between accounts that are no party to fees.
LEMMA PlainTransfer ==
    ASSUME FeeInv, NEW from \in Accounts, NEW to \in Accounts, from # to,
           from \notin {"relayer", "hook"}, to \notin {"relayer", "hook"},
           NEW d \in Denoms, bank[from][d] > 0,
           bank' = Move(bank, from, to, d, 1), price' = price
    PROVE  FeeInv'
<1>1. bank \in Ledgers /\ \A a \in Accounts, e \in Denoms : bank[a][e] \in Nat
    BY DEF FeeInv, BankSound, Balances, Ledgers
<1>2. Moved(bank, bank', from, to, d, 1)
    BY <1>1, MoveBalances
<1>3. \A a \in Accounts, e \in Denoms : bank'[a][e] \in Nat
    BY <1>1, <1>2 DEF Moved
<1>4. bank' \in Balances
    BY <1>2, <1>3, Zenon DEF Balances, Moved, Ledgers
<1>5. \A e \in Denoms : bank'["relayer"][e] = bank["relayer"][e] /\ bank'["hook"][e] = bank["hook"][e]
    BY <1>2, AccountNames, Zenon DEF Moved
<1> QED BY <1>4, <1>5, Zenon DEF FeeInv, BankSound, RelayerPaysFees

\* What a forward comes to: the relayer pays what the hook charges, and the whole balance of
\* the token is locked.
Forwarded(d, used) ==
    /\ bank' \in Ledgers
    /\ \A e \in Denoms :
          /\ bank'["relayer"][e] = IF e = d THEN bank["relayer"][e] - used ELSE bank["relayer"][e]
          /\ bank'["hook"][e] = IF e = d THEN bank["hook"][e] + used ELSE bank["hook"][e]
          /\ bank'["forward"][e] = IF e = Denom THEN 0 ELSE bank["forward"][e]
          /\ bank'["collateral"][e] = IF e = Denom THEN bank["collateral"][e] + bank["forward"][Denom]
                                      ELSE bank["collateral"][e]
          /\ bank'["owner"][e] = bank["owner"][e]

\* msgServer.Forward: the relayer's quote comes in, the balance is locked, the hook charges
\* at most the quote, and the rest is refunded.
LEMMA ForwardBalances ==
    ASSUME FeeInv, NEW h \in Hooks, NEW max \in 0..MaxPrice, Forward(h, max)
    PROVE  \E used \in 0..price[h] : Forwarded(HookDenom[h], used)
<1> DEFINE d == HookDenom[h]
           quoted == price[h]
           held == bank["forward"][Denom]
           paid == Move(bank, "relayer", "forward", d, quoted)
           locked == Move(paid, "forward", "collateral", Denom, held)
<1>1. bank \in Ledgers /\ \A a \in Accounts, e \in Denoms : bank[a][e] \in Nat
    BY DEF FeeInv, BankSound, Balances, Ledgers
<1>2. d \in Denoms /\ Denom \in Denoms
    BY BridgeAssumption, Zenon
<1>3. quoted \in Nat /\ held \in Nat
    BY <1>1, <1>2, BridgeAssumption, AccountNames DEF FeeInv, BankSound
<1>4. PICK used \in 0..quoted :
          LET sent == Move(locked, "forward", "hook", d, used)
              excess == calculateExcessIGPFee(bank["forward"][d], sent["forward"][d],
                                              quoted, d, held)
          IN bank' = IF quoted > 0 /\ excess > 0
                       THEN Move(sent, "forward", "relayer", d, excess) ELSE sent
    BY Zenon DEF Forward, ExecuteWarpTransfer
<1> DEFINE sent == Move(locked, "forward", "hook", d, used)
           excess == calculateExcessIGPFee(bank["forward"][d], sent["forward"][d],
                                           quoted, d, held)
<1>5. bank' = IF quoted > 0 /\ excess > 0
                THEN Move(sent, "forward", "relayer", d, excess) ELSE sent
    BY <1>4, Zenon
<1>6. bank["relayer"][d] >= quoted /\ price' = price
    BY Zenon DEF Forward
<1>7. used \in Int
    BY <1>3, <1>4
<1>8. Moved(bank, paid, "relayer", "forward", d, quoted)
    BY <1>1, <1>2, <1>3, MoveBalances, AccountNames
<1>9. Moved(paid, locked, "forward", "collateral", Denom, held)
    <2>1. paid \in Ledgers
        BY <1>8, Zenon DEF Moved
    <2> HIDE DEF paid, held, d
    <2> QED BY <2>1, <1>2, <1>3, MoveBalances, AccountNames
<1>10. Moved(locked, sent, "forward", "hook", d, used)
    <2>1. locked \in Ledgers
        BY <1>9, Zenon DEF Moved
    <2> HIDE DEF locked, d
    <2> QED BY <2>1, <1>2, <1>7, MoveBalances, AccountNames, Zenon
<1> HIDE DEF paid, locked, sent
\* The refund is what the hook did not charge, in the forwarded denom as in any other.
<1>11. excess = quoted - used
    <2>1. paid["forward"][d] = bank["forward"][d] + quoted
        BY <1>2, <1>8, AccountNames, Zenon DEF Moved
    <2>2. locked["forward"][d] = paid["forward"][d] - (IF d = Denom THEN held ELSE 0)
        <3> paid["forward"][d] \in Int
            BY <1>8, <1>2, AccountNames, Zenon DEF Moved, Ledgers
        <3> QED BY <1>2, <1>9, AccountNames DEF Moved
    <2>3. sent["forward"][d] = locked["forward"][d] - used
        BY <1>2, <1>10, AccountNames, Zenon DEF Moved
    <2>4. bank["forward"][d] \in Int
        BY <1>1, <1>2, AccountNames
    <2> HIDE DEF quoted, held, d
    <2>5. sent["forward"][d] = bank["forward"][d] + quoted - used
                                  - (IF d = Denom THEN held ELSE 0)
        BY <2>1, <2>2, <2>3, <2>4, <1>3, <1>7
    <2> QED BY <2>4, <2>5, <1>3, <1>7 DEF excess, calculateExcessIGPFee
<1>12. Moved(sent, bank', "forward", "relayer", d, quoted - used)
    <2>1. sent \in Ledgers
        BY <1>10, Zenon DEF Moved
    <2>2. \A a \in Accounts, e \in Denoms : sent[a][e] \in Int
        BY <2>1, Zenon DEF Ledgers
    <2> HIDE DEF excess, d, quoted
    <2>3. CASE quoted > 0 /\ excess > 0
        BY <2>1, <2>3, <1>2, <1>3, <1>5, <1>7, <1>11, MoveBalances, AccountNames
    <2>4. CASE ~(quoted > 0 /\ excess > 0)
        <3>1. bank' = sent /\ quoted - used = 0
            BY <2>4, <1>3, <1>4, <1>5, <1>11
        <3> QED BY <3>1, <2>1, <2>2 DEF Moved
    <2> QED BY <2>3, <2>4, Zenon
<1> HIDE DEF excess
<1>13. \A e \in Denoms :
          /\ bank'["relayer"][e] = IF e = d THEN bank["relayer"][e] - used ELSE bank["relayer"][e]
          /\ bank'["hook"][e] = IF e = d THEN bank["hook"][e] + used ELSE bank["hook"][e]
          /\ bank'["forward"][e] = IF e = Denom THEN 0 ELSE bank["forward"][e]
          /\ bank'["collateral"][e] = IF e = Denom THEN bank["collateral"][e] + held
                                      ELSE bank["collateral"][e]
          /\ bank'["owner"][e] = bank["owner"][e]
    <2> TAKE e \in Denoms
    <2> HIDE DEF d, quoted
    <2>1. /\ bank["relayer"][e] \in Nat /\ bank["hook"][e] \in Nat /\ bank["forward"][e] \in Nat
          /\ bank["collateral"][e] \in Nat /\ bank["owner"][e] \in Nat
        BY <1>1, AccountNames, Zenon
    <2>2. bank'["relayer"][e] = IF e = d THEN bank["relayer"][e] - used ELSE bank["relayer"][e]
        BY <2>1, <1>3, <1>7, <1>8, <1>9, <1>10, <1>12, AccountNames DEF Moved
    <2>3. bank'["hook"][e] = IF e = d THEN bank["hook"][e] + used ELSE bank["hook"][e]
        BY <2>1, <1>3, <1>7, <1>8, <1>9, <1>10, <1>12, AccountNames DEF Moved
    <2>4. bank'["forward"][e] = IF e = Denom THEN 0 ELSE bank["forward"][e]
        BY <2>1, <1>3, <1>7, <1>8, <1>9, <1>10, <1>12, AccountNames DEF Moved
    <2>5. bank'["collateral"][e] = IF e = Denom THEN bank["collateral"][e] + held
                                   ELSE bank["collateral"][e]
        BY <2>1, <1>3, <1>7, <1>8, <1>9, <1>10, <1>12, AccountNames DEF Moved
    <2>6. bank'["owner"][e] = bank["owner"][e]
        BY <2>1, <1>8, <1>9, <1>10, <1>12, AccountNames DEF Moved
    <2> QED BY <2>2, <2>3, <2>4, <2>5, <2>6, Zenon
<1>14. bank' \in Ledgers
    BY <1>12, Zenon DEF Moved
<1> QED BY <1>4, <1>13, <1>14, Zenon DEF Forwarded

\* Forward leaves every balance covered and the hooks paid by the relayers.
LEMMA ForwardFees ==
    ASSUME FeeInv, NEW h \in Hooks, NEW max \in 0..MaxPrice, Forward(h, max)
    PROVE  FeeInv'
<1> DEFINE d == HookDenom[h]
           quoted == price[h]
<1>1. \A a \in Accounts, e \in Denoms : bank[a][e] \in Nat
    BY Zenon DEF FeeInv, BankSound, Balances
<1>2. d \in Denoms /\ Denom \in Denoms /\ quoted \in Nat
    BY BridgeAssumption DEF FeeInv, BankSound
<1>3. PICK used \in 0..quoted : Forwarded(d, used)
    BY ForwardBalances, Zenon
<1>4. bank["relayer"][d] >= quoted /\ price' = price
    BY Zenon DEF Forward
<1> HIDE DEF d, quoted
<1>5. bank' \in Balances
    <2>1. ASSUME NEW a \in Accounts, NEW e \in Denoms PROVE bank'[a][e] \in Nat
        <3>1. bank[a][e] \in Nat /\ bank["forward"][Denom] \in Nat
            BY <1>1, <1>2, AccountNames, Zenon
        <3>2. a \in {"owner", "forward", "relayer", "hook", "collateral"}
            BY Zenon DEF Accounts
        <3>3. e = d => bank["relayer"][e] - used \in Nat
            BY <1>1, <1>2, <1>3, <1>4, AccountNames
        <3> QED BY <3>1, <3>2, <3>3, <1>2, <1>3 DEF Forwarded
    <2> QED BY <1>3, <2>1, Zenon DEF Balances, Ledgers, Forwarded
<1>6. RelayerPaysFees'
    <2> SUFFICES ASSUME NEW e \in Denoms
                 PROVE  bank'["relayer"][e] + bank'["hook"][e] = RelayerFunds[e]
        BY Zenon DEF RelayerPaysFees
    <2>1. bank["relayer"][e] + bank["hook"][e] = RelayerFunds[e]
        BY Zenon DEF FeeInv, RelayerPaysFees
    <2>2. bank["relayer"][e] \in Nat /\ bank["hook"][e] \in Nat
        BY <1>1, AccountNames, Zenon
    <2> QED BY <2>1, <2>2, <1>2, <1>3 DEF Forwarded
<1> QED BY <1>4, <1>5, <1>6, Zenon DEF FeeInv, BankSound

\* Every step keeps the invariant; only Deposit, Forward and ProcessMessage touch the bank.
LEMMA FeeStep == FeeInv /\ [BridgeNext]_bridgeVars => FeeInv'
<1> SUFFICES ASSUME FeeInv, [BridgeNext]_bridgeVars PROVE FeeInv'
    BY Zenon
<1>1. ASSUME NEW d \in Denoms, Deposit(d) PROVE FeeInv'
    BY <1>1, PlainTransfer, AccountNames, Zenon DEF Deposit
<1>2. ASSUME NEW h \in Hooks, Reprice(h) PROVE FeeInv'
    BY <1>2, Zenon DEF Reprice, FeeInv, BankSound, RelayerPaysFees
<1>3. ASSUME NEW h \in Hooks, NEW max \in 0..MaxPrice, Forward(h, max) PROVE FeeInv'
    BY <1>3, ForwardFees, Zenon
<1>4. ASSUME NEW m \in Messages, NEW r \in {"owner", "forward"}, ProcessMessage(m, r)
      PROVE  FeeInv'
    BY <1>4, PlainTransfer, AccountNames, BridgeAssumption, Zenon DEF ProcessMessage
<1>5. ASSUME UNCHANGED bankVars PROVE FeeInv'
    BY <1>5, Zenon DEF bankVars, FeeInv, BankSound, RelayerPaysFees
<1>6. CASE Arrive
    BY <1>5, <1>6, Zenon DEF Arrive
<1>7. ASSUME NEW S \in SUBSET Messages, RemoteBlock(S) PROVE FeeInv'
    BY <1>5, <1>7, Zenon DEF RemoteBlock
<1>8. CASE CreateInterchainSecurityModule
    BY <1>5, <1>8, Zenon DEF CreateInterchainSecurityModule
<1>9. ASSUME NEW k \in 0..MaxLag, UpdateInterchainSecurityModule(k) PROVE FeeInv'
    BY <1>5, <1>9, Zenon DEF UpdateInterchainSecurityModule
<1>10. ASSUME NEW r, NEW S \in SUBSET Messages, SubmitMessages(r, S) PROVE FeeInv'
    BY <1>5, <1>10, Zenon DEF SubmitMessages
<1>11. CASE ExportImport
    BY <1>5, <1>11, Zenon DEF ExportImport
<1>12. CASE UNCHANGED bridgeVars
    BY <1>5, <1>12, Zenon DEF bridgeVars, bankVars
<1> QED BY <1>1, <1>2, <1>3, <1>4, <1>6, <1>7, <1>8, <1>9, <1>10, <1>11, <1>12, Zenon
        DEF BridgeNext, Process

\* Fees are a matter between relayers and hooks, and no account is overdrawn, whatever
\* hooks charge, in whatever denom (msgServer.Forward, calculateExcessIGPFee).
THEOREM FeesFromRelayers == BridgeSpec => []RelayerPaysFees
<1>1. FeeInv => RelayerPaysFees
    BY Zenon DEF FeeInv
<1> QED BY FeeInit, FeeStep, <1>1, PTL DEF BridgeSpec

\* No account is ever overdrawn: the refund is covered by what the hook left.
THEOREM NoOverdraft == BridgeSpec => []BankSound
<1>1. FeeInv => BankSound
    BY Zenon DEF FeeInv
<1> QED BY FeeInit, FeeStep, <1>1, PTL DEF BridgeSpec

-----------------------------------------------------------------------------
(* The collateral                                                          *)

\* What the accounts hold together.
Held(b, d) == b["owner"][d] + b["forward"][d] + b["relayer"][d] + b["hook"][d] + b["collateral"][d]

Conserved == \A d \in Denoms : Held(bank, d) = OwnerFunds[d] + RelayerFunds[d]

\* Trees of the remote chain only grow, and what is authorised here is in the last one.
RemoteInv ==
    /\ supply \in [inFlight : Nat, minted : Nat]
    /\ remote \in Seq(SUBSET Messages) /\ Len(remote) >= 1
    /\ \A i, j \in 1..Len(remote) : i <= j => remote[i] \subseteq remote[j]
    /\ IsFiniteSet(Dispatched)
    /\ messages \subseteq Dispatched
    /\ delivered \subseteq Dispatched
    /\ submitted \in BOOLEAN

\* Coins that the collateral stands for.
Claims == supply.inFlight + supply.minted + Cardinality(Dispatched \ delivered)

\* Backed needs, to be inductive, that coins are conserved, that the trees grow and that
\* only dispatched messages are authorised.
BackedInv ==
    /\ FeeInv
    /\ Conserved
    /\ RemoteInv
    /\ bank["collateral"][Denom] = Claims

\* A coin moves: the accounts hold together what they held.
LEMMA TransferConserves ==
    ASSUME NEW b \in Ledgers, NEW c, NEW from \in Accounts, NEW to \in Accounts, from # to,
           NEW d \in Denoms, NEW coins \in Int, Moved(b, c, from, to, d, coins),
           NEW e \in Denoms
    PROVE  Held(c, e) = Held(b, e)
<1>1. \A a \in Accounts : b[a][e] \in Int
    BY Zenon DEF Ledgers
<1>2. CASE e # d
    <2>1. \A a \in Accounts : c[a][e] = b[a][e]
        BY <1>2, Zenon DEF Moved
    <2> QED BY <2>1, AccountNames, Zenon DEF Held
<1>3. CASE e = d
    <2>1. \A a \in Accounts : c[a][e] = IF a = to THEN b[a][e] + coins
                                       ELSE IF a = from THEN b[a][e] - coins ELSE b[a][e]
        BY <1>3, Zenon DEF Moved
    <2> DEFINE Delta(a) == IF a = to THEN coins ELSE IF a = from THEN -coins ELSE 0
    <2>2. \A a \in Accounts : c[a][e] = b[a][e] + Delta(a) /\ Delta(a) \in Int
        BY <1>1, <2>1
    <2>3. Delta("owner") + Delta("forward") + Delta("relayer") + Delta("hook") + Delta("collateral") = 0
        <3>1. CASE from = "owner"
            BY <3>1 DEF Accounts
        <3>2. CASE from = "forward"
            BY <3>2 DEF Accounts
        <3>3. CASE from = "relayer"
            BY <3>3 DEF Accounts
        <3>4. CASE from = "hook"
            BY <3>4 DEF Accounts
        <3>5. CASE from = "collateral"
            BY <3>5 DEF Accounts
        <3> QED BY <3>1, <3>2, <3>3, <3>4, <3>5, Zenon DEF Accounts
    <2> HIDE DEF Delta
    <2>4. /\ c["owner"][e] = b["owner"][e] + Delta("owner")
          /\ c["forward"][e] = b["forward"][e] + Delta("forward")
          /\ c["relayer"][e] = b["relayer"][e] + Delta("relayer")
          /\ c["hook"][e] = b["hook"][e] + Delta("hook")
          /\ c["collateral"][e] = b["collateral"][e] + Delta("collateral")
        BY <2>2, AccountNames, Zenon
    <2>5. /\ b["owner"][e] \in Int /\ b["forward"][e] \in Int /\ b["relayer"][e] \in Int
          /\ b["hook"][e] \in Int /\ b["collateral"][e] \in Int
          /\ Delta("owner") \in Int /\ Delta("forward") \in Int /\ Delta("relayer") \in Int
          /\ Delta("hook") \in Int /\ Delta("collateral") \in Int
        BY <1>1, <2>2, AccountNames, Zenon
    <2> QED BY <2>3, <2>4, <2>5 DEF Held
<1> QED BY <1>2, <1>3, Zenon

\* No account holds more than all of them together.
LEMMA HeldBounds ==
    ASSUME FeeInv, Conserved
    PROVE  \A a \in Accounts, d \in Denoms : bank[a][d] \in 0..(OwnerFunds[d] + RelayerFunds[d])
<1> SUFFICES ASSUME NEW a \in Accounts, NEW d \in Denoms
             PROVE  bank[a][d] \in 0..(OwnerFunds[d] + RelayerFunds[d])
    BY Zenon
<1>1. \A x \in Accounts : bank[x][d] \in Nat
    BY Zenon DEF FeeInv, BankSound, Balances
<1>2. OwnerFunds[d] \in Nat /\ RelayerFunds[d] \in Nat
    BY BridgeAssumption, Zenon
<1>3. Held(bank, d) = OwnerFunds[d] + RelayerFunds[d]
    BY Zenon DEF Conserved
<1>4. a \in {"owner", "forward", "relayer", "hook", "collateral"}
    BY Zenon DEF Accounts
<1> QED BY <1>1, <1>2, <1>3, <1>4, AccountNames DEF Held

\* Nothing is locked and nothing is owed at the start.
LEMMA BackedInit == BridgeInit => BackedInv
<1> SUFFICES ASSUME BridgeInit PROVE BackedInv
    BY Zenon
<1>1. FeeInv
    BY FeeInit, Zenon
<1>2. \A d \in Denoms : /\ bank["owner"][d] = OwnerFunds[d] /\ bank["relayer"][d] = RelayerFunds[d]
                        /\ bank["forward"][d] = 0 /\ bank["hook"][d] = 0 /\ bank["collateral"][d] = 0
                        /\ OwnerFunds[d] \in Nat /\ RelayerFunds[d] \in Nat
    BY BridgeAssumption, AccountNames, Zenon DEF BridgeInit
<1>3. Conserved
    BY <1>2 DEF Conserved, Held
<1>4. remote = <<{}>> /\ Len(remote) = 1 /\ Dispatched = {}
    BY Zenon DEF BridgeInit, Dispatched
<1>5. RemoteInv
    <2>1. remote \in Seq(SUBSET Messages) /\ IsFiniteSet(Dispatched)
        BY <1>4, FS_EmptySet
    <2>2. \A i, j \in 1..Len(remote) : i <= j => remote[i] \subseteq remote[j]
        BY <1>4
    <2>3. supply \in [inFlight : Nat, minted : Nat] /\ submitted \in BOOLEAN
          /\ messages = {} /\ delivered = {}
        BY Zenon DEF BridgeInit
    <2> QED BY <1>4, <2>1, <2>2, <2>3 DEF RemoteInv
<1>6. Claims = 0
    <2>1. Dispatched \ delivered = {}
        BY <1>4, Zenon
    <2>2. Cardinality(Dispatched \ delivered) = 0
        BY <2>1, FS_EmptySet, Zenon
    <2> QED BY <2>2 DEF Claims, BridgeInit
<1> QED BY <1>1, <1>2, <1>3, <1>5, <1>6, BridgeAssumption, Zenon DEF BackedInv

\* The last tree.
LEMMA LastTree ==
    ASSUME RemoteInv
    PROVE  /\ Dispatched = remote[Len(remote)] /\ Len(remote) \in Nat \ {0}
           /\ Dispatched \subseteq Messages /\ remote[1] \subseteq Dispatched
           /\ IsFiniteSet(Dispatched \ delivered)
           /\ Cardinality(Dispatched \ delivered) \in Nat
           /\ supply.inFlight \in Nat /\ supply.minted \in Nat
<1>1. Dispatched = remote[Len(remote)] /\ Len(remote) \in Nat \ {0}
    BY DEF RemoteInv, Dispatched
<1>2. Dispatched \subseteq Messages /\ remote[1] \subseteq Dispatched
    BY <1>1 DEF RemoteInv
<1>3. IsFiniteSet(Dispatched \ delivered)
    BY FS_Subset, Zenon DEF RemoteInv
<1>4. Cardinality(Dispatched \ delivered) \in Nat
    BY <1>3, FS_CardinalityType, Zenon
<1> QED BY <1>1, <1>2, <1>3, <1>4, Zenon DEF RemoteInv

\* A step that leaves the remote chain and what was delivered alone.
LEMMA SameClaims ==
    ASSUME RemoteInv, UNCHANGED <<supply, remote, delivered>>, messages' \subseteq Dispatched,
           submitted' \in BOOLEAN
    PROVE  RemoteInv' /\ Claims' = Claims
<1>1. Dispatched' = Dispatched
    BY Zenon DEF Dispatched
<1> QED BY <1>1, Zenon DEF RemoteInv, Claims

\* A coin moves between the other accounts.
LEMMA TransferBacked ==
    ASSUME BackedInv, FeeInv', NEW from \in Accounts, NEW to \in Accounts, from # to,
           from # "collateral", to # "collateral", NEW d \in Denoms,
           bank' = Move(bank, from, to, d, 1), RemoteInv', Claims' = Claims
    PROVE  BackedInv'
<1>1. bank \in Ledgers
    BY DEF BackedInv, FeeInv, BankSound, Balances, Ledgers
<1>2. Moved(bank, bank', from, to, d, 1)
    BY <1>1, MoveBalances
<1>3. Conserved'
    <2>1. \A e \in Denoms : Held(bank', e) = Held(bank, e)
        BY <1>1, <1>2, TransferConserves
    <2> QED BY <2>1, Zenon DEF BackedInv, Conserved
<1>4. bank'["collateral"][Denom] = bank["collateral"][Denom]
    BY <1>2, BridgeAssumption, AccountNames, Zenon DEF Moved
<1> QED BY <1>3, <1>4, Zenon DEF BackedInv

\* A forward locks as many coins as it sends on their way.
LEMMA ForwardBacked ==
    ASSUME BackedInv, FeeInv', NEW h \in Hooks, NEW max \in 0..MaxPrice, Forward(h, max)
    PROVE  BackedInv'
<1> DEFINE d == HookDenom[h]
           held == bank["forward"][Denom]
<1>1. /\ d \in Denoms /\ Denom \in Denoms
      /\ \A a \in Accounts, e \in Denoms : bank[a][e] \in Nat
    BY BridgeAssumption, Zenon DEF BackedInv, FeeInv, BankSound, Balances
<1>2. held \in Nat
    BY <1>1, AccountNames, Zenon
<1>3. PICK used \in 0..price[h] : Forwarded(d, used)
    BY ForwardBalances, Zenon DEF BackedInv
<1>4. used \in Int
    BY <1>1, <1>3, BridgeAssumption DEF BackedInv, FeeInv, BankSound
<1>5. /\ supply' = [supply EXCEPT !.inFlight = @ + held]
      /\ UNCHANGED <<remote, submitted, messages, delivered>>
    BY Zenon DEF Forward, ismVars
<1> HIDE DEF d
<1>6. Conserved'
    <2> SUFFICES ASSUME NEW e \in Denoms PROVE Held(bank', e) = Held(bank, e)
        BY Zenon DEF BackedInv, Conserved
    <2>1. \A a \in Accounts : bank[a][e] \in Nat
        BY <1>1, Zenon
    <2> QED BY <1>2, <1>3, <1>4, <2>1, AccountNames DEF Forwarded, Held
<1>7. /\ supply' \in [inFlight : Nat, minted : Nat]
      /\ supply'.inFlight = supply.inFlight + held /\ supply'.minted = supply.minted
    BY <1>2, <1>5, SMTT(30) DEF BackedInv, RemoteInv
<1>8. Dispatched' = Dispatched
    BY <1>5, Zenon DEF Dispatched
<1>9. RemoteInv'
    BY <1>5, <1>7, <1>8, Zenon DEF BackedInv, RemoteInv
<1>10. Claims' = Claims + held
    <2>1. Cardinality(Dispatched \ delivered)' = Cardinality(Dispatched \ delivered)
        BY <1>5, <1>8, Zenon
    <2>2. /\ Claims = supply.inFlight + supply.minted + Cardinality(Dispatched \ delivered)
          /\ Claims' = supply'.inFlight + supply'.minted + Cardinality(Dispatched \ delivered)'
        BY Zenon DEF Claims
    <2>3. supply.inFlight \in Nat /\ supply.minted \in Nat
          /\ Cardinality(Dispatched \ delivered) \in Nat
        BY LastTree, Zenon DEF BackedInv
    <2> QED BY <1>2, <1>7, <2>1, <2>2, <2>3
<1>11. bank'["collateral"][Denom] = bank["collateral"][Denom] + held
    BY <1>1, <1>3, Zenon DEF Forwarded
<1> QED BY <1>6, <1>9, <1>10, <1>11, Zenon DEF BackedInv

\* A delivery releases one coin for one message that was dispatched and not delivered.
LEMMA ProcessBacked ==
    ASSUME BackedInv, FeeInv', NEW m \in Messages, NEW r \in {"owner", "forward"},
           ProcessMessage(m, r)
    PROVE  BackedInv'
<1>1. bank \in Ledgers /\ r \in Accounts /\ r # "collateral" /\ Denom \in Denoms
    BY BridgeAssumption, AccountNames DEF BackedInv, FeeInv, BankSound, Balances, Ledgers
<1>2. /\ m \notin delivered /\ m \in messages /\ messages' = messages \ {m}
      /\ bank' = Move(bank, "collateral", r, Denom, 1)
      /\ delivered' = delivered \cup {m} /\ UNCHANGED <<supply, remote, submitted>>
    BY Zenon DEF ProcessMessage, Verify
<1>3. Moved(bank, bank', "collateral", r, Denom, 1)
    BY <1>1, <1>2, MoveBalances, AccountNames
<1>4. Conserved'
    <2>1. \A e \in Denoms : Held(bank', e) = Held(bank, e)
        BY <1>1, <1>3, TransferConserves, AccountNames
    <2> QED BY <2>1, Zenon DEF BackedInv, Conserved
<1>5. bank'["collateral"][Denom] = bank["collateral"][Denom] - 1
    BY <1>1, <1>3, AccountNames, Zenon DEF Moved
<1>6. Dispatched' = Dispatched
    BY <1>2, Zenon DEF Dispatched
<1>7. m \in Dispatched \ delivered
    BY <1>2, Zenon DEF BackedInv, RemoteInv
<1>8. RemoteInv'
    BY <1>2, <1>6, <1>7, Zenon DEF BackedInv, RemoteInv
<1>9. Claims' = Claims - 1
    <2>1. (Dispatched \ delivered)' = (Dispatched \ delivered) \ {m}
        BY <1>2, <1>6, Zenon
    <2>2. IsFiniteSet(Dispatched \ delivered) /\ Cardinality(Dispatched \ delivered) \in Nat
          /\ supply.inFlight \in Nat /\ supply.minted \in Nat
        BY LastTree, Zenon DEF BackedInv
    <2>3. Cardinality((Dispatched \ delivered) \ {m}) = Cardinality(Dispatched \ delivered) - 1
        BY <1>7, <2>2, FS_RemoveElement, Zenon
    <2>4. Cardinality(Dispatched \ delivered)' = Cardinality(Dispatched \ delivered) - 1
        BY <2>1, <2>3, Zenon
    <2> QED BY <1>2, <2>2, <2>4 DEF Claims
<1> QED BY <1>4, <1>5, <1>8, <1>9, Zenon DEF BackedInv

\* A block of the remote chain: what it dispatches is taken from what was minted there.
LEMMA BlockBacked ==
    ASSUME BackedInv, FeeInv', NEW S \in SUBSET Messages, RemoteBlock(S)
    PROVE  BackedInv'
<1> DEFINE tree == Dispatched \cup S
           n == Len(remote)
<1>1. /\ IsFiniteSet(S) /\ S \cap Dispatched = {} /\ Cardinality(S) <= supply.minted
      /\ supply' = [supply EXCEPT !.minted = @ - Cardinality(S)]
      /\ remote' = IF found THEN Append(remote, tree) ELSE <<tree>>
      /\ UNCHANGED <<bank, submitted, messages, delivered>>
    BY Zenon DEF RemoteBlock, bankVars, ismVars
<1>2. /\ Dispatched = remote[n] /\ n \in Nat \ {0} /\ Dispatched \subseteq Messages
      /\ IsFiniteSet(Dispatched \ delivered) /\ Cardinality(Dispatched \ delivered) \in Nat
      /\ supply.inFlight \in Nat /\ supply.minted \in Nat
    BY LastTree, Zenon DEF BackedInv
<1>3. Cardinality(S) \in Nat
    BY <1>1, FS_CardinalityType, Zenon
<1>4. remote \in Seq(SUBSET Messages) /\ tree \in SUBSET Messages
      /\ \A i, j \in 1..n : i <= j => remote[i] \subseteq remote[j]
    BY <1>2, Zenon DEF BackedInv, RemoteInv
<1>5. /\ remote' \in Seq(SUBSET Messages) /\ Len(remote') >= 1 /\ Dispatched' = tree
      /\ \A i, j \in 1..Len(remote') : i <= j => remote'[i] \subseteq remote'[j]
    <2> HIDE DEF tree, n
    <2>1. CASE ~found
        BY <1>1, <1>4, <2>1 DEF Dispatched
    <2>2. CASE found
        <3>1. /\ remote' \in Seq(SUBSET Messages) /\ Len(remote') = n + 1
              /\ remote'[n + 1] = tree /\ \A i \in 1..n : remote'[i] = remote[i]
            BY <1>1, <1>4, <2>2 DEF n
        <3>2. Dispatched' = tree
            BY <3>1, Zenon DEF Dispatched
        <3>3. ASSUME NEW i \in 1..Len(remote'), NEW j \in 1..Len(remote'), i <= j
              PROVE  remote'[i] \subseteq remote'[j]
            <4>1. CASE j \in 1..n
                <5>1. i \in 1..n /\ i <= j
                    BY <1>2, <3>1, <3>3, <4>1
                <5>2. remote[i] \subseteq remote[j]
                    BY <1>4, <4>1, <5>1, Zenon
                <5> QED BY <3>1, <4>1, <5>1, <5>2, Zenon
            <4>2. CASE j = n + 1 /\ i \in 1..n
                <5>1. remote'[i] \subseteq remote[n]
                    BY <1>2, <1>4, <3>1, <4>2
                <5> QED BY <1>2, <3>1, <4>2, <5>1, Zenon DEF tree
            <4>3. CASE j = n + 1 /\ i = n + 1
                BY <4>3, Zenon
            <4> QED BY <1>2, <3>1, <3>3, <4>1, <4>2, <4>3
        <3> QED BY <1>2, <3>1, <3>2, <3>3
    <2> QED BY <2>1, <2>2, Zenon
<1>6. IsFiniteSet(tree)
    BY <1>1, FS_Union, Zenon DEF BackedInv, RemoteInv
<1>7. supply' \in [inFlight : Nat, minted : Nat]
      /\ supply'.inFlight = supply.inFlight /\ supply'.minted = supply.minted - Cardinality(S)
    BY <1>1, <1>2, <1>3, SMTT(30) DEF BackedInv, RemoteInv
<1>8. messages \subseteq tree /\ delivered \subseteq tree /\ submitted \in BOOLEAN
    BY Zenon DEF BackedInv, RemoteInv
<1>9. Claims' = Claims
    <2>1. (Dispatched \ delivered)' = (Dispatched \ delivered) \cup S
        BY <1>1, <1>5, Zenon DEF BackedInv, RemoteInv
    <2>2. (Dispatched \ delivered) \cap S = {}
        BY <1>1, Zenon
    <2>3. Cardinality((Dispatched \ delivered) \cup S)
             = Cardinality(Dispatched \ delivered) + Cardinality(S) - 0
        BY <1>1, <1>2, <2>2, FS_Union, FS_EmptySet, SMTT(30)
    <2>4. Cardinality(Dispatched \ delivered)' = Cardinality((Dispatched \ delivered) \cup S)
        BY <2>1, Zenon
    <2> DEFINE c == Cardinality(Dispatched \ delivered)
               d == Cardinality(Dispatched' \ delivered')
    <2>5. c \in Nat /\ d = c + Cardinality(S)
        BY <1>2, <1>3, <2>3, <2>4
    <2>6. Claims = supply.inFlight + supply.minted + c /\ Claims' = supply'.inFlight + supply'.minted + d
        BY Zenon DEF Claims
    <2> HIDE DEF c, d
    <2> QED BY <1>2, <1>3, <1>7, <2>5, <2>6, SMTT(30)
<1> HIDE DEF tree
<1>10. RemoteInv'
    BY <1>1, <1>5, <1>6, <1>7, <1>8, Zenon DEF RemoteInv
<1>11. Conserved'
    BY <1>1, Zenon DEF BackedInv, Conserved
<1> QED BY <1>1, <1>9, <1>10, <1>11, Zenon DEF BackedInv

\* A state update drops the trees before the new trusted one; the last stays.
LEMMA UpdateBacked ==
    ASSUME BackedInv, FeeInv', NEW k \in 0..MaxLag, UpdateInterchainSecurityModule(k)
    PROVE  BackedInv'
<1> DEFINE n == Len(remote)
<1>1. /\ k < n /\ remote' = SubSeq(remote, k + 1, n) /\ submitted' \in BOOLEAN
      /\ UNCHANGED <<bank, supply, messages, delivered>>
    BY Zenon DEF UpdateInterchainSecurityModule, bankVars, BackedInv, RemoteInv
<1>2. /\ Dispatched = remote[n] /\ n \in Nat \ {0} /\ k \in Nat
      /\ remote \in Seq(SUBSET Messages)
      /\ \A i, j \in 1..n : i <= j => remote[i] \subseteq remote[j]
    BY LastTree, BridgeAssumption DEF BackedInv, RemoteInv
<1> HIDE DEF n
<1>3. /\ remote' \in Seq(SUBSET Messages) /\ Len(remote') = n - k
      /\ \A i \in 1..(n - k) : remote'[i] = remote[i + k]
    BY <1>1, <1>2 DEF n
<1>4. Dispatched' = Dispatched
    <2>1. remote'[n - k] = remote[n]
        <3>1. n - k \in 1..(n - k) /\ (n - k) + k = n
            BY <1>1, <1>2, SMTT(30)
        <3> QED BY <1>3, <3>1, Zenon
    <2> QED BY <1>2, <1>3, <2>1, Zenon DEF Dispatched
<1>5. \A i, j \in 1..Len(remote') : i <= j => remote'[i] \subseteq remote'[j]
    <2> SUFFICES ASSUME NEW i \in 1..(n - k), NEW j \in 1..(n - k), i <= j
                 PROVE  remote'[i] \subseteq remote'[j]
        BY <1>3, Zenon
    <2>1. i + k \in 1..n /\ j + k \in 1..n /\ i + k <= j + k
        BY <1>1, <1>2
    <2> QED BY <1>2, <1>3, <2>1, Zenon
<1>6. RemoteInv' /\ Claims' = Claims
    <2>1. Claims' = Claims
        BY <1>1, <1>4, Zenon DEF Claims
    <2>2. Len(remote') >= 1
        BY <1>1, <1>2, <1>3
    <2> QED BY <1>1, <1>3, <1>4, <1>5, <2>1, <2>2, Zenon DEF BackedInv, RemoteInv
<1>7. Conserved'
    BY <1>1, Zenon DEF BackedInv, Conserved
<1> QED BY <1>1, <1>6, <1>7, Zenon DEF BackedInv

\* Every step keeps the collateral backed.
LEMMA BackedStep == BackedInv /\ [BridgeNext]_bridgeVars => BackedInv'
<1> SUFFICES ASSUME BackedInv, [BridgeNext]_bridgeVars PROVE BackedInv'
    BY Zenon
<1>0. FeeInv' /\ FeeInv /\ RemoteInv /\ Dispatched \subseteq Messages /\ remote[1] \subseteq Dispatched
      /\ messages \subseteq Dispatched /\ submitted \in BOOLEAN
    BY FeeStep, LastTree, Zenon DEF BackedInv, RemoteInv
<1>1. ASSUME UNCHANGED <<bank, supply, remote, delivered>>, messages' \subseteq Dispatched,
             submitted' \in BOOLEAN
      PROVE  BackedInv'
    BY <1>0, <1>1, SameClaims, Zenon DEF BackedInv, Conserved
<1>2. ASSUME NEW d \in Denoms, Deposit(d) PROVE BackedInv'
    <2>1. RemoteInv' /\ Claims' = Claims
        BY <1>0, <1>2, SameClaims, Zenon DEF Deposit, ismVars
    <2> QED BY <1>0, <1>2, <2>1, TransferBacked, AccountNames, Zenon DEF Deposit
<1>3. ASSUME NEW h \in Hooks, Reprice(h) PROVE BackedInv'
    BY <1>0, <1>1, <1>3, Zenon DEF Reprice, ismVars
<1>4. ASSUME NEW h \in Hooks, NEW max \in 0..MaxPrice, Forward(h, max) PROVE BackedInv'
    BY <1>0, <1>4, ForwardBacked, Zenon
<1>5. CASE Arrive
    <2>1. supply' \in [inFlight : Nat, minted : Nat]
          /\ supply'.inFlight + supply'.minted = supply.inFlight + supply.minted
          /\ UNCHANGED <<bank, remote, submitted, messages, delivered>>
        BY <1>0, <1>5 DEF Arrive, RemoteInv, bankVars, ismVars
    <2>2. Dispatched' = Dispatched
        BY <2>1, Zenon DEF Dispatched
    <2>3. RemoteInv' /\ Claims' = Claims
        BY <1>0, <2>1, <2>2, Zenon DEF RemoteInv, Claims
    <2> QED BY <1>0, <2>1, <2>3, Zenon DEF BackedInv, Conserved
<1>6. ASSUME NEW S \in SUBSET Messages, RemoteBlock(S) PROVE BackedInv'
    BY <1>0, <1>6, BlockBacked, Zenon
<1>7. CASE CreateInterchainSecurityModule
    BY <1>0, <1>1, <1>7, Zenon DEF CreateInterchainSecurityModule, bankVars
<1>8. ASSUME NEW k \in 0..MaxLag, UpdateInterchainSecurityModule(k) PROVE BackedInv'
    BY <1>0, <1>8, UpdateBacked, Zenon
<1>9. ASSUME NEW r, NEW S \in SUBSET Messages, SubmitMessages(r, S) PROVE BackedInv'
    BY <1>0, <1>1, <1>9 DEF SubmitMessages, TreeOf, bankVars
<1>10. ASSUME NEW m \in Messages, NEW r \in {"owner", "forward"}, ProcessMessage(m, r)
       PROVE  BackedInv'
    BY <1>0, <1>10, ProcessBacked, Zenon
<1>11. CASE ExportImport
    BY <1>0, <1>1, <1>11, Zenon DEF ExportImport, FirstPage, bankVars
<1>12. CASE UNCHANGED bridgeVars
    BY <1>0, <1>1, <1>12, Zenon DEF bridgeVars
<1> QED BY <1>2, <1>3, <1>4, <1>5, <1>6, <1>7, <1>8, <1>9, <1>10, <1>11, <1>12, Zenon
        DEF BridgeNext, Process

\* The locked collateral is exactly what is claimable elsewhere, for every number of
\* messages, hooks, prices and balances (x/forwarding, x/zkism).
THEOREM CollateralBacked == BridgeSpec => []Backed
<1>1. BackedInv => Backed
    <2> SUFFICES ASSUME BackedInv PROVE Backed
        BY Zenon
    <2>1. BridgeTypeOK
        BY HeldBounds, LastTree, Zenon DEF BackedInv, BridgeTypeOK, RemoteInv
    <2> QED BY <2>1, Zenon DEF Backed, BackedInv, RemoteInv, Claims
<1> QED BY BackedInit, BackedStep, <1>1, PTL DEF BridgeSpec

-----------------------------------------------------------------------------
(* The client's escrow ledger: the inductive invariant                     *)

Busy(c) == refill[c].pc \in {"compute", "deposit", "apply"}

Refills == {NoRefill, [pc |-> "start"], [pc |-> "compute"]}
             \cup [pc : {"deposit", "apply"}, amount : Nat]
Seeders == {NoSeeder} \cup [by : Puts, bal : Nat]
PutStates == {"idle", "seed", "admit", "budget", "poll", "refill", "repoll",
              "sleep", "admitted", "dispatched", "done", "failed", "gone"}

TypeInv ==
    /\ chain \in Nat /\ balance \in Nat
    /\ unsettled \in SUBSET Puts /\ legacy \in SUBSET Puts
    /\ put \in [Puts -> PutStates]
    /\ refill \in [Callers -> Refills]
    /\ seeder \in Seeders
    /\ refilling \in BOOLEAN /\ seeded \in BOOLEAN /\ early \in BOOLEAN

\* The flag is the lock of the refill: one caller at most is past it.
SingleFlight ==
    /\ \A c \in Callers : Busy(c) => refilling
    /\ \A c, d \in Callers : Busy(c) /\ Busy(d) => c = d
    /\ refilling => \E c \in Callers : Busy(c)

\* Whoever signed a promise is past admission; whoever holds seedMu waits for its query;
\* a Put refills only in its loop.
PutsInOrder ==
    /\ \A p \in Puts : put[p] # "refill" => refill[p] = NoRefill
    /\ \A p \in unsettled \cup legacy : put[p] \in {"dispatched", "done", "gone"}
    /\ seeder # NoSeeder => ~seeded /\ put[seeder.by] = "seed"

\* Until the ledger is seeded nothing is reserved, signed or refilled.
Unseeded ==
    ~seeded /\ ~early =>
        /\ balance = 0 /\ unsettled \subseteq legacy
        /\ \A p \in Puts : put[p] \in {"idle", "seed", "admit", "budget", "failed", "gone"}
        /\ \A c \in Callers : refill[c] = NoRefill

\* What the chain holds, with the old promises it has paid since the restart.
Cover == chain + TotalAmount(legacy \ unsettled)
\* What the ledger has given out.
Spent == balance + Reserved + TotalAmount(unsettled \ legacy)

Solvent ==
    ~early =>
        /\ Spent <= Cover
        /\ \A c \in Callers : refill[c].pc = "apply" => Spent + refill[c].amount <= Cover
        /\ seeder # NoSeeder => seeder.bal <= Cover

LedgerInv == TypeInv /\ SingleFlight /\ PutsInOrder /\ Unseeded /\ Solvent

-----------------------------------------------------------------------------
(* Sums of amounts                                                         *)

\* Amounts of Puts are natural numbers, and so are their sums.
LEMMA TotalNat ==
    ASSUME NEW S \in SUBSET Puts
    PROVE  IsFiniteSet(S) /\ TotalAmount(S) \in Nat
<1>1. IsFiniteSet(S) /\ \A p \in S : amount[p] \in Nat
    BY LedgerAssumption, FS_Subset, Zenon
<1> QED BY <1>1, SumNat, Zenon DEF TotalAmount

\* One more Put adds its amount.
LEMMA TotalAdd ==
    ASSUME NEW S \in SUBSET Puts, NEW p \in Puts, p \notin S
    PROVE  TotalAmount(S \cup {p}) = TotalAmount(S) + amount[p]
<1>1. IsFiniteSet(S) /\ amount[p] \in Int /\ \A q \in S : amount[q] \in Int
    BY LedgerAssumption, FS_Subset
<1> QED BY <1>1, SumAdd, Zenon DEF TotalAmount

\* One Put less takes its amount away.
LEMMA TotalRemove ==
    ASSUME NEW S \in SUBSET Puts, NEW p \in S
    PROVE  TotalAmount(S \ {p}) = TotalAmount(S) - amount[p]
<1>1. S \ {p} \in SUBSET Puts /\ p \in Puts /\ p \notin S \ {p} /\ (S \ {p}) \cup {p} = S
    BY Zenon
<1>2. TotalAmount((S \ {p}) \cup {p}) = TotalAmount(S \ {p}) + amount[p]
    BY <1>1, TotalAdd, Zenon
<1>3. TotalAmount(S) = TotalAmount(S \ {p}) + amount[p]
    BY <1>1, <1>2, Zenon
<1>4. TotalAmount(S \ {p}) \in Nat /\ amount[p] \in Nat
    BY <1>1, TotalNat, LedgerAssumption, Zenon
<1> QED BY <1>3, <1>4

\* What the Puts under way have reserved changes with the Put that moves.
LEMMA ReservedStep ==
    ASSUME TypeInv, NEW p \in Puts, NEW pc, To(p, pc)
    PROVE  /\ Reserved \in Nat /\ amount[p] \in Nat
           /\ put[p] # "admitted" /\ pc # "admitted" => Reserved' = Reserved
           /\ put[p] # "admitted" /\ pc = "admitted" => Reserved' = Reserved + amount[p]
           /\ put[p] = "admitted" /\ pc # "admitted" => Reserved' = Reserved - amount[p]
<1> DEFINE A == {q \in Puts : put[q] = "admitted"}
           B == {q \in Puts : put'[q] = "admitted"}
<1>1. A \in SUBSET Puts /\ (p \in A <=> put[p] = "admitted")
    BY Zenon
<1>2. B = IF pc = "admitted" THEN A \cup {p} ELSE A \ {p}
    BY Zenon DEF TypeInv, To
<1>3. Reserved = TotalAmount(A) /\ Reserved' = TotalAmount(B)
    BY Zenon DEF Reserved, TotalAmount
<1>4. Reserved \in Nat /\ amount[p] \in Nat
    BY <1>1, <1>3, TotalNat, LedgerAssumption, Zenon
<1> HIDE DEF A, B
<1>5. ASSUME put[p] # "admitted", pc # "admitted" PROVE Reserved' = Reserved
    <2>1. B = A
        BY <1>1, <1>2, <1>5, Zenon
    <2> QED BY <1>3, <2>1, Zenon
<1>6. ASSUME put[p] # "admitted", pc = "admitted" PROVE Reserved' = Reserved + amount[p]
    <2>1. TotalAmount(A \cup {p}) = TotalAmount(A) + amount[p]
        BY <1>1, <1>6, TotalAdd, Zenon
    <2>2. B = A \cup {p}
        BY <1>2, <1>6, Zenon
    <2> QED BY <1>3, <2>1, <2>2, Zenon
<1>7. ASSUME put[p] = "admitted", pc # "admitted" PROVE Reserved' = Reserved - amount[p]
    <2>1. TotalAmount(A \ {p}) = TotalAmount(A) - amount[p]
        BY <1>1, <1>7, TotalRemove, Zenon
    <2>2. B = A \ {p}
        BY <1>2, <1>7, Zenon
    <2> QED BY <1>3, <2>1, <2>2, Zenon
<1> QED BY <1>4, <1>5, <1>6, <1>7, Zenon

-----------------------------------------------------------------------------
(* Every step keeps the invariant                                          *)

\* A deposit under way is a record of its amount.
LEMMA DepositType ==
    ASSUME TypeInv, NEW c \in Callers, refill[c].pc \in {"deposit", "apply"}
    PROVE  /\ refill[c].amount \in Nat
           /\ [refill[c] EXCEPT !.pc = "apply"] = [pc |-> "apply", amount |-> refill[c].amount]
<1>1. refill[c] \in [pc : {"deposit", "apply"}, amount : Nat]
    BY DEF TypeInv, Refills, NoRefill
<1> QED BY <1>1

\* The types hold in every step.
LEMMA TypeStep == TypeInv /\ [Next]_vars => TypeInv'
<1> SUFFICES ASSUME TypeInv, [Next]_vars PROVE TypeInv'
    BY Zenon
<1> DEFINE Goal == TypeInv'
<1> USE LedgerAssumption DEF chainVars, graceVars, ledgerVars, boundVars,
        PutStates, Seeders, NoSeeder, Callers, To
<1>0. /\ NoRefill \in Refills /\ [pc |-> "start"] \in Refills /\ [pc |-> "compute"] \in Refills
      /\ \A a \in Nat : /\ [pc |-> "deposit", amount |-> a] \in Refills
                        /\ [pc |-> "apply", amount |-> a] \in Refills
    BY Zenon DEF Refills
<1>1. CASE UNCHANGED vars
    BY <1>0, <1>1, Zenon DEF vars, TypeInv
<1>2. ASSUME NEW p \in Puts, StartPut(p) PROVE Goal
    BY <1>0, <1>2, Zenon DEF TypeInv, StartPut
<1>3. ASSUME NEW p \in Puts, SeedQuery(p) PROVE Goal
    BY <1>0, <1>3 DEF TypeInv, SeedQuery
<1>4. ASSUME NEW p \in Puts, SeedSet(p) PROVE Goal
    BY <1>0, <1>4 DEF TypeInv, SeedSet
<1>5. ASSUME NEW p \in Puts, Admit(p) PROVE Goal
    BY <1>0, <1>5 DEF TypeInv, Admit, RefillAsync, Fits
<1>6. ASSUME NEW p \in Puts, WaitForBudget(p) PROVE Goal
    BY <1>0, <1>6, ZenonT(30) DEF TypeInv, WaitForBudget
<1>7. ASSUME NEW p \in Puts, Poll(p) PROVE Goal
    BY <1>0, <1>7 DEF TypeInv, Poll, Fits
<1>8. ASSUME NEW p \in Puts, Refilled(p) PROVE Goal
    BY <1>0, <1>8, Zenon DEF TypeInv, Refilled
<1>9. ASSUME NEW p \in Puts, Dispatch(p) PROVE Goal
    BY <1>0, <1>9, Zenon DEF TypeInv, Dispatch
<1>10. ASSUME NEW p \in Puts, FinishPut(p) PROVE Goal
    BY <1>0, <1>10, Zenon DEF TypeInv, FinishPut
<1>11. ASSUME NEW p \in Puts, SeedFails(p) PROVE Goal
    BY <1>0, <1>11, Zenon DEF TypeInv, SeedFails
<1>12. ASSUME NEW p \in Puts, GiveUp(p) PROVE Goal
    BY <1>0, <1>12, Zenon DEF TypeInv, GiveUp
<1>13. ASSUME NEW p \in Puts, Abort(p) PROVE Goal
    BY <1>0, <1>13 DEF TypeInv, Abort
<1>14. ASSUME NEW p \in Puts, Settle(p) PROVE Goal
    BY <1>0, <1>14 DEF TypeInv, Settle
<1>15. ASSUME NEW c \in Callers, RefillEnter(c) PROVE Goal
    <2>1. refill' \in [Callers -> Refills]
        BY <1>0, <1>15, Zenon DEF TypeInv, RefillEnter
    <2>2. refilling' \in BOOLEAN
        BY <1>15, Zenon DEF TypeInv, RefillEnter
    <2> QED BY <1>15, <2>1, <2>2, Zenon DEF TypeInv, RefillEnter
<1>16. ASSUME NEW c \in Callers, RefillCompute(c) PROVE Goal
    <2>1. balance < HighWatermark =>
            [pc |-> "deposit", amount |-> HighWatermark - balance] \in Refills
        BY DEF TypeInv, Refills
    <2>2. refill' \in [Callers -> Refills]
        BY <1>0, <1>16, <2>1, Zenon DEF TypeInv, RefillCompute
    <2>3. refilling' \in BOOLEAN
        BY <1>16, Zenon DEF TypeInv, RefillCompute
    <2> QED BY <1>16, <2>2, <2>3, Zenon DEF TypeInv, RefillCompute
<1>17. ASSUME NEW c \in Callers, RefillDeposit(c) PROVE Goal
    <2>1. refill[c].amount \in Nat
        BY <1>17, DepositType, Zenon DEF RefillDeposit
    <2>2. refill' = [refill EXCEPT ![c] = [pc |-> "apply", amount |-> refill[c].amount]]
        BY <1>17, DepositType, Zenon DEF RefillDeposit
    <2>3. refill' \in [Callers -> Refills]
        BY <1>0, <2>1, <2>2, Zenon DEF TypeInv
    <2>4. chain' \in Nat
        BY <1>17, <2>1 DEF TypeInv, RefillDeposit
    <2> QED BY <1>17, <2>3, <2>4, Zenon DEF TypeInv, RefillDeposit
<1>18. ASSUME NEW c \in Callers, RefillApply(c) PROVE Goal
    <2>1. refill[c].amount \in Nat
        BY <1>18, DepositType, Zenon DEF RefillApply
    <2>2. balance' \in Nat
        BY <1>18, <2>1 DEF TypeInv, RefillApply
    <2>3. refill' \in [Callers -> Refills]
        BY <1>0, <1>18, Zenon DEF TypeInv, RefillApply
    <2> QED BY <1>18, <2>2, <2>3, Zenon DEF TypeInv, RefillApply
<1>19. ASSUME NEW c \in Callers, RefillFails(c) PROVE Goal
    <2>1. refill[c].amount \in Nat
        BY <1>19, DepositType, Zenon DEF RefillFails
    <2>2. chain' \in Nat
        BY <1>19, <2>1 DEF TypeInv, RefillFails
    <2>3. refill' \in [Callers -> Refills]
        BY <1>0, <1>19, Zenon DEF TypeInv, RefillFails
    <2> QED BY <1>19, <2>2, <2>3, Zenon DEF TypeInv, RefillFails
<1>20. CASE EndGrace
    BY <1>0, <1>20, Zenon DEF TypeInv, EndGrace
<1>21. CASE Restart
    BY <1>0, <1>21, Zenon DEF TypeInv, Restart
<1> QED BY <1>1, <1>2, <1>3, <1>4, <1>5, <1>6, <1>7, <1>8, <1>9, <1>10, <1>11, <1>12, <1>13, <1>14, <1>15, <1>16, <1>17, <1>18, <1>19, <1>20, <1>21, Zenon DEF Next, PutStep, RefillStep

\* The single-flight flag: only RefillEnter passes it, and whoever passed it clears it.
LEMMA SingleFlightStep == TypeInv /\ SingleFlight /\ PutsInOrder /\ [Next]_vars => SingleFlight'
<1> SUFFICES ASSUME TypeInv, SingleFlight, PutsInOrder, [Next]_vars PROVE SingleFlight'
    BY Zenon
<1> DEFINE Goal == SingleFlight'
<1> USE LedgerAssumption DEF chainVars, graceVars, ledgerVars, boundVars,
        TypeInv, Refills, NoRefill, Callers, Busy
<1>1. CASE UNCHANGED vars
    BY <1>1, Zenon DEF vars, SingleFlight
<1>2. ASSUME NEW p \in Puts, StartPut(p) PROVE Goal
    BY <1>2, Zenon DEF SingleFlight, StartPut
<1>3. ASSUME NEW p \in Puts, SeedQuery(p) PROVE Goal
    BY <1>3, Zenon DEF SingleFlight, SeedQuery
<1>4. ASSUME NEW p \in Puts, SeedSet(p) PROVE Goal
    BY <1>4, Zenon DEF SingleFlight, SeedSet
<1>5. ASSUME NEW p \in Puts, Admit(p) PROVE Goal
    BY <1>5, SMTT(30) DEF SingleFlight, Admit, RefillAsync, Fits
<1>6. ASSUME NEW p \in Puts, WaitForBudget(p) PROVE Goal
    BY <1>6, Zenon DEF SingleFlight, WaitForBudget
<1>7. ASSUME NEW p \in Puts, Poll(p) PROVE Goal
    BY <1>7 DEF SingleFlight, PutsInOrder, Poll, Fits
<1>8. ASSUME NEW p \in Puts, Refilled(p) PROVE Goal
    BY <1>8, Zenon DEF SingleFlight, Refilled
<1>9. ASSUME NEW p \in Puts, Dispatch(p) PROVE Goal
    BY <1>9, Zenon DEF SingleFlight, Dispatch
<1>10. ASSUME NEW p \in Puts, FinishPut(p) PROVE Goal
    BY <1>10, Zenon DEF SingleFlight, FinishPut
<1>11. ASSUME NEW p \in Puts, SeedFails(p) PROVE Goal
    BY <1>11, Zenon DEF SingleFlight, SeedFails
<1>12. ASSUME NEW p \in Puts, GiveUp(p) PROVE Goal
    BY <1>12, Zenon DEF SingleFlight, GiveUp
<1>13. ASSUME NEW p \in Puts, Abort(p) PROVE Goal
    BY <1>13, Zenon DEF SingleFlight, Abort
<1>14. ASSUME NEW p \in Puts, Settle(p) PROVE Goal
    BY <1>14, Zenon DEF SingleFlight, Settle
<1>15. ASSUME NEW c \in Callers, RefillEnter(c) PROVE Goal
    BY <1>15 DEF SingleFlight, RefillEnter
<1>16. ASSUME NEW c \in Callers, RefillCompute(c) PROVE Goal
    <2> DEFINE due == [pc |-> "deposit", amount |-> HighWatermark - balance]
    <2>1. c \in DOMAIN refill /\ Busy(c) /\ refilling
          /\ \A d \in Callers \ {c} : ~Busy(d)
        BY <1>16, Zenon DEF SingleFlight, RefillCompute
    <2>2. CASE balance < HighWatermark
        <3>1. refill' = [refill EXCEPT ![c] = due] /\ refilling' = refilling
            BY <1>16, <2>2, Zenon DEF RefillCompute
        <3>2. due.pc = "deposit"
            BY Zenon
        <3> HIDE DEF due
        <3>3. refill'[c] = due /\ \A d \in Callers \ {c} : refill'[d] = refill[d]
            BY <2>1, <3>1, Zenon
        <3> QED BY <2>1, <3>1, <3>2, <3>3, Zenon DEF SingleFlight
    <2>3. CASE ~(balance < HighWatermark)
        <3>1. refill' = [refill EXCEPT ![c] = NoRefill] /\ refilling' = FALSE
            BY <1>16, <2>3, Zenon DEF RefillCompute
        <3>2. refill'[c] = NoRefill /\ \A d \in Callers \ {c} : refill'[d] = refill[d]
            BY <2>1, <3>1, Zenon
        <3>3. ASSUME NEW d \in Callers PROVE ~Busy(d)'
            <4>1. CASE d = c
                <5>1. NoRefill.pc \notin {"compute", "deposit", "apply"}
                    OBVIOUS
                <5> HIDE DEF NoRefill
                <5>2. refill'[d] = NoRefill
                    BY <3>2, <4>1, Zenon
                <5> QED BY <5>1, <5>2, Zenon
            <4>2. CASE d # c
                BY <2>1, <3>2, <4>2, Zenon
            <4> QED BY <4>1, <4>2, Zenon
        <3> QED BY <3>1, <3>3, Zenon DEF SingleFlight
    <2> QED BY <2>2, <2>3, Zenon
<1>17. ASSUME NEW c \in Callers, RefillDeposit(c) PROVE Goal
    BY <1>17 DEF SingleFlight, RefillDeposit
<1>18. ASSUME NEW c \in Callers, RefillApply(c) PROVE Goal
    BY <1>18, Zenon DEF SingleFlight, RefillApply
<1>19. ASSUME NEW c \in Callers, RefillFails(c) PROVE Goal
    BY <1>19, Zenon DEF SingleFlight, RefillFails
<1>20. CASE EndGrace
    BY <1>20, Zenon DEF SingleFlight, EndGrace
<1>21. CASE Restart
    BY <1>21, Zenon DEF SingleFlight, Restart
<1> QED BY <1>1, <1>2, <1>3, <1>4, <1>5, <1>6, <1>7, <1>8, <1>9, <1>10, <1>11, <1>12, <1>13, <1>14, <1>15, <1>16, <1>17, <1>18, <1>19, <1>20, <1>21, Zenon DEF Next, PutStep, RefillStep

\* A Put moves through admission in order and only the one that holds seedMu seeds.
LEMMA PutsInOrderStep == TypeInv /\ PutsInOrder /\ [Next]_vars => PutsInOrder'
<1> SUFFICES ASSUME TypeInv, PutsInOrder, [Next]_vars PROVE PutsInOrder'
    BY Zenon
<1> DEFINE Goal == PutsInOrder'
<1> USE LedgerAssumption DEF chainVars, graceVars, ledgerVars, boundVars,
        TypeInv, PutStates, Seeders, NoSeeder, NoRefill, Callers, To
<1>1. CASE UNCHANGED vars
    BY <1>1, Zenon DEF vars, PutsInOrder
<1>2. ASSUME NEW p \in Puts, StartPut(p) PROVE Goal
    BY <1>2, Zenon DEF PutsInOrder, StartPut
<1>3. ASSUME NEW p \in Puts, SeedQuery(p) PROVE Goal
    BY <1>3 DEF PutsInOrder, SeedQuery
<1>4. ASSUME NEW p \in Puts, SeedSet(p) PROVE Goal
    BY <1>4 DEF PutsInOrder, SeedSet
<1>5. ASSUME NEW p \in Puts, Admit(p) PROVE Goal
    BY <1>5 DEF PutsInOrder, Admit, RefillAsync, Fits
<1>6. ASSUME NEW p \in Puts, WaitForBudget(p) PROVE Goal
    BY <1>6, Zenon DEF PutsInOrder, WaitForBudget
<1>7. ASSUME NEW p \in Puts, Poll(p) PROVE Goal
    BY <1>7 DEF PutsInOrder, Poll, Fits
<1>8. ASSUME NEW p \in Puts, Refilled(p) PROVE Goal
    BY <1>8, Zenon DEF PutsInOrder, Refilled
<1>9. ASSUME NEW p \in Puts, Dispatch(p) PROVE Goal
    BY <1>9 DEF PutsInOrder, Dispatch
<1>10. ASSUME NEW p \in Puts, FinishPut(p) PROVE Goal
    BY <1>10, Zenon DEF PutsInOrder, FinishPut
<1>11. ASSUME NEW p \in Puts, SeedFails(p) PROVE Goal
    BY <1>11 DEF PutsInOrder, SeedFails
<1>12. ASSUME NEW p \in Puts, GiveUp(p) PROVE Goal
    BY <1>12, Zenon DEF PutsInOrder, GiveUp
<1>13. ASSUME NEW p \in Puts, Abort(p) PROVE Goal
    BY <1>13, Zenon DEF PutsInOrder, Abort
<1>14. ASSUME NEW p \in Puts, Settle(p) PROVE Goal
    BY <1>14, Zenon DEF PutsInOrder, Settle
<1>15. ASSUME NEW c \in Callers, RefillEnter(c) PROVE Goal
    BY <1>15 DEF PutsInOrder, RefillEnter
<1>16. ASSUME NEW c \in Callers, RefillCompute(c) PROVE Goal
    BY <1>16 DEF PutsInOrder, RefillCompute
<1>17. ASSUME NEW c \in Callers, RefillDeposit(c) PROVE Goal
    BY <1>17 DEF PutsInOrder, RefillDeposit
<1>18. ASSUME NEW c \in Callers, RefillApply(c) PROVE Goal
    BY <1>18, Zenon DEF PutsInOrder, RefillApply
<1>19. ASSUME NEW c \in Callers, RefillFails(c) PROVE Goal
    BY <1>19, Zenon DEF PutsInOrder, RefillFails
<1>20. CASE EndGrace
    BY <1>20, Zenon DEF PutsInOrder, EndGrace
<1>21. CASE Restart
    BY <1>21, Zenon DEF PutsInOrder, Restart
<1> QED BY <1>1, <1>2, <1>3, <1>4, <1>5, <1>6, <1>7, <1>8, <1>9, <1>10, <1>11, <1>12, <1>13, <1>14, <1>15, <1>16, <1>17, <1>18, <1>19, <1>20, <1>21, Zenon DEF Next, PutStep, RefillStep

\* Before the first seed only a Put from the grace window gets past admission, and it
\* raises early.
LEMMA UnseededStep == TypeInv /\ PutsInOrder /\ Unseeded /\ [Next]_vars => Unseeded'
<1> SUFFICES ASSUME TypeInv, PutsInOrder, Unseeded, [Next]_vars PROVE Unseeded'
    BY Zenon
<1> DEFINE Goal == Unseeded'
<1> USE LedgerAssumption DEF chainVars, graceVars, ledgerVars, boundVars,
        TypeInv, NoRefill, Callers, To
<1>1. CASE UNCHANGED vars
    BY <1>1, Zenon DEF vars, Unseeded
<1>2. ASSUME NEW p \in Puts, StartPut(p) PROVE Goal
    BY <1>2, Zenon DEF Unseeded, StartPut
<1>3. ASSUME NEW p \in Puts, SeedQuery(p) PROVE Goal
    BY <1>3, Zenon DEF Unseeded, SeedQuery
<1>4. ASSUME NEW p \in Puts, SeedSet(p) PROVE Goal
    BY <1>4, Zenon DEF Unseeded, SeedSet
<1>5. ASSUME NEW p \in Puts, Admit(p) PROVE Goal
    BY <1>5 DEF Unseeded, Admit, RefillAsync, Fits
<1>6. ASSUME NEW p \in Puts, WaitForBudget(p) PROVE Goal
    BY <1>6, Zenon DEF Unseeded, WaitForBudget
<1>7. ASSUME NEW p \in Puts, Poll(p) PROVE Goal
    BY <1>7, Zenon DEF Unseeded, Poll, Fits
<1>8. ASSUME NEW p \in Puts, Refilled(p) PROVE Goal
    BY <1>8, Zenon DEF Unseeded, Refilled
<1>9. ASSUME NEW p \in Puts, Dispatch(p) PROVE Goal
    BY <1>9, Zenon DEF Unseeded, Dispatch
<1>10. ASSUME NEW p \in Puts, FinishPut(p) PROVE Goal
    BY <1>10, Zenon DEF Unseeded, FinishPut
<1>11. ASSUME NEW p \in Puts, SeedFails(p) PROVE Goal
    BY <1>11, Zenon DEF Unseeded, SeedFails
<1>12. ASSUME NEW p \in Puts, GiveUp(p) PROVE Goal
    BY <1>12, Zenon DEF Unseeded, GiveUp
<1>13. ASSUME NEW p \in Puts, Abort(p) PROVE Goal
    BY <1>13, Zenon DEF Unseeded, Abort
<1>14. ASSUME NEW p \in Puts, Settle(p) PROVE Goal
    BY <1>14, Zenon DEF Unseeded, Settle
<1>15. ASSUME NEW c \in Callers, RefillEnter(c) PROVE Goal
    BY <1>15 DEF Unseeded, RefillEnter
<1>16. ASSUME NEW c \in Callers, RefillCompute(c) PROVE Goal
    BY <1>16 DEF Unseeded, RefillCompute
<1>17. ASSUME NEW c \in Callers, RefillDeposit(c) PROVE Goal
    BY <1>17 DEF Unseeded, RefillDeposit
<1>18. ASSUME NEW c \in Callers, RefillApply(c) PROVE Goal
    BY <1>18, SMTT(30) DEF Unseeded, RefillApply
<1>19. ASSUME NEW c \in Callers, RefillFails(c) PROVE Goal
    BY <1>19, Zenon DEF Unseeded, RefillFails
<1>20. CASE EndGrace
    BY <1>20, Zenon DEF Unseeded, EndGrace
<1>21. CASE Restart
    BY <1>21, Zenon DEF Unseeded, Restart
<1> QED BY <1>1, <1>2, <1>3, <1>4, <1>5, <1>6, <1>7, <1>8, <1>9, <1>10, <1>11, <1>12, <1>13, <1>14, <1>15, <1>16, <1>17, <1>18, <1>19, <1>20, <1>21, Zenon DEF Next, PutStep, RefillStep

-----------------------------------------------------------------------------
(* The accounts                                                            *)

\* Every account is a natural number.
LEMMA AccountsNat ==
    ASSUME TypeInv
    PROVE  /\ Reserved \in Nat /\ Spent \in Nat /\ Cover \in Nat
           /\ TotalAmount(unsettled \ legacy) \in Nat /\ TotalAmount(legacy \ unsettled) \in Nat
<1>1. /\ TotalAmount(unsettled \ legacy) \in Nat /\ TotalAmount(legacy \ unsettled) \in Nat
      /\ TotalAmount({p \in Puts : put[p] = "admitted"}) \in Nat
    BY TotalNat, Zenon DEF TypeInv
<1> QED BY <1>1 DEF TypeInv, Reserved, Spent, Cover

\* While the chain's side stands still, Spent moves with the balance and the reservations.
LEMMA ChainSame ==
    ASSUME UNCHANGED chainVars
    PROVE  Cover' = Cover /\ Spent' = balance' + Reserved' + TotalAmount(unsettled \ legacy)
BY Zenon DEF chainVars, Cover, Spent, TotalAmount

\* A step that spends no more than it adds to the cover, starts no deposit and seeds
\* nothing keeps the ledger solvent.
NoNewDeposit == \A c \in Callers : refill'[c].pc = "apply" =>
                    refill[c].pc = "apply" /\ refill'[c].amount = refill[c].amount

\* See NoNewDeposit.
LEMMA SolventKept ==
    ASSUME TypeInv, TypeInv', Solvent, early => early', NoNewDeposit,
           Spent' + Cover <= Spent + Cover',
           seeder' # NoSeeder => seeder' = seeder /\ Cover <= Cover'
    PROVE  Solvent'
<1> SUFFICES ASSUME ~early' PROVE Solvent'
    BY Zenon DEF Solvent
<1>1. Spent \in Nat /\ Cover \in Nat /\ Spent' \in Nat /\ Cover' \in Nat
    <2>1. Spent \in Nat /\ Cover \in Nat
        BY AccountsNat, Zenon
    <2>2. (Spent \in Nat /\ Cover \in Nat)'
        BY AccountsNat, PTL
    <2> QED BY <2>1, <2>2, Zenon
<1>2. Spent' <= Cover'
    <2>1. Spent <= Cover
        BY Zenon DEF Solvent
    <2>2. \A a, b, c, d \in Nat : a <= b /\ c + b <= a + d => c <= d
        OBVIOUS
    <2> QED BY <1>1, <2>1, <2>2, Zenon
<1>3. ASSUME NEW c \in Callers, refill'[c].pc = "apply" PROVE Spent' + refill'[c].amount <= Cover'
    <2>1. refill[c].pc = "apply" /\ refill'[c].amount = refill[c].amount
        BY <1>3, Zenon DEF NoNewDeposit
    <2>2. Spent + refill[c].amount <= Cover
        BY <2>1, Zenon DEF Solvent
    <2>3. refill[c].amount \in Nat
        BY <2>1, DepositType, ZenonT(30)
    <2>4. \A a, b, c1, d, r \in Nat : a + r <= b /\ c1 + b <= a + d => c1 + r <= d
        OBVIOUS
    <2> QED BY <1>1, <2>1, <2>2, <2>3, <2>4, Zenon
<1>4. ASSUME seeder' # NoSeeder PROVE seeder'.bal <= Cover'
    <2>1. seeder' = seeder /\ seeder.bal <= Cover /\ Cover <= Cover'
        BY <1>4, Zenon DEF Solvent
    <2>2. seeder.bal \in Nat
        BY <1>4, <2>1, Zenon DEF TypeInv, Seeders, NoSeeder
    <2> QED BY <1>1, <2>1, <2>2
<1> QED BY <1>2, <1>3, <1>4, Zenon DEF Solvent

\* Each action keeps the ledger solvent.
LEMMA SolventStep == LedgerInv /\ TypeInv' /\ [Next]_vars => Solvent'
<1> SUFFICES ASSUME LedgerInv, TypeInv', [Next]_vars PROVE Solvent'
    BY Zenon
<1> USE DEF LedgerInv
<1> DEFINE Goal == Solvent'
\* A step on the ledger alone: what leaves the balance is reserved.
<1>0. ASSUME UNCHANGED chainVars, balance' + Reserved' = balance + Reserved, NoNewDeposit,
             early => early', seeder' # NoSeeder => seeder' = seeder
      PROVE  Goal
    <2>1. Cover' = Cover /\ Spent' = Spent
        BY <1>0, ChainSame, Zenon DEF Spent
    <2>2. Spent \in Nat /\ Cover \in Nat
        BY AccountsNat, Zenon
    <2> QED BY <1>0, <2>1, <2>2, SolventKept
<1>1. CASE UNCHANGED vars
    <2>1. UNCHANGED chainVars /\ balance' = balance /\ Reserved' = Reserved
        BY <1>1, Zenon DEF vars, ledgerVars, Reserved, TotalAmount
    <2>2. NoNewDeposit /\ seeder' = seeder /\ early' = early
        BY <1>1, Zenon DEF vars, ledgerVars, graceVars, NoNewDeposit
    <2> QED BY <1>0, <2>1, <2>2, Zenon
<1>2. ASSUME NEW p \in Puts, StartPut(p) PROVE Goal
    <2>1. Reserved' = Reserved
        BY <1>2, ReservedStep, SMTT(30) DEF StartPut
    <2>2. UNCHANGED <<chainVars, balance>> /\ NoNewDeposit /\ (early => early')
        BY <1>2, Zenon DEF StartPut, ledgerVars, graceVars, NoNewDeposit
    <2>3. seeder' # NoSeeder => seeder' = seeder
        BY <1>2, Zenon DEF StartPut, ledgerVars
    <2> QED BY <1>0, <2>1, <2>2, <2>3, Zenon
<1>3. ASSUME NEW p \in Puts, WaitForBudget(p) PROVE Goal
    <2>1. Reserved' = Reserved
        BY <1>3, ReservedStep DEF WaitForBudget
    <2>2. UNCHANGED <<chainVars, balance>> /\ NoNewDeposit /\ (early => early')
        BY <1>3, Zenon DEF WaitForBudget, ledgerVars, graceVars, NoNewDeposit
    <2>3. seeder' # NoSeeder => seeder' = seeder
        BY <1>3, Zenon DEF WaitForBudget, ledgerVars
    <2> QED BY <1>0, <2>1, <2>2, <2>3, Zenon
<1>4. ASSUME NEW p \in Puts, Refilled(p) PROVE Goal
    <2>1. Reserved' = Reserved
        BY <1>4, ReservedStep DEF Refilled
    <2>2. UNCHANGED <<chainVars, balance>> /\ NoNewDeposit /\ (early => early')
        BY <1>4, Zenon DEF Refilled, ledgerVars, graceVars, NoNewDeposit
    <2>3. seeder' # NoSeeder => seeder' = seeder
        BY <1>4, Zenon DEF Refilled, ledgerVars
    <2> QED BY <1>0, <2>1, <2>2, <2>3, Zenon
<1>5. ASSUME NEW p \in Puts, FinishPut(p) PROVE Goal
    <2>1. Reserved' = Reserved
        BY <1>5, ReservedStep DEF FinishPut
    <2>2. UNCHANGED <<chainVars, balance>> /\ NoNewDeposit /\ (early => early')
        BY <1>5, Zenon DEF FinishPut, ledgerVars, graceVars, NoNewDeposit
    <2>3. seeder' # NoSeeder => seeder' = seeder
        BY <1>5, Zenon DEF FinishPut, ledgerVars
    <2> QED BY <1>0, <2>1, <2>2, <2>3, Zenon
<1>6. ASSUME NEW p \in Puts, SeedFails(p) PROVE Goal
    <2>1. Reserved' = Reserved
        <3>1. seeder # NoSeeder /\ put[p] = "seed"
            BY <1>6, LedgerAssumption DEF SeedFails, NoSeeder, PutsInOrder
        <3> QED BY <1>6, <3>1, ReservedStep DEF SeedFails
    <2>2. UNCHANGED <<chainVars, balance>> /\ NoNewDeposit /\ (early => early')
        BY <1>6, Zenon DEF SeedFails, ledgerVars, graceVars, NoNewDeposit
    <2>3. seeder' # NoSeeder => seeder' = seeder
        BY <1>6, Zenon DEF SeedFails, ledgerVars
    <2> QED BY <1>0, <2>1, <2>2, <2>3, Zenon
<1>7. ASSUME NEW p \in Puts, GiveUp(p) PROVE Goal
    <2>1. Reserved' = Reserved
        BY <1>7, ReservedStep DEF GiveUp
    <2>2. UNCHANGED <<chainVars, balance>> /\ NoNewDeposit /\ (early => early')
        BY <1>7, Zenon DEF GiveUp, ledgerVars, graceVars, NoNewDeposit
    <2>3. seeder' # NoSeeder => seeder' = seeder
        BY <1>7, Zenon DEF GiveUp, ledgerVars
    <2> QED BY <1>0, <2>1, <2>2, <2>3, Zenon
<1>8. ASSUME NEW c \in Callers, RefillEnter(c) PROVE Goal
    <2>1. Reserved' = Reserved
        BY <1>8, Zenon DEF RefillEnter, Reserved, TotalAmount
    <2>2. UNCHANGED <<chainVars, balance, seeder, early>> /\ NoNewDeposit
        BY <1>8 DEF RefillEnter, ledgerVars, graceVars, NoNewDeposit, TypeInv, NoRefill
    <2> QED BY <1>0, <2>1, <2>2, Zenon
<1>9. ASSUME NEW c \in Callers, RefillCompute(c) PROVE Goal
    <2>1. Reserved' = Reserved
        BY <1>9, Zenon DEF RefillCompute, Reserved, TotalAmount
    <2>2. UNCHANGED <<chainVars, balance, seeder, early>> /\ NoNewDeposit
        BY <1>9 DEF RefillCompute, ledgerVars, graceVars, NoNewDeposit, TypeInv, NoRefill
    <2> QED BY <1>0, <2>1, <2>2, Zenon
<1>10. CASE EndGrace
    <2>1. Reserved' = Reserved
        BY <1>10, Zenon DEF EndGrace, Reserved, TotalAmount
    <2>2. UNCHANGED <<chainVars, balance, seeder, early>> /\ NoNewDeposit
        BY <1>10, Zenon DEF EndGrace, ledgerVars, NoNewDeposit
    <2> QED BY <1>0, <2>1, <2>2, Zenon
<1>11. ASSUME NEW p \in Puts, Admit(p) \/ Poll(p) PROVE Goal
    <2>1. UNCHANGED <<chainVars, seeder, early>> /\ put[p] # "admitted"
        BY <1>11, Zenon DEF Admit, Poll, graceVars
    <2>2. NoNewDeposit
        <3>1. CASE Admit(p)
            BY <3>1 DEF Admit, RefillAsync, NoNewDeposit, TypeInv
        <3>2. CASE Poll(p)
            BY <3>2 DEF Poll, NoNewDeposit, TypeInv, Callers
        <3> QED BY <1>11, <3>1, <3>2, Zenon
    <2>3. CASE Fits(p)
        <3>1. balance' = balance - amount[p] /\ Reserved' = Reserved + amount[p]
            BY <1>11, <2>1, <2>3, ReservedStep, Zenon DEF Admit, Poll
        <3>2. Reserved \in Nat /\ amount[p] \in Nat /\ balance \in Nat
            BY AccountsNat, LedgerAssumption, Zenon DEF TypeInv
        <3>3. balance' + Reserved' = balance + Reserved
            BY <3>1, <3>2
        <3> QED BY <1>0, <2>1, <2>2, <3>3, Zenon
    <2>4. CASE ~Fits(p)
        <3>1. CASE Admit(p)
            <4>1. balance' = balance /\ Reserved' = Reserved
                BY <2>1, <2>4, <3>1, ReservedStep DEF Admit
            <4> QED BY <1>0, <2>1, <2>2, <4>1, Zenon
        <3>2. CASE Poll(p)
            <4>1. balance' = balance /\ Reserved' = Reserved
                BY <2>1, <2>4, <3>2, ReservedStep DEF Poll
            <4> QED BY <1>0, <2>1, <2>2, <4>1, Zenon
        <3> QED BY <1>11, <3>1, <3>2, Zenon
    <2> QED BY <2>3, <2>4, Zenon
<1>12. ASSUME NEW p \in Puts, Abort(p) PROVE Goal
    <2>1. UNCHANGED <<chainVars, seeder, early, refill>> /\ balance' = balance + amount[p]
        BY <1>12, Zenon DEF Abort, graceVars
    <2>2. /\ Reserved' = Reserved - amount[p]
          /\ Reserved \in Nat /\ amount[p] \in Nat /\ balance \in Nat
        BY <1>12, ReservedStep DEF Abort, TypeInv
    <2>3. balance' + Reserved' = balance + Reserved
        BY <2>1, <2>2
    <2>4. NoNewDeposit
        BY <2>1, Zenon DEF NoNewDeposit
    <2> QED BY <1>0, <2>1, <2>3, <2>4, Zenon
<1>13. ASSUME NEW p \in Puts, Dispatch(p) PROVE Goal
    <2>1. UNCHANGED <<chain, legacy, seeder, early, refill, balance>> /\ unsettled' = unsettled \cup {p}
        BY <1>13, Zenon DEF Dispatch, graceVars, ledgerVars
    <2>2. p \notin unsettled /\ p \notin legacy
        BY <1>13, Zenon DEF Dispatch, PutsInOrder
    <2>3. /\ Reserved' = Reserved - amount[p]
          /\ Reserved \in Nat /\ amount[p] \in Nat /\ balance \in Nat
        BY <1>13, ReservedStep DEF Dispatch, TypeInv
    <2>4. unsettled' \ legacy' = (unsettled \ legacy) \cup {p} /\ legacy' \ unsettled' = legacy \ unsettled
        BY <2>1, <2>2, Zenon
    <2>5. TotalAmount((unsettled \ legacy) \cup {p}) = TotalAmount(unsettled \ legacy) + amount[p]
        BY <2>2, TotalAdd, Zenon DEF TypeInv
    <2>6. Spent' = balance + (Reserved - amount[p]) + (TotalAmount(unsettled \ legacy) + amount[p])
        BY <2>1, <2>3, <2>4, <2>5, Zenon DEF Spent, TotalAmount
    <2>7. Spent' = Spent
        BY <2>3, <2>6, AccountsNat DEF Spent
    <2>8. Cover' = Cover
        BY <2>1, <2>4, Zenon DEF Cover, TotalAmount
    <2>9. NoNewDeposit
        BY <2>1, Zenon DEF NoNewDeposit
    <2>10. Spent' + Cover <= Spent + Cover' /\ Cover <= Cover'
        BY <2>7, <2>8, AccountsNat
    <2> QED BY <2>1, <2>9, <2>10, SolventKept, Zenon
<1>14. ASSUME NEW p \in Puts, Settle(p) PROVE Goal
    <2>1. /\ UNCHANGED <<legacy, seeder, early, refill, balance, put>>
          /\ chain' = chain - amount[p] /\ unsettled' = unsettled \ {p} /\ p \in unsettled
          /\ amount[p] \in Nat /\ chain \in Nat /\ balance \in Nat
        BY <1>14, LedgerAssumption, Zenon DEF Settle, graceVars, ledgerVars, TypeInv
    <2>2. Reserved' = Reserved /\ NoNewDeposit
        BY <2>1, Zenon DEF Reserved, TotalAmount, NoNewDeposit
    <2>3. CASE p \in legacy
        <3>1. unsettled' \ legacy' = unsettled \ legacy /\ legacy' \ unsettled' = (legacy \ unsettled) \cup {p}
            BY <2>1, <2>3, Zenon
        <3>2. TotalAmount((legacy \ unsettled) \cup {p}) = TotalAmount(legacy \ unsettled) + amount[p]
            BY <2>1, TotalAdd, Zenon DEF TypeInv
        <3>3. Cover' = (chain - amount[p]) + (TotalAmount(legacy \ unsettled) + amount[p])
            BY <2>1, <3>1, <3>2, Zenon DEF Cover, TotalAmount
        <3>4. Cover' = Cover
            BY <2>1, <3>3, AccountsNat DEF Cover
        <3>5. Spent' = Spent
            BY <2>1, <2>2, <3>1, Zenon DEF Spent, TotalAmount
        <3>6. Spent' + Cover <= Spent + Cover' /\ Cover <= Cover'
            BY <3>4, <3>5, AccountsNat
        <3> QED BY <2>1, <2>2, <3>6, SolventKept, Zenon
    <2>4. CASE p \notin legacy
        <3>1. unsettled' \ legacy' = (unsettled \ legacy) \ {p} /\ legacy' \ unsettled' = legacy \ unsettled
            BY <2>1, <2>4, Zenon
        <3>2. TotalAmount((unsettled \ legacy) \ {p}) = TotalAmount(unsettled \ legacy) - amount[p]
            BY <2>1, <2>4, TotalRemove, Zenon DEF TypeInv
        <3>3. Cover' = (chain - amount[p]) + TotalAmount(legacy \ unsettled)
            BY <2>1, <3>1, Zenon DEF Cover, TotalAmount
        <3>4. Spent' = balance + Reserved + (TotalAmount(unsettled \ legacy) - amount[p])
            BY <2>1, <2>2, <3>1, <3>2, ZenonT(30) DEF Spent, TotalAmount
        <3>5. Spent' + Cover <= Spent + Cover'
            BY <2>1, <3>3, <3>4, AccountsNat, SMTT(30) DEF Spent, Cover
        <3>6. early \/ seeder = NoSeeder
            BY <2>1, <2>4, Zenon DEF PutsInOrder, Unseeded
        <3>7. CASE early
            BY <2>1, <3>7, Zenon DEF Solvent
        <3>8. CASE seeder = NoSeeder
            BY <2>1, <2>2, <3>5, <3>8, SolventKept, Zenon
        <3> QED BY <3>6, <3>7, <3>8, Zenon
    <2> QED BY <2>3, <2>4, Zenon
<1>15. ASSUME NEW p \in Puts, SeedQuery(p) PROVE Goal
    <2>1. UNCHANGED <<chainVars, early, refill, balance>>
        BY <1>15, Zenon DEF SeedQuery, graceVars
    <2>2. Reserved' = Reserved
        <3>1. CASE seeded
            <4>1. To(p, "admit") /\ put[p] # "admitted"
                BY <1>15, <3>1, Zenon DEF SeedQuery
            <4> QED BY <4>1, ReservedStep, SMTT(30)
        <3>2. CASE ~seeded
            BY <1>15, <3>2, Zenon DEF SeedQuery, Reserved, TotalAmount
        <3> QED BY <3>1, <3>2, Zenon
    <2>3. Cover' = Cover /\ Spent' = Spent
        BY <2>1, <2>2, ChainSame, Zenon DEF Spent
    <2>4. seeder' # NoSeeder => seeder'.bal = chain
        BY <1>15, SMTT(30) DEF SeedQuery
    <2>5. chain <= Cover
        BY AccountsNat DEF Cover, TypeInv
    <2> QED BY <2>1, <2>3, <2>4, <2>5, Zenon DEF Solvent
<1>16. ASSUME NEW p \in Puts, SeedSet(p) PROVE Goal
    <2>1. seeder # NoSeeder /\ put[p] = "seed" /\ ~seeded
        BY <1>16, LedgerAssumption DEF SeedSet, NoSeeder, PutsInOrder
    <2>2. UNCHANGED <<chainVars, early, refill>> /\ balance' = seeder.bal /\ seeder' = NoSeeder
        BY <1>16, Zenon DEF SeedSet, graceVars
    <2>3. CASE early
        BY <2>2, <2>3, Zenon DEF Solvent
    <2>4. CASE ~early
        <3>1. {q \in Puts : put'[q] = "admitted"} = {} /\ unsettled \ legacy = {}
            BY <1>16, <2>1, <2>4, Zenon DEF SeedSet, To, Unseeded, TypeInv
        <3>2. TotalAmount({}) = 0
            BY SumEmpty, Zenon DEF TotalAmount
        <3>3. Reserved' = 0 /\ TotalAmount(unsettled \ legacy) = 0
            BY <3>1, <3>2, Zenon DEF Reserved, TotalAmount
        <3>4. Cover' = Cover /\ Spent' = seeder.bal + 0 + 0
            BY <2>2, <3>3, ChainSame, Zenon
        <3>5. seeder.bal \in Nat /\ seeder.bal <= Cover
            BY <2>1, <2>4, Zenon DEF Solvent, TypeInv, Seeders
        <3>6. Spent' <= Cover'
            BY <3>4, <3>5, SMTT(30)
        <3>7. \A c \in Callers : refill'[c].pc # "apply"
            BY <2>1, <2>2, <2>4, SMTT(30) DEF Unseeded, NoRefill
        <3> QED BY <2>2, <3>6, <3>7, Zenon DEF Solvent
    <2> QED BY <2>3, <2>4, Zenon
<1>17. ASSUME NEW c \in Callers, RefillDeposit(c) PROVE Goal
    <2>1. /\ UNCHANGED <<unsettled, legacy, seeder, early, balance, put>>
          /\ chain' = chain + refill[c].amount
          /\ refill[c].amount \in Nat
        BY <1>17, DepositType, Zenon DEF RefillDeposit, graceVars, ledgerVars
    <2>2. refill' = [refill EXCEPT ![c] = [pc |-> "apply", amount |-> refill[c].amount]]
        BY <1>17, DepositType, Zenon DEF RefillDeposit
    <2>3. Spent' = Spent
        BY <2>1, Zenon DEF Spent, Reserved, TotalAmount
    <2>4. Cover' = chain + refill[c].amount + TotalAmount(legacy \ unsettled)
        BY <2>1, Zenon DEF Cover, TotalAmount
    <2>5. Cover' = Cover + refill[c].amount /\ Spent \in Nat /\ Cover \in Nat
        BY <2>1, <2>4, AccountsNat, SMTT(30) DEF Cover, TypeInv
    <2> SUFFICES ASSUME ~early PROVE Goal
        BY <2>1, Zenon DEF Solvent
    <2>6. Spent' <= Cover' /\ Spent' + refill[c].amount <= Cover'
        <3>1. Spent <= Cover
            BY Zenon DEF Solvent
        <3> QED BY <2>1, <2>3, <2>5, <3>1, SMTT(30)
    <2>7. ASSUME NEW d \in Callers, refill'[d].pc = "apply" PROVE Spent' + refill'[d].amount <= Cover'
        <3>1. CASE d = c
            <4>1. refill'[d].amount = refill[c].amount
                BY <2>2, <3>1, Zenon DEF TypeInv
            <4> QED BY <2>6, <4>1, Zenon
        <3>2. CASE d # c
            <4>1. refill'[d] = refill[d]
                BY <2>2, <3>2, Zenon DEF TypeInv
            <4>2. Spent + refill[d].amount <= Cover
                BY <2>7, <4>1, Zenon DEF Solvent
            <4>3. refill[d].amount \in Nat
                BY <2>7, <4>1, DepositType, Zenon
            <4> QED BY <2>1, <2>3, <2>5, <4>1, <4>2, <4>3, SMTT(30)
        <3> QED BY <3>1, <3>2, Zenon
    <2>8. ASSUME seeder' # NoSeeder PROVE seeder'.bal <= Cover'
        <3>1. seeder.bal <= Cover /\ seeder.bal \in Nat
            BY <2>1, <2>8, Zenon DEF Solvent, TypeInv, Seeders
        <3> QED BY <2>1, <2>5, <3>1, SMTT(30)
    <2> QED BY <2>6, <2>7, <2>8, Zenon DEF Solvent
<1>18. ASSUME NEW c \in Callers, RefillApply(c) PROVE Goal
    <2>1. /\ UNCHANGED <<chainVars, seeder, early, put>>
          /\ balance' = balance + refill[c].amount
          /\ refill[c].amount \in Nat /\ balance \in Nat
        BY <1>18, DepositType, ZenonT(30) DEF RefillApply, graceVars, TypeInv
    <2>2. Reserved' = Reserved
        BY <2>1, Zenon DEF Reserved, TotalAmount
    <2>3. Cover' = Cover /\ Spent' = (balance + refill[c].amount) + Reserved + TotalAmount(unsettled \ legacy)
        BY <2>1, <2>2, ChainSame, Zenon
    <2>4. Spent' = Spent + refill[c].amount
        BY <2>1, <2>3, AccountsNat, SMTT(30) DEF Spent
    <2>5. \A d \in Callers : refill'[d].pc # "apply"
        BY <1>18, Zenon DEF RefillApply, SingleFlight, Busy, TypeInv, NoRefill
    <2>6. ~early => Spent' <= Cover'
        BY <1>18, <2>3, <2>4, Zenon DEF Solvent, RefillApply
    <2>7. ~early /\ seeder' # NoSeeder => seeder'.bal <= Cover'
        BY <2>1, <2>3, Zenon DEF Solvent
    <2> QED BY <2>1, <2>5, <2>6, <2>7, Zenon DEF Solvent
<1>19. ASSUME NEW c \in Callers, RefillFails(c) PROVE Goal
    <2>1. /\ UNCHANGED <<unsettled, legacy, seeder, early, balance, put>>
          /\ chain' \in {chain, chain + refill[c].amount}
          /\ refill[c].amount \in Nat /\ chain \in Nat
        BY <1>19, DepositType, ZenonT(30) DEF RefillFails, graceVars, ledgerVars, TypeInv
    <2>2. Spent' = Spent
        BY <2>1, Zenon DEF Spent, Reserved, TotalAmount
    <2>3. Cover' = chain' + TotalAmount(legacy \ unsettled)
        BY <2>1, Zenon DEF Cover, TotalAmount
    <2>4. Cover' \in Nat /\ Cover <= Cover'
        BY <2>1, <2>3, AccountsNat, SMTT(30) DEF Cover
    <2>5. NoNewDeposit
        BY <1>19, Zenon DEF RefillFails, NoNewDeposit, TypeInv, NoRefill
    <2>6. Spent' + Cover <= Spent + Cover'
        BY <2>2, <2>4, AccountsNat, SMTT(30)
    <2> QED BY <2>1, <2>4, <2>5, <2>6, SolventKept, Zenon
<1>20. CASE Restart
    <2>1. /\ balance' = 0 /\ seeder' = NoSeeder /\ refill' = [c \in Callers |-> NoRefill]
          /\ unsettled' \ legacy' = {}
          /\ {q \in Puts : put'[q] = "admitted"} = {}
        BY <1>20, Zenon DEF Restart
    <2>2. TotalAmount({}) = 0
        BY SumEmpty, Zenon DEF TotalAmount
    <2>3. Spent' = 0 + 0 + 0
        BY <2>1, <2>2, Zenon DEF Spent, Reserved, TotalAmount
    <2>4. Cover' \in Nat
        <3>1. TotalAmount(legacy' \ unsettled') \in Nat /\ chain' \in Nat
            BY TotalNat, Zenon DEF TypeInv
        <3> QED BY <3>1 DEF Cover, TotalAmount
    <2>5. Spent' <= Cover'
        BY <2>3, <2>4
    <2>6. \A c \in Callers : refill'[c].pc # "apply"
        BY <2>1, Zenon DEF NoRefill
    <2> QED BY <2>1, <2>5, <2>6, Zenon DEF Solvent
<1> QED
    BY <1>1, <1>2, <1>3, <1>4, <1>5, <1>6, <1>7, <1>8, <1>9, <1>10, <1>11, <1>12, <1>13,
       <1>14, <1>15, <1>16, <1>17, <1>18, <1>19, <1>20, SMTT(30) DEF Next, PutStep, RefillStep

-----------------------------------------------------------------------------
(* The theorem                                                             *)

\* The invariant holds at the start.
LEMMA LedgerInit == Init => LedgerInv
<1> SUFFICES ASSUME Init PROVE LedgerInv
    BY Zenon
<1> USE LedgerAssumption DEF Init, NoRefill, NoSeeder, Callers
<1>1. TypeInv
    BY Zenon DEF TypeInv, PutStates, Refills, Seeders
<1>2. SingleFlight /\ PutsInOrder /\ Unseeded
    BY Zenon DEF SingleFlight, PutsInOrder, Unseeded, Busy
<1>3. Solvent
    <2>1. {q \in Puts : put[q] = "admitted"} = {} /\ unsettled \ legacy = {} /\ legacy \ unsettled = {}
        BY Zenon
    <2>2. TotalAmount({}) = 0
        BY SumEmpty, Zenon DEF TotalAmount
    <2>3. Spent = 0 + 0 + 0 /\ Cover = InitialEscrow + 0
        BY <2>1, <2>2, Zenon DEF Spent, Reserved, Cover
    <2>4. Spent <= Cover
        BY <2>3
    <2> QED BY <2>4, Zenon DEF Solvent
<1> QED BY <1>1, <1>2, <1>3, Zenon DEF LedgerInv

\* The invariant implies the property: the lock's holder is the one busy caller, and the
\* old promises still unsettled count on both sides.
LEMMA LedgerImplies == LedgerInv => LedgerCovered
<1> SUFFICES ASSUME LedgerInv PROVE LedgerCovered
    BY Zenon
<1> USE DEF LedgerInv
<1>1. LedgerTypeOK
    <2> DEFINE B == {c \in Callers : Busy(c)}
    <2>1. Cardinality(B) = IF refilling THEN 1 ELSE 0
        <3>1. CASE refilling
            <4>1. PICK c \in Callers : Busy(c)
                BY <3>1, Zenon DEF SingleFlight
            <4>2. B = {c}
                BY <4>1, Zenon DEF SingleFlight
            <4> QED BY <3>1, <4>2, FS_Singleton, Zenon
        <3>2. CASE ~refilling
            <4>1. B = {}
                BY <3>2, Zenon DEF SingleFlight
            <4> QED BY <3>2, <4>1, FS_EmptySet, Zenon
        <3> QED BY <3>1, <3>2, Zenon
    <2> QED BY <2>1, Zenon DEF LedgerTypeOK, TypeInv, PutStates, Busy
<1>2. ASSUME ~early
      PROVE  balance + Reserved + TotalAmount(unsettled) <= chain + TotalAmount(legacy)
    <2> DEFINE old == unsettled \cap legacy
    <2>1. /\ TotalAmount(unsettled) = TotalAmount(unsettled \ legacy) + TotalAmount(old)
          /\ TotalAmount(legacy) = TotalAmount(legacy \ unsettled) + TotalAmount(old)
          /\ TotalAmount(old) \in Nat
        <3>1. \A S \in SUBSET Puts : IsFiniteSet(S) /\ \A p \in S : amount[p] \in Int
            BY TotalNat, LedgerAssumption
        <3>2. TotalAmount((unsettled \ legacy) \cup old)
                = TotalAmount(unsettled \ legacy) + TotalAmount(old)
            BY <3>1, SumUnion, SMTT(30) DEF TypeInv, TotalAmount
        <3>3. TotalAmount((legacy \ unsettled) \cup old)
                = TotalAmount(legacy \ unsettled) + TotalAmount(old)
            BY <3>1, SumUnion DEF TypeInv, TotalAmount
        <3>4. (unsettled \ legacy) \cup old = unsettled /\ (legacy \ unsettled) \cup old = legacy
            BY Zenon
        <3>5. TotalAmount(old) \in Nat
            BY TotalNat, Zenon DEF TypeInv
        <3> HIDE DEF old
        <3> QED BY <3>2, <3>3, <3>4, <3>5, Zenon
    <2> HIDE DEF old
    <2>2. Spent <= Cover
        BY <1>2, Zenon DEF Solvent
    <2> QED BY <2>1, <2>2, AccountsNat DEF Spent, Cover, TypeInv
<1> QED BY <1>1, <1>2, Zenon DEF LedgerCovered

\* In every behaviour of any client, the local balance, the reservations of running Puts
\* and the promises still to be debited are covered by the escrow on chain, up to what was
\* unsettled at the last restart (LedgerCovered), and at most one refill is in flight.
THEOREM LedgerNeverOvercommits == Spec => []LedgerCovered
<1>1. LedgerInv /\ [Next]_vars => LedgerInv'
    BY TypeStep, SingleFlightStep, PutsInOrderStep, UnseededStep, SolventStep, Zenon DEF LedgerInv
<1> QED BY <1>1, LedgerInit, LedgerImplies, PTL DEF Spec

=============================================================================
