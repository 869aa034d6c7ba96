--------------------------- MODULE ProposalProofs ---------------------------
(***************************************************************************)
(* Proofs about Proposal: what a node proposes every node accepts, all     *)
(* nodes give a proposal the same verdict, and an accepted fibre           *)
(* transaction is paid for unless its escrow was drained in the block.     *)
(*                                                                         *)
(* The reference is a node that has cached every transaction whose promise *)
(* is of a height the chain has reached (Begun): no node has cached more.  *)
(* What any node accepts the reference accepts, and it accepts no more     *)
(* while staking remembers the promises' heights (CachesAgree).  The       *)
(* filtered square builder runs ahead of ProcessProposal: the reference    *)
(* accepts whatever it kept (FillAccepted).  FinalizeBlock runs ahead of ProcessProposal   *)
(* on every escrow that no other transaction of the block drains           *)
(* (PaidStep, BlockPaid).                                                  *)
(***************************************************************************)
EXTENDS Proposal, SumTheorems

-----------------------------------------------------------------------------
(* Block proposals: the ante chain and the messages                        *)

Promises == {t.promise : t \in Txs}

\* States of the accounts: nobody has more than at the start, and a pending withdrawal is
\* covered by the escrow.
States ==
    {s \in [bank : [Signers -> Nat], seq : [Signers -> Nat], escrow : [Signers -> Nat],
            withdrawing : [Signers -> Nat], processed : SUBSET Promises] :
        \A a \in Signers : /\ s.bank[a] <= Funds
                           /\ s.withdrawing[a] <= s.escrow[a] /\ s.escrow[a] <= Escrow}

SameEscrow(s, r) ==
    s.escrow = r.escrow /\ s.withdrawing = r.withdrawing /\ s.processed = r.processed

SameAccounts(s, r) == s.bank = r.bank /\ s.seq = r.seq

\* The types of a transaction and of its promise.
LEMMA TxFacts ==
    ASSUME NEW t \in Txs
    PROVE  /\ t.kind \in {"send", "timeout", "blob", "fibre"} /\ t.signer \in Signers
           /\ t.seq \in Nat /\ t.fee \in Nat /\ t.size \in Nat /\ t.amount \in Nat
           /\ t.wellFormed \in BOOLEAN
           /\ t.promise \in Promises /\ t.promise.signer \in Signers
           /\ t.promise.amount \in Nat /\ t.promise.height \in Nat
           /\ t.promise.expires \in Nat
<1>1. t.promise \in Promises
    BY Zenon DEF Promises
<1> QED BY <1>1, ProposalAssumption, Zenon

\* The fields of a state of the accounts, and the bounds on them.
LEMMA StateFacts ==
    ASSUME NEW s \in States
    PROVE  /\ s.bank \in [Signers -> Nat] /\ s.seq \in [Signers -> Nat]
           /\ s.escrow \in [Signers -> Nat] /\ s.withdrawing \in [Signers -> Nat]
           /\ s.processed \in SUBSET Promises
           /\ \A a \in Signers : /\ s.bank[a] <= Funds
                                 /\ s.withdrawing[a] <= s.escrow[a] /\ s.escrow[a] <= Escrow
           /\ s = [bank |-> s.bank, seq |-> s.seq, escrow |-> s.escrow,
                   withdrawing |-> s.withdrawing, processed |-> s.processed]
BY Zenon DEF States

\* A record of the right fields is a state.
LEMMA StateIntro ==
    ASSUME NEW b \in [Signers -> Nat], NEW q \in [Signers -> Nat], NEW e \in [Signers -> Nat],
           NEW w \in [Signers -> Nat], NEW p \in SUBSET Promises,
           \A a \in Signers : b[a] <= Funds /\ w[a] <= e[a] /\ e[a] <= Escrow
    PROVE  [bank |-> b, seq |-> q, escrow |-> e, withdrawing |-> w, processed |-> p] \in States
BY Zenon DEF States

\* Deducting a fee that is covered changes one bank balance.
LEMMA DeductFeeFacts ==
    ASSUME NEW st \in States, NEW t \in Txs, st.bank[t.signer] >= t.fee
    PROVE  LET r == DeductFee(st, t)
           IN  /\ r \in States /\ r.seq = st.seq /\ SameEscrow(r, st)
               /\ r.bank = [st.bank EXCEPT ![t.signer] = st.bank[t.signer] - t.fee]
<1> DEFINE b == [st.bank EXCEPT ![t.signer] = st.bank[t.signer] - t.fee]
           r == [bank |-> b, seq |-> st.seq, escrow |-> st.escrow,
                 withdrawing |-> st.withdrawing, processed |-> st.processed]
<1>1. DeductFee(st, t) = r
    BY StateFacts DEF DeductFee
<1>2. b \in [Signers -> Nat] /\ \A a \in Signers : b[a] <= Funds
    <2>1. st.bank[t.signer] - t.fee \in Nat /\ st.bank[t.signer] - t.fee <= Funds
        BY TxFacts, StateFacts, ProposalAssumption
    <2> QED BY <2>1, TxFacts, StateFacts, Zenon
<1> HIDE DEF b
<1>3. r \in States
    BY <1>2, StateFacts, StateIntro, Zenon
<1> QED BY <1>1, <1>3 DEF SameEscrow, b

\* The ante chain touches the signer's balance and sequence only; it passes when the fee is
\* covered, the sequence is the next one and the signatures verify.
AnteResult(st, t, sigs, r) ==
    /\ r = [ok |-> r.ok, st |-> r.st]
    /\ r.ok \in BOOLEAN /\ r.st \in States /\ SameEscrow(r.st, st)
    /\ r.ok <=> st.bank[t.signer] >= t.fee /\ st.seq[t.signer] = t.seq /\ sigs
    /\ r.ok => /\ r.st.bank = [st.bank EXCEPT ![t.signer] = st.bank[t.signer] - t.fee]
               /\ r.st.seq = [st.seq EXCEPT ![t.signer] = st.seq[t.signer] + 1]
    /\ ~r.ok => /\ r.st.seq = st.seq
                /\ \A a \in Signers : r.st.bank[a] <= st.bank[a]

\* AnteHandler on a state of the accounts does what AnteResult says of it.
LEMMA AnteFacts ==
    ASSUME NEW st \in States, NEW t \in Txs, NEW h, NEW cache
    PROVE  AnteResult(st, t, SigsOK(t, h, cache), AnteHandler(st, t, h, cache))
<1> SUFFICES ASSUME NEW r, r = AnteHandler(st, t, h, cache)
             PROVE  AnteResult(st, t, SigsOK(t, h, cache), r)
    BY Zenon
<1> DEFINE paid == DeductFee(st, t)
           q == [st.seq EXCEPT ![t.signer] = st.seq[t.signer] + 1]
           pass == [bank |-> paid.bank, seq |-> q, escrow |-> st.escrow,
                    withdrawing |-> st.withdrawing, processed |-> st.processed]
<1>0. SigsOK(t, h, cache) \in BOOLEAN /\ st.bank[t.signer] \in Nat /\ t.fee \in Nat
    BY TxFacts, StateFacts, Zenon DEF SigsOK
<1>1. CASE st.bank[t.signer] < t.fee
    <2>1. r = [ok |-> FALSE, st |-> st]
        BY <1>1, Zenon DEF AnteHandler
    <2>2. ~(st.bank[t.signer] >= t.fee) /\ \A a \in Signers : st.bank[a] <= st.bank[a]
        BY <1>0, <1>1, StateFacts
    <2>3. r.ok = FALSE /\ r.st = st /\ r = [ok |-> r.ok, st |-> r.st]
        BY <2>1
    <2> QED BY <2>2, <2>3, Zenon DEF AnteResult, SameEscrow
<1>2. CASE ~(st.bank[t.signer] < t.fee)
    <2>1. st.bank[t.signer] >= t.fee
        BY <1>0, <1>2
    <2>2. /\ paid \in States /\ paid.seq = st.seq /\ SameEscrow(paid, st)
          /\ paid.bank = [st.bank EXCEPT ![t.signer] = st.bank[t.signer] - t.fee]
        BY <2>1, DeductFeeFacts, Zenon
    <2> HIDE DEF paid
    <2>3. CASE st.seq[t.signer] = t.seq /\ SigsOK(t, h, cache)
        <3>1. r = [ok |-> TRUE, st |-> [paid EXCEPT !.seq[t.signer] = @ + 1]]
            BY <1>2, <2>3, Zenon DEF AnteHandler, paid
        <3>2. [paid EXCEPT !.seq[t.signer] = @ + 1] = pass
            BY <2>2, StateFacts DEF SameEscrow
        <3>3. q \in [Signers -> Nat]
            BY StateFacts, TxFacts
        <3> HIDE DEF q
        <3>4. pass \in States
            BY <2>2, <3>3, StateFacts, StateIntro, Zenon
        <3>5. /\ pass.bank = paid.bank /\ pass.seq = q /\ SameEscrow(pass, st)
            BY Zenon DEF SameEscrow
        <3> HIDE DEF pass
        <3>6. r.ok = TRUE /\ r.st = pass /\ r = [ok |-> r.ok, st |-> r.st]
            BY <3>1, <3>2
        <3> QED BY <2>1, <2>2, <2>3, <3>4, <3>5, <3>6, Zenon DEF q, AnteResult
    <2>4. CASE ~(st.seq[t.signer] = t.seq /\ SigsOK(t, h, cache))
        <3>1. r = [ok |-> FALSE, st |-> paid]
            BY <1>2, <2>4, Zenon DEF AnteHandler, paid
        <3>2. \A a \in Signers : paid.bank[a] <= st.bank[a]
            BY <2>2, StateFacts, TxFacts
        <3>3. r.ok = FALSE /\ r.st = paid /\ r = [ok |-> r.ok, st |-> r.st]
            BY <3>1
        <3> QED BY <2>2, <2>4, <3>2, <3>3, Zenon DEF AnteResult
    <2> QED BY <2>3, <2>4, Zenon
<1> QED BY <1>1, <1>2, Zenon

\* Settling a promise takes its amount from the escrow of its signer.
LEMMA DebitFacts ==
    ASSUME NEW st \in States, NEW p \in Promises, Settleable(st, p)
    PROVE  LET r == Debit(st, p)
           IN  /\ r \in States /\ SameAccounts(r, st)
               /\ r.escrow = [st.escrow EXCEPT ![p.signer] = st.escrow[p.signer] - p.amount]
               /\ r.processed = st.processed \cup {p}
<1>0. p.signer \in Signers /\ p.amount \in Nat
    <2>1. PICK t \in Txs : p = t.promise
        BY Zenon DEF Promises
    <2> QED BY <2>1, TxFacts, Zenon
<1> DEFINE left == st.escrow[p.signer] - p.amount
           held == IF st.withdrawing[p.signer] > left THEN left ELSE st.withdrawing[p.signer]
           e == [st.escrow EXCEPT ![p.signer] = left]
           w == [st.withdrawing EXCEPT ![p.signer] = held]
           r == [bank |-> st.bank, seq |-> st.seq, escrow |-> e, withdrawing |-> w,
                 processed |-> st.processed \cup {p}]
<1>1. /\ st.bank \in [Signers -> Nat] /\ st.seq \in [Signers -> Nat]
      /\ st.escrow \in [Signers -> Nat] /\ st.withdrawing \in [Signers -> Nat]
      /\ st.processed \cup {p} \in SUBSET Promises
      /\ \A a \in Signers : /\ st.bank[a] <= Funds /\ st.withdrawing[a] <= st.escrow[a]
                            /\ st.escrow[a] <= Escrow
    BY StateFacts, Zenon
<1>2. Debit(st, p) = r
    <2>1. Debit(st, p) = [st EXCEPT !.escrow[p.signer] = left, !.withdrawing[p.signer] = held,
                                    !.processed = @ \cup {p}]
        BY Zenon DEF Debit
    <2>2. st = [bank |-> st.bank, seq |-> st.seq, escrow |-> st.escrow,
                withdrawing |-> st.withdrawing, processed |-> st.processed]
        BY StateFacts, Zenon
    <2> HIDE DEF left, held
    <2> QED BY <2>1, <2>2, Zenon
<1>3. /\ left \in Nat /\ held \in Nat /\ held <= left /\ left <= st.escrow[p.signer]
    BY <1>0, <1>1 DEF Settleable
<1>4. /\ e \in [Signers -> Nat] /\ w \in [Signers -> Nat]
      /\ \A a \in Signers : w[a] <= e[a] /\ e[a] <= Escrow
    <2> HIDE DEF left, held
    <2>1. e \in [Signers -> Nat] /\ w \in [Signers -> Nat]
        BY <1>0, <1>1, <1>3, Zenon
    <2>2. ASSUME NEW a \in Signers PROVE w[a] <= e[a] /\ e[a] <= Escrow
        <3>1. CASE a = p.signer
            <4>1. st.escrow[p.signer] <= Escrow /\ Escrow \in Nat /\ st.escrow[p.signer] \in Nat
                BY <1>0, <1>1, ProposalAssumption, Zenon
            <4>2. w[a] = held /\ e[a] = left
                BY <1>0, <1>1, <3>1, Zenon
            <4> QED BY <1>3, <4>1, <4>2
        <3>2. CASE a # p.signer
            BY <1>1, <3>2, Zenon
        <3> QED BY <3>1, <3>2, Zenon
    <2> QED BY <2>1, <2>2, Zenon
<1> HIDE DEF w
<1>5. r \in States
    <2> HIDE DEF e
    <2> QED BY <1>1, <1>4, StateIntro, Zenon
<1> QED BY <1>2, <1>5 DEF SameAccounts

\* What MsgPayForFibre and MsgPaymentPromiseTimeout do, under their conditions.
Charge(st, p, allowed, r) ==
    /\ r = [ok |-> r.ok, st |-> r.st]
    /\ r.ok \in BOOLEAN /\ r.st \in States /\ SameAccounts(r.st, st)
    /\ r.ok <=> Settleable(st, p) /\ allowed
    /\ r.ok => /\ r.st.escrow = [st.escrow EXCEPT ![p.signer] = st.escrow[p.signer] - p.amount]
               /\ r.st.processed = st.processed \cup {p}
    /\ ~r.ok => r.st = st

InWindow(p, h) == h < p.expires /\ h - p.height <= HeightWindow /\ p.height <= h + 1

\* PayForFibre and PaymentPromiseTimeout each charge the promise to its signer's escrow,
\* or leave the state alone.
LEMMA ChargeFacts ==
    ASSUME NEW st \in States, NEW p \in Promises, NEW h
    PROVE  /\ Charge(st, p, InWindow(p, h), PayForFibre(st, p, h))
           /\ Charge(st, p, h >= p.expires, PaymentPromiseTimeout(st, p, h))
<1>1. ASSUME NEW r, r = [ok |-> TRUE, st |-> Debit(st, p)], NEW allowed, allowed,
             Settleable(st, p)
      PROVE  Charge(st, p, allowed, r)
    <2>1. r.ok = TRUE /\ r.st = Debit(st, p) /\ r = [ok |-> r.ok, st |-> r.st]
        BY <1>1, Zenon
    <2> QED BY <1>1, <2>1, DebitFacts, Zenon DEF Charge
<1>2. ASSUME NEW r, r = [ok |-> FALSE, st |-> st], NEW allowed, ~(Settleable(st, p) /\ allowed)
      PROVE  Charge(st, p, allowed, r)
    <2>1. r.ok = FALSE /\ r.st = st /\ r = [ok |-> r.ok, st |-> r.st]
        BY <1>2, Zenon
    <2> QED BY <1>2, <2>1, Zenon DEF Charge, SameAccounts
<1>3. Charge(st, p, InWindow(p, h), PayForFibre(st, p, h))
    <2>1. CASE Settleable(st, p) /\ InWindow(p, h)
        <3>1. PayForFibre(st, p, h) = [ok |-> TRUE, st |-> Debit(st, p)]
            BY <2>1, Zenon DEF PayForFibre, InWindow
        <3> QED BY <1>1, <2>1, <3>1, Zenon
    <2>2. CASE ~(Settleable(st, p) /\ InWindow(p, h))
        <3>1. PayForFibre(st, p, h) = [ok |-> FALSE, st |-> st]
            BY <2>2, Zenon DEF PayForFibre, InWindow
        <3> QED BY <1>2, <2>2, <3>1, Zenon
    <2> QED BY <2>1, <2>2, Zenon
<1>4. Charge(st, p, h >= p.expires, PaymentPromiseTimeout(st, p, h))
    <2>1. CASE Settleable(st, p) /\ h >= p.expires
        <3>1. PaymentPromiseTimeout(st, p, h) = [ok |-> TRUE, st |-> Debit(st, p)]
            BY <2>1, Zenon DEF PaymentPromiseTimeout
        <3> QED BY <1>1, <2>1, <3>1, Zenon
    <2>2. CASE ~(Settleable(st, p) /\ h >= p.expires)
        <3>1. PaymentPromiseTimeout(st, p, h) = [ok |-> FALSE, st |-> st]
            BY <2>2, Zenon DEF PaymentPromiseTimeout
        <3> QED BY <1>2, <2>2, <3>1, Zenon
    <2> QED BY <2>1, <2>2, Zenon
<1> QED BY <1>3, <1>4, Zenon

\* A transfer changes the sender's bank balance only.
LEMMA SendFacts ==
    ASSUME NEW st \in States, NEW t \in Txs
    PROVE  LET r == Send(st, t)
           IN  /\ r.st \in States /\ SameEscrow(r.st, st) /\ r.st.seq = st.seq
               /\ \A a \in Signers : a # t.signer => r.st.bank[a] = st.bank[a]
<1> DEFINE b == [st.bank EXCEPT ![t.signer] = st.bank[t.signer] - t.amount]
           s == [bank |-> b, seq |-> st.seq, escrow |-> st.escrow,
                 withdrawing |-> st.withdrawing, processed |-> st.processed]
<1>0. st.bank \in [Signers -> Nat] /\ t.signer \in Signers /\ t.amount \in Nat
    BY StateFacts, TxFacts, Zenon
<1>1. CASE st.bank[t.signer] >= t.amount
    <2>1. Send(st, t) = [ok |-> TRUE, st |-> [st EXCEPT !.bank[t.signer] = @ - t.amount]]
        BY <1>1, Zenon DEF Send
    <2>2. [st EXCEPT !.bank[t.signer] = @ - t.amount] = s
        BY StateFacts
    <2>3. Send(st, t).st = s
        BY <2>1, <2>2
    <2>4. b \in [Signers -> Nat] /\ \A a \in Signers : b[a] <= Funds
        <3>1. /\ st.bank[t.signer] - t.amount \in Nat
              /\ st.bank[t.signer] - t.amount <= Funds
            BY <1>0, <1>1, StateFacts, ProposalAssumption
        <3> QED BY <1>0, <3>1, StateFacts, Zenon
    <2>5. \A a \in Signers : a # t.signer => b[a] = st.bank[a]
        BY <1>0, Zenon
    <2> HIDE DEF b
    <2>6. s \in States
        BY <2>4, StateFacts, StateIntro, Zenon
    <2>7. s.bank = b /\ s.seq = st.seq /\ SameEscrow(s, st)
        BY Zenon DEF SameEscrow
    <2> HIDE DEF s
    <2> QED BY <2>3, <2>5, <2>6, <2>7, Zenon
<1>2. CASE ~(st.bank[t.signer] >= t.amount)
    <2>1. Send(st, t).st = st
        BY <1>2, Zenon DEF Send
    <2> QED BY <2>1, Zenon DEF SameEscrow
<1> QED BY <1>1, <1>2, Zenon

-----------------------------------------------------------------------------
(* Block proposals: the loops                                              *)

\* f starts with b and follows F up to n.
IsRun(n, S, b, F, f) ==
    /\ f \in [0 .. n -> S] /\ f[0] = b
    /\ \A i \in 1 .. n : f[i] = F[<<f[i - 1], i>>]

\* A recursion over the positions of a sequence has a solution, when the step given by F
\* stays within a set.
LEMMA RunExists ==
    ASSUME NEW n \in Nat, NEW S, NEW b \in S, NEW F,
           \A i \in 1 .. n : \A s \in S : F[<<s, i>>] \in S
    PROVE  \E f : IsRun(n, S, b, F, f)
<1> DEFINE Run(k, f) == /\ f \in [0 .. k -> S] /\ f[0] = b
                        /\ \A i \in 1 .. k : f[i] = F[<<f[i - 1], i>>]
           T == {k \in Nat : k <= n => \E f : Run(k, f)}
<1>1. 0 \in T
    <2> DEFINE f == [i \in 0 .. 0 |-> b]
    <2>1. f \in [0 .. 0 -> S] /\ f[0] = b /\ 1 .. 0 = {}
        OBVIOUS
    <2> HIDE DEF f
    <2>2. Run(0, f)
        BY <2>1, Zenon
    <2> HIDE DEF Run
    <2> QED BY <2>2, Zenon
<1>2. ASSUME NEW k \in Nat, k \in T PROVE k + 1 \in T
    <2> SUFFICES ASSUME k + 1 <= n PROVE \E f : Run(k + 1, f)
        OBVIOUS
    <2>1. k <= n /\ k + 1 \in 1 .. n /\ k \in 0 .. k
        OBVIOUS
    <2>2. PICK f : Run(k, f)
        BY <1>2, <2>1, Zenon
    <2> DEFINE last == F[<<f[k], k + 1>>]
               e == [i \in 0 .. k + 1 |-> IF i = k + 1 THEN last ELSE f[i]]
    <2>3. last \in S
        BY <2>1, <2>2, Zenon
    <2>4. /\ \A i \in 0 .. k + 1 : i # k + 1 => i \in 0 .. k
          /\ k + 1 \in 0 .. k + 1 /\ (k + 1) - 1 = k /\ k # k + 1 /\ k \in 0 .. k + 1
          /\ 0 \in 0 .. k + 1 /\ 0 # k + 1
          /\ \A i \in 1 .. k + 1 : /\ i \in 0 .. k + 1 /\ i - 1 \in 0 .. k + 1 /\ i - 1 # k + 1
                                   /\ (i # k + 1 => i \in 1 .. k)
        OBVIOUS
    <2> HIDE DEF last
    <2>5. e \in [0 .. k + 1 -> S] /\ e[0] = b
        BY <2>2, <2>3, <2>4, Zenon
    <2>6. ASSUME NEW i \in 1 .. k + 1 PROVE e[i] = F[<<e[i - 1], i>>]
        <3>1. CASE i = k + 1
            <4>1. e[i] = last /\ e[i - 1] = f[k]
                BY <2>4, <3>1, Zenon
            <4> QED BY <3>1, <4>1, Zenon DEF last
        <3>2. CASE i # k + 1
            <4>1. e[i] = f[i] /\ e[i - 1] = f[i - 1] /\ i \in 1 .. k
                BY <2>4, <3>2, Zenon
            <4> QED BY <2>2, <4>1, Zenon
        <3> QED BY <3>1, <3>2, Zenon
    <2> HIDE DEF e
    <2> QED BY <2>5, <2>6, Zenon
<1>3. n \in T
    <2> HIDE DEF T
    <2> QED BY <1>1, <1>2, NaturalsIn, Zenon
<1>4. PICK f : Run(n, f)
    BY <1>3
<1> QED BY <1>4, Zenon DEF IsRun

\* Two runs of one recursion agree.
LEMMA RunUnique ==
    ASSUME NEW n \in Nat, NEW f, NEW g, f[0] = g[0],
           \A i \in 1 .. n : f[i - 1] = g[i - 1] => f[i] = g[i]
    PROVE  \A i \in 0 .. n : f[i] = g[i]
<1> DEFINE T == {i \in Nat : i <= n => f[i] = g[i]}
<1>1. 0 \in T
    BY Zenon
<1>2. ASSUME NEW k \in Nat, k \in T PROVE k + 1 \in T
    <2> SUFFICES ASSUME k + 1 <= n PROVE f[k + 1] = g[k + 1]
        OBVIOUS
    <2>1. k <= n /\ k + 1 \in 1 .. n /\ (k + 1) - 1 = k
        OBVIOUS
    <2> QED BY <1>2, <2>1, Zenon
<1>3. Nat \subseteq T
    <2> HIDE DEF T
    <2> QED BY <1>1, <1>2, NaturalsIn, Zenon
<1>4. \A i \in 0 .. n : i \in Nat /\ i <= n
    OBVIOUS
<1> QED BY <1>3, <1>4, Zenon

\* Two runs that start alike, and take like steps from like states, end alike.
LEMMA RunsEnd ==
    \A n \in Nat : \A f, g :
        f[0] = g[0] /\ (\A i \in 1 .. n : f[i - 1] = g[i - 1] => f[i] = g[i]) => f[n] = g[n]
<1> SUFFICES ASSUME NEW n \in Nat, NEW f, NEW g, f[0] = g[0],
                    \A i \in 1 .. n : f[i - 1] = g[i - 1] => f[i] = g[i]
             PROVE  f[n] = g[n]
    BY Zenon
<1>1. n \in 0 .. n
    OBVIOUS
<1>2. \A i \in 0 .. n : f[i] = g[i]
    BY RunUnique
<1> QED BY <1>1, <1>2, Zenon

\* The states of ProcessProposal's loop.
Verdicts == [ok : BOOLEAN, st : States, txs : Seq(Txs), cache : SUBSET Txs]

\* The fields of what ProcessProposal has found after some transactions.
LEMMA VerdictFacts ==
    ASSUME NEW v \in Verdicts
    PROVE  /\ v.ok \in BOOLEAN /\ v.st \in States /\ v.txs \in Seq(Txs)
           /\ v.cache \in SUBSET Txs
           /\ v = [ok |-> v.ok, st |-> v.st, txs |-> v.txs, cache |-> v.cache]
BY Zenon DEF Verdicts

\* What the loop asks of a transaction before its ante handler runs.
Screened(v, t, blobs) ==
    /\ v.ok
    /\ CountsOK(Append(v.txs, t))
    /\ IsBlob(t) => ValidateBlobTxWithCache(t, blobs)
    /\ IsFibre(t) => t.wellFormed

\* One iteration: r is the outcome of the ante handler and e that of the messages.
Iterated(v, t, blobs, r, e, w) ==
    /\ w \in Verdicts
    /\ w.ok <=> Screened(v, t, blobs) /\ r.ok /\ (IsFibre(t) => e.ok)
    /\ w.ok => w.txs = Append(v.txs, t) /\ w.st = IF IsFibre(t) THEN e.st ELSE r.st
    /\ w.cache = v.cache \/ (w.cache = v.cache \cup {t} /\ IsFibre(t) /\ r.ok)
    /\ w.ok /\ IsFibre(t) => t \in w.cache

\* ProcessTx does what Iterated says: the ante chain, then the payment of a fibre transaction.
LEMMA ProcessTxFacts ==
    ASSUME NEW v \in Verdicts, NEW t \in Txs, NEW h, NEW blobs
    PROVE  LET r == AnteHandler(v.st, t, h - 1, v.cache)
           IN  Iterated(v, t, blobs, r, PayForFibre(r.st, t.promise, h),
                        ProcessTx(v, t, h, blobs))
<1> SUFFICES ASSUME NEW r, r = AnteHandler(v.st, t, h - 1, v.cache),
                    NEW e, e = PayForFibre(r.st, t.promise, h),
                    NEW w, w = ProcessTx(v, t, h, blobs)
             PROVE  Iterated(v, t, blobs, r, e, w)
    BY Zenon
<1>1. /\ v.ok \in BOOLEAN /\ v.st \in States /\ v.txs \in Seq(Txs) /\ v.cache \in SUBSET Txs
      /\ v = [ok |-> v.ok, st |-> v.st, txs |-> v.txs, cache |-> v.cache]
    BY VerdictFacts, Zenon
<1>2. r.ok \in BOOLEAN /\ r.st \in States
    BY <1>1, AnteFacts, Zenon DEF AnteResult
<1>3. e.ok \in BOOLEAN /\ e.st \in States
    BY <1>2, TxFacts, ChargeFacts, Zenon DEF Charge
<1>4. Append(v.txs, t) \in Seq(Txs)
    BY <1>1
<1>5. CASE ~Screened(v, t, blobs)
    <2>1. w = [v EXCEPT !.ok = FALSE]
        BY <1>5, Zenon DEF ProcessTx, Screened
    <2>2. w.ok = FALSE /\ w = [ok |-> FALSE, st |-> v.st, txs |-> v.txs, cache |-> v.cache]
        BY <1>1, <2>1, Zenon
    <2>3. w \in Verdicts /\ w.cache = v.cache
        BY <1>1, <2>2 DEF Verdicts
    <2> QED BY <1>5, <2>2, <2>3, Zenon DEF Iterated
<1>6. CASE Screened(v, t, blobs)
    <2> DEFINE x == IF IsFibre(t) THEN e ELSE r
               c == IF r.ok /\ IsFibre(t) THEN v.cache \cup {t} ELSE v.cache
    <2>1. ExecuteTxMsgs(r.st, t, h) = e \/ ~IsFibre(t)
        BY Zenon DEF ExecuteTxMsgs, IsFibre
    <2>2. w = [ok |-> r.ok /\ x.ok, st |-> x.st, txs |-> Append(v.txs, t), cache |-> c]
        BY <1>6, <2>1, Zenon DEF ProcessTx, Screened
    <2>3. c \in SUBSET Txs /\ x.ok \in BOOLEAN /\ x.st \in States /\ (r.ok /\ x.ok) \in BOOLEAN
        BY <1>1, <1>2, <1>3, Zenon
    <2>4. (r.ok /\ x.ok <=> r.ok /\ (IsFibre(t) => e.ok))
        BY Zenon
    <2>5. x.st = IF IsFibre(t) THEN e.st ELSE r.st
        BY Zenon
    <2>7. /\ c = v.cache \/ (c = v.cache \cup {t} /\ IsFibre(t) /\ r.ok)
          /\ r.ok /\ IsFibre(t) => t \in c
        BY Zenon
    <2> HIDE DEF x, c
    <2>6. /\ w.ok = (r.ok /\ x.ok) /\ w.txs = Append(v.txs, t) /\ w.st = x.st /\ w \in Verdicts
          /\ w.cache = c
        BY <1>4, <2>2, <2>3 DEF Verdicts
    <2> QED BY <1>6, <2>4, <2>5, <2>6, <2>7, Zenon DEF Iterated
<1> QED BY <1>5, <1>6, Zenon

\* ProcessProposal's loop, on the committed state.
Processed(txs, h, blobs, cache) == ProcessTxs(state, txs, h, blobs, cache)

Begin(cache) == [ok |-> TRUE, st |-> state, txs |-> <<>>, cache |-> cache]

\* v holds the states of the loop over txs.
IsProcess(txs, h, blobs, cache, v) ==
    /\ v \in [0 .. Len(txs) -> Verdicts] /\ v[0] = Begin(cache)
    /\ \A i \in 1 .. Len(txs) : v[i] = ProcessTx(v[i - 1], txs[i], h, blobs)

\* ProcessProposal starts from the committed state.
LEMMA BeginVerdict ==
    ASSUME state \in States, NEW cache \in SUBSET Txs
    PROVE  Begin(cache) \in Verdicts
<1>1. <<>> \in Seq(Txs)
    OBVIOUS
<1> QED BY <1>1, Zenon DEF Begin, Verdicts

\* It goes through the transactions in order.
LEMMA ProcessRuns ==
    ASSUME state \in States, NEW txs \in Seq(Txs), NEW h, NEW blobs, NEW cache \in SUBSET Txs
    PROVE  \E v : /\ IsProcess(txs, h, blobs, cache, v)
                  /\ Processed(txs, h, blobs, cache) = v[Len(txs)]
<1> DEFINE n == Len(txs)
           F == [x \in Verdicts \X (1 .. n) |-> ProcessTx(x[1], txs[x[2]], h, blobs)]
<1>1. n \in Nat /\ \A i \in 1 .. n : txs[i] \in Txs
    OBVIOUS
<1>2. ASSUME NEW s \in Verdicts, NEW i \in 1 .. n
      PROVE  F[<<s, i>>] = ProcessTx(s, txs[i], h, blobs) /\ F[<<s, i>>] \in Verdicts
    <2>1. F[<<s, i>>] = ProcessTx(s, txs[i], h, blobs)
        BY Zenon
    <2> QED BY <1>1, <2>1, ProcessTxFacts, Zenon DEF Iterated
<1> HIDE DEF F
<1>3. PICK f : /\ f \in [0 .. n -> Verdicts] /\ f[0] = Begin(cache)
               /\ \A i \in 1 .. n : f[i] = F[<<f[i - 1], i>>]
    <2>1. \A i \in 1 .. n : \A s \in Verdicts : F[<<s, i>>] \in Verdicts
        BY <1>2, Zenon
    <2>2. PICK b \in Verdicts : b = Begin(cache)
        BY BeginVerdict, Zenon
    <2>3. \E f : IsRun(n, Verdicts, b, F, f)
        <3>1. n \in Nat
            BY <1>1, Zenon
        <3> QED BY <2>1, <3>1, RunExists, Zenon
    <2> QED BY <2>2, <2>3, Zenon DEF IsRun
<1>4. \A i \in 1 .. n : i - 1 \in 0 .. n /\ i \in 0 .. n /\ i # 0
    BY <1>1
<1>5. \A i \in 1 .. n : f[i] = ProcessTx(f[i - 1], txs[i], h, blobs)
    BY <1>2, <1>3, <1>4, Zenon
<1> DEFINE Def(g) == g = [i \in 0 .. n |-> IF i = 0 THEN Begin(cache)
                                           ELSE ProcessTx(g[i - 1], txs[i], h, blobs)]
           v == CHOOSE g : Def(g)
<1>6. Processed(txs, h, blobs, cache) = v[n]
    BY Zenon DEF Processed, ProcessTxs, Begin
<1>7. \A i \in 0 .. n : i # 0 => i \in 1 .. n
    BY <1>1
<1>8. Def(f)
    <2>1. \A i \in 0 .. n : f[i] = IF i = 0 THEN Begin(cache)
                                   ELSE ProcessTx(f[i - 1], txs[i], h, blobs)
        BY <1>3, <1>5, <1>7, Zenon
    <2>2. f = [i \in 0 .. n |-> f[i]]
        BY <1>3, Zenon
    <2> QED BY <2>1, <2>2, Zenon
<1>9. Def(v)
    <2> HIDE DEF Def
    <2> QED BY <1>8, Zenon
<1> HIDE DEF v
<1>10. \A i \in 0 .. n : v[i] = IF i = 0 THEN Begin(cache)
                                ELSE ProcessTx(v[i - 1], txs[i], h, blobs)
    BY <1>9, Zenon
<1> HIDE DEF Def
<1>11. 0 \in 0 .. n /\ n \in 0 .. n
    BY <1>1
<1>12. f[n] = v[n]
    <2>1. f[0] = v[0]
        BY <1>3, <1>10, <1>11, Zenon
    <2>2. \A i \in 1 .. n : f[i - 1] = v[i - 1] => f[i] = v[i]
        BY <1>4, <1>5, <1>10, Zenon
    <2>3. PICK g : g = v
        BY Zenon
    <2>4. f[0] = g[0] /\ \A i \in 1 .. n : f[i - 1] = g[i - 1] => f[i] = g[i]
        BY <2>1, <2>2, <2>3, Zenon
    <2>5. n \in Nat
        BY <1>1, Zenon
    <2>6. f[n] = g[n]
        <3> HIDE DEF n
        <3> QED BY <2>4, <2>5, RunsEnd, Zenon
    <2> QED BY <2>3, <2>6, Zenon
<1>13. IsProcess(txs, h, blobs, cache, f)
    BY <1>3, <1>5, Zenon DEF IsProcess
<1> QED BY <1>6, <1>11, <1>12, <1>13, Zenon

\* An empty proposal is processed without a step.
LEMMA ProcessEmpty ==
    ASSUME state \in States, NEW h, NEW blobs, NEW cache \in SUBSET Txs
    PROVE  Processed(<<>>, h, blobs, cache) = Begin(cache)
<1>1. <<>> \in Seq(Txs) /\ Len(<<>>) = 0
    OBVIOUS
<1>2. PICK v : IsProcess(<<>>, h, blobs, cache, v) /\ Processed(<<>>, h, blobs, cache) = v[0]
    BY <1>1, ProcessRuns, Zenon
<1> QED BY <1>2, Zenon DEF IsProcess

\* One more transaction is one more iteration.
LEMMA ProcessAppend ==
    ASSUME state \in States, NEW txs \in Seq(Txs), NEW h, NEW blobs, NEW cache \in SUBSET Txs,
           NEW t \in Txs
    PROVE  /\ Processed(txs, h, blobs, cache) \in Verdicts
           /\ Processed(Append(txs, t), h, blobs, cache)
                = ProcessTx(Processed(txs, h, blobs, cache), t, h, blobs)
<1> DEFINE n == Len(txs)
           more == Append(txs, t)
<1>1. /\ n \in Nat /\ more \in Seq(Txs) /\ Len(more) = n + 1 /\ more[n + 1] = t
      /\ \A i \in 1 .. n : more[i] = txs[i]
    OBVIOUS
<1> HIDE DEF more
<1>2. PICK f : /\ IsProcess(txs, h, blobs, cache, f)
               /\ Processed(txs, h, blobs, cache) = f[n]
    BY ProcessRuns, Zenon
<1>3. PICK g : /\ IsProcess(more, h, blobs, cache, g)
               /\ Processed(more, h, blobs, cache) = g[n + 1]
    BY <1>1, ProcessRuns, ZenonT(30)
<1>4. /\ \A i \in 1 .. n : i \in 1 .. n + 1
      /\ n + 1 \in 1 .. n + 1 /\ (n + 1) - 1 = n /\ n \in 0 .. n
    BY <1>1
<1>5. f[n] = g[n]
    <2>1. f[0] = g[0]
        BY <1>2, <1>3, Zenon DEF IsProcess
    <2>2. ASSUME NEW i \in 1 .. n, f[i - 1] = g[i - 1] PROVE f[i] = g[i]
        <3>1. f[i] = ProcessTx(f[i - 1], txs[i], h, blobs)
            BY <1>2, Zenon DEF IsProcess
        <3>2. g[i] = ProcessTx(g[i - 1], more[i], h, blobs)
            BY <1>1, <1>3, <1>4, Zenon DEF IsProcess
        <3> QED BY <1>1, <2>2, <3>1, <3>2, Zenon
    <2>3. \A i \in 1 .. n : f[i - 1] = g[i - 1] => f[i] = g[i]
        BY <2>2, Zenon
    <2>4. n \in Nat
        BY <1>1, Zenon
    <2> HIDE DEF n
    <2> QED BY <2>1, <2>3, <2>4, RunsEnd, Zenon
<1>6. g[n + 1] = ProcessTx(g[n], t, h, blobs)
    BY <1>1, <1>3, <1>4, Zenon DEF IsProcess
<1>7. f[n] \in Verdicts
    BY <1>2, <1>4, Zenon DEF IsProcess
<1> QED BY <1>2, <1>3, <1>4, <1>5, <1>6, <1>7, Zenon DEF more

-----------------------------------------------------------------------------
(* Block proposals: the caches do not matter                               *)

\* What any node can have cached when block h is voted on: promises of heights whose
\* validator set staking has recorded.
Begun(h) == {t \in Txs : 1 <= t.promise.height /\ t.promise.height <= h - 1}

\* A promise the history of block h still covers.
Fresh(t, h) == h - t.promise.height < HistoricalEntries

\* Signatures pass for such promises only.
LEMMA SigsBegun ==
    ASSUME NEW t \in Txs, NEW h \in Nat, NEW c, c \subseteq Begun(h), IsFibre(t),
           SigsOK(t, h - 1, c)
    PROVE  t \in Begun(h)
<1>1. CASE t \in c
    BY <1>1, Zenon
<1>2. CASE SignaturesVerify(t, h - 1)
    BY <1>2, Zenon DEF SignaturesVerify, Begun
<1> QED BY <1>1, <1>2, Zenon DEF SigsOK, IsFibre

\* The signatures of such a promise verify while the history covers it.
LEMMA FreshVerifies ==
    ASSUME NEW h \in Nat, NEW t \in Begun(h)
    PROVE  /\ Fresh(t, h - 1) => SignaturesVerify(t, h - 1)
           /\ Fresh(t, h) => SignaturesVerify(t, h)
           /\ InWindow(t.promise, h) /\ HeightWindow <= HistoricalEntries => Fresh(t, h - 1)
           /\ InWindow(t.promise, h) /\ HeightWindow < HistoricalEntries => Fresh(t, h)
<1>1. t \in Txs /\ 1 <= t.promise.height /\ t.promise.height <= h - 1
    BY Zenon DEF Begun
<1>2. t.promise.height \in Nat /\ HeightWindow \in Nat /\ HistoricalEntries \in Nat
    BY <1>1, TxFacts, ProposalAssumption, Zenon
<1>3. ASSUME NEW p \in Nat, 1 <= p, p <= h - 1
      PROVE  /\ p <= h
             /\ h - p <= HeightWindow /\ HeightWindow <= HistoricalEntries
                  => (h - 1) - p < HistoricalEntries
             /\ h - p <= HeightWindow /\ HeightWindow < HistoricalEntries
                  => h - p < HistoricalEntries
    BY <1>2, <1>3
<1> QED BY <1>1, <1>2, <1>3, Zenon DEF Fresh, SignaturesVerify, InWindow

\* What v accepted w accepted, with the same outcome.
Follows(v, w) == v.ok => w.ok /\ v.st = w.st /\ v.txs = w.txs

\* What an iteration on v keeps of the one on w.
InStep(v, w, t, h, y, z) ==
    /\ Follows(y, z) /\ (y.ok => v.ok)
    /\ v.cache \subseteq y.cache /\ y.cache \subseteq Begun(h) /\ z.cache = Begun(h)
    /\ y.ok /\ IsFibre(t) => t \in y.cache /\ InWindow(t.promise, h)
    /\ (w.ok => v.ok) /\ (HeightWindow <= HistoricalEntries \/ (IsFibre(t) => Fresh(t, h - 1)))
         => (z.ok => y.ok)

\* An iteration with a node's caches passes only if the one of the reference passes, and
\* leaves the same state; while the promise is remembered, it passes whenever that does.
LEMMA SameIteration ==
    ASSUME NEW v \in Verdicts, NEW w \in Verdicts, Follows(v, w), NEW t \in Txs, NEW h \in Nat,
           v.cache \subseteq Begun(h), w.cache = Begun(h),
           NEW blobs, \A x \in blobs : x.wellFormed,
           NEW y, y = ProcessTx(v, t, h, blobs), NEW z, z = ProcessTx(w, t, h, {})
    PROVE  InStep(v, w, t, h, y, z)
<1>0. PICK r1, e1, r2, e2 : /\ r1 = AnteHandler(v.st, t, h - 1, v.cache)
                            /\ e1 = PayForFibre(r1.st, t.promise, h)
                            /\ r2 = AnteHandler(w.st, t, h - 1, w.cache)
                            /\ e2 = PayForFibre(r2.st, t.promise, h)
    BY Zenon
<1>1. AnteResult(v.st, t, SigsOK(t, h - 1, v.cache), r1) /\ Charge(r1.st, t.promise, InWindow(t.promise, h), e1)
    <2>1. AnteResult(v.st, t, SigsOK(t, h - 1, v.cache), r1)
        BY <1>0, VerdictFacts, AnteFacts, Zenon
    <2> QED BY <1>0, <2>1, TxFacts, ChargeFacts, Zenon DEF AnteResult
<1>2. AnteResult(w.st, t, SigsOK(t, h - 1, w.cache), r2) /\ Charge(r2.st, t.promise, InWindow(t.promise, h), e2)
    <2>1. AnteResult(w.st, t, SigsOK(t, h - 1, w.cache), r2)
        BY <1>0, VerdictFacts, AnteFacts, Zenon
    <2> QED BY <1>0, <2>1, TxFacts, ChargeFacts, Zenon DEF AnteResult
<1>3. Iterated(v, t, blobs, r1, e1, y) /\ Iterated(w, t, {}, r2, e2, z)
    BY <1>0, ProcessTxFacts, Zenon
<1>4. v.st = w.st /\ SigsOK(t, h - 1, v.cache) /\ SigsOK(t, h - 1, w.cache) => r1 = r2 /\ e1 = e2
    <2> SUFFICES ASSUME v.st = w.st, SigsOK(t, h - 1, v.cache), SigsOK(t, h - 1, w.cache)
                 PROVE  r1 = r2
        BY <1>0, Zenon
    <2>1. AnteHandler(v.st, t, h - 1, v.cache) = AnteHandler(v.st, t, h - 1, w.cache)
        BY Zenon DEF AnteHandler
    <2> QED BY <1>0, <2>1, Zenon
<1>5. /\ y.ok <=> Screened(v, t, blobs) /\ r1.ok /\ (IsFibre(t) => e1.ok)
      /\ y.ok => y.txs = Append(v.txs, t) /\ y.st = IF IsFibre(t) THEN e1.st ELSE r1.st
    BY <1>3, Zenon DEF Iterated
<1>6. /\ z.ok <=> Screened(w, t, {}) /\ r2.ok /\ (IsFibre(t) => e2.ok)
      /\ z.ok => z.txs = Append(w.txs, t) /\ z.st = IF IsFibre(t) THEN e2.st ELSE r2.st
    BY <1>3, Zenon DEF Iterated
<1>7. r1.ok => SigsOK(t, h - 1, v.cache)
    BY <1>1, Zenon DEF AnteResult
<1>8. r2.ok => SigsOK(t, h - 1, w.cache)
    BY <1>2, Zenon DEF AnteResult
<1>9. r1.ok /\ IsFibre(t) => t \in Begun(h)
    BY <1>7, SigsBegun, Zenon
<1>10. r2.ok /\ IsFibre(t) => t \in Begun(h)
    <2>1. w.cache \subseteq Begun(h)
        BY Zenon
    <2> QED BY <1>8, <2>1, SigsBegun, Zenon
<1>11. v.cache \subseteq y.cache /\ y.cache \subseteq Begun(h)
    BY <1>3, <1>9, Zenon DEF Iterated
<1>12. z.cache = Begun(h)
    <2>1. CASE z.cache = w.cache
        BY <2>1, Zenon
    <2>2. CASE z.cache = w.cache \cup {t} /\ IsFibre(t) /\ r2.ok
        BY <1>10, <2>2, Zenon
    <2> QED BY <1>3, <2>1, <2>2, Zenon DEF Iterated
<1>13. y.ok /\ IsFibre(t) => t \in y.cache /\ InWindow(t.promise, h)
    BY <1>1, <1>3, <1>5, Zenon DEF Iterated, Charge
<1>14. ASSUME y.ok PROVE v.ok /\ z.ok /\ y.st = z.st /\ y.txs = z.txs
    <2>1. v.ok /\ w.ok /\ v.st = w.st /\ v.txs = w.txs /\ r1.ok
        BY <1>5, <1>14, Zenon DEF Screened, Follows
    <2>2. SigsOK(t, h - 1, w.cache)
        BY <1>9, <2>1, Zenon DEF SigsOK, IsFibre
    <2>3. r1 = r2 /\ e1 = e2
        BY <1>4, <1>7, <2>1, <2>2, Zenon
    <2>4. Screened(w, t, {})
        BY <1>5, <1>14, <2>1, Zenon DEF Screened, ValidateBlobTxWithCache
    <2>5. z.ok
        BY <1>5, <1>6, <1>14, <2>3, <2>4, Zenon
    <2> QED BY <1>5, <1>6, <1>14, <2>1, <2>3, <2>5, Zenon
<1>15. ASSUME w.ok => v.ok, z.ok,
              HeightWindow <= HistoricalEntries \/ (IsFibre(t) => Fresh(t, h - 1))
       PROVE  y.ok
    <2>1. v.ok /\ v.st = w.st /\ v.txs = w.txs /\ r2.ok /\ (IsFibre(t) => e2.ok)
        BY <1>6, <1>15, Zenon DEF Screened, Follows
    <2>2. IsFibre(t) => InWindow(t.promise, h)
        BY <1>2, <2>1, Zenon DEF Charge
    <2>3. IsFibre(t) => SignaturesVerify(t, h - 1)
        BY <1>10, <1>15, <2>1, <2>2, FreshVerifies, Zenon
    <2>4. SigsOK(t, h - 1, v.cache)
        BY <2>3, Zenon DEF SigsOK, IsFibre
    <2>5. r1 = r2 /\ e1 = e2
        BY <1>4, <1>8, <2>1, <2>4, Zenon
    <2>6. Screened(v, t, blobs)
        BY <1>6, <1>15, <2>1, Zenon DEF Screened, ValidateBlobTxWithCache
    <2> QED BY <1>5, <2>1, <2>5, <2>6, Zenon
<1> QED BY <1>11, <1>12, <1>13, <1>14, <1>15, Zenon DEF Follows, InStep

\* The verdict of the reference.
Reference(txs, h) == Processed(txs, h, {}, Begun(h))
Verdict(txs, h) == Reference(txs, h).ok

\* Staking remembers the heights of the block's promises when it is voted on.
Sure(txs, h) == HeightWindow <= HistoricalEntries \/ Remembered(txs, h - 1)

\* What a node accepts the reference accepts, and the node has then checked the signatures
\* of promises within the window; while they are remembered, all verdicts are the same.
LEMMA CachesAgree ==
    ASSUME state \in States, NEW txs \in Seq(Txs), NEW h \in Nat,
           NEW blobs, \A x \in blobs : x.wellFormed, NEW cache, cache \subseteq Begun(h),
           NEW p, p = Processed(txs, h, blobs, cache)
    PROVE  /\ p \in Verdicts /\ p.cache \subseteq Begun(h) /\ cache \subseteq p.cache
           /\ p.ok => /\ Verdict(txs, h)
                      /\ \A i \in DOMAIN txs : IsFibre(txs[i]) =>
                            txs[i] \in p.cache /\ InWindow(txs[i].promise, h)
           /\ Sure(txs, h) /\ Verdict(txs, h) => p.ok
<1> DEFINE n == Len(txs)
<1>1. n \in Nat /\ \A i \in 1 .. n : txs[i] \in Txs
    OBVIOUS
<1>2. DOMAIN txs = 1 .. n
    OBVIOUS
<1>0. Begun(h) \in SUBSET Txs /\ cache \in SUBSET Txs
    BY Zenon DEF Begun
<1>3. PICK f : IsProcess(txs, h, blobs, cache, f) /\ p = f[n]
    BY <1>0, ProcessRuns, Zenon
<1>4. PICK g : IsProcess(txs, h, {}, Begun(h), g) /\ Reference(txs, h) = g[n]
    BY <1>0, ProcessRuns, Zenon DEF Reference
<1>5. f[0] = Begin(cache) /\ g[0] = Begin(Begun(h))
    BY <1>3, <1>4, Zenon DEF IsProcess
<1>6. ASSUME NEW i \in 1 .. n
      PROVE  /\ f[i] = ProcessTx(f[i - 1], txs[i], h, blobs)
             /\ g[i] = ProcessTx(g[i - 1], txs[i], h, {})
    BY <1>3, <1>4, Zenon DEF IsProcess
<1>7. ASSUME NEW i \in 0 .. n PROVE f[i] \in Verdicts /\ g[i] \in Verdicts
    BY <1>3, <1>4, Zenon DEF IsProcess
<1> DEFINE Same(i) == /\ Follows(f[i], g[i])
                      /\ cache \subseteq f[i].cache /\ f[i].cache \subseteq Begun(h)
                      /\ g[i].cache = Begun(h)
                      /\ f[i].ok => \A j \in 1 .. i : IsFibre(txs[j]) =>
                                       txs[j] \in f[i].cache /\ InWindow(txs[j].promise, h)
                      /\ Sure(txs, h) => (g[i].ok => f[i].ok)
           T == {i \in Nat : i <= n => Same(i)}
<1>8. 0 \in T
    <2>1. /\ f[0].ok = TRUE /\ g[0].ok = TRUE /\ f[0].st = g[0].st /\ f[0].txs = g[0].txs
          /\ f[0].cache = cache /\ g[0].cache = Begun(h)
        <3>1. PICK a, b : a = f[0] /\ b = g[0]
            BY Zenon
        <3>2. /\ a = [ok |-> TRUE, st |-> state, txs |-> <<>>, cache |-> cache]
              /\ b = [ok |-> TRUE, st |-> state, txs |-> <<>>, cache |-> Begun(h)]
            BY <1>5, <3>1, Zenon DEF Begin
        <3>3. a.ok = TRUE /\ a.st = state /\ a.txs = <<>> /\ a.cache = cache
            BY <3>2, Zenon
        <3>4. b.ok = TRUE /\ b.st = state /\ b.txs = <<>> /\ b.cache = Begun(h)
            BY <3>2, Zenon
        <3> QED BY <3>1, <3>3, <3>4, Zenon
    <2>2. 1 .. 0 = {}
        OBVIOUS
    <2>3. Same(0)
        BY <2>1, <2>2, Zenon DEF Follows
    <2> HIDE DEF Same
    <2> QED BY <2>3, Zenon
<1>9. ASSUME NEW k \in Nat, k \in T PROVE k + 1 \in T
    <2> SUFFICES ASSUME k + 1 <= n PROVE Same(k + 1)
        <3> HIDE DEF Same
        <3> QED OBVIOUS
    <2>1. /\ k <= n /\ k + 1 \in 1 .. n /\ k \in 0 .. n /\ (k + 1) - 1 = k
          /\ \A j \in 1 .. k + 1 : j # k + 1 => j \in 1 .. k
        BY <1>1
    <2>2. Same(k)
        BY <1>9, <2>1, Zenon
    <2>3. PICK t, y, z : /\ t = txs[k + 1] /\ y = f[k + 1] /\ z = g[k + 1]
                         /\ y = ProcessTx(f[k], t, h, blobs) /\ z = ProcessTx(g[k], t, h, {})
        BY <1>6, <2>1, Zenon
    <2>4. f[k] \in Verdicts /\ g[k] \in Verdicts /\ t \in Txs
        BY <1>1, <1>7, <2>1, <2>3, Zenon
    <2>5. PICK v, w : v = f[k] /\ w = g[k]
        BY Zenon
    <2>6. /\ Follows(y, z) /\ (y.ok => v.ok)
          /\ v.cache \subseteq y.cache /\ y.cache \subseteq Begun(h) /\ z.cache = Begun(h)
          /\ y.ok /\ IsFibre(t) => t \in y.cache /\ InWindow(t.promise, h)
          /\ (w.ok => v.ok) /\ (HeightWindow <= HistoricalEntries \/ (IsFibre(t) => Fresh(t, h - 1)))
               => (z.ok => y.ok)
        <3>1. /\ v \in Verdicts /\ w \in Verdicts /\ Follows(v, w)
              /\ v.cache \subseteq Begun(h) /\ w.cache = Begun(h)
              /\ y = ProcessTx(v, t, h, blobs) /\ z = ProcessTx(w, t, h, {})
            BY <2>2, <2>3, <2>4, <2>5, Zenon
        <3>2. InStep(v, w, t, h, y, z)
            BY <2>4, <3>1, SameIteration, Zenon
        <3> QED BY <3>2, Zenon DEF InStep
    <2>7. Sure(txs, h) => HeightWindow <= HistoricalEntries \/ (IsFibre(t) => Fresh(t, h - 1))
        BY <1>2, <2>1, <2>3, Zenon DEF Sure, Remembered, Fresh
    <2>8. y.ok => \A j \in 1 .. k + 1 : IsFibre(txs[j]) =>
                     txs[j] \in y.cache /\ InWindow(txs[j].promise, h)
        BY <2>1, <2>2, <2>3, <2>5, <2>6, Zenon
    <2>9. Sure(txs, h) => (z.ok => y.ok)
        BY <2>2, <2>5, <2>6, <2>7, Zenon
    <2>10. cache \subseteq y.cache
        BY <2>2, <2>5, <2>6, Zenon
    <2> QED BY <2>3, <2>6, <2>8, <2>9, <2>10, Zenon
<1>10. Same(n)
    <2>1. n \in T
        <3> HIDE DEF T
        <3>1. n \in Nat
            BY <1>1, Zenon
        <3> QED BY <1>8, <1>9, <3>1, NaturalsIn, Zenon
    <2>2. n <= n
        BY <1>1
    <2> QED BY <2>1, <2>2, Zenon
<1>11. f[n] \in Verdicts
    <2>1. n \in 0 .. n
        BY <1>1
    <2> QED BY <1>7, <2>1, Zenon
<1> QED BY <1>2, <1>3, <1>4, <1>10, <1>11, Zenon DEF Verdict, Follows

-----------------------------------------------------------------------------
(* Block proposals: what the proposer builds is accepted                   *)

\* The transactions of some kinds in a block can be counted.
LEMMA PositionsFinite ==
    ASSUME NEW txs \in Seq(Txs), NEW kinds
    PROVE  /\ DOMAIN txs = 1 .. Len(txs) /\ Len(txs) \in Nat /\ IsFiniteSet(1 .. Len(txs))
           /\ IsFiniteSet({i \in DOMAIN txs : txs[i].kind \in kinds})
           /\ Count(kinds, txs) \in Nat
<1>1. DOMAIN txs = 1 .. Len(txs) /\ Len(txs) \in Nat
    OBVIOUS
<1>2. IsFiniteSet(1 .. Len(txs))
    BY <1>1, FS_Interval
<1>3. {i \in DOMAIN txs : txs[i].kind \in kinds} \subseteq 1 .. Len(txs)
    BY <1>1, Zenon
<1>4. IsFiniteSet({i \in DOMAIN txs : txs[i].kind \in kinds})
    BY <1>2, <1>3, FS_Subset, Zenon
<1> QED BY <1>1, <1>2, <1>4, FS_CardinalityType, Zenon DEF Count

\* A transaction adds its size, and one to the count of its kind.
LEMMA AppendSize ==
    ASSUME NEW txs \in Seq(Txs), NEW t \in Txs
    PROVE  /\ SizeOf(txs) \in Nat
           /\ SizeOf(Append(txs, t)) = SizeOf(txs) + t.size
<1> DEFINE n == Len(txs)
           D == 1 .. n
           more == Append(txs, t)
           f == [i \in DOMAIN txs |-> txs[i].size]
           g == [i \in DOMAIN more |-> more[i].size]
<1>1. /\ n \in Nat /\ DOMAIN txs = D /\ DOMAIN more = D \cup {n + 1} /\ n + 1 \notin D
      /\ more[n + 1] = t
      /\ \A i \in D : more[i] = txs[i] /\ txs[i] \in Txs
    OBVIOUS
<1>2. IsFiniteSet(D)
    BY <1>1, FS_Interval
<1> HIDE DEF more, D
<1>3. /\ \A i \in D : f[i] = g[i] /\ f[i] \in Nat /\ g[i] \in Int
      /\ g[n + 1] = t.size /\ t.size \in Int
    <2>1. \A i \in D : txs[i].size \in Nat
        BY <1>1, TxFacts, Zenon
    <2>2. t.size \in Nat
        BY TxFacts, Zenon
    <2>3. \A i \in D : f[i] = txs[i].size /\ g[i] = txs[i].size
        BY <1>1, Zenon
    <2>4. g[n + 1] = t.size
        BY <1>1, Zenon
    <2> HIDE DEF f, g
    <2> QED BY <2>1, <2>2, <2>3, <2>4
<1>4. SizeOf(txs) = SumFunctionOnSet(f, D) /\ SizeOf(more) = SumFunctionOnSet(g, D \cup {n + 1})
    BY <1>1, Zenon DEF SizeOf
<1> HIDE DEF f, g
<1>5. SumFunctionOnSet(f, D) = SumFunctionOnSet(g, D)
    BY <1>2, <1>3, SumSame, Zenon
<1>6. SumFunctionOnSet(g, D \cup {n + 1}) = SumFunctionOnSet(g, D) + g[n + 1]
    <2>1. (\A i \in D : g[i] \in Int) /\ g[n + 1] \in Int /\ n + 1 \notin D
        BY <1>1, <1>3, Zenon
    <2> HIDE DEF n
    <2> QED BY <1>2, <2>1, SumAdd, ZenonT(30)
<1>7. SumFunctionOnSet(f, D) \in Nat
    BY <1>2, <1>3, SumNat, Zenon
<1> QED BY <1>3, <1>4, <1>5, <1>6, <1>7, Zenon DEF more

\* Appending a transaction adds one to the count of its kind, and nothing to the others.
LEMMA AppendCount ==
    ASSUME NEW txs \in Seq(Txs), NEW t \in Txs, NEW kinds
    PROVE  /\ t.kind \in kinds => Count(kinds, Append(txs, t)) = Count(kinds, txs) + 1
           /\ t.kind \notin kinds => Count(kinds, Append(txs, t)) = Count(kinds, txs)
<1> DEFINE n == Len(txs)
           more == Append(txs, t)
           A == {i \in DOMAIN txs : txs[i].kind \in kinds}
           B == {i \in DOMAIN more : more[i].kind \in kinds}
<1>1. /\ n \in Nat /\ DOMAIN txs = 1 .. n /\ DOMAIN more = (1 .. n) \cup {n + 1}
      /\ n + 1 \notin 1 .. n /\ more[n + 1] = t
      /\ \A i \in 1 .. n : more[i] = txs[i]
    OBVIOUS
<1> HIDE DEF more
<1>2. IsFiniteSet(A) /\ n + 1 \notin A
    BY <1>1, PositionsFinite, Zenon
<1>3. CASE t.kind \in kinds
    <2>1. B = A \cup {n + 1}
        BY <1>1, <1>3, Zenon
    <2> HIDE DEF A, B
    <2>2. Cardinality(B) = Cardinality(A) + 1
        BY <1>2, <2>1, FS_AddElement, Zenon
    <2> QED BY <1>3, <2>2, Zenon DEF Count, A, B, more
<1>4. CASE t.kind \notin kinds
    <2>1. \A i \in B : i \in A
        BY <1>1, <1>4, Zenon
    <2>2. \A i \in A : i \in B
        BY <1>1, Zenon
    <2>3. B = A
        BY <2>1, <2>2, Zenon
    <2> QED BY <1>4, <2>3, Zenon DEF Count, more
<1> QED BY <1>3, <1>4, Zenon

\* An empty square has no size and no transactions.
LEMMA EmptySquare ==
    /\ SizeOf(<<>>) = 0
    /\ \A kinds : Count(kinds, <<>>) = 0
<1>1. DOMAIN <<>> = {}
    OBVIOUS
<1>2. SizeOf(<<>>) = 0
    BY <1>1, SumEmpty, Zenon DEF SizeOf
<1>3. ASSUME NEW kinds PROVE Count(kinds, <<>>) = 0
    <2>1. {i \in DOMAIN <<>> : <<>>[i].kind \in kinds} = {}
        BY <1>1, Zenon
    <2> QED BY <2>1, FS_EmptySet, Zenon DEF Count
<1> QED BY <1>2, <1>3, Zenon

\* The state ProcessProposal reaches is the one Fill reached, but for fees of transactions
\* that Fill dropped.
Ahead(p, f) ==
    /\ p.seq = f.seq /\ p.escrow = f.escrow /\ p.processed = f.processed
    /\ \A a \in Signers : f.bank[a] <= p.bank[a]

\* If the ante handler passes a transaction in Fill, it does so in ProcessProposal.
LEMMA AnteAhead ==
    ASSUME NEW p \in States, NEW f \in States, Ahead(p, f), NEW t \in Txs, NEW h, NEW c, NEW d,
           AnteHandler(f, t, h, c).ok, SigsOK(t, h, d)
    PROVE  /\ AnteHandler(p, t, h, d).ok
           /\ Ahead(AnteHandler(p, t, h, d).st, AnteHandler(f, t, h, c).st)
<1> SUFFICES ASSUME NEW r, r = AnteHandler(f, t, h, c), NEW s, s = AnteHandler(p, t, h, d)
             PROVE  s.ok /\ Ahead(s.st, r.st)
    BY Zenon
<1>1. AnteResult(f, t, SigsOK(t, h, c), r) /\ AnteResult(p, t, SigsOK(t, h, d), s)
    BY AnteFacts, Zenon
<1>3. /\ f.bank \in [Signers -> Nat] /\ p.bank \in [Signers -> Nat]
      /\ t.signer \in Signers /\ t.fee \in Nat
    BY StateFacts, TxFacts, Zenon
<1>4. f.bank[t.signer] >= t.fee /\ f.seq[t.signer] = t.seq
    BY <1>1, Zenon DEF AnteResult
<1>5. p.bank[t.signer] >= t.fee
    BY <1>3, <1>4 DEF Ahead
<1>6. s.ok
    BY <1>1, <1>4, <1>5, Zenon DEF AnteResult, Ahead
<1>7. /\ r.st.bank = [f.bank EXCEPT ![t.signer] = f.bank[t.signer] - t.fee]
      /\ s.st.bank = [p.bank EXCEPT ![t.signer] = p.bank[t.signer] - t.fee]
      /\ r.st.seq = [f.seq EXCEPT ![t.signer] = f.seq[t.signer] + 1]
      /\ s.st.seq = [p.seq EXCEPT ![t.signer] = p.seq[t.signer] + 1]
      /\ SameEscrow(r.st, f) /\ SameEscrow(s.st, p)
    BY <1>1, <1>6, Zenon DEF AnteResult
<1>8. \A a \in Signers : r.st.bank[a] <= s.st.bank[a]
    BY <1>3, <1>7 DEF Ahead
<1>9. s.st.seq = r.st.seq /\ s.st.escrow = r.st.escrow /\ s.st.processed = r.st.processed
    BY <1>7 DEF Ahead, SameEscrow
<1> QED BY <1>6, <1>8, <1>9, Zenon DEF Ahead

\* The same for the settlement of a promise.
LEMMA ChargeAhead ==
    ASSUME NEW p \in States, NEW f \in States, Ahead(p, f), NEW q \in Promises, NEW h,
           PayForFibre(f, q, h).ok
    PROVE  /\ PayForFibre(p, q, h).ok
           /\ Ahead(PayForFibre(p, q, h).st, PayForFibre(f, q, h).st)
<1> SUFFICES ASSUME NEW r, r = PayForFibre(f, q, h), NEW s, s = PayForFibre(p, q, h)
             PROVE  s.ok /\ Ahead(s.st, r.st)
    BY Zenon
<1>1. Charge(f, q, InWindow(q, h), r) /\ Charge(p, q, InWindow(q, h), s)
    BY ChargeFacts, Zenon
<1>2. Settleable(f, q) /\ InWindow(q, h)
    BY <1>1, Zenon DEF Charge
<1>3. Settleable(p, q)
    BY <1>2, Zenon DEF Settleable, Ahead
<1>4. s.ok
    BY <1>1, <1>2, <1>3, Zenon DEF Charge
<1>5. /\ r.st.escrow = [f.escrow EXCEPT ![q.signer] = f.escrow[q.signer] - q.amount]
      /\ s.st.escrow = [p.escrow EXCEPT ![q.signer] = p.escrow[q.signer] - q.amount]
      /\ r.st.processed = f.processed \cup {q} /\ s.st.processed = p.processed \cup {q}
      /\ SameAccounts(r.st, f) /\ SameAccounts(s.st, p)
    BY <1>1, <1>4, Zenon DEF Charge
<1>6. /\ s.st.seq = r.st.seq /\ s.st.escrow = r.st.escrow /\ s.st.processed = r.st.processed
      /\ s.st.bank = p.bank /\ r.st.bank = f.bank
    BY <1>5, Zenon DEF Ahead, SameAccounts
<1> QED BY <1>4, <1>6, Zenon DEF Ahead

Builders == [st : States, square : Seq(Txs), kept : Seq(Txs), cache : SUBSET Txs]

\* What Fill has built so far: a square that ProcessProposal accepts, of transactions up to
\* rank k.
Built(b, h, k) ==
    /\ b \in Builders /\ b.square = b.kept /\ b.cache \subseteq Begun(h)
    /\ \A i \in DOMAIN b.kept : Rank(b.kept[i]) <= k
    /\ Constructible(b.kept) /\ CountsOK(b.kept)
    /\ Verdict(b.kept, h)
    /\ Reference(b.kept, h).txs = b.kept
    /\ Ahead(Reference(b.kept, h).st, b.st)

\* The reference ends in a state of the accounts, with what it had cached.
LEMMA ProcessState ==
    ASSUME state \in States, NEW txs \in Seq(Txs), NEW h \in Nat
    PROVE  /\ Reference(txs, h) \in Verdicts /\ Reference(txs, h).st \in States
           /\ Reference(txs, h).cache = Begun(h)
<1>1. PICK p, cache, blobs : /\ cache = Begun(h) /\ blobs = {}
                             /\ p = Processed(txs, h, blobs, cache)
    BY Zenon
<1>2. p \in Verdicts /\ p.cache \subseteq Begun(h) /\ Begun(h) \subseteq p.cache
    <2>1. cache \subseteq Begun(h) /\ \A x \in blobs : x.wellFormed
        BY <1>1, Zenon
    <2> QED BY <1>1, <2>1, CachesAgree, Zenon
<1>3. p = Reference(txs, h)
    BY <1>1, Zenon DEF Reference
<1>4. p.cache = Begun(h)
    BY <1>2, Zenon
<1> QED BY <1>2, <1>3, <1>4, VerdictFacts, Zenon

\* The fields of the filtered square builder.
LEMMA BuilderFacts ==
    ASSUME NEW b \in Builders
    PROVE  /\ b.st \in States /\ b.square \in Seq(Txs) /\ b.kept \in Seq(Txs)
           /\ b.cache \in SUBSET Txs
           /\ b = [st |-> b.st, square |-> b.square, kept |-> b.kept, cache |-> b.cache]
BY Zenon DEF Builders

\* Dropping a transaction keeps the square; what its ante handler wrote stays.
LEMMA BuiltDrop ==
    ASSUME state \in States, NEW b, NEW h \in Nat, NEW k, Built(b, h, k), NEW st \in States, NEW cache \in SUBSET Begun(h),
           Ahead(b.st, st)
    PROVE  Built([st |-> st, square |-> b.square, kept |-> b.kept, cache |-> cache], h, k)
<1>1. b \in Builders
    BY Zenon DEF Built
<1> DEFINE c == [st |-> st, square |-> b.square, kept |-> b.kept, cache |-> cache]
<1>2. cache \in SUBSET Txs
    BY Zenon DEF Begun
<1>3. c \in Builders /\ c.st = st /\ c.square = b.square /\ c.kept = b.kept /\ c.cache = cache
    BY <1>1, <1>2, BuilderFacts, Zenon DEF Builders
<1> DEFINE p == Reference(b.kept, h).st
<1>4. Ahead(p, b.st)
    BY Zenon DEF Built
<1>5. Ahead(p, st)
    <2>0. p \in States
        BY <1>1, BuilderFacts, ProcessState, Zenon
    <2> HIDE DEF p
    <2>1. /\ p.seq = st.seq /\ p.escrow = st.escrow /\ p.processed = st.processed
        BY <1>4, Zenon DEF Ahead
    <2>2. /\ p.bank \in [Signers -> Nat] /\ st.bank \in [Signers -> Nat]
          /\ b.st.bank \in [Signers -> Nat]
        BY <1>1, <2>0, BuilderFacts, StateFacts, Zenon
    <2>3. \A a \in Signers : st.bank[a] <= p.bank[a]
        BY <1>4, <2>2 DEF Ahead
    <2> QED BY <2>1, <2>3, Zenon DEF Ahead
<1>6. Built(c, h, k)
    <2> HIDE DEF c
    <2> QED BY <1>3, <1>5, Zenon DEF Built
<1> QED BY <1>6, Zenon

\* Processing one more transaction takes one more step.
LEMMA ReferenceAppend ==
    ASSUME state \in States, NEW txs \in Seq(Txs), NEW h, NEW t \in Txs
    PROVE  Reference(Append(txs, t), h) = ProcessTx(Reference(txs, h), t, h, {})
<1>1. PICK cache \in SUBSET Txs : cache = Begun(h)
    BY Zenon DEF Begun
<1>2. Processed(Append(txs, t), h, {}, cache) = ProcessTx(Processed(txs, h, {}, cache), t, h, {})
    BY ProcessAppend, ZenonT(30)
<1> QED BY <1>1, <1>2, Zenon DEF Reference

\* Appending a transaction of the current rank, for which there is room and which
\* ProcessProposal passes.
LEMMA BuiltAppend ==
    ASSUME state \in States, NEW b, NEW h \in Nat, NEW k \in 1 .. 3, Built(b, h, k),
           NEW t \in Txs, Rank(t) = k, Fits(b.square, t), CountsOK(Append(b.kept, t)),
           NEW st \in States, NEW cache \in SUBSET Begun(h),
           NEW w, w = ProcessTx(Reference(b.kept, h), t, h, {}), w.ok, Ahead(w.st, st)
    PROVE  Built([st |-> st, square |-> Append(b.square, t), kept |-> Append(b.kept, t),
                  cache |-> cache], h, k)
<1> DEFINE more == Append(b.kept, t)
           n == Len(b.kept)
           v == Reference(b.kept, h)
           c == [st |-> st, square |-> Append(b.square, t), kept |-> more, cache |-> cache]
<1>1. /\ b.kept \in Seq(Txs) /\ b.square = b.kept /\ v.txs = b.kept /\ Constructible(b.kept)
      /\ \A i \in DOMAIN b.kept : Rank(b.kept[i]) <= k
    BY BuilderFacts, Zenon DEF Built
<1>2. /\ n \in Nat /\ more \in Seq(Txs) /\ DOMAIN b.kept = 1 .. n /\ DOMAIN more = 1 .. n + 1
      /\ more[n + 1] = t /\ \A i \in 1 .. n : more[i] = b.kept[i]
    BY <1>1
<1>3. v \in Verdicts
    BY <1>1, ProcessState, Zenon
<1>4. Reference(more, h) = w
    <2>1. b.kept \in Seq(Txs)
        BY <1>1, Zenon
    <2>2. Reference(Append(b.kept, t), h) = ProcessTx(Reference(b.kept, h), t, h, {})
        BY <2>1, ReferenceAppend, Zenon
    <2> QED BY <2>2, Zenon
<1>5. w.txs = Append(v.txs, t)
    <2> HIDE DEF v
    <2>1. w = ProcessTx(v, t, h, {})
        BY Zenon DEF v
    <2> DEFINE r == AnteHandler(v.st, t, h - 1, v.cache)
    <2>2. Iterated(v, t, {}, r, PayForFibre(r.st, t.promise, h), ProcessTx(v, t, h, {}))
        BY <1>3, ProcessTxFacts, Zenon
    <2> QED BY <2>1, <2>2, Zenon DEF Iterated
<1>6. c \in Builders /\ c.kept = more /\ c.square = more /\ c.st = st /\ c.cache = cache
    <2>0. cache \in SUBSET Txs
        BY Zenon DEF Begun
    <2> HIDE DEF more
    <2>1. Append(b.square, t) = more
        BY <1>1, Zenon DEF more
    <2> QED BY <1>2, <2>0, <2>1, Zenon DEF Builders
<1> HIDE DEF more, v
<1>7. \A i \in DOMAIN more : /\ i = n + 1 \/ i \in 1 .. n
                             /\ \A j \in DOMAIN more : j < i => j \in 1 .. n
    BY <1>2
<1>8. \A i \in DOMAIN more : Rank(more[i]) <= k
    <2>1. k <= k
        OBVIOUS
    <2> QED BY <1>1, <1>2, <1>7, <2>1, Zenon
<1>9. Constructible(more)
    <2>1. ASSUME NEW i \in DOMAIN more, NEW j \in DOMAIN more, i < j
          PROVE  Rank(more[i]) <= Rank(more[j])
        <3>1. i \in 1 .. n
            BY <1>7, <2>1, Zenon
        <3>2. CASE j = n + 1
            BY <1>2, <1>8, <3>2, Zenon
        <3>3. CASE j \in 1 .. n
            BY <1>1, <1>2, <2>1, <3>1, <3>3, Zenon DEF Constructible
        <3> QED BY <1>7, <3>2, <3>3, Zenon
    <2>2. SizeOf(more) <= MaxSquare
        <3>1. SizeOf(more) = SizeOf(b.kept) + t.size
            BY <1>1, AppendSize, Zenon DEF more
        <3> QED BY <1>1, <3>1, Zenon DEF Fits
    <2> QED BY <2>1, <2>2, Zenon DEF Constructible
<1>10. CountsOK(more)
    BY Zenon DEF more
<1>11. Built(c, h, k)
    <2>1. w.txs = more
        BY <1>1, <1>5, Zenon DEF more
    <2> HIDE DEF c
    <2> QED BY <1>4, <1>6, <1>8, <1>9, <1>10, <2>1, Zenon DEF Built, Verdict
<1> QED BY <1>11, Zenon DEF more

\* Room for one more of its kind is room within all limits.
LEMMA CountsAppend ==
    ASSUME NEW txs \in Seq(Txs), CountsOK(txs), NEW t \in Txs,
           IsNormal(t) => Count(Normal, txs) + 1 <= MaxSDKMessages,
           IsBlob(t) => Count({"blob"}, txs) + 1 <= MaxPFBMessages,
           IsFibre(t) => Count({"fibre"}, txs) + 1 <= MaxPayForFibreMessages
    PROVE  CountsOK(Append(txs, t))
<1>1. Count(Normal, Append(txs, t)) <= MaxSDKMessages
    BY AppendCount, Zenon DEF CountsOK, IsNormal
<1>2. Count({"blob"}, Append(txs, t)) <= MaxPFBMessages
    BY AppendCount, Zenon DEF CountsOK, IsBlob
<1>3. Count({"fibre"}, Append(txs, t)) <= MaxPayForFibreMessages
    BY AppendCount, Zenon DEF CountsOK, IsFibre
<1> QED BY <1>1, <1>2, <1>3, Zenon DEF CountsOK

\* The rank of each kind.
LEMMA Kinds ==
    ASSUME NEW t \in Txs
    PROVE  /\ Rank(t) \in 1 .. 3
           /\ Rank(t) = 1 <=> IsNormal(t)
           /\ Rank(t) = 2 <=> IsBlob(t)
           /\ Rank(t) = 3 <=> IsFibre(t)
           /\ ~(IsNormal(t) /\ IsBlob(t)) /\ ~(IsNormal(t) /\ IsFibre(t))
           /\ ~(IsBlob(t) /\ IsFibre(t))
BY TxFacts DEF Rank, IsNormal, IsBlob, IsFibre, Normal

\* A step of Fill for a normal or a blob transaction.
LEMMA BuiltFillTx ==
    ASSUME state \in States, NEW b, NEW h \in Nat, NEW k \in 1 .. 2, Built(b, h, k),
           NEW t \in Txs, t.wellFormed, Rank(t) = k, NEW max, NEW kinds,
           <<max, kinds>> = IF IsNormal(t) THEN <<MaxSDKMessages, Normal>>
                            ELSE <<MaxPFBMessages, {"blob"}>>
    PROVE  Built(FillTx(b, t, h, max, kinds), h, k)
<1> DEFINE r == AnteHandler(b.st, t, h - 1, b.cache)
           v == Reference(b.kept, h)
           w == ProcessTx(v, t, h, {})
<1>0. /\ b \in Builders /\ b.st \in States /\ b.kept \in Seq(Txs) /\ b.cache \in SUBSET Txs
      /\ b = [st |-> b.st, square |-> b.square, kept |-> b.kept, cache |-> b.cache]
      /\ b.square = b.kept /\ CountsOK(b.kept) /\ v.ok /\ v.txs = b.kept /\ Ahead(v.st, b.st)
      /\ b.cache \subseteq Begun(h)
    BY BuilderFacts, Zenon DEF Built, Verdict
<1>1. ~IsFibre(t) /\ (IsNormal(t) \/ IsBlob(t)) /\ k \in 1 .. 3 /\ ~(IsNormal(t) /\ IsBlob(t))
    BY Kinds
<1>2. AnteResult(b.st, t, SigsOK(t, h - 1, b.cache), r)
    BY <1>0, AnteFacts, Zenon
<1>3. CASE Count(kinds, b.kept) + 1 > max \/ ~Fits(b.square, t)
    BY <1>3, Zenon DEF FillTx
<1>4. CASE ~(Count(kinds, b.kept) + 1 > max \/ ~Fits(b.square, t)) /\ ~r.ok
    <2>1. FillTx(b, t, h, max, kinds) = [b EXCEPT !.st = r.st]
        BY <1>4, Zenon DEF FillTx
    <2>2. Ahead(b.st, r.st)
        <3> HIDE DEF r
        <3> QED BY <1>2, <1>4, Zenon DEF AnteResult, Ahead, SameEscrow
    <2>3. r.st \in States
        BY <1>2, Zenon DEF AnteResult
    <2> HIDE DEF r
    <2>4. [b EXCEPT !.st = r.st]
            = [st |-> r.st, square |-> b.square, kept |-> b.kept, cache |-> b.cache]
        BY <1>0
    <2>5. b.cache \in SUBSET Begun(h)
        BY <1>0, Zenon
    <2>6. Built([st |-> r.st, square |-> b.square, kept |-> b.kept, cache |-> b.cache], h, k)
        BY <2>2, <2>3, <2>5, BuiltDrop, Zenon
    <2> QED BY <2>1, <2>4, <2>6, Zenon
<1>5. CASE ~(Count(kinds, b.kept) + 1 > max \/ ~Fits(b.square, t)) /\ r.ok
    <2>1. FillTx(b, t, h, max, kinds)
            = [st |-> r.st, square |-> Append(b.square, t), kept |-> Append(b.kept, t),
               cache |-> b.cache]
        BY <1>5, Zenon DEF FillTx
    <2>2. v \in Verdicts /\ v.st \in States
        BY <1>0, ProcessState, Zenon
    <2>3. SigsOK(t, h - 1, v.cache)
        BY <1>1, Zenon DEF SigsOK, IsFibre
    <2> DEFINE s == AnteHandler(v.st, t, h - 1, v.cache)
    <2>4. s.ok /\ Ahead(s.st, r.st)
        <3> HIDE DEF v
        <3> QED BY <1>0, <1>5, <2>2, <2>3, AnteAhead, Zenon
    <2>5. CountsOK(Append(b.kept, t))
        <3>1. Count(kinds, b.kept) \in Nat /\ max \in Nat
            BY <1>0, PositionsFinite, ProposalAssumption, Zenon
        <3>2. Count(kinds, b.kept) + 1 <= max
            BY <1>5, <3>1
        <3>3. /\ IsNormal(t) => max = MaxSDKMessages /\ kinds = Normal
              /\ ~IsNormal(t) => max = MaxPFBMessages /\ kinds = {"blob"}
            BY Zenon
        <3> QED BY <1>0, <1>1, <3>2, <3>3, CountsAppend, ZenonT(30)
    <2>6. Iterated(v, t, {}, s, PayForFibre(s.st, t.promise, h), w)
        <3> HIDE DEF v
        <3> QED BY <2>2, ProcessTxFacts, Zenon
    <2>7. w.ok /\ w.st = s.st
        <3> HIDE DEF v, s, w
        <3>1. Screened(v, t, {})
            BY <1>0, <1>1, <2>5, Zenon DEF Screened, ValidateBlobTxWithCache
        <3> QED BY <1>1, <2>4, <2>6, <3>1, Zenon DEF Iterated
    <2>8. r.st \in States
        BY <1>2, Zenon DEF AnteResult
    <2> HIDE DEF r
    <2>10. Fits(b.square, t)
        BY <1>5, Zenon
    <2>11. Built([st |-> r.st, square |-> Append(b.square, t), kept |-> Append(b.kept, t),
                  cache |-> b.cache], h, k)
        <3> HIDE DEF w
        <3>1. w = ProcessTx(v, t, h, {})
            BY Zenon DEF w
        <3>2. Ahead(w.st, r.st)
            BY <2>4, <2>7, Zenon
        <3>3. b.cache \in SUBSET Begun(h)
            BY <1>0, Zenon
        <3> HIDE DEF v
        <3> QED BY <1>1, <2>5, <2>7, <2>8, <2>10, <3>1, <3>2, <3>3, BuiltAppend, ZenonT(30) DEF v
    <2> QED BY <2>1, <2>11, Zenon
<1> QED BY <1>3, <1>4, <1>5, Zenon

\* A step of Fill for a pay-for-fibre transaction.  One whose promise does not settle leaves
\* nothing behind but the note that its signatures verify.
LEMMA BuiltFillFibreTx ==
    ASSUME state \in States, NEW b, NEW h \in Nat, Built(b, h, 3),
           NEW t \in Txs, t.wellFormed, Rank(t) = 3
    PROVE  Built(FillFibreTx(b, t, h), h, 3)
<1> DEFINE r == AnteHandler(b.st, t, h - 1, b.cache)
           e == ExecuteTxMsgs(r.st, t, h)
           full == Count({"fibre"}, b.kept) + 1 > MaxPayForFibreMessages \/ ~Fits(b.square, t)
           checked == IF r.ok THEN b.cache \cup {t} ELSE b.cache
           v == Reference(b.kept, h)
           w == ProcessTx(v, t, h, {})
<1>0. /\ b \in Builders /\ b.st \in States /\ b.kept \in Seq(Txs) /\ b.cache \in SUBSET Txs
      /\ b = [st |-> b.st, square |-> b.square, kept |-> b.kept, cache |-> b.cache]
      /\ b.square = b.kept /\ CountsOK(b.kept) /\ v.ok /\ v.txs = b.kept /\ Ahead(v.st, b.st)
      /\ b.cache \subseteq Begun(h)
    BY BuilderFacts, Zenon DEF Built, Verdict
<1>1. IsFibre(t) /\ ~IsNormal(t) /\ ~IsBlob(t) /\ 3 \in 1 .. 3
    BY Kinds, Zenon
<1>2. AnteResult(b.st, t, SigsOK(t, h - 1, b.cache), r)
    BY <1>0, AnteFacts, Zenon
<1>3. checked \in SUBSET Begun(h) /\ (r.ok => t \in Begun(h))
    <2>1. r.ok => SigsOK(t, h - 1, b.cache)
        BY <1>2, Zenon DEF AnteResult
    <2> HIDE DEF r
    <2>2. r.ok => t \in Begun(h)
        BY <1>0, <1>1, <2>1, SigsBegun, Zenon
    <2> QED BY <1>0, <2>2, Zenon
<1>4. e = PayForFibre(r.st, t.promise, h)
    BY <1>1, Zenon DEF ExecuteTxMsgs, IsFibre
<1> t.promise \in Promises
    BY TxFacts, Zenon
<1>5. CASE full
    BY <1>5, Zenon DEF FillFibreTx
<1>6. CASE ~full /\ ~(r.ok /\ e.ok)
    <2>1. FillFibreTx(b, t, h) = [b EXCEPT !.cache = checked]
        BY <1>6, Zenon DEF FillFibreTx
    <2>2. Ahead(b.st, b.st)
        <3>1. b.st.bank \in [Signers -> Nat]
            BY <1>0, StateFacts, Zenon
        <3> QED BY <3>1 DEF Ahead
    <2> HIDE DEF checked
    <2>3. [b EXCEPT !.cache = checked]
            = [st |-> b.st, square |-> b.square, kept |-> b.kept, cache |-> checked]
        BY <1>0
    <2>4. b.st \in States
        BY <1>0, Zenon
    <2>5. Built([st |-> b.st, square |-> b.square, kept |-> b.kept, cache |-> checked], h, 3)
        BY <1>3, <2>2, <2>4, BuiltDrop, Zenon
    <2> QED BY <2>1, <2>3, <2>5, Zenon
<1>7. CASE ~full /\ r.ok /\ e.ok
    <2>1. FillFibreTx(b, t, h)
            = [st |-> e.st, square |-> Append(b.square, t), kept |-> Append(b.kept, t),
               cache |-> checked]
        BY <1>7, Zenon DEF FillFibreTx
    <2>2. v \in Verdicts /\ v.st \in States /\ v.cache = Begun(h)
        BY <1>0, ProcessState, Zenon
    <2>3. SigsOK(t, h - 1, v.cache)
        BY <1>3, <1>7, <2>2, Zenon DEF SigsOK
    <2> DEFINE s == AnteHandler(v.st, t, h - 1, v.cache)
               f == PayForFibre(s.st, t.promise, h)
    <2>4. s.ok /\ Ahead(s.st, r.st) /\ s.st \in States /\ r.st \in States
        <3> HIDE DEF v
        <3>1. s.ok /\ Ahead(s.st, r.st)
            BY <1>0, <1>7, <2>2, <2>3, AnteAhead, Zenon
        <3>2. AnteResult(v.st, t, SigsOK(t, h - 1, v.cache), s)
            BY <2>2, AnteFacts, Zenon
        <3> QED BY <1>2, <3>1, <3>2, Zenon DEF AnteResult
    <2>5. CountsOK(Append(b.kept, t))
        <3>1. Count({"fibre"}, b.kept) \in Nat /\ MaxPayForFibreMessages \in Nat
            BY <1>0, PositionsFinite, ProposalAssumption, Zenon
        <3>2. Count({"fibre"}, b.kept) + 1 <= MaxPayForFibreMessages
            BY <1>7, <3>1
        <3> QED BY <1>0, <1>1, <3>2, CountsAppend, Zenon
    <2>6. Iterated(v, t, {}, s, f, w)
        <3> HIDE DEF v
        <3> QED BY <2>2, ProcessTxFacts, Zenon
    <2>7. f.ok /\ Ahead(f.st, e.st)
        <3> HIDE DEF s, r
        <3>1. PayForFibre(r.st, t.promise, h).ok
            BY <1>4, <1>7, Zenon
        <3>2. /\ PayForFibre(s.st, t.promise, h).ok
              /\ Ahead(PayForFibre(s.st, t.promise, h).st, PayForFibre(r.st, t.promise, h).st)
            BY <2>4, <3>1, ChargeAhead, Zenon
        <3> HIDE DEF e
        <3> QED BY <1>4, <3>2, Zenon
    <2>8. w.ok /\ w.st = f.st
        <3> HIDE DEF v, s, w, f
        <3>1. Screened(v, t, {})
            BY <1>0, <1>1, <2>5, Zenon DEF Screened
        <3> QED BY <1>1, <2>4, <2>6, <2>7, <3>1, Zenon DEF Iterated
    <2>9. e.st \in States
        <3> HIDE DEF r, e
        <3>1. Charge(r.st, t.promise, InWindow(t.promise, h), PayForFibre(r.st, t.promise, h))
            BY <2>4, ChargeFacts, Zenon
        <3> QED BY <1>4, <3>1, Zenon DEF Charge
    <2>10. Fits(b.square, t)
        BY <1>7, Zenon
    <2>11. Built([st |-> e.st, square |-> Append(b.square, t), kept |-> Append(b.kept, t),
                  cache |-> checked], h, 3)
        <3> HIDE DEF w
        <3>1. w = ProcessTx(v, t, h, {})
            BY Zenon DEF w
        <3>2. Ahead(w.st, e.st)
            BY <2>7, <2>8, Zenon
        <3> HIDE DEF v, checked, e
        <3> QED BY <1>0, <1>1, <1>3, <2>5, <2>8, <2>9, <2>10, <3>1, <3>2, BuiltAppend, Zenon DEF v
    <2> QED BY <2>1, <2>11, Zenon
<1> QED BY <1>5, <1>6, <1>7, Zenon

\* One transaction of the rank being filled keeps the builder's square acceptable, whether
\* Fill keeps it or drops it.
LEMMA BuiltFillOne ==
    ASSUME state \in States, NEW b, NEW h \in Nat, NEW k \in 1 .. 3, Built(b, h, k),
           NEW t \in Txs, t.wellFormed, Rank(t) = k
    PROVE  Built(FillOne(b, t, h), h, k)
<1>1. CASE k = 1
    <2>1. IsNormal(t) /\ ~IsBlob(t) /\ ~IsFibre(t) /\ k \in 1 .. 2
        BY <1>1, Kinds
    <2>2. FillOne(b, t, h) = FillTx(b, t, h, MaxSDKMessages, Normal)
        BY <2>1, Zenon DEF FillOne
    <2>3. <<MaxSDKMessages, Normal>> = IF IsNormal(t) THEN <<MaxSDKMessages, Normal>>
                                       ELSE <<MaxPFBMessages, {"blob"}>>
        BY <2>1, Zenon
    <2> QED BY <2>1, <2>2, <2>3, BuiltFillTx, Zenon
<1>2. CASE k = 2
    <2>1. IsBlob(t) /\ ~IsNormal(t) /\ ~IsFibre(t) /\ k \in 1 .. 2
        BY <1>2, Kinds
    <2>2. FillOne(b, t, h) = FillTx(b, t, h, MaxPFBMessages, {"blob"})
        BY <2>1, Zenon DEF FillOne
    <2>3. <<MaxPFBMessages, {"blob"}>> = IF IsNormal(t) THEN <<MaxSDKMessages, Normal>>
                                         ELSE <<MaxPFBMessages, {"blob"}>>
        BY <2>1, Zenon
    <2> QED BY <2>1, <2>2, <2>3, BuiltFillTx, Zenon
<1>3. CASE k = 3
    <2>1. IsFibre(t) /\ ~IsNormal(t) /\ ~IsBlob(t)
        BY <1>3, Kinds, Zenon
    <2>2. FillOne(b, t, h) = FillFibreTx(b, t, h)
        BY <2>1, Zenon DEF FillOne
    <2> QED BY <1>3, <2>2, BuiltFillFibreTx, Zenon
<1> QED BY <1>1, <1>2, <1>3

\* One of Fill's loops, over well-formed transactions of one rank.
LEMMA BuiltFillLoop ==
    ASSUME state \in States, NEW b, NEW h \in Nat, NEW k \in 1 .. 3, Built(b, h, k),
           NEW txs \in Seq(Txs), NEW P,
           \A i \in P : txs[i].wellFormed /\ Rank(txs[i]) = k
    PROVE  Built(FillLoop(b, txs, P, h), h, k)
<1> DEFINE n == Len(txs)
           Step(s, i) == IF i \in P THEN FillOne(s, txs[i], h) ELSE s
<1>1. n \in Nat /\ \A i \in 1 .. n : txs[i] \in Txs
    OBVIOUS
<1>2. PICK S : \A s : s \in S <=> s \in Builders /\ Built(s, h, k)
    <2> DEFINE T == {s \in Builders : Built(s, h, k)}
    <2> WITNESS T
    <2> QED BY Zenon
<1>3. \A s \in S : s \in Builders /\ Built(s, h, k)
    BY <1>2, Zenon
<1>4. b \in S
    BY <1>2, Zenon DEF Built
<1> DEFINE F == [x \in S \X (1 .. n) |-> Step(x[1], x[2])]
<1>5. ASSUME NEW s \in S, NEW i \in 1 .. n
      PROVE  F[<<s, i>>] = Step(s, i) /\ F[<<s, i>>] \in S
    <2>1. F[<<s, i>>] = Step(s, i)
        <3> HIDE DEF Step
        <3> QED BY Zenon
    <2>2. CASE i \in P
        <3>1. Built(s, h, k) /\ txs[i] \in Txs /\ txs[i].wellFormed /\ Rank(txs[i]) = k
            BY <1>1, <1>3, <2>2, Zenon
        <3>2. Built(FillOne(s, txs[i], h), h, k)
            BY <3>1, BuiltFillOne, Zenon
        <3>3. FillOne(s, txs[i], h) \in Builders
            BY <3>2, Zenon DEF Built
        <3> HIDE DEF F
        <3> QED BY <1>2, <2>1, <2>2, <3>2, <3>3, Zenon
    <2>3. CASE i \notin P
        <3> HIDE DEF F
        <3> QED BY <2>1, <2>3, Zenon
    <2> QED BY <2>1, <2>2, <2>3, Zenon
<1> HIDE DEF F, Step
<1>6. PICK f : f \in [0 .. n -> S] /\ f[0] = b /\ \A i \in 1 .. n : f[i] = F[<<f[i - 1], i>>]
    <2>1. \A i \in 1 .. n : \A s \in S : F[<<s, i>>] \in S
        BY <1>5, Zenon
    <2>2. \E f : IsRun(n, S, b, F, f)
        <3>1. n \in Nat
            BY <1>1, Zenon
        <3> QED BY <1>4, <2>1, <3>1, RunExists, Zenon
    <2> QED BY <2>2, Zenon DEF IsRun
<1>7. \A i \in 1 .. n : i - 1 \in 0 .. n /\ i \in 0 .. n /\ i # 0
    BY <1>1
<1>8. \A i \in 1 .. n : f[i] = Step(f[i - 1], i)
    BY <1>5, <1>6, <1>7, Zenon
<1> DEFINE Def(g) == g = [i \in 0 .. n |-> IF i = 0 THEN b ELSE Step(g[i - 1], i)]
           v == CHOOSE g : Def(g)
<1>9. FillLoop(b, txs, P, h) = v[n]
    BY Zenon DEF FillLoop, Step
<1>10. \A i \in 0 .. n : i # 0 => i \in 1 .. n
    BY <1>1
<1>11. Def(f)
    <2>1. \A i \in 0 .. n : f[i] = IF i = 0 THEN b ELSE Step(f[i - 1], i)
        BY <1>6, <1>8, <1>10, Zenon
    <2>2. f = [i \in 0 .. n |-> f[i]]
        BY <1>6, Zenon
    <2> QED BY <2>1, <2>2, Zenon
<1>12. Def(v)
    <2> HIDE DEF Def
    <2> QED BY <1>11, Zenon
<1> HIDE DEF v
<1>13. \A i \in 0 .. n : v[i] = IF i = 0 THEN b ELSE Step(v[i - 1], i)
    BY <1>12, Zenon
<1> HIDE DEF Def
<1>14. 0 \in 0 .. n /\ n \in 0 .. n
    BY <1>1
<1>15. f[n] = v[n]
    <2>1. f[0] = v[0]
        BY <1>6, <1>13, <1>14, Zenon
    <2>2. \A i \in 1 .. n : f[i - 1] = v[i - 1] => f[i] = v[i]
        BY <1>7, <1>8, <1>13, Zenon
    <2>3. n \in Nat
        BY <1>1, Zenon
    <2>4. PICK g : g = v
        BY Zenon
    <2>5. f[0] = g[0] /\ \A i \in 1 .. n : f[i - 1] = g[i - 1] => f[i] = g[i]
        BY <2>1, <2>2, <2>4, Zenon
    <2>6. f[n] = g[n]
        <3> HIDE DEF n
        <3> QED BY <2>3, <2>5, RunsEnd, Zenon
    <2> QED BY <2>4, <2>6, Zenon
<1>16. f[n] \in S
    BY <1>6, <1>14, Zenon
<1> QED BY <1>3, <1>9, <1>15, <1>16, Zenon

\* A square filled up to one rank is ready for the next rank.
LEMMA BuiltNextRank ==
    ASSUME NEW b, NEW h, NEW k \in 1 .. 2, Built(b, h, k)
    PROVE  Built(b, h, k + 1)
<1>1. b.kept \in Seq(Txs)
    BY BuilderFacts, Zenon DEF Built
<1>2. ASSUME NEW i \in DOMAIN b.kept PROVE Rank(b.kept[i]) <= k + 1
    <2>1. Rank(b.kept[i]) <= k
        BY Zenon DEF Built
    <2>2. b.kept[i] \in Txs
        BY <1>1
    <2>3. Rank(b.kept[i]) \in 1 .. 3
        BY <2>2, Kinds, Zenon
    <2> QED BY <2>1, <2>3
<1> QED BY <1>2, Zenon DEF Built

\* A block that PrepareProposal builds from well-formed transactions passes ProcessProposal.
LEMMA FillAccepted ==
    ASSUME state \in States, NEW h \in Nat, NEW txs \in Seq(Txs), NEW cache \in SUBSET Begun(h),
           \A i \in DOMAIN txs : txs[i].wellFormed
    PROVE  Built(Fill(txs, h, cache), h, 3)
<1> DEFINE sep == SeparateTxs(txs)
           b0 == [st |-> state, square |-> <<>>, kept |-> <<>>, cache |-> cache]
           b1 == FillLoop(b0, txs, sep.normal, h)
           b2 == FillLoop(b1, txs, sep.blob, h)
<1>1. Fill(txs, h, cache) = FillLoop(b2, txs, sep.fibre, h)
    BY Zenon DEF Fill
<1>2. /\ \A i \in sep.normal : i \in DOMAIN txs /\ IsNormal(txs[i])
      /\ \A i \in sep.blob : i \in DOMAIN txs /\ IsBlob(txs[i])
      /\ \A i \in sep.fibre : i \in DOMAIN txs /\ IsFibre(txs[i])
    <2>1. \A i \in FilterByMaxBytes(txs) : i \in DOMAIN txs
        BY Zenon DEF FilterByMaxBytes
    <2> DEFINE A == {i \in FilterByMaxBytes(txs) : IsNormal(txs[i])}
               B == {i \in FilterByMaxBytes(txs) : IsBlob(txs[i])}
               C == {i \in FilterByMaxBytes(txs) : IsFibre(txs[i]) /\ txs[i].wellFormed}
    <2>2. sep = [normal |-> A, blob |-> B, fibre |-> C]
        BY Zenon DEF SeparateTxs
    <2>3. /\ \A i \in A : i \in DOMAIN txs /\ IsNormal(txs[i])
          /\ \A i \in B : i \in DOMAIN txs /\ IsBlob(txs[i])
          /\ \A i \in C : i \in DOMAIN txs /\ IsFibre(txs[i])
        BY <2>1, Zenon
    <2> HIDE DEF A, B, C, sep
    <2>4. sep.normal = A /\ sep.blob = B /\ sep.fibre = C
        BY <2>2, Zenon
    <2> QED BY <2>3, <2>4, Zenon
<1>3. \A i \in DOMAIN txs : txs[i] \in Txs
    OBVIOUS
<1> HIDE DEF sep
<1>4. /\ \A i \in sep.normal : txs[i].wellFormed /\ Rank(txs[i]) = 1
      /\ \A i \in sep.blob : txs[i].wellFormed /\ Rank(txs[i]) = 2
      /\ \A i \in sep.fibre : txs[i].wellFormed /\ Rank(txs[i]) = 3
    BY <1>2, <1>3, Kinds, Zenon
<1>5. 1 \in 1 .. 3 /\ 2 \in 1 .. 3 /\ 3 \in 1 .. 3 /\ 1 \in 1 .. 2 /\ 2 \in 1 .. 2 /\ 1 + 1 = 2 /\ 2 + 1 = 3
    OBVIOUS
<1>6. Built(b0, h, 1)
    <2>0. cache \in SUBSET Txs
        BY Zenon DEF Begun
    <2>1. /\ b0 \in Builders /\ b0.st = state /\ b0.kept = <<>> /\ b0.square = <<>>
          /\ DOMAIN <<>> = {} /\ b0.cache \subseteq Begun(h)
        BY <2>0 DEF Builders
    <2>2. PICK full \in SUBSET Txs : full = Begun(h)
        BY Zenon DEF Begun
    <2>3. Reference(<<>>, h) = Begin(full)
        <3>1. Processed(<<>>, h, {}, full) = Begin(full)
            BY ProcessEmpty, Zenon
        <3> QED BY <2>2, <3>1, Zenon DEF Reference
    <2>4. Begin(full).ok /\ Begin(full).txs = <<>> /\ Begin(full).st = state
        BY Zenon DEF Begin
    <2>5. Ahead(state, state)
        <3>1. state.bank \in [Signers -> Nat]
            BY StateFacts, Zenon
        <3> QED BY <3>1 DEF Ahead
    <2>6. Constructible(<<>>) /\ CountsOK(<<>>)
        <3>1. 0 <= MaxSquare /\ 0 <= MaxSDKMessages /\ 0 <= MaxPFBMessages /\ 0 <= MaxPayForFibreMessages
            BY ProposalAssumption
        <3> QED BY <2>1, <3>1, EmptySquare, Zenon DEF Constructible, CountsOK
    <2> HIDE DEF b0
    <2> QED BY <2>1, <2>3, <2>4, <2>5, <2>6, Zenon DEF Built, Verdict
<1>7. PICK c0 : c0 = b0
    BY Zenon
<1>8. Built(FillLoop(c0, txs, sep.normal, h), h, 1)
    BY <1>4, <1>5, <1>6, <1>7, BuiltFillLoop, Zenon
<1>9. PICK c1 : c1 = FillLoop(c0, txs, sep.normal, h)
    BY Zenon
<1>10. Built(c1, h, 2)
    BY <1>5, <1>8, <1>9, BuiltNextRank, Zenon
<1>11. Built(FillLoop(c1, txs, sep.blob, h), h, 2)
    BY <1>4, <1>5, <1>10, BuiltFillLoop, Zenon
<1>12. PICK c2 : c2 = FillLoop(c1, txs, sep.blob, h)
    BY Zenon
<1>13. Built(c2, h, 3)
    BY <1>5, <1>11, <1>12, BuiltNextRank, Zenon
<1>14. Built(FillLoop(c2, txs, sep.fibre, h), h, 3)
    BY <1>4, <1>5, <1>13, BuiltFillLoop, Zenon
<1> QED BY <1>1, <1>7, <1>9, <1>12, <1>14, Zenon

-----------------------------------------------------------------------------
(* Block proposals: FinalizeBlock                                          *)

\* s's escrow is left alone, and no promise of s was settled.
Untouched(s, st, r) ==
    /\ r.escrow[s] = st.escrow[s]
    /\ \A p \in r.processed : p.signer = s => p \in st.processed

\* What the messages of a transaction leave alone.
Executed(st, t, h, e) ==
    /\ e.st \in States /\ e.st.seq = st.seq
    /\ \A a \in Signers : ~(t.kind = "send" /\ t.signer = a) => e.st.bank[a] = st.bank[a]
    /\ \A s \in Signers : ~(t.kind \in {"timeout", "fibre"} /\ t.promise.signer = s) =>
          Untouched(s, st, e.st)
    /\ t.kind = "blob" => e.ok
    /\ t.kind = "fibre" => Charge(st, t.promise, InWindow(t.promise, h), e)

\* A charge touches the escrow of the promise's signer only.
LEMMA ChargeOthers ==
    ASSUME NEW st \in States, NEW p \in Promises, p.signer \in Signers, NEW allowed, NEW r,
           Charge(st, p, allowed, r), NEW s \in Signers, s # p.signer
    PROVE  Untouched(s, st, r.st)
<1>1. CASE r.ok
    <2>1. /\ r.st.escrow = [st.escrow EXCEPT ![p.signer] = st.escrow[p.signer] - p.amount]
          /\ r.st.processed = st.processed \cup {p}
        BY <1>1, Zenon DEF Charge
    <2>2. st.escrow \in [Signers -> Nat]
        BY StateFacts, Zenon
    <2>3. r.st.escrow[s] = st.escrow[s]
        BY <2>1, <2>2, Zenon
    <2> QED BY <2>1, <2>3, Zenon DEF Untouched
<1>2. CASE ~r.ok
    BY <1>2, Zenon DEF Charge, Untouched
<1> QED BY <1>1, <1>2, Zenon

\* ExecuteTxMsgs on a state of the accounts does what Executed says of it.
LEMMA ExecuteFacts ==
    ASSUME NEW st \in States, NEW t \in Txs, NEW h
    PROVE  Executed(st, t, h, ExecuteTxMsgs(st, t, h))
<1> SUFFICES ASSUME NEW e, e = ExecuteTxMsgs(st, t, h) PROVE Executed(st, t, h, e)
    BY Zenon
<1>0. /\ t.promise \in Promises /\ t.promise.signer \in Signers
      /\ t.kind \in {"send", "timeout", "blob", "fibre"}
    BY TxFacts, Zenon
<1>1. CASE t.kind = "fibre"
    <2>1. e = PayForFibre(st, t.promise, h)
        BY <1>1, Zenon DEF ExecuteTxMsgs
    <2>2. Charge(st, t.promise, InWindow(t.promise, h), e)
        BY <1>0, <2>1, ChargeFacts, Zenon
    <2>3. t.kind # "send" /\ t.kind # "blob" /\ t.kind \in {"timeout", "fibre"}
        BY <1>1, Zenon
    <2>4. ASSUME NEW s \in Signers, s # t.promise.signer
          PROVE  Untouched(s, st, e.st)
        BY <1>0, <2>2, <2>4, ChargeOthers, Zenon
    <2>5. e.st \in States /\ e.st.seq = st.seq /\ e.st.bank = st.bank
        BY <2>2, Zenon DEF Charge, SameAccounts
    <2> QED BY <2>2, <2>3, <2>4, <2>5, Zenon DEF Executed
<1>2. CASE t.kind = "timeout"
    <2>1. e = PaymentPromiseTimeout(st, t.promise, h)
        BY <1>2, Zenon DEF ExecuteTxMsgs
    <2>2. PICK allowed : Charge(st, t.promise, allowed, e)
        BY <1>0, <2>1, ChargeFacts, Zenon
    <2>3. t.kind # "send" /\ t.kind # "blob" /\ t.kind # "fibre" /\ t.kind \in {"timeout", "fibre"}
        BY <1>2, Zenon
    <2>4. ASSUME NEW s \in Signers, s # t.promise.signer
          PROVE  Untouched(s, st, e.st)
        BY <1>0, <2>2, <2>4, ChargeOthers, Zenon
    <2>5. e.st \in States /\ e.st.seq = st.seq /\ e.st.bank = st.bank
        BY <2>2, Zenon DEF Charge, SameAccounts
    <2> QED BY <2>3, <2>4, <2>5, Zenon DEF Executed
<1>3. CASE t.kind = "send"
    <2>1. e = Send(st, t)
        BY <1>3, Zenon DEF ExecuteTxMsgs
    <2>2. /\ e.st \in States /\ SameEscrow(e.st, st) /\ e.st.seq = st.seq
          /\ \A a \in Signers : a # t.signer => e.st.bank[a] = st.bank[a]
        BY <2>1, SendFacts
    <2>3. t.kind # "blob" /\ t.kind # "fibre"
        BY <1>3, Zenon
    <2> QED BY <1>3, <2>2, <2>3, Zenon DEF Executed, SameEscrow, Untouched
<1>4. CASE t.kind = "blob"
    <2>1. e = [ok |-> TRUE, st |-> st]
        BY <1>4, Zenon DEF ExecuteTxMsgs
    <2>2. e.ok /\ e.st = st
        BY <2>1
    <2>3. t.kind # "fibre"
        BY <1>4, Zenon
    <2> QED BY <2>2, <2>3, Zenon DEF Executed, Untouched
<1> QED BY <1>0, <1>1, <1>2, <1>3, <1>4, Zenon

\* The states of FinalizeBlock's loop.
Deliveries == [st : States, failed : SUBSET Txs]

\* One transaction: r is the outcome of the ante handler and e that of the messages.
Delivered(d, t, r, e, x) ==
    /\ x \in Deliveries
    /\ x.st = IF ~r.ok THEN d.st ELSE IF ~e.ok THEN r.st ELSE e.st
    /\ x.failed = IF r.ok /\ e.ok THEN d.failed ELSE d.failed \cup {t}

\* DeliverTx does what Delivered says: the ante chain, then the messages if it passed.
LEMMA DeliverTxFacts ==
    ASSUME NEW d \in Deliveries, NEW t \in Txs, NEW h, NEW cache
    PROVE  LET r == AnteHandler(d.st, t, h, cache)
           IN  Delivered(d, t, r, ExecuteTxMsgs(r.st, t, h), DeliverTx(d, t, h, cache))
<1> SUFFICES ASSUME NEW r, r = AnteHandler(d.st, t, h, cache),
                    NEW e, e = ExecuteTxMsgs(r.st, t, h),
                    NEW x, x = DeliverTx(d, t, h, cache)
             PROVE  Delivered(d, t, r, e, x)
    BY Zenon
<1>0. d = [st |-> d.st, failed |-> d.failed]
    BY Zenon DEF Deliveries
<1>1. d.st \in States /\ d.failed \in SUBSET Txs
    BY Zenon DEF Deliveries
<1>2. r.st \in States
    BY <1>1, AnteFacts, Zenon DEF AnteResult
<1>3. e.st \in States
    BY <1>2, ExecuteFacts, Zenon DEF Executed
<1>4. \A s \in States : \A f \in SUBSET Txs :
          \A y : y = [st |-> s, failed |-> f] => y \in Deliveries /\ y.st = s /\ y.failed = f
    BY DEF Deliveries
<1>5. d.failed \cup {t} \in SUBSET Txs
    BY <1>1, Zenon
<1>6. CASE ~r.ok
    <2>1. x = [d EXCEPT !.failed = d.failed \cup {t}]
        BY <1>6, Zenon DEF DeliverTx
    <2>2. x = [st |-> d.st, failed |-> d.failed \cup {t}]
        BY <1>0, <2>1, Zenon
    <2>3. x \in Deliveries /\ x.st = d.st /\ x.failed = d.failed \cup {t}
        BY <1>1, <1>5, <2>2, SMTT(30) DEF Deliveries
    <2> QED BY <1>6, <2>3, Zenon DEF Delivered
<1>7. CASE r.ok /\ ~e.ok
    <2>1. x = [st |-> r.st, failed |-> d.failed \cup {t}]
        BY <1>7, Zenon DEF DeliverTx
    <2>3. x \in Deliveries /\ x.st = r.st /\ x.failed = d.failed \cup {t}
        BY <1>2, <1>4, <1>5, <2>1, ZenonT(30)
    <2> QED BY <1>7, <2>3, Zenon DEF Delivered
<1>8. CASE r.ok /\ e.ok
    <2>1. x = [d EXCEPT !.st = e.st]
        BY <1>8, Zenon DEF DeliverTx
    <2>2. x = [st |-> e.st, failed |-> d.failed]
        BY <1>0, <2>1, Zenon
    <2>3. x \in Deliveries /\ x.st = e.st /\ x.failed = d.failed
        BY <1>1, <1>3, <2>2 DEF Deliveries
    <2> QED BY <1>8, <2>3, Zenon DEF Delivered
<1> QED BY <1>6, <1>7, <1>8, Zenon

\* The BeginBlocker pays the due withdrawals out of the escrow that covers them.
LEMMA BeginBlockFacts ==
    ASSUME NEW st \in States, NEW h \in Nat
    PROVE  LET r == BeginBlock(st, h)
           IN  /\ r \in States /\ SameAccounts(r, st) /\ r.processed = st.processed
               /\ \A s \in Signers : ~(h >= WithdrawAt /\ st.withdrawing[s] > 0) =>
                     r.escrow[s] = st.escrow[s]
<1> DEFINE e == [a \in Signers |-> st.escrow[a] - st.withdrawing[a]]
           z == [a \in Signers |-> 0]
           r == [bank |-> st.bank, seq |-> st.seq, escrow |-> e, withdrawing |-> z,
                 processed |-> st.processed]
<1>0. WithdrawAt \in Nat /\ Escrow \in Nat
    BY ProposalAssumption, Zenon
<1>1. CASE h < WithdrawAt
    <2>1. BeginBlock(st, h) = st
        BY <1>1, Zenon DEF BeginBlock
    <2> QED BY <2>1, Zenon DEF SameAccounts
<1>2. CASE ~(h < WithdrawAt)
    <2>1. BeginBlock(st, h) = r
        <3>1. BeginBlock(st, h) = [st EXCEPT !.escrow = e, !.withdrawing = z]
            BY <1>2, Zenon DEF BeginBlock
        <3>2. st = [bank |-> st.bank, seq |-> st.seq, escrow |-> st.escrow,
                    withdrawing |-> st.withdrawing, processed |-> st.processed]
            BY StateFacts, Zenon
        <3> HIDE DEF e, z
        <3> QED BY <3>1, <3>2, Zenon
    <2>2. /\ e \in [Signers -> Nat] /\ z \in [Signers -> Nat]
          /\ \A a \in Signers : z[a] <= e[a] /\ e[a] <= Escrow
        BY <1>0, StateFacts
    <2>3. \A s \in Signers : st.withdrawing[s] = 0 => e[s] = st.escrow[s]
        BY StateFacts
    <2>4. h >= WithdrawAt /\ \A s \in Signers : ~(st.withdrawing[s] > 0) => st.withdrawing[s] = 0
        BY <1>0, <1>2, StateFacts
    <2> HIDE DEF e, z
    <2>5. r \in States
        BY <2>2, StateFacts, StateIntro, Zenon
    <2>6. r.escrow = e /\ SameAccounts(r, st) /\ r.processed = st.processed
        BY Zenon DEF SameAccounts
    <2> HIDE DEF r
    <2> QED BY <2>1, <2>3, <2>4, <2>5, <2>6, Zenon
<1> QED BY <1>1, <1>2, Zenon

IsDelivery(txs, h, cache, d) ==
    /\ d \in [0 .. Len(txs) -> Deliveries] /\ d[0] = [st |-> BeginBlock(state, h), failed |-> {}]
    /\ \A i \in 1 .. Len(txs) : d[i] = DeliverTx(d[i - 1], txs[i], h, cache)

\* Deliver goes through the transactions in order.
LEMMA DeliverRuns ==
    ASSUME state \in States, NEW txs \in Seq(Txs), NEW h \in Nat, NEW cache
    PROVE  \E d : IsDelivery(txs, h, cache, d) /\ Deliver(txs, h, cache) = d[Len(txs)]
<1> DEFINE n == Len(txs)
           F == [x \in Deliveries \X (1 .. n) |-> DeliverTx(x[1], txs[x[2]], h, cache)]
           begin == [st |-> BeginBlock(state, h), failed |-> {}]
<1>1. n \in Nat /\ \A i \in 1 .. n : txs[i] \in Txs
    OBVIOUS
<1>2. ASSUME NEW s \in Deliveries, NEW i \in 1 .. n
      PROVE  F[<<s, i>>] = DeliverTx(s, txs[i], h, cache) /\ F[<<s, i>>] \in Deliveries
    <2>1. F[<<s, i>>] = DeliverTx(s, txs[i], h, cache)
        BY Zenon
    <2> QED BY <1>1, <2>1, DeliverTxFacts, Zenon DEF Delivered
<1> HIDE DEF F
<1>3. PICK f : /\ f \in [0 .. n -> Deliveries] /\ f[0] = begin
               /\ \A i \in 1 .. n : f[i] = F[<<f[i - 1], i>>]
    <2>1. \A i \in 1 .. n : \A s \in Deliveries : F[<<s, i>>] \in Deliveries
        BY <1>2, Zenon
    <2>2. PICK b \in Deliveries : b = begin
        <3>1. BeginBlock(state, h) \in States
            BY BeginBlockFacts, Zenon
        <3>2. begin \in Deliveries
            BY <3>1, Zenon DEF Deliveries
        <3> QED BY <3>2, Zenon
    <2>3. \E f : IsRun(n, Deliveries, b, F, f)
        <3>1. n \in Nat
            BY <1>1, Zenon
        <3> QED BY <2>1, <3>1, RunExists, Zenon
    <2> QED BY <2>2, <2>3, Zenon DEF IsRun
<1>4. \A i \in 1 .. n : i - 1 \in 0 .. n /\ i \in 0 .. n /\ i # 0
    BY <1>1
<1>5. \A i \in 1 .. n : f[i] = DeliverTx(f[i - 1], txs[i], h, cache)
    BY <1>2, <1>3, <1>4, Zenon
<1> DEFINE Def(g) == g = [i \in 0 .. n |-> IF i = 0 THEN begin
                                           ELSE DeliverTx(g[i - 1], txs[i], h, cache)]
           v == CHOOSE g : Def(g)
<1>6. Deliver(txs, h, cache) = v[n]
    BY Zenon DEF Deliver
<1> HIDE DEF begin
<1>7. \A i \in 0 .. n : i # 0 => i \in 1 .. n
    BY <1>1
<1>8. Def(f)
    <2>1. \A i \in 0 .. n : f[i] = IF i = 0 THEN begin
                                   ELSE DeliverTx(f[i - 1], txs[i], h, cache)
        BY <1>3, <1>5, <1>7, Zenon
    <2>2. f = [i \in 0 .. n |-> f[i]]
        BY <1>3, Zenon
    <2> QED BY <2>1, <2>2, Zenon
<1>9. Def(v)
    <2> HIDE DEF Def
    <2> QED BY <1>8, Zenon
<1> HIDE DEF v
<1>10. \A i \in 0 .. n : v[i] = IF i = 0 THEN begin
                                ELSE DeliverTx(v[i - 1], txs[i], h, cache)
    BY <1>9, Zenon
<1> HIDE DEF Def
<1>11. 0 \in 0 .. n /\ n \in Nat
    BY <1>1
<1>12. f[n] = v[n]
    <2>1. f[0] = v[0]
        BY <1>3, <1>10, <1>11, Zenon
    <2>2. \A i \in 1 .. n : f[i - 1] = v[i - 1] => f[i] = v[i]
        BY <1>4, <1>5, <1>10, Zenon
    <2>3. PICK g : g = v
        BY Zenon
    <2>4. f[0] = g[0] /\ \A i \in 1 .. n : f[i - 1] = g[i - 1] => f[i] = g[i]
        BY <2>1, <2>2, <2>3, Zenon
    <2>5. f[n] = g[n]
        <3> HIDE DEF n
        <3> QED BY <1>11, <2>4, RunsEnd, Zenon
    <2> QED BY <2>3, <2>5, Zenon
<1>13. IsDelivery(txs, h, cache, f)
    BY <1>3, <1>5, Zenon DEF IsDelivery, begin
<1> QED BY <1>6, <1>12, <1>13, Zenon

\* A block whose signatures verify leaves the same state, whatever a node has cached.
LEMMA DeliverSame ==
    ASSUME state \in States, NEW txs \in Seq(Txs), NEW h \in Nat, NEW cache,
           \A i \in DOMAIN txs : IsFibre(txs[i]) => SignaturesVerify(txs[i], h)
    PROVE  Deliver(txs, h, cache) = Deliver(txs, h, {})
<1> DEFINE n == Len(txs)
<1>1. n \in Nat /\ DOMAIN txs = 1 .. n
    OBVIOUS
<1>2. PICK f : IsDelivery(txs, h, cache, f) /\ Deliver(txs, h, cache) = f[n]
    BY DeliverRuns, Zenon
<1>3. PICK g : IsDelivery(txs, h, {}, g) /\ Deliver(txs, h, {}) = g[n]
    BY DeliverRuns, Zenon
<1>4. ASSUME NEW i \in 1 .. n, NEW d
      PROVE  DeliverTx(d, txs[i], h, cache) = DeliverTx(d, txs[i], h, {})
    <2>1. SigsOK(txs[i], h, cache) /\ SigsOK(txs[i], h, {})
        BY <1>1, Zenon DEF SigsOK, IsFibre
    <2>2. AnteHandler(d.st, txs[i], h, cache) = AnteHandler(d.st, txs[i], h, {})
        BY <2>1, Zenon DEF AnteHandler
    <2> QED BY <2>2, Zenon DEF DeliverTx
<1>5. f[0] = g[0] /\ \A i \in 1 .. n : f[i - 1] = g[i - 1] => f[i] = g[i]
    BY <1>2, <1>3, <1>4, Zenon DEF IsDelivery
<1>6. f[n] = g[n]
    <2>1. n \in Nat
        BY <1>1, Zenon
    <2> HIDE DEF n
    <2> QED BY <1>5, <2>1, RunsEnd, Zenon
<1> QED BY <1>2, <1>3, <1>6, Zenon

\* What FinalizeBlock executes and the proposal handlers do not.
Sends(a, txs) == \E i \in DOMAIN txs : txs[i].kind = "send" /\ txs[i].signer = a

Drains(s, txs, h) ==
    \/ \E i \in DOMAIN txs : txs[i].kind = "timeout" /\ txs[i].promise.signer = s
    \/ h >= WithdrawAt /\ state.withdrawing[s] > 0

\* What settles for s in state p settles in state q.
Covered(s, p, q) ==
    /\ p.escrow[s] <= q.escrow[s]
    /\ \A c \in q.processed : c.signer = s => c \in p.processed

\* The state p of ProcessProposal's loop and the delivery d of the same transactions: only
\* accounts that a message of the block drains differ, and only they leave data unpaid.
Paid(txs, h, p, d) ==
    /\ \A a \in Signers : ~Sends(a, txs) => p.bank[a] = d.st.bank[a] /\ p.seq[a] = d.st.seq[a]
    /\ \A s \in Signers : ~Drains(s, txs, h) => Covered(s, p, d.st)
    /\ \A t \in d.failed : IsNormal(t) \/ Drained(t, txs, h)

\* A charge that ProcessProposal could make, FinalizeBlock can make as well, and it stays
\* ahead of ProcessProposal whether or not it makes it.
LEMMA CoveredCharge ==
    ASSUME NEW s \in Signers, NEW p \in States, NEW q \in States, Covered(s, p, q),
           NEW c \in Promises, c.signer = s, c.amount \in Nat, NEW allowed,
           NEW e, Charge(p, c, allowed, e), e.ok, NEW m, Charge(q, c, allowed, m)
    PROVE  m.ok /\ Covered(s, e.st, m.st) /\ Covered(s, e.st, q)
<1>1. /\ p.escrow \in [Signers -> Nat] /\ q.escrow \in [Signers -> Nat]
      /\ p.escrow[s] \in Nat /\ q.escrow[s] \in Nat
    BY StateFacts, Zenon
<1>2. /\ c \notin p.processed /\ p.escrow[s] >= c.amount /\ allowed
      /\ e.st.escrow = [p.escrow EXCEPT ![s] = p.escrow[s] - c.amount]
      /\ e.st.processed = p.processed \cup {c}
    BY Zenon DEF Charge, Settleable
<1>3. p.escrow[s] <= q.escrow[s] /\ \A x \in q.processed : x.signer = s => x \in p.processed
    BY Zenon DEF Covered
<1>4. q.escrow[s] >= c.amount /\ c \notin q.processed
    <2>1. q.escrow[s] >= c.amount
        BY <1>1, <1>2, <1>3
    <2> QED BY <1>2, <1>3, <2>1, Zenon
<1>5. m.ok
    BY <1>2, <1>4, Zenon DEF Charge, Settleable
<1>6. /\ m.st.escrow = [q.escrow EXCEPT ![s] = q.escrow[s] - c.amount]
      /\ m.st.processed = q.processed \cup {c}
    BY <1>5, Zenon DEF Charge
<1>7. /\ e.st.escrow[s] <= m.st.escrow[s] /\ e.st.escrow[s] <= q.escrow[s]
    BY <1>1, <1>2, <1>3, <1>6
<1>8. /\ \A x \in m.st.processed : x.signer = s => x \in e.st.processed
      /\ \A x \in q.processed : x.signer = s => x \in e.st.processed
    BY <1>2, <1>3, <1>6, Zenon
<1> QED BY <1>5, <1>7, <1>8, Zenon DEF Covered

\* One transaction that ProcessProposal accepts keeps every fibre transaction delivered so
\* far paid for.
LEMMA PaidStep ==
    ASSUME NEW txs \in Seq(Txs), NEW h \in Nat, NEW t \in Txs, NEW j \in DOMAIN txs, t = txs[j],
           NEW cache, IsFibre(t) => t \in cache,
           NEW v \in Verdicts, NEW d \in Deliveries, Paid(txs, h, v.st, d),
           NEW w, w = ProcessTx(v, t, h, {}), w.ok, NEW x, x = DeliverTx(d, t, h, cache)
    PROVE  Paid(txs, h, w.st, x)
<1>0. PICK r, e, q, m : /\ r = AnteHandler(v.st, t, h - 1, v.cache)
                        /\ e = PayForFibre(r.st, t.promise, h)
                        /\ q = AnteHandler(d.st, t, h, cache)
                        /\ m = ExecuteTxMsgs(q.st, t, h)
    BY Zenon
<1>1. /\ t.signer \in Signers /\ t.fee \in Nat /\ t.promise \in Promises
      /\ t.promise.signer \in Signers /\ t.promise.amount \in Nat
      /\ v.st \in States /\ d.st \in States
    BY TxFacts, VerdictFacts, Zenon DEF Deliveries
<1>2. AnteResult(v.st, t, SigsOK(t, h - 1, v.cache), r) /\ AnteResult(d.st, t, SigsOK(t, h, cache), q)
    BY <1>0, <1>1, AnteFacts, Zenon
<1>3. r.st \in States /\ q.st \in States /\ SameEscrow(r.st, v.st) /\ SameEscrow(q.st, d.st)
    BY <1>2, Zenon DEF AnteResult
<1>4. Charge(r.st, t.promise, InWindow(t.promise, h), e) /\ Executed(q.st, t, h, m)
    BY <1>0, <1>1, <1>3, ChargeFacts, ExecuteFacts, ZenonT(30)
<1>5. Iterated(v, t, {}, r, e, w) /\ Delivered(d, t, q, m, x)
    BY <1>0, ProcessTxFacts, DeliverTxFacts, Zenon
<1>6. r.ok /\ (IsFibre(t) => e.ok) /\ w.st = IF IsFibre(t) THEN e.st ELSE r.st
    BY <1>5, Zenon DEF Iterated
<1>7. SameAccounts(w.st, r.st)
    BY <1>4, <1>6, Zenon DEF Charge, SameAccounts
<1>8. SigsOK(t, h, cache)
    BY Zenon DEF SigsOK, IsFibre
<1>9. /\ v.st.bank[t.signer] >= t.fee /\ v.st.seq[t.signer] = t.seq
      /\ r.st.bank = [v.st.bank EXCEPT ![t.signer] = v.st.bank[t.signer] - t.fee]
      /\ r.st.seq = [v.st.seq EXCEPT ![t.signer] = v.st.seq[t.signer] + 1]
    BY <1>2, <1>6, Zenon DEF AnteResult
<1>10. q.ok => /\ q.st.bank = [d.st.bank EXCEPT ![t.signer] = d.st.bank[t.signer] - t.fee]
               /\ q.st.seq = [d.st.seq EXCEPT ![t.signer] = d.st.seq[t.signer] + 1]
    BY <1>2, Zenon DEF AnteResult
<1>11. ~Sends(t.signer, txs) => q.ok
    BY <1>1, <1>2, <1>8, <1>9, Zenon DEF Paid, AnteResult
<1>12. x.st = (IF ~q.ok THEN d.st ELSE IF ~m.ok THEN q.st ELSE m.st)
    BY <1>5, Zenon DEF Delivered
<1>13. /\ v.st.bank \in [Signers -> Nat] /\ v.st.seq \in [Signers -> Nat]
       /\ d.st.bank \in [Signers -> Nat] /\ d.st.seq \in [Signers -> Nat]
    BY <1>1, StateFacts, Zenon
<1>14. ASSUME NEW a \in Signers, ~Sends(a, txs)
       PROVE  w.st.bank[a] = x.st.bank[a] /\ w.st.seq[a] = x.st.seq[a]
    <2>1. v.st.bank[a] = d.st.bank[a] /\ v.st.seq[a] = d.st.seq[a]
        BY <1>14, Zenon DEF Paid
    <2>2. w.st.bank[a] = r.st.bank[a] /\ w.st.seq[a] = r.st.seq[a]
        BY <1>7, Zenon DEF SameAccounts
    <2>3. m.st.bank[a] = q.st.bank[a] /\ m.st.seq[a] = q.st.seq[a]
        BY <1>4, <1>14, Zenon DEF Executed, Sends
    <2>4. q.ok => r.st.bank[a] = q.st.bank[a] /\ r.st.seq[a] = q.st.seq[a]
        <3> SUFFICES ASSUME q.ok PROVE r.st.bank[a] = q.st.bank[a] /\ r.st.seq[a] = q.st.seq[a]
            BY Zenon
        <3>1. CASE a = t.signer
            <4>1. r.st.bank[a] = v.st.bank[a] - t.fee /\ r.st.seq[a] = v.st.seq[a] + 1
                BY <1>9, <1>13, <3>1, Zenon
            <4>2. q.st.bank[a] = d.st.bank[a] - t.fee /\ q.st.seq[a] = d.st.seq[a] + 1
                BY <1>10, <1>13, <3>1, ZenonT(30)
            <4> QED BY <2>1, <4>1, <4>2, Zenon
        <3>2. CASE a # t.signer
            <4>1. r.st.bank[a] = v.st.bank[a] /\ r.st.seq[a] = v.st.seq[a]
                BY <1>9, <1>13, <3>2, ZenonT(30)
            <4>2. q.st.bank[a] = d.st.bank[a] /\ q.st.seq[a] = d.st.seq[a]
                BY <1>10, <1>13, <3>2, SMTT(30)
            <4> QED BY <2>1, <4>1, <4>2, Zenon
        <3> QED BY <3>1, <3>2, Zenon
    <2>5. ~q.ok => r.st.bank[a] = d.st.bank[a] /\ r.st.seq[a] = d.st.seq[a]
        <3> SUFFICES ASSUME ~q.ok PROVE r.st.bank[a] = d.st.bank[a] /\ r.st.seq[a] = d.st.seq[a]
            BY Zenon
        <3>1. a # t.signer
            BY <1>11, <1>14, Zenon
        <3>2. r.st.bank[a] = v.st.bank[a] /\ r.st.seq[a] = v.st.seq[a]
            BY <1>9, <1>13, <3>1, ZenonT(30)
        <3> QED BY <2>1, <3>2, Zenon
    <2> QED BY <1>12, <2>2, <2>3, <2>4, <2>5, ZenonT(30)
<1>15. ASSUME NEW s \in Signers, ~Drains(s, txs, h), IsFibre(t), t.promise.signer = s
       PROVE  /\ q.ok => m.ok
              /\ Covered(s, w.st, x.st)
    <2>1. Covered(s, r.st, q.st)
        BY <1>3, <1>15, Zenon DEF Paid, Covered, SameEscrow
    <2>2. Charge(q.st, t.promise, InWindow(t.promise, h), m) /\ e.ok /\ w.st = e.st
        BY <1>4, <1>6, <1>15, Zenon DEF Executed, IsFibre
    <2>3. m.ok /\ Covered(s, e.st, m.st) /\ Covered(s, e.st, q.st)
        BY <1>1, <1>3, <1>4, <1>15, <2>1, <2>2, CoveredCharge, ZenonT(30)
    <2>4. Covered(s, e.st, d.st)
        BY <1>3, <2>3, Zenon DEF Covered, SameEscrow
    <2>5. x.st = IF q.ok THEN m.st ELSE d.st
        BY <1>12, <2>3, Zenon
    <2> QED BY <2>2, <2>3, <2>4, <2>5, Zenon
<1>16. ASSUME NEW s \in Signers, ~Drains(s, txs, h), ~(IsFibre(t) /\ t.promise.signer = s)
       PROVE  Covered(s, w.st, x.st)
    <2>1. Covered(s, v.st, d.st)
        BY <1>16, Zenon DEF Paid
    <2>2. w.st.escrow[s] = v.st.escrow[s] /\ \A c \in v.st.processed : c \in w.st.processed
        <3>1. CASE IsFibre(t)
            <4>1. e.ok /\ w.st = e.st /\ s # t.promise.signer
                BY <1>6, <1>16, <3>1, Zenon
            <4>2. Untouched(s, r.st, e.st)
                BY <1>1, <1>3, <1>4, <4>1, ChargeOthers, ZenonT(30)
            <4>3. e.st.processed = r.st.processed \cup {t.promise}
                BY <1>4, <4>1, Zenon DEF Charge
            <4> QED BY <1>3, <4>1, <4>2, <4>3, ZenonT(30) DEF Untouched, SameEscrow
        <3>2. CASE ~IsFibre(t)
            BY <1>3, <1>6, <3>2, Zenon DEF SameEscrow
        <3> QED BY <3>1, <3>2, Zenon
    <2>3. ~(t.kind \in {"timeout", "fibre"} /\ t.promise.signer = s)
        <3>1. ~(t.kind = "timeout" /\ t.promise.signer = s)
            BY <1>16, Zenon DEF Drains
        <3> QED BY <1>16, <3>1, Zenon DEF IsFibre
    <2>4. Untouched(s, q.st, m.st)
        BY <1>4, <2>3, Zenon DEF Executed
    <2>5. Untouched(s, d.st, x.st)
        BY <1>3, <1>12, <2>4, Zenon DEF Untouched, SameEscrow
    <2> QED BY <2>1, <2>2, <2>5, Zenon DEF Covered, Untouched
<1>17. ASSUME NEW c \in x.failed, ~IsNormal(c) PROVE Drained(c, txs, h)
    <2>1. CASE c \in d.failed
        BY <1>17, <2>1, Zenon DEF Paid
    <2>2. CASE c \notin d.failed
        <3>1. c = t /\ ~(q.ok /\ m.ok)
            BY <1>5, <1>17, <2>2, Zenon DEF Delivered
        <3>2. CASE ~q.ok
            BY <1>11, <3>1, <3>2, Zenon DEF Sends, Drained
        <3>3. CASE q.ok
            <4>1. t.kind # "blob"
                BY <1>4, <3>1, <3>3, ZenonT(30) DEF Executed
            <4>2. IsFibre(t)
                BY <1>17, <3>1, <4>1, Kinds, TxFacts, Zenon DEF IsFibre, IsNormal, Normal
            <4>3. Drains(t.promise.signer, txs, h)
                BY <1>1, <1>15, <3>1, <3>3, <4>2, Zenon
            <4> QED BY <3>1, <4>2, <4>3, Zenon DEF Drains, Drained
        <3> QED BY <3>2, <3>3, Zenon
    <2> QED BY <2>1, <2>2, Zenon
<1> QED BY <1>14, <1>15, <1>16, <1>17, Zenon DEF Paid

\* An accepted block: no transaction of it was refused on the way.
LEMMA AcceptedThroughout ==
    ASSUME NEW n \in Nat, NEW v, \A i \in 1 .. n : v[i].ok => v[i - 1].ok, v[n].ok
    PROVE  \A i \in 0 .. n : v[i].ok
<1> DEFINE T == {k \in Nat : k <= n => v[n - k].ok}
<1>1. 0 \in T
    OBVIOUS
<1>2. ASSUME NEW k \in Nat, k \in T PROVE k + 1 \in T
    <2> SUFFICES ASSUME k + 1 <= n PROVE v[n - (k + 1)].ok
        OBVIOUS
    <2>1. k <= n /\ n - k \in 1 .. n /\ (n - k) - 1 = n - (k + 1)
        OBVIOUS
    <2>2. v[n - k].ok
        BY <1>2, <2>1, Zenon
    <2> QED BY <2>1, <2>2, Zenon
<1>3. Nat \subseteq T
    <2> HIDE DEF T
    <2> QED BY <1>1, <1>2, NaturalsIn, Zenon
<1>4. ASSUME NEW i \in 0 .. n PROVE v[i].ok
    <2>1. n - i \in Nat /\ n - i <= n /\ n - (n - i) = i
        OBVIOUS
    <2>2. n - i \in T
        BY <1>3, <2>1, Zenon
    <2>3. v[n - (n - i)].ok
        BY <2>1, <2>2, Zenon
    <2> QED BY <2>1, <2>3, Zenon
<1> QED BY <1>4, Zenon

\* What a block that ProcessProposal accepts leaves unpaid, on a node that has cached its
\* signatures, was drained in that block.
LEMMA BlockPaid ==
    ASSUME state \in States, NEW txs \in Seq(Txs), NEW h \in Nat, Verdict(txs, h),
           NEW cache, \A i \in DOMAIN txs : IsFibre(txs[i]) => txs[i] \in cache
    PROVE  /\ Deliver(txs, h, cache) \in Deliveries
           /\ \A t \in Deliver(txs, h, cache).failed : IsNormal(t) \/ Drained(t, txs, h)
<1> DEFINE n == Len(txs)
<1>1. n \in Nat /\ DOMAIN txs = 1 .. n /\ \A i \in 1 .. n : txs[i] \in Txs
    OBVIOUS
<1>2. PICK full \in SUBSET Txs : full = Begun(h)
    BY Zenon DEF Begun
<1>3. PICK v : IsProcess(txs, h, {}, full, v) /\ Processed(txs, h, {}, full) = v[n]
    BY ProcessRuns, Zenon
<1>4. PICK d : IsDelivery(txs, h, cache, d) /\ Deliver(txs, h, cache) = d[n]
    BY DeliverRuns, Zenon
<1>5. \A i \in 1 .. n : i \in 0 .. n /\ i - 1 \in 0 .. n
    BY <1>1
<1>6. \A i \in 0 .. n : v[i] \in Verdicts /\ d[i] \in Deliveries
    BY <1>3, <1>4, Zenon DEF IsProcess, IsDelivery
<1>7. \A i \in 1 .. n : v[i] = ProcessTx(v[i - 1], txs[i], h, {}) /\ d[i] = DeliverTx(d[i - 1], txs[i], h, cache)
    BY <1>3, <1>4, Zenon DEF IsProcess, IsDelivery
<1>8. ASSUME NEW i \in 1 .. n, v[i].ok PROVE v[i - 1].ok
    <2>1. PICK r, e : Iterated(v[i - 1], txs[i], {}, r, e, ProcessTx(v[i - 1], txs[i], h, {}))
        BY <1>1, <1>5, <1>6, ProcessTxFacts, Zenon
    <2> QED BY <1>7, <1>8, <2>1, Zenon DEF Iterated, Screened
<1>9. \A i \in 0 .. n : v[i].ok
    <2>1. v[n].ok
        BY <1>2, <1>3, Zenon DEF Verdict, Reference
    <2>2. n \in Nat
        BY <1>1, Zenon
    <2> HIDE DEF n
    <2>3. ASSUME NEW i \in 0 .. n PROVE v[i].ok
        BY <1>8, <2>1, <2>2, AcceptedThroughout, Zenon
    <2> QED BY <2>3, Zenon
<1>11. ASSUME NEW i \in 1 .. n, Paid(txs, h, v[i - 1].st, d[i - 1])
       PROVE  Paid(txs, h, v[i].st, d[i])
    <2>1. v[i - 1] \in Verdicts /\ d[i - 1] \in Deliveries /\ txs[i] \in Txs /\ v[i].ok /\ i \in DOMAIN txs
        BY <1>1, <1>5, <1>6, <1>9, Zenon
    <2>2. IsFibre(txs[i]) => txs[i] \in cache
        BY <2>1, Zenon
    <2>3. v[i] = ProcessTx(v[i - 1], txs[i], h, {}) /\ d[i] = DeliverTx(d[i - 1], txs[i], h, cache)
        BY <1>7, Zenon
    <2> QED BY <1>11, <2>1, <2>2, <2>3, PaidStep, ZenonT(30)
<1>12. Paid(txs, h, v[0].st, d[0])
    <2>1. v[0].st = state
        BY <1>3 DEF IsProcess, Begin
    <2>2. d[0].st = BeginBlock(state, h) /\ d[0].failed = {}
        BY <1>4 DEF IsDelivery
    <2>3. PICK r : r = BeginBlock(state, h)
        BY Zenon
    <2>4. /\ SameAccounts(r, state) /\ r.processed = state.processed
          /\ \A s \in Signers : ~(h >= WithdrawAt /\ state.withdrawing[s] > 0) =>
                r.escrow[s] = state.escrow[s]
        BY <2>3, BeginBlockFacts, Zenon
    <2>5. \A s \in Signers : state.escrow[s] <= state.escrow[s]
        <3>1. state.escrow \in [Signers -> Nat]
            BY StateFacts, Zenon
        <3> QED BY <3>1
    <2>6. \A s \in Signers : ~Drains(s, txs, h) => Covered(s, state, r)
        BY <2>4, <2>5, Zenon DEF Drains, Covered
    <2> QED BY <2>1, <2>2, <2>3, <2>4, <2>6, Zenon DEF Paid, SameAccounts
<1>13. Paid(txs, h, v[n].st, d[n])
    <2>0. PICK T : \A i : i \in T <=> i \in Nat /\ (i <= n => Paid(txs, h, v[i].st, d[i]))
        <3> WITNESS {i \in Nat : i <= n => Paid(txs, h, v[i].st, d[i])}
        <3> QED BY Zenon
    <2>1. 0 \in T
        BY <1>12, <2>0, Zenon
    <2>2. ASSUME NEW k \in Nat, k \in T PROVE k + 1 \in T
        <3>1. CASE k + 1 <= n
            <4>1. k <= n /\ k + 1 \in 1 .. n /\ (k + 1) - 1 = k /\ k + 1 \in Nat
                BY <1>1, <3>1
            <4>2. Paid(txs, h, v[k].st, d[k])
                BY <2>0, <2>2, <4>1, Zenon
            <4>3. Paid(txs, h, v[k + 1].st, d[k + 1])
                BY <1>11, <4>1, <4>2, Zenon
            <4> QED BY <2>0, <4>1, <4>3, Zenon
        <3>2. CASE ~(k + 1 <= n)
            <4>1. k + 1 \in Nat
                OBVIOUS
            <4> QED BY <2>0, <3>2, <4>1, Zenon
        <3> QED BY <3>1, <3>2, Zenon
    <2>3. Nat \subseteq T
        BY <2>1, <2>2, NaturalsIn, Zenon
    <2>4. n \in Nat /\ n <= n
        BY <1>1
    <2> QED BY <2>0, <2>3, <2>4, Zenon
<1>14. n \in 0 .. n
    BY <1>1
<1> QED BY <1>4, <1>6, <1>13, <1>14, Zenon DEF Paid

-----------------------------------------------------------------------------
(* Block proposals: the invariant                                          *)

\* The verdict of a node that has checked every signature it could have: what the committed
\* state and the chain's height determine.
Accepts(s, txs, square, h) ==
    ProcessTxs(s, txs, h, {}, Begun(h)).ok /\ Constructible(txs) /\ square = txs

Accepted == Accepts(state, proposal.txs, proposal.square, height + 1)

\* The signatures of the proposal are in this cache, and its promises within the window.
Checked(txs, h, cache) ==
    \A i \in DOMAIN txs : IsFibre(txs[i]) => txs[i] \in cache /\ InWindow(txs[i].promise, h)

\* The state is well-formed, the mempools hold transactions that CheckTx validated, a cached
\* signature is one that a committed state has vouched for.
PoolInv ==
    /\ mempool \in [Nodes -> SUBSET Txs] /\ txCache \in [Nodes -> SUBSET Txs]
    /\ pffSigCache \in [Nodes -> SUBSET Txs]
    /\ \A n \in Nodes : /\ IsFiniteSet(mempool[n])
                        /\ \A t \in mempool[n] : t.wellFormed
                        /\ \A t \in txCache[n] : t.wellFormed
                        /\ pffSigCache[n] \subseteq Begun(height + 1)

\* A verdict on the round's proposal: only what the reference accepts is accepted, by a node
\* that has its signatures cached; and where the history suffices, all of that.
Voted(n) ==
    /\ verdict[n] = "accept" => Accepted /\ Checked(proposal.txs, height + 1, pffSigCache[n])
    /\ verdict[n] = "reject" => ~(Accepted /\ Sure(proposal.txs, height + 1))

\* The proposal of the round can be executed, and an own proposal is acceptable.
RoundInv ==
    /\ verdict \in [Nodes -> {"none", "accept", "reject"}]
    /\ proposal = NoProposal => \A n \in Nodes : verdict[n] = "none"
    /\ proposal # NoProposal => height < MaxHeight /\ proposal.txs \in Seq(Txs)
    /\ \A n \in Nodes : Voted(n)
    /\ proposal.own => proposal # NoProposal /\ Accepted

ProposalInv ==
    /\ height \in 1 .. MaxHeight /\ state \in States
    /\ PoolInv /\ RoundInv
    /\ PaidUnlessDrained

\* A node's verdict on the proposal against the one of the reference.
LEMMA AcceptedByAll ==
    ASSUME ProposalInv, proposal # NoProposal, NEW n \in Nodes,
           NEW p, p = Processed(proposal.txs, height + 1, txCache[n], pffSigCache[n])
    PROVE  /\ height + 1 \in Nat
           /\ Accepted <=> Verdict(proposal.txs, height + 1) /\ Constructible(proposal.txs)
                           /\ proposal.square = proposal.txs
           /\ p.ok => Verdict(proposal.txs, height + 1) /\ Checked(proposal.txs, height + 1, p.cache)
           /\ Sure(proposal.txs, height + 1) /\ Verdict(proposal.txs, height + 1) => p.ok
           /\ p.cache \in SUBSET Txs /\ p.cache \subseteq Begun(height + 1)
<1>1. height + 1 \in Nat
    BY ProposalAssumption DEF ProposalInv
<1>2. /\ state \in States /\ proposal.txs \in Seq(Txs) /\ pffSigCache[n] \subseteq Begun(height + 1)
      /\ \A x \in txCache[n] : x.wellFormed
    BY Zenon DEF ProposalInv, PoolInv, RoundInv
<1>3. PICK txs, h, blobs, cache :
         /\ txs = proposal.txs /\ h = height + 1 /\ blobs = txCache[n] /\ cache = pffSigCache[n]
    BY Zenon
<1>4. /\ txs \in Seq(Txs) /\ h \in Nat /\ cache \subseteq Begun(h) /\ \A x \in blobs : x.wellFormed
      /\ p = Processed(txs, h, blobs, cache)
    BY <1>1, <1>2, <1>3, Zenon
<1>5. /\ p.cache \subseteq Begun(h) /\ (p.ok => Verdict(txs, h) /\ Checked(txs, h, p.cache))
      /\ Sure(txs, h) /\ Verdict(txs, h) => p.ok
    BY <1>2, <1>4, CachesAgree, Zenon DEF Checked
<1>6. p.cache \in SUBSET Txs
    BY <1>5, Zenon DEF Begun
<1>7. Accepted <=> Verdict(txs, h) /\ Constructible(txs) /\ proposal.square = txs
    BY <1>3, Zenon DEF Accepted, Accepts, Verdict, Reference, Processed
<1> QED BY <1>1, <1>3, <1>5, <1>6, <1>7, Zenon

\* The first state satisfies the invariant.
LEMMA ProposalInitInv ==
    ASSUME ProposalInit
    PROVE  ProposalInv
<1>1. height \in 1 .. MaxHeight
    BY ProposalAssumption DEF ProposalInit
<1>2. state \in States
    <2> DEFINE b == [a \in Signers |-> Funds]
               q == [a \in Signers |-> 0]
               e == [a \in Signers |-> Escrow]
    <2>1. /\ b \in [Signers -> Nat] /\ q \in [Signers -> Nat] /\ e \in [Signers -> Nat]
          /\ Requested \in [Signers -> Nat] /\ {} \in SUBSET Promises
          /\ \A a \in Signers : b[a] <= Funds /\ Requested[a] <= e[a] /\ e[a] <= Escrow
        BY ProposalAssumption, SMTT(30)
    <2>2. state = [bank |-> b, seq |-> q, escrow |-> e, withdrawing |-> Requested, processed |-> {}]
        BY Zenon DEF ProposalInit
    <2> HIDE DEF b, q, e
    <2> QED BY <2>1, <2>2, StateIntro, Zenon
<1>3. PoolInv
    BY FS_EmptySet, Zenon DEF ProposalInit, PoolInv
<1>4. RoundInv
    <2>1. /\ verdict \in [Nodes -> {"none", "accept", "reject"}]
          /\ \A n \in Nodes : verdict[n] = "none"
        BY Zenon DEF ProposalInit
    <2>2. ~proposal.own /\ proposal = NoProposal
        BY Zenon DEF ProposalInit, NoProposal
    <2> QED BY <2>1, <2>2, Zenon DEF RoundInv, Voted
<1> QED BY <1>1, <1>2, <1>3, <1>4, Zenon DEF ProposalInv, PaidUnlessDrained, ProposalInit

\* The steps that leave the round alone, and forget no signature.
LEMMA RoundKept ==
    ASSUME RoundInv, UNCHANGED <<height, state, proposal, verdict>>,
           \A n \in Nodes : pffSigCache[n] \subseteq pffSigCache'[n]
    PROVE  RoundInv'
<1>1. Accepted' <=> Accepted
    BY Zenon DEF Accepted
<1>2. ASSUME NEW n \in Nodes PROVE Voted(n)'
    <2>1. Voted(n)
        BY Zenon DEF RoundInv
    <2>2. Checked(proposal.txs, height + 1, pffSigCache[n])
            => Checked(proposal.txs, height + 1, pffSigCache'[n])
        BY Zenon DEF Checked
    <2> QED BY <1>1, <2>1, <2>2, Zenon DEF Voted
<1> QED BY <1>1, <1>2, Zenon DEF RoundInv

\* A step that changes nothing preserves the invariant.
LEMMA ProposalStutter ==
    ASSUME ProposalInv, UNCHANGED proposalVars
    PROVE  ProposalInv'
<1>1. UNCHANGED <<height, state, mempool, txCache, pffSigCache, proposal, verdict, unpaid>>
    BY Zenon DEF proposalVars
<1>2. RoundInv'
    BY <1>1, RoundKept, Zenon DEF ProposalInv
<1> QED BY <1>1, <1>2, Zenon DEF ProposalInv, PoolInv, PaidUnlessDrained

\* CheckTx fills the pool and a node's caches, and preserves the invariant.
LEMMA CheckTxInv ==
    ASSUME ProposalInv, NEW n \in Nodes, NEW t \in Txs, CheckTx(n, t)
    PROVE  ProposalInv'
<1>1. /\ UNCHANGED <<height, state, proposal, verdict, unpaid>> /\ t.wellFormed
      /\ txCache' = [txCache EXCEPT ![n] = IF IsBlob(t) THEN @ \cup {t} ELSE @]
      /\ pffSigCache' = [pffSigCache EXCEPT ![n] = IF IsFibre(t) THEN @ \cup {t} ELSE @]
      /\ mempool' = [mempool EXCEPT ![n] = @ \cup {t}] \/ mempool' = mempool
    BY Zenon DEF CheckTx
<1>3. /\ mempool \in [Nodes -> SUBSET Txs] /\ txCache \in [Nodes -> SUBSET Txs]
      /\ pffSigCache \in [Nodes -> SUBSET Txs]
    BY Zenon DEF ProposalInv, PoolInv
<1>9. ASSUME NEW m \in Nodes
      PROVE  /\ pffSigCache[m] \subseteq pffSigCache'[m]
             /\ \A x \in pffSigCache'[m] : x \in pffSigCache[m] \/ (m = n /\ x = t /\ IsFibre(t))
    BY <1>1, <1>3, Zenon
<1>2. RoundInv'
    BY <1>1, <1>9, RoundKept, Zenon DEF ProposalInv
<1>10. IsFibre(t) => t \in Begun(height + 1)
    <2> SUFFICES ASSUME IsFibre(t) PROVE t \in Begun(height + 1)
        BY Zenon
    <2>1. PICK h, c : h = height + 1 /\ c = pffSigCache[n]
        BY Zenon
    <2>2. h \in Nat /\ h - 1 = height
        BY <2>1, ProposalAssumption DEF ProposalInv
    <2>3. c \subseteq Begun(h)
        BY <2>1, Zenon DEF ProposalInv, PoolInv
    <2>4. SigsOK(t, h - 1, c)
        BY <2>1, <2>2, Zenon DEF CheckTx
    <2> QED BY <2>1, <2>2, <2>3, <2>4, SigsBegun, Zenon
<1>11. ASSUME NEW m \in Nodes PROVE pffSigCache'[m] \subseteq Begun(height' + 1)
    <2>1. pffSigCache[m] \subseteq Begun(height + 1)
        BY Zenon DEF ProposalInv, PoolInv
    <2> QED BY <1>1, <1>9, <1>10, <2>1, Zenon
<1>4. txCache' \in [Nodes -> SUBSET Txs] /\ pffSigCache' \in [Nodes -> SUBSET Txs]
    BY <1>1, <1>3, Zenon
<1>5. mempool' \in [Nodes -> SUBSET Txs]
    BY <1>1, <1>3
<1>6. ASSUME NEW m \in Nodes
      PROVE  /\ mempool'[m] = mempool[m] \/ mempool'[m] = mempool[m] \cup {t}
             /\ \A x \in txCache'[m] : x \in txCache[m] \/ x = t
    BY <1>1, <1>3, Zenon
<1>7. ASSUME NEW m \in Nodes
      PROVE  /\ IsFiniteSet(mempool'[m])
             /\ \A x \in mempool'[m] : x.wellFormed
             /\ \A x \in txCache'[m] : x.wellFormed
    <2>1. /\ IsFiniteSet(mempool[m]) /\ \A x \in mempool[m] : x.wellFormed
          /\ \A x \in txCache[m] : x.wellFormed
        BY Zenon DEF ProposalInv, PoolInv
    <2>2. IsFiniteSet(mempool[m] \cup {t})
        <3>1. PICK S : S = mempool[m]
            BY Zenon
        <3> QED BY <2>1, <3>1, FS_AddElement, Zenon
    <2>3. mempool'[m] = mempool[m] \/ mempool'[m] = mempool[m] \cup {t}
        BY <1>6, Zenon
    <2>4. IsFiniteSet(mempool'[m])
        BY <2>1, <2>2, <2>3, Zenon
    <2>5. \A x \in mempool'[m] : x.wellFormed
        BY <1>1, <2>1, <2>3, Zenon
    <2>6. \A x \in txCache'[m] : x.wellFormed
        BY <1>1, <1>6, <2>1, Zenon
    <2> QED BY <2>4, <2>5, <2>6, Zenon
<1>8. PoolInv'
    BY <1>4, <1>5, <1>7, <1>11, Zenon DEF PoolInv
<1> QED BY <1>1, <1>2, <1>8, Zenon DEF ProposalInv, PaidUnlessDrained

\* PrepareProposal preserves the invariant: what the builder kept is accepted by all.
LEMMA PrepareProposalInv ==
    ASSUME ProposalInv, NEW n \in Nodes, PrepareProposal(n)
    PROVE  ProposalInv'
<1>1. /\ UNCHANGED <<height, state, mempool, txCache, verdict, unpaid>>
      /\ proposal = NoProposal /\ height < MaxHeight
    BY Zenon DEF PrepareProposal
<1>2. PICK order \in Bijection(1 .. Cardinality(mempool[n]), mempool[n]) :
          /\ proposal' = [own |-> TRUE, txs |-> Fill(order, height + 1, pffSigCache[n]).kept,
                          square |-> Fill(order, height + 1, pffSigCache[n]).square]
          /\ pffSigCache' = [pffSigCache EXCEPT ![n] = Fill(order, height + 1, pffSigCache[n]).cache]
    BY Zenon DEF PrepareProposal
<1>3. /\ state \in States /\ height + 1 \in Nat /\ pffSigCache \in [Nodes -> SUBSET Txs]
      /\ IsFiniteSet(mempool[n]) /\ mempool[n] \in SUBSET Txs
      /\ \A t \in mempool[n] : t.wellFormed
    BY DEF ProposalInv, PoolInv
<1>4. order \in Seq(Txs) /\ \A i \in DOMAIN order : order[i].wellFormed
    <2>1. Cardinality(mempool[n]) \in Nat
        <3>1. PICK S : S = mempool[n]
            BY Zenon
        <3> QED BY <1>3, <3>1, FS_CardinalityType, Zenon
    <2>2. order \in [1 .. Cardinality(mempool[n]) -> mempool[n]]
        BY <1>2, Zenon DEF Bijection, Injection
    <2>3. order \in Seq(Txs)
        BY <1>3, <2>1, <2>2, SMTT(30)
    <2>4. \A i \in DOMAIN order : order[i] \in mempool[n]
        BY <2>2, Zenon
    <2> QED BY <1>3, <2>3, <2>4, Zenon
<1>5. PICK b, h, cache : /\ h = height + 1 /\ cache = pffSigCache[n]
                         /\ b = Fill(order, h, cache)
    BY Zenon
<1>6. Built(b, h, 3)
    <2>1. h \in Nat /\ cache \in SUBSET Begun(h)
        BY <1>3, <1>5, Zenon DEF ProposalInv, PoolInv
    <2> QED BY <1>3, <1>4, <1>5, <2>1, FillAccepted, ZenonT(30)
<1>7. /\ proposal' = [own |-> TRUE, txs |-> b.kept, square |-> b.square]
      /\ pffSigCache' = [pffSigCache EXCEPT ![n] = b.cache]
    BY <1>2, <1>5, Zenon
<1>8. b.kept \in Seq(Txs) /\ b.cache \in SUBSET Txs /\ b.cache \subseteq Begun(h)
    BY <1>6, BuilderFacts, Zenon DEF Built
<1>9. proposal'.own = TRUE /\ proposal'.txs = b.kept /\ proposal'.square = b.square /\ proposal' # NoProposal
    BY <1>7, Zenon DEF NoProposal
<1>10. Accepted'
    <2>1. Accepts(state, b.kept, b.square, h)
        BY <1>6, Zenon DEF Built, Verdict, Reference, Processed, Accepts
    <2> QED BY <1>1, <1>5, <1>9, <2>1, Zenon DEF Accepted
<1>11. \A m \in Nodes : verdict'[m] = "none"
    BY <1>1, Zenon DEF ProposalInv, RoundInv
<1>12. RoundInv'
    <2>1. verdict' \in [Nodes -> {"none", "accept", "reject"}]
        BY <1>1, Zenon DEF ProposalInv, RoundInv
    <2>2. proposal'.txs \in Seq(Txs) /\ height' < MaxHeight
        BY <1>1, <1>8, <1>9, ZenonT(30)
    <2>3. ASSUME NEW m \in Nodes PROVE Voted(m)'
        BY <1>11, Zenon DEF Voted
    <2> QED BY <1>9, <1>10, <2>1, <2>2, <2>3, ZenonT(30) DEF RoundInv
<1>13. pffSigCache' \in [Nodes -> SUBSET Txs]
    BY <1>3, <1>7, <1>8, Zenon
<1>14. ASSUME NEW m \in Nodes PROVE pffSigCache'[m] \subseteq Begun(height' + 1)
    <2>1. pffSigCache[m] \subseteq Begun(height + 1)
        BY Zenon DEF ProposalInv, PoolInv
    <2>2. pffSigCache'[m] = IF m = n THEN b.cache ELSE pffSigCache[m]
        BY <1>3, <1>7, Zenon
    <2> QED BY <1>1, <1>5, <1>8, <2>1, <2>2, Zenon
<1>15. PoolInv'
    BY <1>1, <1>13, <1>14, Zenon DEF ProposalInv, PoolInv
<1> QED BY <1>1, <1>12, <1>15, Zenon DEF ProposalInv, PaidUnlessDrained

\* A proposal from elsewhere preserves the invariant.
LEMMA OtherProposalInv ==
    ASSUME ProposalInv, OtherProposal
    PROVE  ProposalInv'
<1>1. /\ UNCHANGED <<height, state, mempool, txCache, pffSigCache, verdict, unpaid>>
      /\ proposal = NoProposal /\ height < MaxHeight
    BY Zenon DEF OtherProposal
<1>2. PICK txs \in UNION {[1 .. k -> Txs] : k \in 1 .. MaxProposal} :
          proposal' = [own |-> FALSE, txs |-> txs, square |-> txs]
    BY Zenon DEF OtherProposal
<1>3. txs \in Seq(Txs)
    <2>1. PICK k \in 1 .. MaxProposal : txs \in [1 .. k -> Txs]
        BY <1>2, Zenon
    <2>2. k \in Nat
        BY <2>1, SMTT(30)
    <2> QED BY <2>1, <2>2
<1>4. proposal'.own = FALSE /\ proposal'.txs = txs
    BY <1>2, Zenon
<1>5. \A m \in Nodes : verdict'[m] = "none"
    BY <1>1, Zenon DEF ProposalInv, RoundInv
<1>6. RoundInv'
    <2>1. verdict' \in [Nodes -> {"none", "accept", "reject"}]
        BY <1>1, Zenon DEF ProposalInv, RoundInv
    <2>2. height' < MaxHeight
        BY <1>1, Zenon
    <2>3. ASSUME NEW m \in Nodes PROVE Voted(m)'
        BY <1>5, Zenon DEF Voted
    <2> QED BY <1>3, <1>4, <1>5, <2>1, <2>2, <2>3, ZenonT(30) DEF RoundInv
<1> QED BY <1>1, <1>6, ZenonT(30) DEF ProposalInv, PoolInv, PaidUnlessDrained

\* A node's vote preserves the invariant.
LEMMA ProcessProposalInv ==
    ASSUME ProposalInv, NEW n \in Nodes, ProcessProposal(n)
    PROVE  ProposalInv'
<1>1. /\ UNCHANGED <<height, state, mempool, txCache, proposal, unpaid>>
      /\ proposal # NoProposal /\ verdict[n] = "none"
    BY Zenon DEF ProcessProposal
<1>2. PICK v : v = Processed(proposal.txs, height + 1, txCache[n], pffSigCache[n])
    BY Zenon
<1>3. /\ verdict' = [verdict EXCEPT ![n] = IF /\ v.ok /\ Constructible(proposal.txs)
                                              /\ proposal.square = proposal.txs
                                           THEN "accept" ELSE "reject"]
      /\ pffSigCache' = [pffSigCache EXCEPT ![n] = v.cache]
    BY <1>2, Zenon DEF ProcessProposal, Processed
<1>4. /\ Accepted <=> Verdict(proposal.txs, height + 1) /\ Constructible(proposal.txs)
                      /\ proposal.square = proposal.txs
      /\ v.ok => Verdict(proposal.txs, height + 1) /\ Checked(proposal.txs, height + 1, v.cache)
      /\ Sure(proposal.txs, height + 1) /\ Verdict(proposal.txs, height + 1) => v.ok
      /\ v.cache \in SUBSET Txs /\ v.cache \subseteq Begun(height + 1)
    BY <1>1, <1>2, AcceptedByAll, Zenon
<1>5. /\ verdict \in [Nodes -> {"none", "accept", "reject"}]
      /\ pffSigCache \in [Nodes -> SUBSET Txs]
    BY Zenon DEF ProposalInv, PoolInv, RoundInv
<1>6. verdict' \in [Nodes -> {"none", "accept", "reject"}]
    BY <1>3, <1>5, Zenon
<1>7. pffSigCache' \in [Nodes -> SUBSET Txs]
    BY <1>3, <1>4, <1>5, Zenon
<1>8. Accepted' <=> Accepted
    BY <1>1, Zenon DEF Accepted
<1>9. pffSigCache'[n] = v.cache
    BY <1>3, <1>5, Zenon
<1>10. ASSUME NEW m \in Nodes, m # n
       PROVE  verdict'[m] = verdict[m] /\ pffSigCache'[m] = pffSigCache[m]
    BY <1>3, <1>5, <1>10, Zenon
<1>11. ASSUME NEW m \in Nodes PROVE Voted(m)'
    <2>1. CASE m = n
        <3>1. v.ok /\ Constructible(proposal.txs) /\ proposal.square = proposal.txs
                => verdict'[n] = "accept"
            BY <1>3, <1>5, Zenon
        <3>2. ~(v.ok /\ Constructible(proposal.txs) /\ proposal.square = proposal.txs)
                => verdict'[n] = "reject"
            BY <1>3, <1>5, Zenon
        <3>3. verdict'[n] = "accept" => Accepted /\ Checked(proposal.txs, height + 1, v.cache)
            <4>1. "accept" # "reject"
                OBVIOUS
            <4> QED BY <1>4, <3>2, <4>1, Zenon
        <3>4. verdict'[n] = "reject" => ~(Accepted /\ Sure(proposal.txs, height + 1))
            <4>1. "accept" # "reject"
                OBVIOUS
            <4> QED BY <1>4, <3>1, <4>1, Zenon
        <3> QED BY <1>1, <1>8, <1>9, <2>1, <3>3, <3>4, Zenon DEF Voted
    <2>2. CASE m # n
        <3>1. Voted(m)
            BY Zenon DEF ProposalInv, RoundInv
        <3> QED BY <1>1, <1>8, <1>10, <2>2, <3>1, Zenon DEF Voted
    <2> QED BY <2>1, <2>2, Zenon
<1>12. RoundInv'
    <2>1. /\ height' < MaxHeight /\ proposal'.txs \in Seq(Txs) /\ proposal' # NoProposal
          /\ proposal'.own => Accepted
        BY <1>1, Zenon DEF ProposalInv, RoundInv
    <2> QED BY <1>6, <1>8, <1>11, <2>1, Zenon DEF RoundInv
<1>13. ASSUME NEW m \in Nodes PROVE pffSigCache'[m] \subseteq Begun(height' + 1)
    <2>1. pffSigCache[m] \subseteq Begun(height + 1)
        BY Zenon DEF ProposalInv, PoolInv
    <2> QED BY <1>1, <1>4, <1>9, <1>10, <2>1, Zenon
<1>14. PoolInv'
    BY <1>1, <1>7, <1>13, Zenon DEF ProposalInv, PoolInv
<1> QED BY <1>1, <1>12, <1>14, ZenonT(30) DEF ProposalInv, PaidUnlessDrained

\* No proposal, no verdicts.
LEMMA NoRound ==
    ASSUME proposal' = NoProposal, verdict' = [n \in Nodes |-> "none"]
    PROVE  RoundInv'
<1>1. verdict' \in [Nodes -> {"none", "accept", "reject"}] /\ \A n \in Nodes : verdict'[n] = "none"
    BY Zenon
<1>2. NoProposal.own = FALSE
    BY Zenon DEF NoProposal
<1> QED BY <1>1, <1>2, Zenon DEF RoundInv, Voted

\* A new round preserves the invariant.
LEMMA NewRoundInv ==
    ASSUME ProposalInv, NewRound
    PROVE  ProposalInv'
<1>1. /\ UNCHANGED <<height, state, mempool, txCache, pffSigCache, unpaid>>
      /\ proposal' = NoProposal /\ verdict' = [n \in Nodes |-> "none"]
    BY Zenon DEF NewRound
<1>2. RoundInv'
    BY <1>1, NoRound, Zenon
<1> QED BY <1>1, <1>2, Zenon DEF ProposalInv, PoolInv, PaidUnlessDrained

\* What a block at height h leaves, given what its delivery d does.
Finalizes(d, h, block) ==
    /\ height' = h /\ state' = d.st
    /\ unpaid' = {[tx |-> t, drained |-> Drained(t, proposal.txs, h)] :
                      t \in {x \in d.failed : ~IsNormal(x)}}
    /\ txCache' = [m \in Nodes |-> txCache[m] \ block]
    /\ pffSigCache' = [m \in Nodes |-> pffSigCache[m] \ block]
    /\ \E dropped : mempool' = [m \in Nodes |-> mempool[m] \ (block \cup dropped)]

\* Finalizing a block preserves the invariant: each fibre payment is made or its escrow drained.
LEMMA FinalizeBlockInv ==
    ASSUME ProposalInv, FinalizeBlock
    PROVE  ProposalInv'
<1>21. PICK n \in Nodes :
           Finalizes(Deliver(proposal.txs, height + 1, pffSigCache[n]), height + 1,
                     {proposal.txs[i] : i \in DOMAIN proposal.txs})
    BY Zenon DEF FinalizeBlock, Finalizes
<1>22. PICK d, h, block : /\ h = height + 1 /\ d = Deliver(proposal.txs, h, pffSigCache[n])
                          /\ block = {proposal.txs[i] : i \in DOMAIN proposal.txs}
    BY Zenon
<1>1. /\ n \in Nodes /\ h = height + 1 /\ d = Deliver(proposal.txs, h, pffSigCache[n])
      /\ block = {proposal.txs[i] : i \in DOMAIN proposal.txs}
      /\ height' = h /\ state' = d.st
      /\ unpaid' = {[tx |-> t, drained |-> Drained(t, proposal.txs, h)] :
                        t \in {x \in d.failed : ~IsNormal(x)}}
      /\ txCache' = [m \in Nodes |-> txCache[m] \ block]
      /\ pffSigCache' = [m \in Nodes |-> pffSigCache[m] \ block]
      /\ \E dropped : mempool' = [m \in Nodes |-> mempool[m] \ (block \cup dropped)]
    <2>1. Finalizes(d, h, block)
        BY <1>21, <1>22, Zenon
    <2> QED BY <1>22, <2>1, Zenon DEF Finalizes
<1>2. /\ verdict[n] = "accept" /\ verdict[n] # "none"
      /\ proposal' = NoProposal /\ verdict' = [m \in Nodes |-> "none"]
    <2>1. "accept" # "none"
        OBVIOUS
    <2> QED BY <1>1, <2>1, Zenon DEF FinalizeBlock
<1>4. /\ proposal # NoProposal /\ height < MaxHeight /\ proposal.txs \in Seq(Txs) /\ Accepted
      /\ Checked(proposal.txs, h, pffSigCache[n])
    BY <1>1, <1>2, Zenon DEF ProposalInv, RoundInv, Voted
<1>5. height' \in 1 .. MaxHeight /\ h \in Nat /\ height \in Nat /\ height' = height + 1
    <2>1. height \in 1 .. MaxHeight /\ height < MaxHeight
        BY <1>4, Zenon DEF ProposalInv
    <2>2. height' = h /\ h = height + 1
        BY <1>1, Zenon
    <2>3. MaxHeight \in Nat
        BY ProposalAssumption, Zenon
    <2> QED BY <2>1, <2>2, <2>3, SMTT(30)
<1>6. d \in Deliveries /\ \A t \in d.failed : IsNormal(t) \/ Drained(t, proposal.txs, h)
    <2>1. PICK txs, cache : txs = proposal.txs /\ cache = pffSigCache[n]
        BY Zenon
    <2>2. Verdict(txs, h) /\ state \in States
        BY <1>1, <1>4, <2>1, AcceptedByAll, Zenon DEF ProposalInv
    <2>3. \A i \in DOMAIN txs : IsFibre(txs[i]) => txs[i] \in cache
        BY <1>4, <2>1, Zenon DEF Checked
    <2>4. /\ Deliver(txs, h, cache) \in Deliveries
          /\ \A t \in Deliver(txs, h, cache).failed : IsNormal(t) \/ Drained(t, txs, h)
        BY <1>4, <1>5, <2>1, <2>2, <2>3, BlockPaid, ZenonT(30)
    <2> QED BY <1>1, <2>1, <2>4, Zenon
<1>7. state' \in States
    <2>1. state' = d.st
        BY <1>1, Zenon
    <2> QED BY <1>6, <2>1, Zenon DEF Deliveries
<1>8. PaidUnlessDrained'
    <2>1. ASSUME NEW u \in unpaid' PROVE u.drained
        <3>1. PICK t \in d.failed : ~IsNormal(t) /\ u = [tx |-> t, drained |-> Drained(t, proposal.txs, h)]
            BY <1>1, Zenon
        <3>2. Drained(t, proposal.txs, h)
            BY <1>6, <3>1, Zenon
        <3>3. u.drained = Drained(t, proposal.txs, h)
            BY <3>1, Zenon
        <3> QED BY <3>2, <3>3, Zenon
    <2> QED BY <2>1, Zenon DEF PaidUnlessDrained
<1>9. PoolInv'
    <2>1. PICK dropped : mempool' = [m \in Nodes |-> mempool[m] \ (block \cup dropped)]
        BY <1>1, Zenon
    <2>2. \A m \in Nodes : mempool'[m] \subseteq mempool[m] /\ txCache'[m] \subseteq txCache[m]
                           /\ pffSigCache'[m] \subseteq pffSigCache[m]
        BY <1>1, <2>1, ZenonT(30)
    <2>3. /\ mempool' \in [Nodes -> SUBSET Txs] /\ txCache' \in [Nodes -> SUBSET Txs]
          /\ pffSigCache' \in [Nodes -> SUBSET Txs]
        BY <1>1, <2>1, Zenon DEF ProposalInv, PoolInv
    <2>4. ASSUME NEW m \in Nodes
          PROVE  /\ IsFiniteSet(mempool'[m])
                 /\ \A t \in mempool'[m] : t.wellFormed
                 /\ \A t \in txCache'[m] : t.wellFormed
                 /\ pffSigCache'[m] \subseteq Begun(height' + 1)
        <3>1. /\ IsFiniteSet(mempool[m]) /\ \A t \in mempool[m] : t.wellFormed
              /\ \A t \in txCache[m] : t.wellFormed
            BY Zenon DEF ProposalInv, PoolInv
        <3>2. mempool'[m] \subseteq mempool[m] /\ txCache'[m] \subseteq txCache[m]
            BY <2>2, Zenon
        <3>3. IsFiniteSet(mempool'[m])
            <4>1. PICK S, R : S = mempool[m] /\ R = mempool'[m]
                BY Zenon
            <4> QED BY <3>1, <3>2, <4>1, FS_Subset, Zenon
        <3>4. pffSigCache'[m] \subseteq Begun(height' + 1)
            <4>1. pffSigCache[m] \subseteq Begun(height + 1)
                BY Zenon DEF ProposalInv, PoolInv
            <4>2. ASSUME NEW t \in Begun(height + 1) PROVE t \in Begun(height' + 1)
                <5>1. t \in Txs /\ 1 <= t.promise.height /\ t.promise.height <= (height + 1) - 1
                    BY Zenon DEF Begun
                <5>2. t.promise.height \in Nat
                    BY <5>1, TxFacts, Zenon
                <5>3. t.promise.height <= (height' + 1) - 1
                    BY <1>5, <5>1, <5>2
                <5> QED BY <5>1, <5>3, Zenon DEF Begun
            <4> QED BY <2>2, <4>1, <4>2, Zenon
        <3> QED BY <3>1, <3>2, <3>3, <3>4, Zenon
    <2> QED BY <2>3, <2>4, Zenon DEF PoolInv
<1>10. RoundInv'
    BY <1>2, NoRound, Zenon
<1> QED BY <1>5, <1>7, <1>8, <1>9, <1>10, ZenonT(30) DEF ProposalInv

-----------------------------------------------------------------------------
(* Block proposals: the theorems                                           *)

\* Only a proposal that the committed state and the height accept is voted for (RoundInv), by
\* nodes that then have its signatures cached, and one of PrepareProposal is such a proposal;
\* while staking remembers the heights of its promises no node votes against it, whatever the
\* blob cache, the signature cache and the mempool of that node hold.
THEOREM ProposalInvariant == ProposalSpec => []ProposalInv
<1>1. ProposalInit => ProposalInv
    BY ProposalInitInv, Zenon
<1>2. ProposalInv /\ [ProposalNext]_proposalVars => ProposalInv'
    BY ProposalStutter, CheckTxInv, PrepareProposalInv, OtherProposalInv, ProcessProposalInv,
       NewRoundInv, FinalizeBlockInv, ZenonT(30) DEF ProposalNext
<1> QED BY <1>1, <1>2, PTL DEF ProposalSpec

\* The history that the properties ask for is the one Sure asks for.
LEMMA HistorySure ==
    ASSUME ProposalInv, HeightWindow <= HistoricalEntries \/ Remembered(proposal.txs, height)
    PROVE  Sure(proposal.txs, height + 1)
<1>1. (height + 1) - 1 = height
    BY ProposalAssumption DEF ProposalInv
<1> QED BY <1>1, Zenon DEF Sure

\* "A proposer never builds a block its own ProcessProposal would reject", and neither does
\* another node: FilteredSquareBuilder's Fill, with the writes of dropped transactions it
\* keeps, is checked against ProcessProposal for any mempool, order, limits and heights, while
\* staking's history is as long as the height window or covers the block's promises.
THEOREM OwnProposalsAccepted == ProposalSpec => []OwnProposalAccepted
<1>1. ProposalInv => OwnProposalAccepted
    <2> SUFFICES ASSUME ProposalInv PROVE OwnProposalAccepted
        BY Zenon
    <2>1. ASSUME NEW a \in Signers
          PROVE  state.bank[a] \in 0 .. Funds /\ state.escrow[a] \in state.withdrawing[a] .. Escrow
        <3>1. /\ state.bank \in [Signers -> Nat] /\ state.escrow \in [Signers -> Nat]
              /\ state.withdrawing \in [Signers -> Nat] /\ state.bank[a] <= Funds
              /\ state.withdrawing[a] <= state.escrow[a] /\ state.escrow[a] <= Escrow
            <4>1. PICK s : s = state
                BY Zenon
            <4> QED BY <4>1, StateFacts, Zenon DEF ProposalInv
        <3> QED BY <3>1, ProposalAssumption
    <2>2. ASSUME NEW n \in Nodes PROVE pffSigCache[n] \cup txCache[n] \cup mempool[n] \subseteq Txs
        BY Zenon DEF ProposalInv, PoolInv
    <2>3. ProposalTypeOK
        BY <2>1, <2>2, Zenon DEF ProposalInv, RoundInv, ProposalTypeOK
    <2>4. ASSUME proposal.own, NEW n \in Nodes,
                 HeightWindow <= HistoricalEntries \/ Remembered(proposal.txs, height)
          PROVE  verdict[n] # "reject"
        <3>1. Accepted /\ Voted(n)
            BY <2>4, Zenon DEF ProposalInv, RoundInv
        <3>2. Sure(proposal.txs, height + 1)
            BY <2>4, HistorySure, Zenon
        <3> QED BY <3>1, <3>2, Zenon DEF Voted
    <2> QED BY <2>3, <2>4, Zenon DEF OwnProposalAccepted
<1> QED BY <1>1, ProposalInvariant, PTL

\* Nodes never disagree on a proposal whose promises are in staking's history, as they are
\* when that is as long as the height window; and an accepted block leaves every node, and
\* one that syncs it with empty caches, in the same state when the history is longer than
\* the window, or still covers the promises after the block's own BeginBlock.
THEOREM NodesAgree == ProposalSpec => []VerdictsAgree
<1>1. ProposalInv => VerdictsAgree
    <2> SUFFICES ASSUME ProposalInv PROVE VerdictsAgree
        BY Zenon
    <2>1. ASSUME HeightWindow <= HistoricalEntries \/ Remembered(proposal.txs, height),
                 NEW m \in Nodes, NEW n \in Nodes, verdict[m] # "none", verdict[n] # "none"
          PROVE  verdict[m] = verdict[n]
        <3>1. Voted(m) /\ Voted(n)
            BY Zenon DEF ProposalInv, RoundInv
        <3>2. Sure(proposal.txs, height + 1)
            BY <2>1, HistorySure, Zenon
        <3>3. verdict[m] \in {"accept", "reject"} /\ verdict[n] \in {"accept", "reject"}
            BY <2>1, Zenon DEF ProposalInv, RoundInv
        <3>4. \A x \in {m, n} : verdict[x] = "accept" => Accepted
            BY <3>1, Zenon DEF Voted
        <3>5. \A x \in {m, n} : verdict[x] = "reject" => ~Accepted
            BY <3>1, <3>2, Zenon DEF Voted
        <3>6. (verdict[m] = "accept" => Accepted) /\ (verdict[n] = "accept" => Accepted)
            BY <3>4, Zenon
        <3>7. (verdict[m] = "reject" => ~Accepted) /\ (verdict[n] = "reject" => ~Accepted)
            BY <3>5, Zenon
        <3> QED BY <3>3, <3>6, <3>7, Zenon
    <2>2. ASSUME \A n \in Nodes : verdict[n] = "accept", NEW n \in Nodes,
                 HeightWindow < HistoricalEntries \/ Remembered(proposal.txs, height + 1)
          PROVE  Deliver(proposal.txs, height + 1, pffSigCache[n]) = Deliver(proposal.txs, height + 1, {})
        <3>1. verdict[n] = "accept" /\ verdict[n] # "none"
            <4>1. "accept" # "none"
                OBVIOUS
            <4> QED BY <2>2, <4>1, Zenon
        <3>2. proposal # NoProposal
            BY <3>1, Zenon DEF ProposalInv, RoundInv
        <3>3. /\ state \in States /\ proposal.txs \in Seq(Txs)
              /\ Checked(proposal.txs, height + 1, pffSigCache[n])
              /\ pffSigCache[n] \subseteq Begun(height + 1)
            BY <3>1, <3>2, Zenon DEF ProposalInv, PoolInv, RoundInv, Voted
        <3>4. PICK txs, h, cache : txs = proposal.txs /\ h = height + 1 /\ cache = pffSigCache[n]
            BY Zenon
        <3>5. h \in Nat
            BY <3>4, ProposalAssumption DEF ProposalInv
        <3>6. ASSUME NEW i \in DOMAIN txs, IsFibre(txs[i]) PROVE SignaturesVerify(txs[i], h)
            <4>1. txs[i] \in Begun(h) /\ InWindow(txs[i].promise, h)
                BY <3>3, <3>4, <3>6, Zenon DEF Checked
            <4>2. HeightWindow < HistoricalEntries \/ Fresh(txs[i], h)
                BY <2>2, <3>4, <3>6, Zenon DEF Remembered, Fresh
            <4>3. PICK t \in Begun(h) : t = txs[i]
                BY <4>1, Zenon
            <4> QED BY <3>5, <4>1, <4>2, <4>3, FreshVerifies, Zenon
        <3>7. Deliver(txs, h, cache) = Deliver(txs, h, {})
            BY <3>3, <3>4, <3>5, <3>6, DeliverSame, Zenon
        <3> QED BY <3>4, <3>7, Zenon
    <2>3. HeightWindow <= HistoricalEntries \/ Remembered(proposal.txs, height) =>
            \A m, n \in Nodes : "none" \in {verdict[m], verdict[n]} \/ verdict[m] = verdict[n]
        BY <2>1, Zenon
    <2> QED BY <2>2, <2>3, Zenon DEF VerdictsAgree
<1> QED BY <1>1, ProposalInvariant, PTL

\* Data of a committed square is paid for unless a message of the same block that only
\* FinalizeBlock executes took the payer's funds: a send of the signer, or for a promise, a
\* timeout settled on the same escrow or a withdrawal that came due.
THEOREM SquaresPaid == ProposalSpec => []PaidUnlessDrained
<1>1. ProposalInv => PaidUnlessDrained
    BY Zenon DEF ProposalInv
<1> QED BY <1>1, ProposalInvariant, PTL
=============================================================================
