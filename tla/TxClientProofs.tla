--------------------------- MODULE TxClientProofs ---------------------------
(***************************************************************************)
(* The transaction client, for any number of goroutines, messages and      *)
(* evictions and whatever the node refuses, loses, evicts or rejects: no   *)
(* message is committed twice, submitters are told the truth, and with a   *)
(* well-behaved node the client never gets out of step.                    *)
(***************************************************************************)
EXTENDS TxClient, SumTheorems

-----------------------------------------------------------------------------
(* Sequences of transactions                                               *)

MsgsOf(s) == {s[i].msg : i \in DOMAIN s}
MsgsIn(S) == {t.msg : t \in S}

\* No message occurs twice in s.
Once(s) == \A i, j \in DOMAIN s : s[i].msg = s[j].msg => i = j

\* What Without leaves.
LEMMA WithoutFacts ==
    ASSUME NEW S, NEW s \in Seq(S), NEW i \in DOMAIN s
    PROVE  /\ Without(s, i) \in Seq(S) /\ Len(Without(s, i)) = Len(s) - 1
           /\ \A j \in 1 .. Len(s) - 1 : Without(s, i)[j] = IF j < i THEN s[j] ELSE s[j + 1]
<1> DEFINE a == SubSeq(s, 1, i - 1)
           b == SubSeq(s, i + 1, Len(s))
<1>1. i \in 1 .. Len(s) /\ Len(s) \in Nat
    OBVIOUS
<1>2. a \in Seq(S) /\ Len(a) = i - 1 /\ \A j \in 1 .. i - 1 : a[j] = s[j]
    BY <1>1
<1>3. b \in Seq(S) /\ Len(b) = Len(s) - i /\ \A j \in 1 .. Len(s) - i : b[j] = s[i + j]
    BY <1>1
<1> HIDE DEF a, b
<1>4. /\ a \o b \in Seq(S) /\ Len(a \o b) = Len(s) - 1
      /\ \A j \in 1 .. Len(s) - 1 : (a \o b)[j] = IF j <= i - 1 THEN a[j] ELSE b[j - (i - 1)]
    <2>1. a \in Seq(S) /\ b \in Seq(S)
        BY <1>2, <1>3
    <2>2. /\ a \o b \in Seq(S) /\ Len(a \o b) = Len(a) + Len(b)
          /\ \A j \in 1 .. Len(a) + Len(b) :
                (a \o b)[j] = IF j <= Len(a) THEN a[j] ELSE b[j - Len(a)]
        BY <2>1
    <2>3. Len(a) = i - 1 /\ Len(a) + Len(b) = Len(s) - 1
        BY <1>1, <1>2, <1>3
    <2> QED BY <2>2, <2>3, SMTT(30)
<1>5. \A j \in 1 .. Len(s) - 1 : (a \o b)[j] = IF j < i THEN s[j] ELSE s[j + 1]
    <2> SUFFICES ASSUME NEW j \in 1 .. Len(s) - 1
                 PROVE  (a \o b)[j] = IF j < i THEN s[j] ELSE s[j + 1]
        BY Zenon
    <2>1. CASE j < i
        BY <1>1, <1>2, <1>4, <2>1
    <2>2. CASE ~(j < i)
        <3>1. j - (i - 1) \in 1 .. Len(s) - i /\ i + (j - (i - 1)) = j + 1 /\ ~(j <= i - 1)
            BY <1>1, <2>2
        <3> QED BY <1>3, <1>4, <2>2, <3>1, Zenon
    <2> QED BY <2>1, <2>2, Zenon
<1> QED BY <1>4, <1>5, Zenon DEF Without, a, b

\* A transaction of a new message at the end.
LEMMA OnceAppend ==
    ASSUME NEW s \in Seq(Tx), NEW t \in Tx, Once(s), t.msg \notin MsgsOf(s)
    PROVE  /\ Append(s, t) \in Seq(Tx) /\ Once(Append(s, t))
           /\ MsgsOf(Append(s, t)) = MsgsOf(s) \cup {t.msg}
<1> DEFINE a == Append(s, t)
<1>1. /\ a \in Seq(Tx) /\ Len(a) = Len(s) + 1 /\ a[Len(s) + 1] = t
      /\ \A i \in 1 .. Len(s) : a[i] = s[i]
      /\ DOMAIN s = 1 .. Len(s) /\ Len(s) \in Nat
    OBVIOUS
<1>2. DOMAIN a = 1 .. Len(s) + 1
    BY <1>1
<1> HIDE DEF a
<1>3. \A i \in 1 .. Len(s) : s[i].msg # t.msg
    BY <1>1 DEF MsgsOf
<1>4. Once(a)
    BY <1>1, <1>2, <1>3 DEF Once
<1>5. MsgsOf(a) \subseteq MsgsOf(s) \cup {t.msg}
    BY <1>1, <1>2 DEF MsgsOf
<1>6. MsgsOf(s) \cup {t.msg} \subseteq MsgsOf(a)
    BY <1>1, <1>2 DEF MsgsOf
<1> QED BY <1>1, <1>4, <1>5, <1>6 DEF a

\* One taken out.
LEMMA OnceWithout ==
    ASSUME NEW s \in Seq(Tx), NEW i \in DOMAIN s, Once(s)
    PROVE  /\ Without(s, i) \in Seq(Tx) /\ Once(Without(s, i))
           /\ MsgsOf(Without(s, i)) \subseteq MsgsOf(s) \ {s[i].msg}
           /\ s[i] \in Tx /\ s[i].msg \in MsgsOf(s)
<1> DEFINE a == Without(s, i)
           From(j) == IF j < i THEN j ELSE j + 1
<1>1. /\ a \in Seq(Tx) /\ Len(a) = Len(s) - 1
      /\ \A j \in 1 .. Len(s) - 1 : a[j] = s[From(j)]
      /\ DOMAIN s = 1 .. Len(s) /\ Len(s) \in Nat
    BY WithoutFacts
<1>2. DOMAIN a = 1 .. Len(s) - 1
    BY <1>1
<1>3. \A j \in DOMAIN a : From(j) \in DOMAIN s /\ From(j) # i /\ a[j] = s[From(j)]
    BY <1>1, <1>2
<1>4. \A j, k \in DOMAIN a : From(j) = From(k) => j = k
    BY <1>1, <1>2
<1> HIDE DEF a, From
<1>5. Once(a)
    BY <1>3, <1>4 DEF Once
<1>6. MsgsOf(a) \subseteq MsgsOf(s) \ {s[i].msg}
    BY <1>3 DEF Once, MsgsOf
<1>7. s[i] \in Tx /\ s[i].msg \in MsgsOf(s)
    BY SMTT(30) DEF MsgsOf
<1> QED BY <1>1, <1>5, <1>6, <1>7 DEF a

\* A prefix and the rest.
LEMMA OnceSplit ==
    ASSUME NEW s \in Seq(Tx), NEW n \in 0 .. Len(s), Once(s)
    PROVE  LET a == SubSeq(s, 1, n)
               b == SubSeq(s, n + 1, Len(s))
           IN  /\ a \in Seq(Tx) /\ b \in Seq(Tx) /\ Once(a) /\ Once(b)
               /\ Len(a) = n /\ Len(b) = Len(s) - n
               /\ \A i \in 1 .. Len(s) - n : b[i] = s[n + i]
               /\ MsgsOf(a) \subseteq MsgsOf(s) /\ MsgsOf(b) \subseteq MsgsOf(s)
               /\ MsgsOf(a) \cap MsgsOf(b) = {}
<1> DEFINE a == SubSeq(s, 1, n)
           b == SubSeq(s, n + 1, Len(s))
<1>1. /\ a \in Seq(Tx) /\ Len(a) = n /\ \A i \in 1 .. n : a[i] = s[i]
      /\ DOMAIN s = 1 .. Len(s) /\ Len(s) \in Nat /\ n \in Nat
    OBVIOUS
<1>2. b \in Seq(Tx) /\ Len(b) = Len(s) - n /\ \A i \in 1 .. Len(s) - n : b[i] = s[n + i]
    OBVIOUS
<1>3. DOMAIN a = 1 .. n /\ DOMAIN b = 1 .. Len(s) - n
    <2>1. a \in Seq(Tx) => DOMAIN a = 1 .. Len(a)
        OBVIOUS
    <2>2. b \in Seq(Tx) => DOMAIN b = 1 .. Len(b)
        OBVIOUS
    <2> QED BY <1>1, <1>2, <2>1, <2>2, Zenon
<1> HIDE DEF a, b
<1>4. \A i \in DOMAIN a : i \in DOMAIN s /\ a[i] = s[i] /\ i <= n
    BY <1>1, <1>3
<1>5. \A i \in DOMAIN b : n + i \in DOMAIN s /\ b[i] = s[n + i] /\ i > 0 /\ i \in Int
    BY <1>1, <1>2, <1>3
<1>6. Once(a) /\ MsgsOf(a) \subseteq MsgsOf(s)
    BY <1>4 DEF Once, MsgsOf
<1>7. Once(b)
    BY <1>1, <1>5 DEF Once
<1>8. MsgsOf(b) \subseteq MsgsOf(s)
    BY <1>5 DEF MsgsOf
<1>9. ASSUME NEW i \in DOMAIN a, NEW j \in DOMAIN b, a[i].msg = b[j].msg
      PROVE  FALSE
    <2>1. i = n + j
        BY <1>4, <1>5, <1>9 DEF Once
    <2> QED BY <1>1, <1>3, <1>4, <1>5, <2>1
<1>10. MsgsOf(a) \cap MsgsOf(b) = {}
    BY <1>9 DEF MsgsOf
<1> QED BY <1>1, <1>2, <1>6, <1>7, <1>8, <1>10, Zenon DEF a, b

\* Two sequences without a common message, one after the other.
LEMMA OnceConcat ==
    ASSUME NEW s \in Seq(Tx), NEW r \in Seq(Tx), Once(s), Once(r), MsgsOf(s) \cap MsgsOf(r) = {}
    PROVE  /\ s \o r \in Seq(Tx) /\ Once(s \o r)
           /\ MsgsOf(s \o r) \subseteq MsgsOf(s) \cup MsgsOf(r)
           /\ Range(s) \subseteq Range(s \o r)
<1> DEFINE a == s \o r
<1>1. /\ a \in Seq(Tx) /\ Len(a) = Len(s) + Len(r)
      /\ DOMAIN s = 1 .. Len(s) /\ Len(s) \in Nat /\ DOMAIN r = 1 .. Len(r) /\ Len(r) \in Nat
      /\ \A i \in 1 .. Len(s) + Len(r) : a[i] = IF i <= Len(s) THEN s[i] ELSE r[i - Len(s)]
    OBVIOUS
<1>2. DOMAIN a = 1 .. Len(s) + Len(r)
    BY <1>1
<1> HIDE DEF a
<1>3. \A i \in DOMAIN a : \/ i \in DOMAIN s /\ a[i] = s[i]
                          \/ i - Len(s) \in DOMAIN r /\ a[i] = r[i - Len(s)]
    BY <1>1, <1>2
<1>4. \A i \in DOMAIN s, j \in DOMAIN r : s[i].msg # r[j].msg
    BY DEF MsgsOf
<1>5. ASSUME NEW i \in DOMAIN a, NEW j \in DOMAIN a, a[i].msg = a[j].msg
      PROVE  i = j
    <2>0. i \in Int /\ j \in Int
        BY <1>2
    <2>1. CASE i \in DOMAIN s /\ a[i] = s[i] /\ j \in DOMAIN s /\ a[j] = s[j]
        BY <1>5, <2>1 DEF Once
    <2>2. CASE /\ i - Len(s) \in DOMAIN r /\ a[i] = r[i - Len(s)]
               /\ j - Len(s) \in DOMAIN r /\ a[j] = r[j - Len(s)]
        <3>1. i - Len(s) = j - Len(s)
            BY <1>5, <2>2 DEF Once
        <3> QED BY <1>1, <2>0, <3>1
    <2> QED BY <1>3, <1>4, <1>5, <2>1, <2>2
<1>6. MsgsOf(a) \subseteq MsgsOf(s) \cup MsgsOf(r)
    BY <1>3 DEF MsgsOf
<1>7. Range(s) \subseteq Range(a)
    <2>1. \A i \in DOMAIN s : i \in DOMAIN a /\ a[i] = s[i]
        BY <1>1, <1>2
    <2> QED BY <2>1 DEF Range
<1> QED BY <1>1, <1>5, <1>6, <1>7 DEF a, Once

-----------------------------------------------------------------------------
(* Recheck                                                                 *)

RecheckStates == [next : Nat, kept : Seq(Tx), dropped : SUBSET Tx]

\* A step of Recheck keeps a transaction or drops it.
LEMMA RecheckTxFacts ==
    ASSUME NEW acc \in RecheckStates, NEW t \in Tx
    PROVE  LET r == RecheckTx(acc, t)
           IN  /\ r \in RecheckStates
               /\ t.seq = acc.next => /\ r.next = acc.next + 1 /\ r.kept = Append(acc.kept, t)
                                      /\ r.dropped = acc.dropped
               /\ t.seq # acc.next => /\ r.next = acc.next /\ r.kept = acc.kept
                                      /\ r.dropped = acc.dropped \cup {t}
<1>1. acc.next \in Nat /\ acc.kept \in Seq(Tx) /\ acc.dropped \in SUBSET Tx
    BY DEF RecheckStates
<1>2. Append(acc.kept, t) \in Seq(Tx) /\ acc.next + 1 \in Nat
    BY <1>1
<1>3. CASE t.seq = acc.next
    <2> DEFINE r == [acc EXCEPT !.next = acc.next + 1, !.kept = Append(acc.kept, t)]
    <2>1. RecheckTx(acc, t) = r
        BY <1>3, Zenon DEF RecheckTx
    <2>2. r \in RecheckStates
        BY <1>2, Zenon DEF RecheckStates
    <2>3. r.next = acc.next + 1 /\ r.kept = Append(acc.kept, t) /\ r.dropped = acc.dropped
        BY Zenon DEF RecheckStates
    <2> QED BY <1>3, <2>1, <2>2, <2>3, Zenon
<1>4. CASE t.seq # acc.next
    <2> DEFINE r == [acc EXCEPT !.dropped = acc.dropped \cup {t}]
    <2>1. RecheckTx(acc, t) = r
        BY <1>4, Zenon DEF RecheckTx
    <2>2. r \in RecheckStates
        BY <1>1, Zenon DEF RecheckStates
    <2>3. r.next = acc.next /\ r.kept = acc.kept /\ r.dropped = acc.dropped \cup {t}
        BY Zenon DEF RecheckStates
    <2> QED BY <1>4, <2>1, <2>2, <2>3, Zenon
<1> QED BY <1>3, <1>4, Zenon

Base(start) == [next |-> start, kept |-> <<>>, dropped |-> {}]

\* h holds the states of Recheck over the first k transactions.
IsRecheck(start, txs, k, h) ==
    /\ h \in [0 .. k -> RecheckStates] /\ h[0] = Base(start)
    /\ \A i \in 1 .. k : h[i] = RecheckTx(h[i - 1], txs[i])

\* Recheck starts from a state of the recheck.
LEMMA BaseState == ASSUME NEW start \in Nat PROVE Base(start) \in RecheckStates
<1>1. <<>> \in Seq(Tx)
    OBVIOUS
<1> QED BY <1>1, Zenon DEF Base, RecheckStates

\* Recheck goes through the transactions in order.
LEMMA RecheckRuns ==
    ASSUME NEW start \in Nat, NEW txs \in Seq(Tx)
    PROVE  \E h : /\ IsRecheck(start, txs, Len(txs), h)
                  /\ Recheck(start, txs) = h[Len(txs)]
<1> DEFINE n == Len(txs)
           T == {k \in Nat : k <= n => \E h : IsRecheck(start, txs, k, h)}
<1>1. n \in Nat /\ \A i \in 1 .. n : txs[i] \in Tx
    OBVIOUS
<1>2. 0 \in T
    <2> DEFINE h == [i \in 0 .. 0 |-> Base(start)]
    <2>1. h \in [0 .. 0 -> RecheckStates] /\ h[0] = Base(start) /\ 1 .. 0 = {}
        BY BaseState
    <2> HIDE DEF h
    <2>2. IsRecheck(start, txs, 0, h)
        BY <2>1, Zenon DEF IsRecheck
    <2> QED BY <2>2
<1>3. ASSUME NEW k \in Nat, k \in T PROVE k + 1 \in T
    <2> SUFFICES ASSUME k + 1 <= n PROVE \E h : IsRecheck(start, txs, k + 1, h)
        OBVIOUS
    <2>1. k <= n /\ k + 1 \in 1 .. n
        BY <1>1
    <2>2. PICK h : IsRecheck(start, txs, k, h)
        BY <1>3, <2>1, Zenon
    <2> DEFINE last == RecheckTx(h[k], txs[k + 1])
               e == [i \in 0 .. k + 1 |-> IF i = k + 1 THEN last ELSE h[i]]
    <2>3. last \in RecheckStates
        <3>1. k \in 0 .. k
            OBVIOUS
        <3>2. h[k] \in RecheckStates
            BY <2>2, <3>1, Zenon DEF IsRecheck
        <3> QED BY <1>1, <2>1, <3>2, RecheckTxFacts, Zenon
    <2>4. /\ \A i \in 0 .. k + 1 : i # k + 1 => i \in 0 .. k
          /\ k + 1 \in 0 .. k + 1 /\ (k + 1) - 1 = k /\ k # k + 1 /\ k \in 0 .. k + 1
          /\ 0 \in 0 .. k + 1 /\ 0 # k + 1
          /\ \A i \in 1 .. k + 1 : /\ i \in 0 .. k + 1 /\ i - 1 \in 0 .. k + 1 /\ i - 1 # k + 1
                                   /\ (i # k + 1 => i \in 1 .. k)
        OBVIOUS
    <2> HIDE DEF last
    <2>5. e \in [0 .. k + 1 -> RecheckStates] /\ e[0] = Base(start)
        BY <2>2, <2>3, <2>4, Zenon DEF IsRecheck
    <2>6. ASSUME NEW i \in 1 .. k + 1 PROVE e[i] = RecheckTx(e[i - 1], txs[i])
        <3>1. CASE i = k + 1
            <4>1. e[i] = last /\ e[i - 1] = h[k]
                BY <2>4, <3>1, Zenon
            <4> QED BY <3>1, <4>1, Zenon DEF last
        <3>2. CASE i # k + 1
            <4>1. e[i] = h[i] /\ e[i - 1] = h[i - 1] /\ i \in 1 .. k
                BY <2>4, <3>2, Zenon
            <4> QED BY <2>2, <4>1, Zenon DEF IsRecheck
        <3> QED BY <3>1, <3>2, Zenon
    <2> HIDE DEF e
    <2> QED BY <2>5, <2>6, Zenon DEF IsRecheck
<1>4. n \in T
    <2> HIDE DEF T
    <2> QED BY <1>1, <1>2, <1>3, NaturalsIn, Zenon
<1>5. PICK h : IsRecheck(start, txs, n, h)
    BY <1>1, <1>4
<1> DEFINE Def(f) == f = [i \in 0 .. n |-> IF i = 0 THEN Base(start) ELSE RecheckTx(f[i - 1], txs[i])]
           acc == CHOOSE f : Def(f)
<1>6. Recheck(start, txs) = acc[n]
    BY Zenon DEF Recheck, Base
<1>7. \A i \in 0 .. n : i # 0 => i \in 1 .. n
    BY <1>1
<1>8. Def(h)
    <2>1. \A i \in 0 .. n : h[i] = IF i = 0 THEN Base(start) ELSE RecheckTx(h[i - 1], txs[i])
        BY <1>5, <1>7, Zenon DEF IsRecheck
    <2>2. h = [i \in 0 .. n |-> h[i]]
        BY <1>5, Zenon DEF IsRecheck
    <2> QED BY <2>1, <2>2, Zenon
<1>9. Def(acc)
    <2> HIDE DEF Def
    <2> QED BY <1>8, Zenon
<1> HIDE DEF acc
<1>10. \A i \in 0 .. n : acc[i] = IF i = 0 THEN Base(start) ELSE RecheckTx(acc[i - 1], txs[i])
    BY <1>9, Zenon
<1> HIDE DEF Def
<1> DEFINE U == {i \in Nat : i <= n => acc[i] = h[i]}
<1>11. 0 \in U
    <2>1. 0 \in 0 .. n
        BY <1>1
    <2>2. acc[0] = h[0]
        BY <1>5, <1>10, <2>1, Zenon DEF IsRecheck
    <2> QED BY <2>2
<1>12. ASSUME NEW k \in Nat, k \in U PROVE k + 1 \in U
    <2> SUFFICES ASSUME k + 1 <= n PROVE acc[k + 1] = h[k + 1]
        OBVIOUS
    <2>1. k <= n /\ k + 1 \in 1 .. n /\ k + 1 \in 0 .. n /\ k + 1 # 0 /\ (k + 1) - 1 = k
        BY <1>1
    <2>2. acc[k] = h[k]
        BY <1>12, <2>1, Zenon
    <2> QED BY <1>5, <1>10, <2>1, <2>2, Zenon DEF IsRecheck
<1>13. n \in U
    <2> HIDE DEF U
    <2> QED BY <1>1, <1>11, <1>12, NaturalsIn, Zenon
<1>14. acc[n] = h[n]
    BY <1>1, <1>13
<1> QED BY <1>5, <1>6, <1>14, Zenon

\* What Recheck keeps and what it drops: transactions it was given, each once.
LEMMA RecheckParts ==
    ASSUME NEW start \in Nat, NEW txs \in Seq(Tx), Once(txs)
    PROVE  LET r == Recheck(start, txs)
           IN  /\ r \in RecheckStates
               /\ Once(r.kept) /\ MsgsOf(r.kept) \subseteq MsgsOf(txs)
               /\ MsgsIn(r.dropped) \subseteq MsgsOf(txs)
               /\ MsgsOf(r.kept) \cap MsgsIn(r.dropped) = {}
<1>1. PICK h : IsRecheck(start, txs, Len(txs), h) /\ Recheck(start, txs) = h[Len(txs)]
    BY RecheckRuns, Zenon
<1> DEFINE n == Len(txs)
           Seen(k) == {txs[i].msg : i \in 1 .. k}
           Good(k) == /\ h[k] \in RecheckStates /\ Once(h[k].kept)
                      /\ MsgsOf(h[k].kept) \subseteq Seen(k) /\ MsgsIn(h[k].dropped) \subseteq Seen(k)
                      /\ MsgsOf(h[k].kept) \cap MsgsIn(h[k].dropped) = {}
           T == {k \in Nat : k <= n => Good(k)}
<1>2. n \in Nat /\ DOMAIN txs = 1 .. n
    OBVIOUS
<1>3. 0 \in T
    <2>0. Base(start).kept = <<>> /\ Base(start).dropped = {}
        BY DEF Base
    <2>1. h[0].kept = <<>> /\ h[0].dropped = {}
        BY <1>1, <2>0, Zenon DEF IsRecheck
    <2>2. h[0] \in RecheckStates
        BY <1>1, BaseState, Zenon DEF IsRecheck
    <2>3. Once(<<>>) /\ MsgsOf(<<>>) = {}
        BY DEF Once, MsgsOf
    <2>4. MsgsIn({}) = {}
        BY Zenon DEF MsgsIn
    <2> HIDE DEF Seen
    <2>5. Good(0)
        BY <2>1, <2>2, <2>3, <2>4, Zenon
    <2> QED BY <2>5
<1>4. ASSUME NEW k \in Nat, k \in T PROVE k + 1 \in T
    <2> SUFFICES ASSUME k + 1 <= n PROVE Good(k + 1)
        OBVIOUS
    <2>1. k + 1 \in 1 .. n /\ k <= n /\ (k + 1) - 1 = k
        BY <1>2
    <2> DEFINE t == txs[k + 1]
    <2>2. t \in Tx
        BY <1>2, <2>1
    <2>3. Good(k)
        BY <1>4, <2>1, Zenon
    <2>4. t.msg \notin Seen(k)
        <3>1. \A i \in 1 .. k : i \in DOMAIN txs /\ i # k + 1
            BY <1>2, <2>1
        <3> QED BY <1>2, <2>1, <3>1, Zenon DEF Once
    <2>5. Seen(k + 1) = Seen(k) \cup {t.msg}
        <3>1. 1 .. k + 1 = (1 .. k) \cup {k + 1}
            OBVIOUS
        <3> QED BY <3>1, Zenon
    <2> HIDE DEF t, Seen
    <2> DEFINE r == RecheckTx(h[k], t)
    <2>6. h[k + 1] = r
        BY <1>1, <2>1, Zenon DEF t, IsRecheck
    <2>7. /\ r \in RecheckStates
          /\ t.seq = h[k].next => r.kept = Append(h[k].kept, t) /\ r.dropped = h[k].dropped
          /\ t.seq # h[k].next => r.kept = h[k].kept /\ r.dropped = h[k].dropped \cup {t}
        BY <2>2, <2>3, RecheckTxFacts, Zenon
    <2>8. h[k].kept \in Seq(Tx)
        BY <2>3, Zenon DEF RecheckStates
    <2> HIDE DEF r
    <2>9. CASE t.seq = h[k].next
        <3>1. t.msg \notin MsgsOf(h[k].kept)
            BY <2>3, <2>4, Zenon
        <3>2. Once(Append(h[k].kept, t)) /\ MsgsOf(Append(h[k].kept, t)) = MsgsOf(h[k].kept) \cup {t.msg}
            BY <2>2, <2>3, <2>8, <3>1, OnceAppend, Zenon
        <3> QED BY <2>3, <2>4, <2>5, <2>6, <2>7, <2>9, <3>2, Zenon
    <2>10. CASE t.seq # h[k].next
        <3>1. MsgsIn(h[k].dropped \cup {t}) = MsgsIn(h[k].dropped) \cup {t.msg}
            BY Zenon DEF MsgsIn
        <3> QED BY <2>3, <2>4, <2>5, <2>6, <2>7, <2>10, <3>1, ZenonT(30)
    <2> QED BY <2>9, <2>10, Zenon
<1>5. Nat \subseteq T
    <2> HIDE DEF T
    <2> QED BY <1>3, <1>4, NaturalsIn, Zenon
<1>6. Good(n)
    <2>1. n <= n
        BY <1>2
    <2> HIDE DEF Good
    <2> QED BY <1>2, <1>5, <2>1, Zenon
<1>7. Seen(n) = MsgsOf(txs)
    BY <1>2, Zenon DEF MsgsOf
<1> QED BY <1>1, <1>6, <1>7, Zenon

\* Transactions with consecutive sequences are all kept.
LEMMA RecheckConsecutive ==
    ASSUME NEW start \in Nat, NEW txs \in Seq(Tx),
           \A i \in DOMAIN txs : txs[i].seq = start + i - 1
    PROVE  LET r == Recheck(start, txs)
           IN  r.kept = txs /\ r.dropped = {} /\ r.next = start + Len(txs)
<1>1. PICK h : IsRecheck(start, txs, Len(txs), h) /\ Recheck(start, txs) = h[Len(txs)]
    BY RecheckRuns, Zenon
<1> DEFINE n == Len(txs)
           Good(k) == h[k].kept = SubSeq(txs, 1, k) /\ h[k].dropped = {} /\ h[k].next = start + k
           T == {k \in Nat : k <= n => Good(k)}
<1>2. n \in Nat /\ DOMAIN txs = 1 .. n
    OBVIOUS
<1>3. 0 \in T
    <2>1. /\ Base(start).kept = <<>> /\ Base(start).dropped = {} /\ Base(start).next = start
          /\ start + 0 = start /\ SubSeq(txs, 1, 0) = <<>>
        BY DEF Base
    <2>2. Good(0)
        BY <1>1, <2>1, Zenon DEF IsRecheck
    <2> QED BY <2>2
<1>4. ASSUME NEW k \in Nat, k \in T PROVE k + 1 \in T
    <2> SUFFICES ASSUME k + 1 <= n PROVE Good(k + 1)
        OBVIOUS
    <2>1. k + 1 \in 1 .. n /\ k <= n /\ (k + 1) - 1 = k /\ k \in 0 .. n
        BY <1>2
    <2> DEFINE t == txs[k + 1]
    <2>2. t \in Tx /\ t.seq = start + k
        BY <1>2, <2>1, SMTT(30)
    <2>3. Good(k)
        BY <1>4, <2>1, Zenon
    <2>4. Append(SubSeq(txs, 1, k), t) = SubSeq(txs, 1, k + 1) /\ (start + k) + 1 = start + (k + 1)
        BY <1>2, <2>1
    <2> HIDE DEF t
    <2> DEFINE r == RecheckTx(h[k], t)
    <2>5. h[k + 1] = r /\ h[k] \in RecheckStates
        BY <1>1, <2>1, Zenon DEF t, IsRecheck
    <2>6. t.seq = h[k].next => /\ r.next = h[k].next + 1 /\ r.kept = Append(h[k].kept, t)
                               /\ r.dropped = h[k].dropped
        BY <2>2, <2>5, RecheckTxFacts, Zenon
    <2> HIDE DEF r
    <2> QED BY <2>2, <2>3, <2>4, <2>5, <2>6, Zenon
<1>5. n \in T
    <2> HIDE DEF T
    <2> QED BY <1>2, <1>3, <1>4, NaturalsIn, Zenon
<1>6. Good(n)
    BY <1>2, <1>5
<1>7. SubSeq(txs, 1, n) = txs
    OBVIOUS
<1> QED BY <1>1, <1>6, <1>7, Zenon

-----------------------------------------------------------------------------
(* The inductive invariant                                                 *)

Sending == {"estimate", "sign", "set signatures", "send"}
Holding == Sending \cup {"track", "increment", "store"}
Waiting == {"poll", "evicted", "resend", "rejected", "rewind", "forget"}
Unsigned == {"idle", "estimate", "sign", "set signatures"}
Results == {"none", "broadcast failed", "broadcast", "eviction timeout", "cancelled", "confirmed",
            "not found", "not tracked", "resubmission failed", "rejected"}

\* The caller that broadcasts holds the lock; from its signature on a caller works on a
\* transaction of its current message.
PcInv ==
    /\ pc \in [Callers -> {"idle"} \cup Holding \cup Waiting]
    /\ result \in [Messages -> Results]
    /\ \A c \in Callers : pc[c] \in Holding <=> mtx = c
    /\ \A c \in Callers : pc[c] # "idle" => round[c] > 0
    /\ \A c \in Callers : pc[c] \notin Unsigned => tx[c] \in Tx /\ tx[c].msg = Current(c)

OnChain == MsgsOf(committed) \cup MsgsOf(mempool)
Thrown == MsgsIn(evicted) \cup MsgsIn(rejected)

\* A message has one transaction at the node and in one place, and none while its
\* caller may still send a first one.
NodeInv ==
    /\ evicted \subseteq Tx /\ rejected \subseteq Tx
    /\ Once(committed) /\ Once(mempool)
    /\ MsgsOf(committed) \cap MsgsOf(mempool) = {}
    /\ OnChain \cap Thrown = {}
    /\ MsgsIn(evicted) \cap MsgsIn(rejected) = {}
    /\ \A t, u \in evicted : t.msg = u.msg => t = u
    /\ \A c \in Callers, r \in 1..Rounds : <<c, r>> \in OnChain \cup Thrown => r <= round[c]
    /\ \A c \in Callers : pc[c] \in Sending => Current(c) \notin OnChain \cup Thrown
    /\ \A c \in Callers : pc[c] \in {"evicted", "resend"} => tx[c] \in evicted
    /\ \A c \in Callers : pc[c] \in {"rejected", "rewind"} => tx[c] \in rejected

\* Results are final; a caller still at work has told nothing of its message.
ResultInv ==
    /\ \A m \in Messages : result[m] = "confirmed" => m \in MsgsOf(committed)
    /\ \A m \in Messages : result[m] = "rejected" => m \in MsgsIn(rejected)
    /\ \A c \in Callers : pc[c] \notin {"idle", "forget"} => result[Current(c)] = "none"
    /\ \A c \in Callers, r \in 1..Rounds : r > round[c] => result[<<c, r>>] = "none"

\* The mempool follows on from the chain and nothing was ever thrown out of it.
NodeCalm ==
    /\ evicted = {} /\ rejected = {}
    /\ checkSeq = chainSeq + Len(mempool)
    /\ \A i \in DOMAIN mempool : mempool[i].seq = chainSeq + i - 1

NoFailure == \A m \in Messages : result[m] # "broadcast failed"

\* The holder of the lock has, or is about to store, the sequence the node expects.
Aligned(c) ==
    /\ pc[c] \notin {"evicted", "resend", "rejected", "rewind"}
    /\ pc[c] \in Sending => sequence = checkSeq
    /\ pc[c] = "set signatures" => reg[c] = sequence
    /\ pc[c] = "send" => tx[c].seq = sequence /\ tx[c].signedFor = sequence
    /\ pc[c] \in {"track", "increment", "store"} => checkSeq = sequence + 1
    /\ pc[c] = "track" => tx[c].seq = sequence
    /\ pc[c] = "store" => reg[c] = sequence

StepInv ==
    faults = {} =>
        /\ NodeCalm /\ NoFailure /\ TrackedIsSigned
        /\ mtx = "free" => sequence = checkSeq
        /\ \A c \in Callers : Aligned(c)

TypeInv == TxTypeOK /\ PcInv

\* A confirmed message is on chain and a rejected one is among the rejected, hence
\* neither on chain nor in the mempool.
LEMMA ResultsAreTrue ==
    ASSUME committed \in Seq(Tx), mempool \in Seq(Tx), NodeInv, ResultInv
    PROVE  TruthfulResult
<1> SUFFICES ASSUME NEW m \in Messages
             PROVE  /\ result[m] = "confirmed" => \E t \in Range(committed) : t.msg = m
                    /\ result[m] = "rejected" => \A t \in Range(committed \o mempool) : t.msg # m
    BY Zenon DEF TruthfulResult
<1>1. result[m] = "confirmed" => \E t \in Range(committed) : t.msg = m
    BY Zenon DEF ResultInv, MsgsOf, Range
<1>2. MsgsOf(committed \o mempool) \subseteq OnChain
    BY OnceConcat, Zenon DEF NodeInv, OnChain
<1>3. ASSUME result[m] = "rejected", NEW t \in Range(committed \o mempool) PROVE t.msg # m
    <2>1. m \in Thrown
        BY <1>3, Zenon DEF ResultInv, Thrown
    <2>2. t.msg \in OnChain
        BY <1>2, Zenon DEF Range, MsgsOf
    <2> QED BY <2>1, <2>2, Zenon DEF NodeInv
<1> QED BY <1>1, <1>3, Zenon

-----------------------------------------------------------------------------
(* Types, the lock and the transaction at hand                             *)

\* A caller moves, the others stay.
LEMMA GotoFacts ==
    ASSUME NEW X, pc \in [Callers -> X], NEW c \in Callers, NEW l \in X, Goto(c, l)
    PROVE  /\ pc' \in [Callers -> X] /\ pc'[c] = l
           /\ \A d \in Callers : d # c => pc'[d] = pc[d]
    BY Zenon DEF Goto

\* The current message of a caller that has begun.
LEMMA CurrentMessage ==
    ASSUME TypeInv, NEW c \in Callers, pc[c] # "idle"
    PROVE  Current(c) \in Messages /\ round[c] \in 1..Rounds
<1>1. round[c] \in 0..Rounds /\ round[c] > 0
    BY Zenon DEF TypeInv, TxTypeOK, PcInv
<1>2. round[c] \in 1..Rounds
    BY <1>1, ClientAssumption
<1> QED BY <1>2, Zenon DEF Current, Messages

\* A step of c that leaves round and the others' transactions alone keeps PcInv
\* when c's own part of it holds afterwards.
LEMMA PcStep ==
    ASSUME TypeInv, NEW c \in Callers, NEW l \in {"idle"} \cup Holding \cup Waiting,
           pc[c] # "idle", Goto(c, l), round' = round,
           result' \in [Messages -> Results],
           \/ pc[c] \in Holding /\ l \in Holding /\ mtx' = mtx
           \/ pc[c] \in Holding /\ l \notin Holding /\ mtx' = "free"
           \/ pc[c] \notin Holding /\ l \notin Holding /\ mtx' = mtx,
           \A d \in Callers : d # c => tx'[d] = tx[d],
           l \notin Unsigned => tx'[c] \in Tx /\ tx'[c].msg = Current(c)
    PROVE  PcInv'
<1> DEFINE X == {"idle"} \cup Holding \cup Waiting
<1>1. pc \in [Callers -> X] /\ l \in X
    BY Zenon DEF TypeInv, PcInv
<1> HIDE DEF X
<1>2. pc' \in [Callers -> X] /\ pc'[c] = l /\ \A d \in Callers : d # c => pc'[d] = pc[d]
    BY <1>1, GotoFacts, SMTT(30)
<1>3. \A d \in Callers : pc'[d] \in Holding <=> mtx' = d
    <2>1. "free" \notin Callers
        BY ClientAssumption, Zenon
    <2>2. \A d \in Callers : pc[d] \in Holding <=> mtx = d
        BY Zenon DEF TypeInv, PcInv
    <2> HIDE DEF Holding
    <2> QED BY <1>2, <2>1, <2>2, Zenon
<1>4. \A d \in Callers : pc'[d] # "idle" => round'[d] > 0
    BY <1>2, Zenon DEF TypeInv, PcInv
<1>5. \A d \in Callers : pc'[d] \notin Unsigned => tx'[d] \in Tx /\ tx'[d].msg = Current(d)'
    <2>1. \A d \in Callers : Current(d)' = Current(d)
        BY Zenon DEF Current
    <2>2. \A d \in Callers : pc[d] \notin Unsigned => tx[d] \in Tx /\ tx[d].msg = Current(d)
        BY Zenon DEF TypeInv, PcInv
    <2> QED BY <1>2, <2>1, <2>2, Zenon
<1> QED BY <1>2, <1>3, <1>4, <1>5, Zenon DEF PcInv, X

\* Two callers never hold the lock together.
LEMMA OneHolder ==
    ASSUME TypeInv, NEW c \in Callers, pc[c] \in Holding
    PROVE  mtx = c /\ mtx # "free" /\ \A d \in Callers : d # c => pc[d] \notin Holding
<1>1. \A d \in Callers : pc[d] \in Holding <=> mtx = d
    BY Zenon DEF TypeInv, PcInv
<1>2. "free" \notin Callers
    BY ClientAssumption, Zenon
<1> QED BY <1>1, <1>2, Zenon

\* A step that leaves the node alone.
LEMMA NodeKept ==
    ASSUME NodeInv, NEW c \in Callers,
           UNCHANGED <<chainSeq, checkSeq, mempool, committed, evicted, rejected, round>>,
           \A d \in Callers : d # c => pc'[d] = pc[d] /\ tx'[d] = tx[d],
           pc'[c] \in Sending => pc[c] \in Sending,
           pc'[c] \in {"evicted", "resend"} => tx'[c] \in evicted,
           pc'[c] \in {"rejected", "rewind"} => tx'[c] \in rejected
    PROVE  NodeInv'
<1>1. OnChain' = OnChain /\ Thrown' = Thrown /\ \A d \in Callers : Current(d)' = Current(d)
    BY Zenon DEF OnChain, Thrown, Current
<1>2. \A d \in Callers : pc'[d] \in Sending => Current(d)' \notin OnChain' \cup Thrown'
    <2> HIDE DEF Sending
    <2> QED BY <1>1, Zenon DEF NodeInv
<1>3. \A d \in Callers : pc'[d] \in {"evicted", "resend"} => tx'[d] \in evicted'
    BY Zenon DEF NodeInv
<1>4. \A d \in Callers : pc'[d] \in {"rejected", "rewind"} => tx'[d] \in rejected'
    BY Zenon DEF NodeInv
<1>5. \A d \in Callers, r \in 1..Rounds : <<d, r>> \in OnChain' \cup Thrown' => r <= round'[d]
    BY <1>1, Zenon DEF NodeInv
<1>6. /\ evicted' \subseteq Tx /\ rejected' \subseteq Tx /\ Once(committed') /\ Once(mempool')
      /\ MsgsOf(committed') \cap MsgsOf(mempool') = {} /\ OnChain' \cap Thrown' = {}
      /\ MsgsIn(evicted') \cap MsgsIn(rejected') = {}
      /\ \A t, u \in evicted' : t.msg = u.msg => t = u
    BY <1>1, Zenon DEF NodeInv
<1> QED BY <1>2, <1>3, <1>4, <1>5, <1>6, Zenon DEF NodeInv

Settled(m, r) == /\ r = "confirmed" => m \in MsgsOf(committed)
                 /\ r = "rejected" => m \in MsgsIn(rejected)

\* A step of c that reports nothing, or ends by reporting on its current message.
LEMMA ResultKept ==
    ASSUME TypeInv, ResultInv, NEW c \in Callers,
           UNCHANGED <<committed, rejected, round>>,
           \A d \in Callers : d # c => pc'[d] = pc[d],
           \/ /\ result' = result
              /\ pc'[c] \notin {"idle", "forget"} => pc[c] \notin {"idle", "forget"}
           \/ /\ Current(c) \in Messages /\ pc'[c] \in {"idle", "forget"}
              /\ round[c] \in 1..Rounds
              /\ \E r \in Results : Tell(Current(c), r) /\ Settled(Current(c), r)
    PROVE  ResultInv'
<1>0. \A d \in Callers : Current(d)' = Current(d)
    BY Zenon DEF Current
<1>1. CASE /\ result' = result
           /\ pc'[c] \notin {"idle", "forget"} => pc[c] \notin {"idle", "forget"}
    BY <1>0, <1>1, Zenon DEF ResultInv
<1>2. CASE /\ Current(c) \in Messages /\ pc'[c] \in {"idle", "forget"}
           /\ round[c] \in 1..Rounds
           /\ \E r \in Results : Tell(Current(c), r) /\ Settled(Current(c), r)
    <2>1. PICK r \in Results : Tell(Current(c), r) /\ Settled(Current(c), r)
        BY <1>2, Zenon
    <2>2. result'[Current(c)] = r /\ \A o \in Messages : o # Current(c) => result'[o] = result[o]
        <3>1. result \in [Messages -> Results]
            BY Zenon DEF TypeInv, PcInv
        <3>2. Current(c) \in Messages /\ result' = [result EXCEPT ![Current(c)] = r]
            BY <1>2, <2>1, Zenon DEF Tell
        <3> QED BY <3>1, <3>2, Zenon
    <2>3. \A m \in Messages : Settled(m, result[m])
        BY Zenon DEF ResultInv, Settled
    <2>4. \A m \in Messages : Settled(m, result'[m])
        BY <1>2, <2>1, <2>2, <2>3, Zenon
    <2>5. \A m \in Messages : /\ result'[m] = "confirmed" => m \in MsgsOf(committed')
                              /\ result'[m] = "rejected" => m \in MsgsIn(rejected')
        BY <2>4, Zenon DEF Settled
    <2>6. ASSUME NEW d \in Callers, pc'[d] \notin {"idle", "forget"}
          PROVE  result'[Current(d)'] = "none"
        <3>1. d # c
            BY <1>2, <2>6, Zenon
        <3>2. result[Current(d)] = "none"
            BY <2>6, <3>1, Zenon DEF ResultInv
        <3>3. Current(d) # Current(c)
            BY <3>1, Zenon DEF Current
        <3>4. Current(d) \in Messages
            BY <2>6, <3>1, CurrentMessage, Zenon
        <3> QED BY <1>0, <2>2, <3>2, <3>3, <3>4, Zenon
    <2>7. ASSUME NEW d \in Callers, NEW r2 \in 1..Rounds, r2 > round'[d]
          PROVE  result'[<<d, r2>>] = "none"
        <3>1. result[<<d, r2>>] = "none"
            BY <2>7, Zenon DEF ResultInv
        <3>2. <<d, r2>> # Current(c)
            <4>1. SUFFICES ASSUME <<d, r2>> = <<c, round[c]>> PROVE FALSE
                BY Zenon DEF Current
            <4>2. d = c /\ r2 = round[c]
                BY <4>1, Zenon
            <4> QED BY <1>2, <2>7, <4>2
        <3>3. <<d, r2>> \in Messages
            BY Zenon DEF Messages
        <3> QED BY <2>2, <3>1, <3>2, <3>3, Zenon
    <2> QED BY <2>5, <2>6, <2>7, Zenon DEF ResultInv
<1> QED BY <1>1, <1>2, Zenon

\* A step of c in a calm run that leaves the others where they are.
LEMMA StepKept ==
    ASSUME TypeInv, StepInv, NEW c \in Callers, faults' = faults,
           \A d \in Callers : d # c => pc'[d] = pc[d] /\ tx'[d] = tx[d] /\ reg'[d] = reg[d],
           faults = {} =>
               /\ NodeCalm' /\ NoFailure' /\ TrackedIsSigned'
               /\ mtx' = "free" => sequence' = checkSeq'
               /\ Aligned(c)'
               /\ \/ sequence' = sequence /\ checkSeq' = checkSeq
                  \/ pc[c] \in Holding
    PROVE  StepInv'
<1> SUFFICES ASSUME faults = {}, NEW d \in Callers, d # c PROVE Aligned(d)'
    BY Zenon DEF StepInv
<1>1. Aligned(d)
    BY Zenon DEF StepInv
<1>2. CASE sequence' = sequence /\ checkSeq' = checkSeq
    BY <1>1, <1>2, Zenon DEF Aligned
<1>3. CASE pc[c] \in Holding
    <2>1. pc[d] \notin Holding
        BY <1>3, OneHolder, Zenon
    <2>2. pc'[d] \notin Holding /\ pc'[d] \notin {"evicted", "resend", "rejected", "rewind"}
        BY <1>1, <2>1, Zenon DEF Aligned
    <2> QED BY <2>2, Zenon DEF Aligned, Holding, Sending
<1> QED BY <1>2, <1>3, Zenon

\* What the status of a transaction says.
LEMMA StatusFacts ==
    ASSUME NEW t
    PROVE  /\ TxStatus(t) = "COMMITTED" => t \in Range(committed)
           /\ TxStatus(t) = "EVICTED" => t \in evicted
           /\ TxStatus(t) = "REJECTED" => t \in rejected
    BY DEF TxStatus

TxInv == TypeInv /\ NodeInv /\ ResultInv /\ StepInv

Places == {"idle"} \cup Holding \cup Waiting

\* The lock is kept, released or not touched by a step of c to l.
LockStep(c, l) ==
    \/ pc[c] \in Holding /\ l \in Holding /\ mtx' = mtx
    \/ pc[c] \in Holding /\ l \notin Holding /\ mtx' = "free"
    \/ pc[c] \notin Holding /\ l \notin Holding /\ mtx' = mtx

\* A step of c to l reports nothing, or ends with a true report.
ReportStep(c, l) ==
    \/ result' = result /\ (l \notin {"idle", "forget"} => pc[c] \notin {"idle", "forget"})
    \/ l \in {"idle", "forget"} /\ \E r \in Results : Tell(Current(c), r) /\ Settled(Current(c), r)

\* A report keeps the types of the results.
LEMMA ReportType ==
    ASSUME TypeInv, NEW c \in Callers, NEW l, pc[c] # "idle", ReportStep(c, l)
    PROVE  result' \in [Messages -> Results]
<1>1. result \in [Messages -> Results] /\ Current(c) \in Messages
    BY CurrentMessage, Zenon DEF TypeInv, PcInv
<1>2. CASE result' = result
    BY <1>1, <1>2, Zenon
<1>3. ASSUME NEW r \in Results, Tell(Current(c), r) PROVE result' \in [Messages -> Results]
    <2> HIDE DEF Results
    <2> QED BY <1>1, <1>3, Zenon DEF Tell
<1> QED BY <1>2, <1>3, Zenon DEF ReportStep

\* A step of c to l that leaves the node and the rounds alone.
LEMMA QuietStep ==
    ASSUME TxInv, NEW c \in Callers, NEW l \in Places, pc[c] # "idle", Goto(c, l),
           UNCHANGED <<faults, round, nodeVars>>,
           sequence' \in Nat, txTracker' \in Seq([tx : Tx, sequence : Nat]),
           tx' \in [Callers -> Tx \cup {NoTx}], reg' \in [Callers -> Nat],
           \A d \in Callers : d # c => tx'[d] = tx[d] /\ reg'[d] = reg[d],
           LockStep(c, l), ReportStep(c, l),
           l \notin Unsigned => tx'[c] \in Tx /\ tx'[c].msg = Current(c),
           l \in Sending => pc[c] \in Sending,
           l \in {"evicted", "resend"} => tx'[c] \in evicted,
           l \in {"rejected", "rewind"} => tx'[c] \in rejected,
           faults = {} => /\ NoFailure' /\ (mtx' = "free" => sequence' = checkSeq)
                          /\ Aligned(c)' /\ TrackedIsSigned'
                          /\ sequence' = sequence \/ pc[c] \in Holding
    PROVE  TxInv'
<1>1. /\ UNCHANGED <<chainSeq, checkSeq, mempool, committed, evicted, rejected, round>>
      /\ faults' = faults
    BY Zenon DEF nodeVars
<1>2. result' \in [Messages -> Results]
    BY ReportType, Zenon DEF TxInv
<1>3. /\ pc' \in [Callers -> Places] /\ pc'[c] = l
      /\ \A d \in Callers : d # c => pc'[d] = pc[d]
    <2>1. pc \in [Callers -> Places]
        BY Zenon DEF TxInv, TypeInv, PcInv, Places
    <2>2. pc' = [pc EXCEPT ![c] = l]
        BY Zenon DEF Goto
    <2> HIDE DEF Places
    <2> QED BY <2>1, <2>2, Zenon
<1>4. PcInv'
    <2>1. TypeInv /\ round' = round /\ \A d \in Callers : d # c => tx'[d] = tx[d]
        BY <1>1, Zenon DEF TxInv
    <2> HIDE DEF Holding, Waiting, Unsigned, Sending
    <2> QED BY <1>2, <2>1, PcStep, Zenon DEF Places, LockStep
<1>5. TxTypeOK'
    <2>1. mtx' \in Callers \cup {"free"}
        BY Zenon DEF TxInv, TypeInv, TxTypeOK, LockStep
    <2> QED BY <1>1, <2>1, Zenon DEF TxInv, TypeInv, TxTypeOK
<1>6. NodeInv'
    <2>1. NodeInv /\ \A d \in Callers : d # c => pc'[d] = pc[d] /\ tx'[d] = tx[d]
        BY <1>3, Zenon DEF TxInv
    <2>2. /\ pc'[c] \in Sending => pc[c] \in Sending
          /\ pc'[c] \in {"evicted", "resend"} => tx'[c] \in evicted
          /\ pc'[c] \in {"rejected", "rewind"} => tx'[c] \in rejected
        BY <1>3, Zenon
    <2> QED BY <1>1, <2>1, <2>2, NodeKept, Zenon
<1>7. ResultInv'
    <2>1. TypeInv /\ ResultInv
        BY Zenon DEF TxInv
    <2>2. Current(c) \in Messages /\ round[c] \in 1..Rounds
        BY <2>1, CurrentMessage, Zenon
    <2>3. \/ /\ result' = result
             /\ pc'[c] \notin {"idle", "forget"} => pc[c] \notin {"idle", "forget"}
          \/ /\ Current(c) \in Messages /\ pc'[c] \in {"idle", "forget"}
             /\ round[c] \in 1..Rounds
             /\ \E r \in Results : Tell(Current(c), r) /\ Settled(Current(c), r)
        BY <1>3, <2>2, Zenon DEF ReportStep
    <2> QED BY <1>1, <1>3, <2>1, <2>3, ResultKept, Zenon
<1>8. StepInv'
    <2>1. /\ TypeInv /\ StepInv
          /\ \A d \in Callers : d # c => pc'[d] = pc[d] /\ tx'[d] = tx[d] /\ reg'[d] = reg[d]
        BY <1>3, Zenon DEF TxInv
    <2>2. ASSUME faults = {}
          PROVE  /\ NodeCalm' /\ NoFailure' /\ TrackedIsSigned'
                 /\ mtx' = "free" => sequence' = checkSeq'
                 /\ Aligned(c)'
                 /\ \/ sequence' = sequence /\ checkSeq' = checkSeq
                    \/ pc[c] \in Holding
        <3>1. NodeCalm
            BY <2>1, <2>2, Zenon DEF StepInv
        <3>2. NodeCalm'
            BY <1>1, <3>1, Zenon DEF NodeCalm
        <3> QED BY <1>1, <2>2, <3>2, Zenon
    <2> QED BY <1>1, <2>1, <2>2, StepKept, Zenon
<1> QED BY <1>4, <1>5, <1>6, <1>7, <1>8, Zenon DEF TxInv, TypeInv

-----------------------------------------------------------------------------
(* Waiting for a confirmation                                              *)

\* The types a step starts from.
LEMMA Types ==
    ASSUME TxInv, NEW c \in Callers
    PROVE  /\ sequence \in Nat /\ checkSeq \in Nat /\ chainSeq \in Nat
           /\ tx \in [Callers -> Tx \cup {NoTx}] /\ reg \in [Callers -> Nat] /\ reg[c] \in Nat
           /\ pc \in [Callers -> Places] /\ pc[c] \in Places
           /\ txTracker \in Seq([tx : Tx, sequence : Nat])
           /\ mempool \in Seq(Tx) /\ committed \in Seq(Tx)
           /\ pc[c] \notin Unsigned => tx[c] \in Tx /\ tx[c].msg = Current(c)
    BY Zenon DEF TxInv, TypeInv, TxTypeOK, PcInv, Places

\* The places a waiting caller may be in.
LEMMA WaitingPlaces ==
    ASSUME NEW l \in {"idle"} \cup Waiting
    PROVE  /\ l \in Places /\ l \notin Holding /\ l \notin Sending
           /\ l \in Waiting => l \notin Unsigned /\ l # "idle"
    BY Zenon DEF Places, Holding, Sending, Waiting, Unsigned

\* A step of a waiting caller that leaves the account's sequence alone.
LEMMA WaitStep ==
    ASSUME TxInv, NEW c \in Callers, pc[c] \in Waiting,
           NEW l \in {"idle"} \cup Waiting, Goto(c, l),
           UNCHANGED <<sharedVars, mtx, round, tx, nodeVars>>,
           reg' \in [Callers -> Nat], \A d \in Callers : d # c => reg'[d] = reg[d],
           ReportStep(c, l), NoFailure => NoFailure',
           l \in {"evicted", "resend"} => tx[c] \in evicted,
           l \in {"rejected", "rewind"} => tx[c] \in rejected
    PROVE  TxInv'
<1>1. /\ l \in Places /\ l \notin Holding /\ l \notin Sending
      /\ pc[c] \notin Holding /\ pc[c] \notin Unsigned /\ pc[c] # "idle"
    BY WaitingPlaces, Zenon
<1>2. /\ UNCHANGED <<faults, round, nodeVars>> /\ sequence' = sequence
      /\ tx' = tx /\ mtx' = mtx /\ faults' = faults /\ txTracker' = txTracker
    BY Zenon DEF sharedVars
<1>3. LockStep(c, l)
    BY <1>1, <1>2, Zenon DEF LockStep
<1>4. ASSUME faults = {}
      PROVE  /\ NoFailure' /\ (mtx' = "free" => sequence' = checkSeq)
             /\ Aligned(c)' /\ TrackedIsSigned'
             /\ sequence' = sequence \/ pc[c] \in Holding
    <2>1. StepInv
        BY Zenon DEF TxInv
    <2>2. NodeCalm /\ NoFailure /\ (mtx = "free" => sequence = checkSeq)
        BY <1>4, <2>1, Zenon DEF StepInv
    <2>3. l \notin {"evicted", "resend", "rejected", "rewind"}
        <3>1. evicted = {} /\ rejected = {}
            BY <2>2, Zenon DEF NodeCalm
        <3> QED BY <3>1, Zenon
    <2>4. pc'[c] = l
        BY Types, Zenon DEF Goto
    <2>5. Aligned(c)'
        BY <1>1, <2>3, <2>4, Zenon DEF Aligned, Holding, Sending
    <2>6. TrackedIsSigned'
        BY <1>2, <1>4, <2>1, Zenon DEF StepInv, TrackedIsSigned
    <2> QED BY <1>2, <2>2, <2>5, <2>6, Zenon
<1>5. /\ sequence' \in Nat /\ txTracker' \in Seq([tx : Tx, sequence : Nat])
      /\ tx' \in [Callers -> Tx \cup {NoTx}]
      /\ tx'[c] \in Tx /\ tx'[c].msg = Current(c)
    BY <1>1, <1>2, Types, Zenon
<1>6. \A d \in Callers : d # c => tx'[d] = tx[d] /\ reg'[d] = reg[d]
    BY <1>2, Zenon
<1>7. /\ l \in {"evicted", "resend"} => tx'[c] \in evicted
      /\ l \in {"rejected", "rewind"} => tx'[c] \in rejected
    BY <1>2, Zenon
<1> HIDE DEF Unsigned, Sending
<1> QED BY <1>1, <1>2, <1>3, <1>4, <1>5, <1>6, <1>7, QuietStep, ZenonT(30)

\* A result other than a failed broadcast.
LEMMA ReportOther ==
    ASSUME TypeInv, NEW c \in Callers, pc[c] # "idle",
           NEW r \in Results, r # "broadcast failed", Tell(Current(c), r)
    PROVE  NoFailure => NoFailure'
<1>1. result \in [Messages -> Results] /\ Current(c) \in Messages
    BY CurrentMessage, Zenon DEF TypeInv, PcInv
<1>2. \A m \in Messages : result'[m] = r \/ result'[m] = result[m]
    <2>1. result' = [result EXCEPT ![Current(c)] = r]
        BY Zenon DEF Tell
    <2> QED BY <1>1, <2>1, Zenon
<1> QED BY <1>2, Zenon DEF NoFailure

\* A waiting caller returns, or moves on, with a result.
LEMMA WaitReports ==
    ASSUME TxInv, NEW c \in Callers, pc[c] \in Waiting,
           NEW l \in {"idle", "forget"}, Goto(c, l),
           UNCHANGED <<sharedVars, mtx, round, tx, reg, nodeVars>>,
           NEW r \in Results, r # "broadcast failed", Tell(Current(c), r), Settled(Current(c), r)
    PROVE  TxInv'
<1>1. l \in {"idle"} \cup Waiting /\ l \notin {"evicted", "resend", "rejected", "rewind"}
    BY Zenon DEF Waiting
<1>2. pc[c] # "idle"
    BY WaitingPlaces, Zenon
<1>3. ReportStep(c, l)
    BY Zenon DEF ReportStep
<1>4. NoFailure => NoFailure'
    BY <1>2, ReportOther, Zenon DEF TxInv
<1>5. reg' \in [Callers -> Nat] /\ \A d \in Callers : d # c => reg'[d] = reg[d]
    BY Types, Zenon
<1>6. UNCHANGED <<sharedVars, mtx, round, tx, nodeVars>>
    BY Zenon
<1>7. /\ l \in {"evicted", "resend"} => tx[c] \in evicted
      /\ l \in {"rejected", "rewind"} => tx[c] \in rejected
    BY <1>1, Zenon
<1> HIDE DEF Waiting
<1> QED BY <1>1, <1>3, <1>4, <1>5, <1>6, <1>7, WaitStep, Zenon

\* A waiting caller moves on without a result.
LEMMA WaitMoves ==
    ASSUME TxInv, NEW c \in Callers, pc[c] \in Waiting, pc[c] # "forget",
           NEW l \in Waiting, l # "forget", Goto(c, l),
           UNCHANGED <<sharedVars, mtx, round, tx, result, nodeVars>>,
           reg' \in [Callers -> Nat], \A d \in Callers : d # c => reg'[d] = reg[d],
           l \in {"evicted", "resend"} => tx[c] \in evicted,
           l \in {"rejected", "rewind"} => tx[c] \in rejected
    PROVE  TxInv'
<1>1. l \in {"idle"} \cup Waiting /\ pc[c] # "idle"
    BY WaitingPlaces, Zenon
<1>2. ReportStep(c, l)
    BY <1>1, Zenon DEF ReportStep
<1>3. NoFailure => NoFailure'
    BY Zenon DEF NoFailure
<1>4. UNCHANGED <<sharedVars, mtx, round, tx, nodeVars>>
    BY Zenon
<1> HIDE DEF Waiting
<1> QED BY <1>1, <1>2, <1>3, <1>4, WaitStep, Zenon

\* evictionPollTimeOut reports that the resubmission was never accepted.
LEMMA TimeOutStep == ASSUME TxInv, NEW c \in Callers, evictionPollTimeOut(c) PROVE TxInv'
<1>1. /\ pc[c] = "poll" /\ Goto(c, "idle") /\ Tell(Current(c), "eviction timeout")
      /\ UNCHANGED <<sharedVars, mtx, round, tx, reg, nodeVars>>
    BY Zenon DEF evictionPollTimeOut
<1>2. /\ pc[c] \in Waiting /\ "eviction timeout" \in Results
      /\ "eviction timeout" # "broadcast failed" /\ "idle" \in {"idle", "forget"}
    BY <1>1, Zenon DEF Waiting, Results
<1>3. Settled(Current(c), "eviction timeout")
    BY DEF Settled
<1> QED BY <1>1, <1>2, <1>3, WaitReports, Zenon

\* A turn of ConfirmTx's loop: what it reports is what the node's status says.
LEMMA ConfirmStep == ASSUME TxInv, NEW c \in Callers, ConfirmTx(c) PROVE TxInv'
<1>0. /\ pc[c] = "poll" /\ UNCHANGED <<sharedVars, mtx, round, tx, reg, nodeVars>>
      /\ UNCHANGED <<sharedVars, mtx, round, tx, nodeVars>>
    BY Zenon DEF ConfirmTx
<1>1. pc[c] \in Waiting /\ pc[c] # "forget" /\ pc[c] \notin Unsigned
    BY <1>0 DEF Waiting, Unsigned
<1>2. tx[c] \in Tx /\ tx[c].msg = Current(c)
    BY <1>1, Types, Zenon
<1>3. ASSUME Goto(c, "idle"), Tell(Current(c), "cancelled") PROVE TxInv'
    <2>1. /\ "cancelled" \in Results /\ "cancelled" # "broadcast failed" /\ "idle" \in {"idle", "forget"}
          /\ Settled(Current(c), "cancelled")
        BY DEF Results, Settled
    <2> QED BY <1>0, <1>1, <1>3, <2>1, WaitReports, Zenon
<1>4. ASSUME Goto(c, "forget"), Tell(Current(c), "not found") PROVE TxInv'
    <2>1. /\ "not found" \in Results /\ "not found" # "broadcast failed" /\ "forget" \in {"idle", "forget"}
          /\ Settled(Current(c), "not found")
        BY DEF Results, Settled
    <2> QED BY <1>0, <1>1, <1>4, <2>1, WaitReports, Zenon
<1>5. ASSUME TxStatus(tx[c]) = "COMMITTED", Goto(c, "forget"), Tell(Current(c), "confirmed")
      PROVE  TxInv'
    <2>1. "confirmed" \in Results /\ "confirmed" # "broadcast failed" /\ "forget" \in {"idle", "forget"}
        BY DEF Results
    <2>2. tx[c] \in Range(committed)
        BY <1>5, StatusFacts, Zenon
    <2>3. Current(c) \in MsgsOf(committed)
        BY <1>2, <2>2, Zenon DEF Range, MsgsOf
    <2>4. Settled(Current(c), "confirmed")
        BY <2>3 DEF Settled
    <2> QED BY <1>0, <1>1, <1>5, <2>1, <2>4, WaitReports, Zenon
<1>6. reg' \in [Callers -> Nat] /\ \A d \in Callers : d # c => reg'[d] = reg[d]
    BY <1>0, Types, Zenon
<1>7. ASSUME TxStatus(tx[c]) = "EVICTED", Goto(c, "evicted"), result' = result PROVE TxInv'
    <2>1. "evicted" \in Waiting /\ "evicted" # "forget" /\ "evicted" \notin {"rejected", "rewind"}
        BY DEF Waiting
    <2>2. tx[c] \in evicted
        BY <1>7, StatusFacts, Zenon
    <2>3. UNCHANGED <<sharedVars, mtx, round, tx, result, nodeVars>>
        BY <1>0, <1>7, Zenon
    <2> HIDE DEF Waiting
    <2> QED BY <1>1, <1>6, <1>7, <2>1, <2>2, <2>3, WaitMoves, ZenonT(30)
<1>8. ASSUME TxStatus(tx[c]) = "REJECTED", Goto(c, "rejected"), result' = result PROVE TxInv'
    <2>1. "rejected" \in Waiting /\ "rejected" # "forget" /\ "rejected" \notin {"evicted", "resend"}
        BY DEF Waiting
    <2>2. tx[c] \in rejected
        BY <1>8, StatusFacts, Zenon
    <2>3. UNCHANGED <<sharedVars, mtx, round, tx, result, nodeVars>>
        BY <1>0, <1>8, Zenon
    <2> HIDE DEF Waiting
    <2> QED BY <1>1, <1>6, <1>8, <2>1, <2>2, <2>3, WaitMoves, ZenonT(30)
<1> QED BY <1>3, <1>4, <1>5, <1>7, <1>8, Zenon DEF ConfirmTx

\* GetTxFromTxTracker for an evicted transaction.
LEMMA EvictedStep == ASSUME TxInv, NEW c \in Callers, Evicted(c) PROVE TxInv'
<1>0. /\ pc[c] = "evicted" /\ UNCHANGED <<sharedVars, mtx, round, tx, reg, nodeVars>>
    BY Zenon DEF Evicted
<1>1. pc[c] \in Waiting /\ pc[c] # "forget" /\ "poll" \in Waiting /\ "resend" \in Waiting
    BY <1>0 DEF Waiting
<1>2. tx[c] \in evicted
    BY <1>0, Zenon DEF TxInv, NodeInv
<1>3. ASSUME Goto(c, "idle"), Tell(Current(c), "not tracked") PROVE TxInv'
    <2>1. /\ "not tracked" \in Results /\ "not tracked" # "broadcast failed" /\ "idle" \in {"idle", "forget"}
          /\ Settled(Current(c), "not tracked")
        BY DEF Results, Settled
    <2> QED BY <1>0, <1>1, <1>3, <2>1, WaitReports, Zenon
<1>4. ASSUME Goto(c, IF evicting[c] THEN "poll" ELSE "resend"), result' = result PROVE TxInv'
    <2> DEFINE l == IF evicting[c] THEN "poll" ELSE "resend"
    <2>1. l = "poll" \/ l = "resend"
        BY Zenon
    <2>2. Goto(c, l)
        BY <1>4, Zenon
    <2> HIDE DEF l
    <2>3. l \in Waiting /\ l # "forget" /\ l \notin {"rejected", "rewind"}
        BY <2>1 DEF Waiting
    <2>4. UNCHANGED <<sharedVars, mtx, round, tx, result, nodeVars>>
        BY <1>0, <1>4, Zenon
    <2>5. reg' \in [Callers -> Nat] /\ \A d \in Callers : d # c => reg'[d] = reg[d]
        BY <1>0, Types, Zenon
    <2> HIDE DEF Waiting
    <2> QED BY <1>1, <1>2, <2>2, <2>3, <2>4, <2>5, WaitMoves, ZenonT(30)
<1> QED BY <1>3, <1>4, Zenon DEF Evicted

\* GetTxFromTxTracker for a rejected transaction.
LEMMA RejectedStep == ASSUME TxInv, NEW c \in Callers, Rejected(c) PROVE TxInv'
<1>0. /\ pc[c] = "rejected" /\ UNCHANGED <<sharedVars, mtx, round, tx, nodeVars>>
    BY Zenon DEF Rejected
<1>1. /\ pc[c] \in Waiting /\ pc[c] # "forget" /\ "rewind" \in Waiting
      /\ "rewind" # "forget" /\ "rewind" \notin {"evicted", "resend"}
    BY <1>0 DEF Waiting
<1>2. tx[c] \in rejected
    BY <1>0, Zenon DEF TxInv, NodeInv
<1>3. ASSUME Goto(c, "idle"), Tell(Current(c), "not tracked"), reg' = reg PROVE TxInv'
    <2>1. /\ "not tracked" \in Results /\ "not tracked" # "broadcast failed" /\ "idle" \in {"idle", "forget"}
          /\ Settled(Current(c), "not tracked")
        BY DEF Results, Settled
    <2>2. UNCHANGED <<sharedVars, mtx, round, tx, reg, nodeVars>>
        BY <1>0, <1>3, Zenon
    <2> QED BY <1>1, <1>3, <2>1, <2>2, WaitReports, Zenon
<1>4. ASSUME NEW i \in Tracked(tx[c]), reg' = [reg EXCEPT ![c] = txTracker[i].sequence],
             Goto(c, "rewind"), result' = result
      PROVE  TxInv'
    <2>1. txTracker[i].sequence \in Nat
        <3> DEFINE E == [tx : Tx, sequence : Nat]
        <3>1. i \in DOMAIN txTracker /\ txTracker \in Seq(E)
            BY Types, Zenon DEF Tracked
        <3> HIDE DEF E
        <3>2. txTracker[i] \in E
            BY <3>1
        <3> QED BY <3>2, Zenon DEF E
    <2>2. reg' \in [Callers -> Nat] /\ \A d \in Callers : d # c => reg'[d] = reg[d]
        BY <1>4, <2>1, Types, Zenon
    <2>3. UNCHANGED <<sharedVars, mtx, round, tx, result, nodeVars>>
        BY <1>0, <1>4, Zenon
    <2> HIDE DEF Waiting
    <2> QED BY <1>1, <1>2, <1>4, <2>2, <2>3, WaitMoves, Zenon
<1> QED BY <1>3, <1>4, Zenon DEF Rejected

\* SetSequence without the lock: never in a calm run, where nothing is rejected.
LEMMA RewindStep == ASSUME TxInv, NEW c \in Callers, Rewind(c) PROVE TxInv'
<1>0. /\ pc[c] = "rewind" /\ UNCHANGED <<faults, round, nodeVars>> /\ txTracker' = txTracker
      /\ mtx' = mtx /\ tx' = tx /\ reg' = reg /\ sequence' = reg[c]
      /\ Goto(c, "forget") /\ Tell(Current(c), "rejected")
    BY Zenon DEF Rewind
<1>1. /\ pc[c] \in Waiting /\ "forget" \in {"idle"} \cup Waiting /\ "forget" \in {"idle", "forget"}
      /\ "forget" \notin {"evicted", "resend", "rejected", "rewind"} /\ "rejected" \in Results
    BY <1>0 DEF Waiting, Results
<1>2. /\ "forget" \in Places /\ "forget" \notin Holding /\ "forget" \notin Sending
      /\ pc[c] \notin Holding /\ pc[c] \notin Unsigned /\ pc[c] # "idle"
    BY <1>1, WaitingPlaces, Zenon
<1>3. LockStep(c, "forget")
    BY <1>0, <1>2, Zenon DEF LockStep
<1>4. tx[c] \in Tx /\ tx[c].msg = Current(c) /\ tx[c] \in rejected
    BY <1>0, <1>2, Types, Zenon DEF TxInv, NodeInv
<1>5. ReportStep(c, "forget")
    <2>1. Current(c) \in MsgsIn(rejected)
        BY <1>4, Zenon DEF MsgsIn
    <2>2. Settled(Current(c), "rejected")
        BY <2>1 DEF Settled
    <2> QED BY <1>0, <1>1, <2>2, Zenon DEF ReportStep
<1>6. faults # {}
    BY <1>0, Zenon DEF TxInv, StepInv, Aligned
<1>7. /\ sequence' \in Nat /\ txTracker' \in Seq([tx : Tx, sequence : Nat])
      /\ tx' \in [Callers -> Tx \cup {NoTx}] /\ reg' \in [Callers -> Nat]
      /\ tx'[c] \in Tx /\ tx'[c].msg = Current(c)
      /\ \A d \in Callers : d # c => tx'[d] = tx[d] /\ reg'[d] = reg[d]
    BY <1>0, <1>4, Types, Zenon
<1> HIDE DEF Unsigned, Sending
<1> QED BY <1>0, <1>1, <1>2, <1>3, <1>5, <1>6, <1>7, QuietStep, ZenonT(30)

\* What is left of the tracker was there before.
LEMMA TrackerWithout ==
    ASSUME NEW S, NEW s \in Seq(S), NEW i \in DOMAIN s
    PROVE  /\ Without(s, i) \in Seq(S)
           /\ \A j \in DOMAIN Without(s, i) : \E k \in DOMAIN s : Without(s, i)[j] = s[k]
<1> DEFINE w == Without(s, i)
<1>1. /\ w \in Seq(S) /\ Len(w) = Len(s) - 1
      /\ \A j \in 1 .. Len(s) - 1 : w[j] = IF j < i THEN s[j] ELSE s[j + 1]
    BY WithoutFacts
<1> HIDE DEF w
<1>2. DOMAIN w = 1 .. Len(s) - 1 /\ DOMAIN s = 1 .. Len(s) /\ Len(s) \in Nat
    BY <1>1
<1>3. \A j \in DOMAIN w : (j \in DOMAIN s /\ w[j] = s[j]) \/ (j + 1 \in DOMAIN s /\ w[j] = s[j + 1])
    BY <1>1, <1>2
<1>4. \A j \in DOMAIN w : \E k \in DOMAIN s : w[j] = s[k]
    BY <1>3, Zenon
<1> QED BY <1>1, <1>4, Zenon DEF w

\* deleteFromTxTracker removes at most an entry.
LEMMA ForgetStep == ASSUME TxInv, NEW c \in Callers, Forget(c) PROVE TxInv'
<1>0. /\ pc[c] = "forget" /\ Goto(c, "idle") /\ txTracker' = deleteFromTxTracker(tx[c])
      /\ sequence' = sequence /\ mtx' = mtx /\ tx' = tx /\ reg' = reg /\ result' = result
      /\ UNCHANGED <<faults, round, nodeVars>> /\ UNCHANGED <<faults, checkSeq>>
    BY Zenon DEF Forget, callerVars, nodeVars
<1>1. /\ "idle" \in Places /\ "idle" \notin Holding /\ pc[c] \notin Holding /\ "idle" \in Unsigned
      /\ pc[c] # "idle" /\ "idle" \notin Sending
      /\ "idle" \notin {"evicted", "resend", "rejected", "rewind"} /\ "idle" \in {"idle", "forget"}
    BY <1>0 DEF Places, Holding, Sending, Unsigned
<1>2. /\ txTracker' \in Seq([tx : Tx, sequence : Nat])
      /\ \A j \in DOMAIN txTracker' : \E k \in DOMAIN txTracker : txTracker'[j] = txTracker[k]
    <2>1. txTracker \in Seq([tx : Tx, sequence : Nat])
        BY Types, Zenon
    <2>2. CASE Tracked(tx[c]) = {}
        BY <1>0, <2>1, <2>2, Zenon DEF deleteFromTxTracker
    <2>3. CASE Tracked(tx[c]) # {}
        <3> DEFINE i == CHOOSE k \in Tracked(tx[c]) : TRUE
        <3>1. i \in Tracked(tx[c])
            BY <2>3, Zenon
        <3>2. i \in DOMAIN txTracker /\ txTracker' = Without(txTracker, i)
            BY <1>0, <2>3, <3>1, Zenon DEF deleteFromTxTracker, Tracked
        <3> HIDE DEF i
        <3>3. /\ Without(txTracker, i) \in Seq([tx : Tx, sequence : Nat])
              /\ \A j \in DOMAIN Without(txTracker, i) :
                    \E k \in DOMAIN txTracker : Without(txTracker, i)[j] = txTracker[k]
            BY <2>1, <3>2, TrackerWithout
        <3> QED BY <3>2, <3>3, Zenon
    <2> QED BY <2>2, <2>3, Zenon
<1>3. LockStep(c, "idle") /\ ReportStep(c, "idle")
    BY <1>0, <1>1, Zenon DEF LockStep, ReportStep
<1>4. ASSUME faults = {}
      PROVE  /\ NoFailure' /\ (mtx' = "free" => sequence' = checkSeq)
             /\ Aligned(c)' /\ TrackedIsSigned'
    <2>1. NoFailure /\ TrackedIsSigned /\ (mtx = "free" => sequence = checkSeq)
        BY <1>4, Zenon DEF TxInv, StepInv
    <2>2. NoFailure' /\ TrackedIsSigned'
        BY <1>0, <1>2, <2>1, Zenon DEF NoFailure, TrackedIsSigned
    <2>3. pc'[c] = "idle"
        BY <1>0, Types, Zenon DEF Goto
    <2>4. Aligned(c)'
        BY <2>3 DEF Aligned, Sending
    <2> QED BY <1>0, <2>1, <2>2, <2>4, Zenon
<1>5. /\ sequence' \in Nat /\ tx' \in [Callers -> Tx \cup {NoTx}] /\ reg' \in [Callers -> Nat]
      /\ \A d \in Callers : d # c => tx'[d] = tx[d] /\ reg'[d] = reg[d]
    BY <1>0, Types, Zenon
<1> HIDE DEF Unsigned, Sending
<1> QED BY <1>0, <1>1, <1>2, <1>3, <1>4, <1>5, QuietStep, Zenon

-----------------------------------------------------------------------------
(* Broadcasting under the lock                                             *)

\* What pruning leaves of the tracker was there before.
LEMMA TrackerPruned ==
    ASSUME NEW S, NEW s \in Seq(S), NEW n \in 0 .. Len(s)
    PROVE  /\ SubSeq(s, n + 1, Len(s)) \in Seq(S)
           /\ \A j \in DOMAIN SubSeq(s, n + 1, Len(s)) :
                 \E k \in DOMAIN s : SubSeq(s, n + 1, Len(s))[j] = s[k]
<1> DEFINE w == SubSeq(s, n + 1, Len(s))
<1>1. w \in Seq(S) /\ Len(w) = Len(s) - n /\ \A j \in 1 .. Len(s) - n : w[j] = s[n + j]
    OBVIOUS
<1> HIDE DEF w
<1>2. DOMAIN w = 1 .. Len(s) - n /\ DOMAIN s = 1 .. Len(s) /\ Len(s) \in Nat
    BY <1>1
<1>3. \A j \in DOMAIN w : n + j \in DOMAIN s /\ w[j] = s[n + j]
    BY <1>1, <1>2, SMTT(30)
<1>4. \A j \in DOMAIN w : \E k \in DOMAIN s : w[j] = s[k]
    BY <1>3, Zenon
<1> QED BY <1>1, <1>4, Zenon DEF w

\* BroadcastTx takes the lock for a new message, of which the node knows nothing.
LEMMA BroadcastStep == ASSUME TxInv, NEW c \in Callers, BroadcastTx(c) PROVE TxInv'
<1>0. /\ pc[c] = "idle" /\ round[c] < Rounds /\ mtx = "free" /\ mtx' = c
      /\ round' = [round EXCEPT ![c] = round[c] + 1]
      /\ UNCHANGED <<faults, sequence, tx, reg, result>>
      /\ UNCHANGED <<chainSeq, checkSeq, mempool, committed, evicted, rejected>>
    BY Zenon DEF BroadcastTx, LockFree, nodeVars
<1>1. PICK l \in {"estimate", "sign"} : Goto(c, l)
    BY Zenon DEF BroadcastTx
<1>2. /\ l \in Sending /\ l \in Holding /\ l \in Places /\ l \in Unsigned /\ l # "idle"
      /\ l \notin {"evicted", "resend", "rejected", "rewind"}
    BY Zenon DEF Sending, Holding, Places, Unsigned
<1>3. /\ pc' \in [Callers -> Places] /\ pc'[c] = l
      /\ \A d \in Callers : d # c => pc'[d] = pc[d]
    <2> HIDE DEF Places
    <2> QED BY <1>1, <1>2, Types, Zenon DEF Goto
<1>4. /\ round \in [Callers -> 0..Rounds] /\ round[c] \in 0..Rounds
      /\ round' \in [Callers -> 0..Rounds] /\ round'[c] = round[c] + 1
      /\ \A d \in Callers : d # c => round'[d] = round[d]
    <2>1. round \in [Callers -> 0..Rounds]
        BY Zenon DEF TxInv, TypeInv, TxTypeOK
    <2>2. round[c] \in 0..Rounds
        BY <2>1, Zenon
    <2>3. round[c] + 1 \in 0..Rounds
        BY <1>0, <2>2, ClientAssumption, SMTT(30)
    <2> QED BY <1>0, <2>1, <2>2, <2>3, Zenon
<1>5. /\ round[c] + 1 \in 1..Rounds /\ round[c] + 1 > round[c] /\ ~(round[c] + 1 <= round[c])
      /\ round[c] + 1 > 0
    BY <1>0, <1>4, ClientAssumption
<1>6. \A d \in Callers : \A r \in 1..Rounds : (r <= round[d] => r <= round'[d])
                                              /\ (r > round'[d] => r > round[d])
    <2> SUFFICES ASSUME NEW d \in Callers, NEW r \in 1..Rounds
                 PROVE  (r <= round[d] => r <= round'[d]) /\ (r > round'[d] => r > round[d])
        BY Zenon
    <2>1. CASE d # c
        BY <1>4, <2>1, Zenon
    <2>2. CASE d = c
        BY <1>4, <2>2
    <2> QED BY <2>1, <2>2, Zenon
<1>7. /\ Current(c)' = <<c, round[c] + 1>>
      /\ \A d \in Callers : d # c => Current(d)' = Current(d)
    BY <1>4, Zenon DEF Current
<1>8. /\ txTracker' \in Seq([tx : Tx, sequence : Nat])
      /\ \A j \in DOMAIN txTracker' : \E k \in DOMAIN txTracker : txTracker'[j] = txTracker[k]
    <2>1. txTracker \in Seq([tx : Tx, sequence : Nat])
        BY Types, Zenon
    <2>2. PICK n \in 0 .. Len(txTracker) : txTracker' = SubSeq(txTracker, n + 1, Len(txTracker))
        <3>1. Len(txTracker) \in Nat
            BY <2>1
        <3>2. 0 \in 0 .. Len(txTracker)
            BY <3>1
        <3> QED BY <3>2, Zenon DEF BroadcastTx, pruneTxTracker
    <2>3. /\ SubSeq(txTracker, n + 1, Len(txTracker)) \in Seq([tx : Tx, sequence : Nat])
          /\ \A j \in DOMAIN SubSeq(txTracker, n + 1, Len(txTracker)) :
                \E k \in DOMAIN txTracker :
                    SubSeq(txTracker, n + 1, Len(txTracker))[j] = txTracker[k]
        BY <2>1, TrackerPruned, Zenon
    <2> QED BY <2>2, <2>3, Zenon
<1>9. TxTypeOK'
    <2>1. mtx' \in Callers \cup {"free"}
        BY <1>0, Zenon
    <2> QED BY <1>0, <1>4, <1>8, <2>1, Zenon DEF TxInv, TypeInv, TxTypeOK
<1>10. PcInv'
    <2>1. PcInv
        BY Zenon DEF TxInv, TypeInv
    <2>2. \A d \in Callers : pc'[d] \in Holding <=> mtx' = d
        <3>1. \A d \in Callers : pc[d] \notin Holding
            BY <1>0, <2>1, ClientAssumption, Zenon DEF PcInv
        <3> HIDE DEF Holding
        <3> QED BY <1>0, <1>2, <1>3, <3>1, Zenon
    <2>3. \A d \in Callers : pc'[d] # "idle" => round'[d] > 0
        BY <1>3, <1>4, <1>5, <2>1, Zenon DEF PcInv
    <2>4. \A d \in Callers : pc'[d] \notin Unsigned => tx'[d] \in Tx /\ tx'[d].msg = Current(d)'
        <3> HIDE DEF Unsigned
        <3> QED BY <1>0, <1>2, <1>3, <1>7, <2>1, Zenon DEF PcInv
    <2>5. result' \in [Messages -> Results]
        BY <1>0, <2>1, Zenon DEF PcInv
    <2> QED BY <1>3, <2>2, <2>3, <2>4, <2>5, Zenon DEF PcInv, Places
<1>11. NodeInv'
    <2>1. NodeInv
        BY Zenon DEF TxInv
    <2>2. OnChain' = OnChain /\ Thrown' = Thrown
        BY <1>0, Zenon DEF OnChain, Thrown
    <2>3. <<c, round[c] + 1>> \notin OnChain \cup Thrown
        BY <1>5, <2>1, Zenon DEF NodeInv
    <2>4. \A d \in Callers, r \in 1..Rounds : <<d, r>> \in OnChain' \cup Thrown' => r <= round'[d]
        BY <1>6, <2>1, <2>2, Zenon DEF NodeInv
    <2>5. \A d \in Callers : pc'[d] \in Sending => Current(d)' \notin OnChain' \cup Thrown'
        <3> HIDE DEF Sending
        <3> QED BY <1>3, <1>7, <2>1, <2>2, <2>3, Zenon DEF NodeInv
    <2>6. /\ \A d \in Callers : pc'[d] \in {"evicted", "resend"} => tx'[d] \in evicted'
          /\ \A d \in Callers : pc'[d] \in {"rejected", "rewind"} => tx'[d] \in rejected'
        BY <1>0, <1>2, <1>3, <2>1, Zenon DEF NodeInv
    <2>7. /\ evicted' \subseteq Tx /\ rejected' \subseteq Tx /\ Once(committed') /\ Once(mempool')
          /\ MsgsOf(committed') \cap MsgsOf(mempool') = {} /\ OnChain' \cap Thrown' = {}
          /\ MsgsIn(evicted') \cap MsgsIn(rejected') = {}
          /\ \A t, u \in evicted' : t.msg = u.msg => t = u
        BY <1>0, <2>1, <2>2, Zenon DEF NodeInv
    <2> QED BY <2>4, <2>5, <2>6, <2>7, Zenon DEF NodeInv
<1>12. ResultInv'
    <2>1. ResultInv
        BY Zenon DEF TxInv
    <2>2. result[<<c, round[c] + 1>>] = "none"
        BY <1>5, <2>1, Zenon DEF ResultInv
    <2>3. \A d \in Callers : pc'[d] \notin {"idle", "forget"} => result'[Current(d)'] = "none"
        BY <1>0, <1>3, <1>7, <2>1, <2>2, Zenon DEF ResultInv
    <2>4. \A d \in Callers, r \in 1..Rounds : r > round'[d] => result'[<<d, r>>] = "none"
        BY <1>0, <1>6, <2>1, Zenon DEF ResultInv
    <2>5. \A m \in Messages : /\ result'[m] = "confirmed" => m \in MsgsOf(committed')
                              /\ result'[m] = "rejected" => m \in MsgsIn(rejected')
        BY <1>0, <2>1, Zenon DEF ResultInv
    <2> QED BY <2>3, <2>4, <2>5, Zenon DEF ResultInv
<1>13. StepInv'
    <2>1. /\ TypeInv /\ StepInv /\ faults' = faults
          /\ \A d \in Callers : d # c => pc'[d] = pc[d] /\ tx'[d] = tx[d] /\ reg'[d] = reg[d]
        BY <1>0, <1>3, Zenon DEF TxInv
    <2>2. ASSUME faults = {}
          PROVE  /\ NodeCalm' /\ NoFailure' /\ TrackedIsSigned'
                 /\ mtx' = "free" => sequence' = checkSeq'
                 /\ Aligned(c)'
                 /\ sequence' = sequence /\ checkSeq' = checkSeq
        <3>1. NodeCalm /\ NoFailure /\ TrackedIsSigned /\ sequence = checkSeq
            BY <1>0, <2>1, <2>2, Zenon DEF StepInv
        <3>2. NodeCalm' /\ NoFailure'
            BY <1>0, <3>1, Zenon DEF NodeCalm, NoFailure
        <3>3. TrackedIsSigned'
            BY <1>8, <3>1, Zenon DEF TrackedIsSigned
        <3>4. Aligned(c)'
            BY <1>0, <1>3, <3>1, Zenon DEF Aligned, Sending
        <3> QED BY <1>0, <3>1, <3>2, <3>3, <3>4, Zenon
    <2> QED BY <2>1, <2>2, StepKept, Zenon
<1> QED BY <1>9, <1>10, <1>11, <1>12, <1>13, Zenon DEF TxInv, TypeInv

\* The places under the lock.
LEMMA HoldingPlaces ==
    ASSUME NEW l \in Holding
    PROVE  l \in Places /\ l # "idle" /\ l # "forget" /\ l \notin {"evicted", "resend", "rejected", "rewind"}
    BY Zenon DEF Places, Holding, Sending

\* A step of the lock's holder, to another place under the lock, that leaves the node alone.
LEMMA HoldStep ==
    ASSUME TxInv, NEW c \in Callers, pc[c] \in Holding, NEW l \in Holding, Goto(c, l),
           UNCHANGED <<faults, mtx, round, result, nodeVars>>,
           sequence' \in Nat, txTracker' \in Seq([tx : Tx, sequence : Nat]),
           tx' \in [Callers -> Tx \cup {NoTx}], reg' \in [Callers -> Nat],
           \A d \in Callers : d # c => tx'[d] = tx[d] /\ reg'[d] = reg[d],
           l \notin Unsigned => tx'[c] \in Tx /\ tx'[c].msg = Current(c),
           l \in Sending => pc[c] \in Sending,
           faults = {} => Aligned(c)' /\ TrackedIsSigned'
    PROVE  TxInv'
<1>1. /\ l \in Places /\ l # "idle" /\ l # "forget" /\ pc[c] # "idle" /\ pc[c] # "forget"
      /\ l \notin {"evicted", "resend", "rejected", "rewind"}
    BY HoldingPlaces, Zenon
<1>2. mtx' = mtx /\ result' = result /\ UNCHANGED <<faults, round, nodeVars>>
    BY Zenon
<1>3. LockStep(c, l) /\ ReportStep(c, l)
    BY <1>1, <1>2, Zenon DEF LockStep, ReportStep
<1>4. mtx # "free"
    BY OneHolder, Zenon DEF TxInv
<1>5. faults = {} => NoFailure'
    BY <1>2, Zenon DEF TxInv, StepInv, NoFailure
<1> HIDE DEF Unsigned, Sending, Holding
<1> QED BY <1>1, <1>2, <1>3, <1>4, <1>5, QuietStep, Zenon

\* The deferred Unlock of a broadcast that failed, which it does not in a calm run.
LEMMA FailStep ==
    ASSUME TxInv, NEW c \in Callers, pc[c] \in Holding, FailBroadcast(c), faults # {},
           UNCHANGED <<faults, sequence, txTracker, round, tx, reg, nodeVars>>
    PROVE  TxInv'
<1>1. /\ mtx' = "free" /\ Goto(c, "idle") /\ Tell(Current(c), "broadcast failed")
      /\ sequence' = sequence /\ txTracker' = txTracker /\ tx' = tx /\ reg' = reg
      /\ UNCHANGED <<faults, round, nodeVars>>
    BY Zenon DEF FailBroadcast
<1>2. /\ "idle" \in Places /\ "idle" \notin Holding /\ "idle" \in Unsigned /\ "idle" \notin Sending
      /\ "idle" \notin {"evicted", "resend", "rejected", "rewind"} /\ "idle" \in {"idle", "forget"}
      /\ "broadcast failed" \in Results
    BY Zenon DEF Places, Holding, Sending, Unsigned, Results
<1>3. pc[c] # "idle"
    BY HoldingPlaces, Zenon
<1>4. Settled(Current(c), "broadcast failed")
    BY DEF Settled
<1>5. LockStep(c, "idle") /\ ReportStep(c, "idle")
    BY <1>1, <1>2, <1>4, Zenon DEF LockStep, ReportStep
<1>6. /\ sequence' \in Nat /\ txTracker' \in Seq([tx : Tx, sequence : Nat])
      /\ tx' \in [Callers -> Tx \cup {NoTx}] /\ reg' \in [Callers -> Nat]
      /\ \A d \in Callers : d # c => tx'[d] = tx[d] /\ reg'[d] = reg[d]
    BY <1>1, Types, Zenon
<1> HIDE DEF Unsigned, Sending, Holding
<1> QED BY <1>1, <1>2, <1>3, <1>5, <1>6, QuietStep, ZenonT(30)

\* What the alignment of a caller says of the tracker and the account in a calm run.
LEMMA CalmNow ==
    ASSUME TxInv, NEW c \in Callers, faults = {}
    PROVE  Aligned(c) /\ NodeCalm /\ NoFailure /\ TrackedIsSigned
    BY Zenon DEF TxInv, StepInv

\* estimateGas: in a calm run there is no mismatch to correct.
LEMMA EstimateStep == ASSUME TxInv, NEW c \in Callers, estimateGas(c) PROVE TxInv'
<1>0. /\ pc[c] = "estimate" /\ UNCHANGED <<faults, round, nodeVars>>
      /\ txTracker' = txTracker /\ tx' = tx /\ reg' = reg /\ checkSeq' = checkSeq
    BY Zenon DEF estimateGas, nodeVars
<1>1. /\ pc[c] \in Holding /\ pc[c] \in Sending /\ "estimate" \in Holding /\ "sign" \in Holding
      /\ "estimate" \in Unsigned /\ "sign" \in Unsigned
    BY <1>0 DEF Holding, Sending, Unsigned
<1>2. /\ txTracker' \in Seq([tx : Tx, sequence : Nat])
      /\ tx' \in [Callers -> Tx \cup {NoTx}] /\ reg' \in [Callers -> Nat]
      /\ \A d \in Callers : d # c => tx'[d] = tx[d] /\ reg'[d] = reg[d]
    BY <1>0, Types, Zenon
<1>3. faults = {} => sequence = checkSeq /\ TrackedIsSigned'
    BY <1>0, <1>1, CalmNow, Zenon DEF Aligned, TrackedIsSigned
<1>4. CASE handleSequenceMismatch(c)
    <2>1. sequence # checkSeq /\ sequence' = checkSeq /\ mtx' = mtx /\ pc' = pc /\ result' = result
        BY <1>4, Zenon DEF handleSequenceMismatch
    <2>2. Goto(c, "estimate")
        <3>1. pc \in [Callers -> Places]
            BY Types, Zenon
        <3> HIDE DEF Places
        <3> QED BY <1>0, <2>1, <3>1 DEF Goto
    <2>3. sequence' \in Nat
        BY <2>1, Types, Zenon
    <2>4. UNCHANGED <<faults, mtx, round, result, nodeVars>>
        BY <1>0, <2>1, Zenon
    <2> HIDE DEF Unsigned, Sending, Holding
    <2> QED BY <1>1, <1>2, <1>3, <2>1, <2>2, <2>3, <2>4, HoldStep, ZenonT(30)
<1>5. CASE sequence = checkSeq /\ Goto(c, "sign") /\ UNCHANGED <<sequence, mtx, result>>
    <2>1. sequence' = sequence /\ UNCHANGED <<faults, mtx, round, result, nodeVars>>
        BY <1>0, <1>5, Zenon
    <2>2. sequence' \in Nat
        BY <2>1, Types, Zenon
    <2>3. pc'[c] = "sign"
        BY <1>5, Types, Zenon DEF Goto
    <2>4. Aligned(c)'
        BY <1>0, <1>5, <2>1, <2>3, SMTT(30) DEF Aligned, Sending
    <2> HIDE DEF Unsigned, Sending, Holding
    <2> QED BY <1>1, <1>2, <1>3, <1>5, <2>1, <2>2, <2>4, HoldStep, ZenonT(30)
<1>6. CASE "refuse" \in faults /\ FailBroadcast(c) /\ UNCHANGED sequence
    <2>1. faults # {}
        BY <1>6, Zenon
    <2>2. UNCHANGED <<faults, sequence, txTracker, round, tx, reg, nodeVars>>
        BY <1>0, <1>6, Zenon
    <2> QED BY <1>1, <1>6, <2>1, <2>2, FailStep, Zenon
<1> QED BY <1>4, <1>5, <1>6, Zenon DEF estimateGas

\* signTransaction reads the sequence ...
LEMMA SignStep == ASSUME TxInv, NEW c \in Callers, signTransaction(c) PROVE TxInv'
<1>0. /\ pc[c] = "sign" /\ Goto(c, "set signatures") /\ reg' = [reg EXCEPT ![c] = sequence]
      /\ UNCHANGED <<faults, mtx, round, result, nodeVars>>
      /\ txTracker' = txTracker /\ tx' = tx /\ sequence' = sequence /\ checkSeq' = checkSeq
    BY Zenon DEF signTransaction, nodeVars, sharedVars
<1>1. /\ pc[c] \in Holding /\ pc[c] \in Sending /\ "set signatures" \in Holding
      /\ "set signatures" \in Unsigned
    BY <1>0, Zenon DEF Holding, Sending, Unsigned
<1>2. /\ txTracker' \in Seq([tx : Tx, sequence : Nat]) /\ sequence' \in Nat
      /\ tx' \in [Callers -> Tx \cup {NoTx}] /\ reg' \in [Callers -> Nat] /\ reg'[c] = sequence
      /\ \A d \in Callers : d # c => tx'[d] = tx[d] /\ reg'[d] = reg[d]
    BY <1>0, Types, Zenon
<1>3. ASSUME faults = {} PROVE Aligned(c)' /\ TrackedIsSigned'
    <2>1. sequence = checkSeq /\ TrackedIsSigned'
        BY <1>0, <1>1, <1>3, CalmNow, Zenon DEF Aligned, TrackedIsSigned
    <2>2. pc'[c] = "set signatures"
        BY <1>0, Types, Zenon DEF Goto
    <2>3. Aligned(c)'
        BY <1>0, <1>2, <2>1, <2>2, Zenon DEF Aligned, Sending
    <2> QED BY <2>1, <2>3, Zenon
<1> HIDE DEF Unsigned, Sending, Holding
<1> QED BY <1>0, <1>1, <1>2, <1>3, HoldStep, Zenon

\* ... and again for the transaction, unchanged under the lock in a calm run.
LEMMA SignaturesStep == ASSUME TxInv, NEW c \in Callers, SetSignatures(c) PROVE TxInv'
<1> DEFINE t == [msg |-> Current(c), seq |-> sequence, signedFor |-> reg[c]]
<1>0. /\ pc[c] = "set signatures" /\ Goto(c, "send") /\ tx' = [tx EXCEPT ![c] = t]
      /\ UNCHANGED <<faults, mtx, round, result, nodeVars>>
      /\ txTracker' = txTracker /\ reg' = reg /\ sequence' = sequence /\ checkSeq' = checkSeq
    BY Zenon DEF SetSignatures, nodeVars, sharedVars
<1>1. pc[c] \in Holding /\ pc[c] \in Sending /\ "send" \in Holding /\ pc[c] # "idle"
    BY <1>0, Zenon DEF Holding, Sending
<1>2. t \in Tx /\ t.msg = Current(c) /\ t.seq = sequence /\ t.signedFor = reg[c]
    <2>1. Current(c) \in Messages
        BY <1>1, CurrentMessage, Zenon DEF TxInv
    <2>2. sequence \in Nat /\ reg[c] \in Nat
        BY Types, Zenon
    <2> QED BY <2>1, <2>2, Zenon DEF Tx
<1> HIDE DEF t
<1>3. /\ txTracker' \in Seq([tx : Tx, sequence : Nat]) /\ sequence' \in Nat
      /\ tx' \in [Callers -> Tx \cup {NoTx}] /\ reg' \in [Callers -> Nat] /\ tx'[c] = t
      /\ \A d \in Callers : d # c => tx'[d] = tx[d] /\ reg'[d] = reg[d]
    BY <1>0, <1>2, Types, Zenon
<1>4. ASSUME faults = {} PROVE Aligned(c)' /\ TrackedIsSigned'
    <2>1. sequence = checkSeq /\ reg[c] = sequence /\ TrackedIsSigned'
        BY <1>0, <1>1, <1>4, CalmNow, Zenon DEF Aligned, TrackedIsSigned
    <2>2. pc'[c] = "send"
        BY <1>0, Types, Zenon DEF Goto
    <2>3. Aligned(c)'
        BY <1>0, <1>2, <1>3, <2>1, <2>2, Zenon DEF Aligned, Sending
    <2> QED BY <2>1, <2>3, Zenon
<1> HIDE DEF Unsigned, Sending, Holding
<1> QED BY <1>0, <1>1, <1>2, <1>3, <1>4, HoldStep, ZenonT(30)

\* The node accepts the transaction of a caller that sends it for the first time, or again
\* after its eviction.
LEMMA AddStep ==
    ASSUME TxInv, NEW c \in Callers, pc[c] \in {"send", "resend"},
           AddToMempool(tx[c]), CheckTx(tx[c]),
           NEW l \in {"track", "idle", "poll"}, Goto(c, l),
           UNCHANGED <<faults, sequence, txTracker, round, tx, reg>>,
           LockStep(c, l), ReportStep(c, l),
           faults = {} => pc[c] = "send" /\ l = "track" /\ result' = result
    PROVE  TxInv'
<1> DEFINE t == tx[c]
<1>0. /\ mempool' = Append(mempool, t) /\ checkSeq' = checkSeq + 1 /\ evicted' = evicted \ {t}
      /\ UNCHANGED <<chainSeq, committed, rejected>> /\ UNCHANGED <<committed, rejected, round>>
      /\ UNCHANGED <<faults, sequence, txTracker, tx, reg, round>>
      /\ t.seq = checkSeq
    BY Zenon DEF AddToMempool, CheckTx
<1>1. /\ l \in Places /\ l \notin Sending /\ l \notin {"evicted", "resend", "rejected", "rewind"}
      /\ pc[c] \notin Unsigned /\ pc[c] # "idle" /\ pc[c] # "forget" /\ (pc[c] = "send" => pc[c] \in Sending)
    BY Zenon DEF Places, Holding, Waiting, Sending, Unsigned
<1>2. /\ t \in Tx /\ t.msg = Current(c) /\ mempool \in Seq(Tx) /\ committed \in Seq(Tx)
      /\ checkSeq \in Nat /\ chainSeq \in Nat
    BY <1>1, Types, Zenon
<1>3. /\ pc' \in [Callers -> Places] /\ pc'[c] = l
      /\ \A d \in Callers : d # c => pc'[d] = pc[d]
    <2> HIDE DEF Places
    <2> QED BY <1>1, Types, Zenon DEF Goto
<1>4. NodeInv /\ \A d \in Callers : Current(d)' = Current(d)
    BY <1>0, Zenon DEF TxInv, Current
<1>5. /\ Current(c) \notin MsgsOf(committed) /\ Current(c) \notin MsgsOf(mempool)
      /\ Current(c) \notin MsgsIn(rejected) /\ Current(c) \notin MsgsIn(evicted \ {t})
    <2>1. CASE pc[c] = "send"
        <3>1. Current(c) \notin OnChain \cup Thrown
            BY <1>1, <1>4, <2>1, Zenon DEF NodeInv
        <3> QED BY <3>1, Zenon DEF OnChain, Thrown, MsgsIn
    <2>2. CASE pc[c] = "resend"
        <3>1. t \in evicted
            BY <1>4, <2>2, Zenon DEF NodeInv
        <3>2. Current(c) \in MsgsIn(evicted)
            BY <1>2, <3>1, Zenon DEF MsgsIn
        <3>3. Current(c) \notin OnChain /\ Current(c) \notin MsgsIn(rejected)
            BY <1>4, <3>2, Zenon DEF NodeInv, Thrown
        <3>4. Current(c) \notin MsgsIn(evicted \ {t})
            BY <1>2, <1>4, <3>1, Zenon DEF NodeInv, MsgsIn
        <3> QED BY <3>3, <3>4, Zenon DEF OnChain
    <2> QED BY <2>1, <2>2, Zenon
<1>6. /\ mempool' \in Seq(Tx) /\ Once(mempool') /\ MsgsOf(mempool') = MsgsOf(mempool) \cup {Current(c)}
    <2>1. Once(mempool)
        BY <1>4, Zenon DEF NodeInv
    <2> QED BY <1>0, <1>2, <1>5, <2>1, OnceAppend, ZenonT(30)
<1>7. MsgsIn(evicted') \subseteq MsgsIn(evicted) /\ MsgsIn(rejected') = MsgsIn(rejected)
    BY <1>0, Zenon DEF MsgsIn
<1>8. Current(c) \notin MsgsIn(evicted') /\ MsgsOf(committed') = MsgsOf(committed)
    BY <1>0, <1>5, Zenon
<1> HIDE DEF t
<1>9. TxTypeOK'
    <2>1. mtx' \in Callers \cup {"free"}
        BY Zenon DEF TxInv, TypeInv, TxTypeOK, LockStep
    <2>2. checkSeq' \in Nat
        BY <1>0, <1>2
    <2> QED BY <1>0, <1>6, <2>1, <2>2, ZenonT(30) DEF TxInv, TypeInv, TxTypeOK
<1>10. PcInv'
    <2>1. TypeInv /\ round' = round /\ \A d \in Callers : d # c => tx'[d] = tx[d]
        BY <1>0, Zenon DEF TxInv
    <2>2. result' \in [Messages -> Results]
        BY <1>1, <2>1, ReportType, Zenon
    <2>3. tx'[c] \in Tx /\ tx'[c].msg = Current(c)
        BY <1>0, <1>2, Zenon DEF t
    <2> HIDE DEF Holding, Waiting, Unsigned, Sending
    <2> QED BY <1>1, <2>1, <2>2, <2>3, PcStep, ZenonT(30) DEF Places, LockStep
<1>11. NodeInv'
    <2>1. /\ evicted' \subseteq Tx /\ rejected' \subseteq Tx /\ Once(committed') /\ Once(mempool')
          /\ \A x, y \in evicted' : x.msg = y.msg => x = y
        BY <1>0, <1>4, <1>6, Zenon DEF NodeInv
    <2>2. /\ MsgsOf(committed) \cap MsgsOf(mempool) = {}
          /\ (MsgsOf(committed) \cup MsgsOf(mempool)) \cap (MsgsIn(evicted) \cup MsgsIn(rejected)) = {}
          /\ MsgsIn(evicted) \cap MsgsIn(rejected) = {}
        BY <1>4, Zenon DEF NodeInv, OnChain, Thrown
    <2>3. /\ MsgsOf(committed') \cap MsgsOf(mempool') = {}
          /\ MsgsIn(evicted') \cap MsgsIn(rejected') = {}
        BY <1>5, <1>6, <1>7, <1>8, <2>2, ZenonT(30)
    <2>4. OnChain' \cap Thrown' = {}
        BY <1>5, <1>6, <1>7, <1>8, <2>2, ZenonT(30) DEF OnChain, Thrown
    <2>5. OnChain' \cup Thrown' \subseteq OnChain \cup Thrown \cup {Current(c)}
        BY <1>6, <1>7, <1>8, Zenon DEF OnChain, Thrown
    <2>6. ASSUME NEW d \in Callers, NEW r \in 1..Rounds, <<d, r>> \in OnChain' \cup Thrown'
          PROVE  r <= round'[d]
        <3>1. CASE <<d, r>> \in OnChain \cup Thrown
            BY <1>0, <1>4, <3>1, ZenonT(30) DEF NodeInv
        <3>2. CASE <<d, r>> = Current(c)
            <4>1. d = c /\ r = round[c]
                BY <3>2, Zenon DEF Current
            <4> QED BY <1>0, <4>1, SMTT(30)
        <3> QED BY <2>5, <2>6, <3>1, <3>2, Zenon
    <2>7. ASSUME NEW d \in Callers, pc'[d] \in Sending
          PROVE  Current(d)' \notin OnChain' \cup Thrown'
        <3>1. d # c /\ pc[d] \in Sending
            BY <1>1, <1>3, <2>7, Zenon
        <3>2. Current(d) \notin OnChain \cup Thrown
            BY <1>4, <3>1, Zenon DEF NodeInv
        <3>3. Current(d) # Current(c)
            BY <3>1, Zenon DEF Current
        <3> QED BY <1>4, <2>5, <3>2, <3>3, Zenon
    <2>8. ASSUME NEW d \in Callers, pc'[d] \in {"evicted", "resend"} PROVE tx'[d] \in evicted'
        <3>1. d # c /\ pc[d] \in {"evicted", "resend"}
            BY <1>1, <1>3, <2>8, ZenonT(30)
        <3>2. tx[d] \in evicted /\ pc[d] \notin Unsigned
            BY <1>4, <3>1, Zenon DEF NodeInv, Unsigned
        <3>3. tx[d].msg = Current(d)
            BY <3>2, Types, Zenon
        <3>4. tx[d] # t
            <4>1. Current(d) # Current(c)
                BY <3>1, Zenon DEF Current
            <4> QED BY <1>2, <3>3, <4>1, Zenon
        <3> QED BY <1>0, <3>2, <3>4, Zenon
    <2>9. \A d \in Callers : pc'[d] \in {"rejected", "rewind"} => tx'[d] \in rejected'
        BY <1>0, <1>1, <1>3, <1>4, Zenon DEF NodeInv
    <2> QED BY <2>1, <2>3, <2>4, <2>6, <2>7, <2>8, <2>9, ZenonT(30) DEF NodeInv
<1>12. ResultInv'
    <2>1. TypeInv /\ ResultInv
        BY Zenon DEF TxInv
    <2>2. Current(c) \in Messages /\ round[c] \in 1..Rounds
        BY <1>1, <2>1, CurrentMessage, Zenon
    <2>3. \/ /\ result' = result
             /\ pc'[c] \notin {"idle", "forget"} => pc[c] \notin {"idle", "forget"}
          \/ /\ Current(c) \in Messages /\ pc'[c] \in {"idle", "forget"}
             /\ round[c] \in 1..Rounds
             /\ \E r \in Results : Tell(Current(c), r) /\ Settled(Current(c), r)
        BY <1>3, <2>2, Zenon DEF ReportStep
    <2> QED BY <1>0, <1>3, <2>1, <2>3, ResultKept, ZenonT(30)
<1>13. StepInv'
    <2>1. /\ TypeInv /\ StepInv /\ faults' = faults
          /\ \A d \in Callers : d # c => pc'[d] = pc[d] /\ tx'[d] = tx[d] /\ reg'[d] = reg[d]
        BY <1>0, <1>3, Zenon DEF TxInv
    <2>2. ASSUME faults = {}
          PROVE  /\ NodeCalm' /\ NoFailure' /\ TrackedIsSigned'
                 /\ mtx' = "free" => sequence' = checkSeq'
                 /\ Aligned(c)'
                 /\ pc[c] \in Holding
        <3>1. pc[c] = "send" /\ l = "track" /\ result' = result
            BY <2>2, Zenon
        <3>2. pc[c] \in Holding /\ l \in Holding
            BY <3>1 DEF Holding, Sending
        <3>3. Aligned(c) /\ NodeCalm /\ NoFailure /\ TrackedIsSigned
            BY <2>2, CalmNow, Zenon
        <3>4. NoFailure' /\ TrackedIsSigned'
            BY <1>0, <3>1, <3>3, Zenon DEF NoFailure, TrackedIsSigned
        <3>5. mtx' # "free"
            <4>1. mtx # "free"
                BY <2>1, <3>2, OneHolder, ZenonT(30)
            <4> HIDE DEF Holding
            <4> QED BY <3>2, <4>1, Zenon DEF LockStep
        <3>6. sequence = checkSeq /\ tx[c].seq = sequence
            BY <3>1, <3>3, SMTT(30) DEF Aligned, Sending
        <3>7. Aligned(c)'
            BY <1>0, <1>3, <3>1, <3>6, SMTT(30) DEF Aligned, Sending
        <3>8. NodeCalm'
            <4>1. /\ Len(mempool') = Len(mempool) + 1 /\ mempool'[Len(mempool) + 1] = t
                  /\ \A i \in 1 .. Len(mempool) : mempool'[i] = mempool[i]
                  /\ DOMAIN mempool = 1 .. Len(mempool) /\ Len(mempool) \in Nat
                  /\ DOMAIN mempool' = 1 .. Len(mempool) + 1
                BY <1>0, <1>2
            <4>2. /\ evicted = {} /\ rejected = {} /\ checkSeq = chainSeq + Len(mempool)
                  /\ \A i \in 1 .. Len(mempool) : mempool[i].seq = chainSeq + i - 1
                BY <3>3, <4>1, ZenonT(30) DEF NodeCalm
            <4>3. checkSeq' = chainSeq' + Len(mempool')
                BY <1>0, <1>2, <4>1, <4>2, SMTT(30)
            <4>4. ASSUME NEW i \in 1 .. Len(mempool) + 1 PROVE mempool'[i].seq = chainSeq' + i - 1
                <5>1. CASE i = Len(mempool) + 1
                    BY <1>0, <1>2, <4>1, <4>2, <5>1, SMTT(30)
                <5>2. CASE i # Len(mempool) + 1
                    <6>1. i \in 1 .. Len(mempool)
                        BY <4>1, <5>2
                    <6> QED BY <1>0, <4>1, <4>2, <6>1, ZenonT(30)
                <5> QED BY <5>1, <5>2, ZenonT(30)
            <4>5. evicted' = {} /\ rejected' = {}
                BY <1>0, <4>2, Zenon
            <4> QED BY <4>1, <4>3, <4>4, <4>5, ZenonT(30) DEF NodeCalm
        <3> QED BY <3>2, <3>4, <3>5, <3>7, <3>8, ZenonT(30)
    <2> QED BY <2>1, <2>2, StepKept, Zenon
<1> QED BY <1>9, <1>10, <1>11, <1>12, <1>13, Zenon DEF TxInv, TypeInv

\* routeTx: in a calm run the node takes what the lock's holder sends.
LEMMA RouteStep == ASSUME TxInv, NEW c \in Callers, routeTx(c) PROVE TxInv'
<1>0. /\ pc[c] = "send" /\ UNCHANGED <<faults, txTracker, round, tx, reg>>
      /\ UNCHANGED <<faults, round>> /\ txTracker' = txTracker /\ tx' = tx /\ reg' = reg
    BY Zenon DEF routeTx
<1>1. /\ pc[c] \in Holding /\ pc[c] \in Sending /\ "sign" \in Holding /\ "sign" \in Unsigned
      /\ "track" \in Holding /\ "idle" \notin Holding /\ pc[c] \in {"send", "resend"}
      /\ pc[c] # "idle" /\ pc[c] # "forget" /\ "broadcast failed" \in Results
    BY <1>0 DEF Holding, Sending, Unsigned, Results
<1>2. ASSUME faults = {} PROVE tx[c].seq = checkSeq /\ tx[c].signedFor = checkSeq
    <2>1. Aligned(c)
        BY <1>2, CalmNow, Zenon
    <2> QED BY <1>0, <2>1 DEF Aligned, Sending
<1>3. ASSUME CheckTx(tx[c]), AddToMempool(tx[c]), Sent(c) PROVE TxInv'
    <2>1. Goto(c, "track") /\ sequence' = sequence /\ mtx' = mtx /\ result' = result
        BY <1>3, Zenon DEF Sent
    <2>2. LockStep(c, "track") /\ ReportStep(c, "track")
        BY <1>1, <2>1, Zenon DEF LockStep, ReportStep
    <2>3. UNCHANGED <<faults, sequence, txTracker, round, tx, reg>> /\ "track" \in {"track", "idle", "poll"}
        BY <1>0, <2>1, Zenon
    <2> HIDE DEF Holding, Sending
    <2> QED BY <1>0, <1>1, <1>3, <2>1, <2>2, <2>3, AddStep, ZenonT(30)
<1>4. ASSUME CheckTx(tx[c]), AddToMempool(tx[c]), "lost" \in faults, FailBroadcast(c), UNCHANGED sequence
      PROVE  TxInv'
    <2>1. Goto(c, "idle") /\ mtx' = "free" /\ Tell(Current(c), "broadcast failed")
        BY <1>4, Zenon DEF FailBroadcast
    <2>2. Settled(Current(c), "broadcast failed")
        BY DEF Settled
    <2>3. LockStep(c, "idle") /\ ReportStep(c, "idle")
        <3> HIDE DEF Holding, Results
        <3> QED BY <1>1, <2>1, <2>2, Zenon DEF LockStep, ReportStep
    <2>4. /\ UNCHANGED <<faults, sequence, txTracker, round, tx, reg>> /\ faults # {}
          /\ "idle" \in {"track", "idle", "poll"}
        BY <1>0, <1>4, Zenon
    <2> HIDE DEF Holding, Sending
    <2> QED BY <1>1, <1>4, <2>1, <2>3, <2>4, AddStep, ZenonT(30)
<1>5. ASSUME tx[c].seq # checkSeq, resignTransactionWithNewSequence(c), UNCHANGED nodeVars PROVE TxInv'
    <2>1. sequence' = checkSeq /\ Goto(c, "sign") /\ UNCHANGED <<faults, mtx, round, result, nodeVars>>
        BY <1>0, <1>5, Zenon DEF resignTransactionWithNewSequence
    <2>2. faults # {}
        BY <1>2, <1>5, Zenon
    <2>3. /\ txTracker' \in Seq([tx : Tx, sequence : Nat]) /\ sequence' \in Nat
          /\ tx' \in [Callers -> Tx \cup {NoTx}] /\ reg' \in [Callers -> Nat]
          /\ \A d \in Callers : d # c => tx'[d] = tx[d] /\ reg'[d] = reg[d]
        BY <1>0, <2>1, Types, Zenon
    <2> HIDE DEF Unsigned, Sending, Holding
    <2> QED BY <1>1, <2>1, <2>2, <2>3, HoldStep, Zenon
<1>6. ASSUME \/ tx[c].seq # checkSeq
             \/ tx[c].signedFor # checkSeq
             \/ "refuse" \in faults,
             FailBroadcast(c), UNCHANGED <<sequence, nodeVars>>
      PROVE  TxInv'
    <2>1. faults # {}
        BY <1>2, <1>6, Zenon
    <2>2. UNCHANGED <<faults, sequence, txTracker, round, tx, reg, nodeVars>>
        BY <1>0, <1>6, Zenon
    <2> QED BY <1>1, <1>6, <2>1, <2>2, FailStep, ZenonT(30)
<1> QED BY <1>3, <1>4, <1>5, <1>6, Zenon DEF routeTx

\* Something is tracked with a sequence.
LEMMA TrackerGrown ==
    ASSUME NEW S, NEW s \in Seq(S), NEW e \in S
    PROVE  /\ Append(s, e) \in Seq(S)
           /\ \A j \in DOMAIN Append(s, e) : Append(s, e)[j] = e \/ \E k \in DOMAIN s : Append(s, e)[j] = s[k]
<1> DEFINE a == Append(s, e)
<1>1. /\ a \in Seq(S) /\ Len(a) = Len(s) + 1 /\ a[Len(s) + 1] = e
      /\ \A i \in 1 .. Len(s) : a[i] = s[i]
      /\ DOMAIN s = 1 .. Len(s) /\ Len(s) \in Nat
    OBVIOUS
<1>2. DOMAIN a = 1 .. Len(s) + 1
    BY <1>1
<1> HIDE DEF a
<1>3. \A j \in DOMAIN a : j = Len(s) + 1 \/ j \in DOMAIN s
    BY <1>1, <1>2
<1>4. \A j \in DOMAIN a : a[j] = e \/ \E k \in DOMAIN s : a[j] = s[k]
    BY <1>1, <1>3, Zenon
<1> QED BY <1>1, <1>4, Zenon DEF a

\* trackTransaction reads the account's sequence, still the one signed in a calm run.
LEMMA TrackStep == ASSUME TxInv, NEW c \in Callers, trackTransaction(c) PROVE TxInv'
<1> DEFINE e == [tx |-> tx[c], sequence |-> sequence]
<1>0. /\ pc[c] = "track" /\ Goto(c, "increment") /\ txTracker' = Append(txTracker, e)
      /\ UNCHANGED <<faults, mtx, round, result, nodeVars>>
      /\ tx' = tx /\ reg' = reg /\ sequence' = sequence /\ checkSeq' = checkSeq
    BY Zenon DEF trackTransaction, nodeVars, callerVars
<1>1. /\ pc[c] \in Holding /\ "increment" \in Holding /\ "increment" \notin Sending
      /\ pc[c] \notin Unsigned
    BY <1>0 DEF Holding, Sending, Unsigned
<1>2. /\ tx[c] \in Tx /\ tx[c].msg = Current(c) /\ sequence \in Nat
      /\ txTracker \in Seq([tx : Tx, sequence : Nat])
    BY <1>1, Types, Zenon
<1>3. e \in [tx : Tx, sequence : Nat] /\ e.tx = tx[c] /\ e.sequence = sequence
    BY <1>2, Zenon
<1> HIDE DEF e
<1>4. /\ txTracker' \in Seq([tx : Tx, sequence : Nat])
      /\ \A j \in DOMAIN txTracker' : txTracker'[j] = e \/ \E k \in DOMAIN txTracker : txTracker'[j] = txTracker[k]
    <2>1. /\ Append(txTracker, e) \in Seq([tx : Tx, sequence : Nat])
          /\ \A j \in DOMAIN Append(txTracker, e) :
                Append(txTracker, e)[j] = e \/ \E k \in DOMAIN txTracker : Append(txTracker, e)[j] = txTracker[k]
        BY <1>2, <1>3, TrackerGrown, SMTT(30)
    <2> QED BY <1>0, <2>1, Zenon
<1>5. /\ sequence' \in Nat /\ tx' \in [Callers -> Tx \cup {NoTx}] /\ reg' \in [Callers -> Nat]
      /\ tx'[c] \in Tx /\ tx'[c].msg = Current(c)
      /\ \A d \in Callers : d # c => tx'[d] = tx[d] /\ reg'[d] = reg[d]
    BY <1>0, <1>2, Types, Zenon
<1>6. ASSUME faults = {} PROVE Aligned(c)' /\ TrackedIsSigned'
    <2>1. Aligned(c) /\ TrackedIsSigned
        BY <1>6, CalmNow, Zenon
    <2>2. checkSeq = sequence + 1 /\ tx[c].seq = sequence
        BY <1>0, <2>1 DEF Aligned
    <2>3. TrackedIsSigned'
        BY <1>3, <1>4, <2>1, <2>2, ZenonT(30) DEF TrackedIsSigned
    <2>4. pc'[c] = "increment"
        BY <1>0, Types, Zenon DEF Goto
    <2>5. Aligned(c)'
        BY <1>0, <2>2, <2>4, SMTT(30) DEF Aligned, Sending
    <2> QED BY <2>3, <2>5, Zenon
<1> HIDE DEF Unsigned, Sending, Holding
<1> QED BY <1>0, <1>1, <1>4, <1>5, <1>6, HoldStep, ZenonT(30)

\* The read of acc.sequence++.
LEMMA IncrementStep == ASSUME TxInv, NEW c \in Callers, IncrementSequence(c) PROVE TxInv'
<1>0. /\ pc[c] = "increment" /\ Goto(c, "store") /\ reg' = [reg EXCEPT ![c] = sequence]
      /\ UNCHANGED <<faults, mtx, round, result, nodeVars>>
      /\ txTracker' = txTracker /\ tx' = tx /\ sequence' = sequence /\ checkSeq' = checkSeq
    BY Zenon DEF IncrementSequence, nodeVars, sharedVars
<1>1. /\ pc[c] \in Holding /\ "store" \in Holding /\ "store" \notin Sending /\ pc[c] \notin Unsigned
    BY <1>0 DEF Holding, Sending, Unsigned
<1>2. /\ txTracker' \in Seq([tx : Tx, sequence : Nat]) /\ sequence' \in Nat
      /\ tx' \in [Callers -> Tx \cup {NoTx}] /\ reg' \in [Callers -> Nat] /\ reg'[c] = sequence
      /\ tx'[c] \in Tx /\ tx'[c].msg = Current(c)
      /\ \A d \in Callers : d # c => tx'[d] = tx[d] /\ reg'[d] = reg[d]
    BY <1>0, <1>1, Types, Zenon
<1>3. ASSUME faults = {} PROVE Aligned(c)' /\ TrackedIsSigned'
    <2>1. Aligned(c) /\ TrackedIsSigned'
        BY <1>0, <1>3, CalmNow, ZenonT(30) DEF TrackedIsSigned
    <2>2. checkSeq = sequence + 1
        BY <1>0, <2>1 DEF Aligned
    <2>3. pc'[c] = "store"
        BY <1>0, Types, ZenonT(30) DEF Goto
    <2>4. Aligned(c)'
        BY <1>0, <1>2, <2>2, <2>3, SMTT(30) DEF Aligned, Sending
    <2> QED BY <2>1, <2>4, Zenon
<1> HIDE DEF Unsigned, Sending, Holding
<1> QED BY <1>0, <1>1, <1>2, <1>3, HoldStep, ZenonT(30)

\* Its write, and the release of the lock with the sequence in step.
LEMMA BroadcastedStep == ASSUME TxInv, NEW c \in Callers, Broadcasted(c) PROVE TxInv'
<1>0. /\ pc[c] = "store" /\ sequence' = reg[c] + 1 /\ mtx' = "free"
      /\ UNCHANGED <<faults, round, nodeVars>>
      /\ txTracker' = txTracker /\ tx' = tx /\ reg' = reg /\ checkSeq' = checkSeq
    BY Zenon DEF Broadcasted, nodeVars
<1>1. PICK l \in {"poll", "idle"} :
         /\ Goto(c, l)
         /\ \/ l = "poll" /\ result' = result
            \/ l = "idle" /\ Tell(Current(c), "broadcast")
    BY Zenon DEF Broadcasted
<1>2. /\ pc[c] \in Holding /\ pc[c] # "idle" /\ pc[c] # "forget" /\ pc[c] \notin Unsigned
      /\ l \notin Holding /\ l \notin Sending /\ l \in Places
      /\ l \notin {"evicted", "resend", "rejected", "rewind"}
      /\ "broadcast" \in Results /\ "broadcast" # "broadcast failed"
    BY <1>0, Zenon DEF Holding, Sending, Unsigned, Places, Waiting, Results
<1>3. LockStep(c, l)
    BY <1>0, <1>2, Zenon DEF LockStep
<1>4. ReportStep(c, l)
    <2>1. Settled(Current(c), "broadcast")
        BY DEF Settled
    <2> HIDE DEF Results
    <2> QED BY <1>1, <1>2, <2>1, Zenon DEF ReportStep
<1>5. /\ txTracker' \in Seq([tx : Tx, sequence : Nat])
      /\ tx' \in [Callers -> Tx \cup {NoTx}] /\ reg' \in [Callers -> Nat]
      /\ tx'[c] \in Tx /\ tx'[c].msg = Current(c) /\ reg[c] \in Nat
      /\ \A d \in Callers : d # c => tx'[d] = tx[d] /\ reg'[d] = reg[d]
    BY <1>0, <1>2, Types, Zenon
<1>6. sequence' \in Nat
    BY <1>0, <1>5
<1>7. ASSUME faults = {}
      PROVE  NoFailure' /\ sequence' = checkSeq /\ Aligned(c)' /\ TrackedIsSigned'
    <2>1. Aligned(c) /\ TrackedIsSigned' /\ NoFailure
        BY <1>0, <1>7, CalmNow, ZenonT(30) DEF TrackedIsSigned
    <2>2. checkSeq = sequence + 1 /\ reg[c] = sequence
        BY <1>0, <2>1 DEF Aligned
    <2>3. pc'[c] = l
        BY <1>1, <1>2, Types, Zenon DEF Goto
    <2>4. Aligned(c)'
        BY <1>2, <2>3, Zenon DEF Aligned, Holding, Sending
    <2>5. NoFailure'
        <3>1. CASE result' = result
            BY <2>1, <3>1, Zenon DEF NoFailure
        <3>2. CASE Tell(Current(c), "broadcast")
            BY <1>2, <2>1, <3>2, ReportOther, Zenon DEF TxInv
        <3> QED BY <1>1, <3>1, <3>2, Zenon
    <2> QED BY <1>0, <2>1, <2>2, <2>4, <2>5, ZenonT(30)
<1> HIDE DEF Unsigned, Sending, Holding
<1> QED BY <1>0, <1>1, <1>2, <1>3, <1>4, <1>5, <1>6, <1>7, QuietStep, ZenonT(30)

\* An evicted transaction is sent again, as it was.
LEMMA ResubmitStep == ASSUME TxInv, NEW c \in Callers, Resubmit(c) PROVE TxInv'
<1>0. /\ pc[c] = "resend" /\ UNCHANGED <<sharedVars, mtx, round, tx, reg>>
      /\ UNCHANGED <<faults, sequence, txTracker, round, tx, reg>> /\ mtx' = mtx
    BY Zenon DEF Resubmit, sharedVars
<1>1. /\ pc[c] \in Waiting /\ pc[c] # "forget" /\ pc[c] # "idle" /\ pc[c] \notin Holding
      /\ "poll" \in Waiting /\ "poll" \notin Holding /\ "idle" \notin Holding
      /\ pc[c] \in {"send", "resend"} /\ "resubmission failed" \in Results
      /\ "poll" # "forget" /\ "poll" \notin {"evicted", "resend", "rejected", "rewind"}
    BY <1>0 DEF Waiting, Holding, Sending, Results
<1>2. faults # {}
    BY <1>0, Zenon DEF TxInv, StepInv, Aligned
<1>3. ASSUME CheckTx(tx[c]), AddToMempool(tx[c]), Goto(c, "poll"), result' = result PROVE TxInv'
    <2>1. LockStep(c, "poll") /\ ReportStep(c, "poll")
        BY <1>0, <1>1, <1>3, Zenon DEF LockStep, ReportStep
    <2>2. "poll" \in {"track", "idle", "poll"}
        BY Zenon
    <2> QED BY <1>0, <1>1, <1>2, <1>3, <2>1, <2>2, AddStep, ZenonT(30)
<1>4. ASSUME CheckTx(tx[c]), AddToMempool(tx[c]), Goto(c, "idle"),
             Tell(Current(c), "resubmission failed")
      PROVE  TxInv'
    <2>1. Settled(Current(c), "resubmission failed")
        BY DEF Settled
    <2>2. LockStep(c, "idle") /\ ReportStep(c, "idle")
        <3> HIDE DEF Holding, Results
        <3> QED BY <1>0, <1>1, <1>4, <2>1, Zenon DEF LockStep, ReportStep
    <2>3. "idle" \in {"track", "idle", "poll"}
        BY Zenon
    <2> QED BY <1>0, <1>1, <1>2, <1>4, <2>2, <2>3, AddStep, ZenonT(30)
<1>5. ASSUME Goto(c, "poll"), UNCHANGED <<result, nodeVars>> PROVE TxInv'
    <2>1. UNCHANGED <<sharedVars, mtx, round, tx, result, nodeVars>>
        BY <1>0, <1>5, Zenon
    <2>2. reg' \in [Callers -> Nat] /\ \A d \in Callers : d # c => reg'[d] = reg[d]
        BY <1>0, Types, Zenon
    <2> HIDE DEF Waiting
    <2> QED BY <1>1, <1>5, <2>1, <2>2, WaitMoves, Zenon
<1> QED BY <1>3, <1>4, <1>5, Zenon DEF Resubmit

-----------------------------------------------------------------------------
(* Steps of the node                                                       *)

\* The node moves messages from the mempool on and gets no new ones: the callers' part
\* of the invariant stays.
LEMMA NodeStep ==
    ASSUME TxInv, UNCHANGED <<sharedVars, mtx, pc, callerVars>>,
           mempool' \in Seq(Tx), committed' \in Seq(Tx), chainSeq' \in Nat, checkSeq' \in Nat,
           evicted' \subseteq Tx, rejected' \subseteq Tx, Once(committed'), Once(mempool'),
           MsgsOf(committed) \subseteq MsgsOf(committed'),
           MsgsOf(committed') \cap MsgsOf(mempool') = {}, OnChain' \cap Thrown' = {},
           MsgsIn(evicted') \cap MsgsIn(rejected') = {},
           \A t, u \in evicted' : t.msg = u.msg => t = u,
           OnChain' \cup Thrown' \subseteq OnChain \cup Thrown,
           evicted \subseteq evicted', rejected \subseteq rejected',
           faults = {} => NodeCalm' /\ checkSeq' = checkSeq
    PROVE  TxInv'
<1>0. /\ UNCHANGED <<faults, sequence, txTracker, mtx, pc, round, tx, reg, result>>
      /\ \A c \in Callers : Current(c)' = Current(c)
    BY Zenon DEF sharedVars, callerVars, Current
<1>1. TxTypeOK'
    BY <1>0, Zenon DEF TxInv, TypeInv, TxTypeOK
<1>2. PcInv'
    <2> HIDE DEF Holding, Waiting, Unsigned, Results
    <2> QED BY <1>0, Zenon DEF TxInv, TypeInv, PcInv
<1>3. NodeInv'
    <2>1. NodeInv
        BY Zenon DEF TxInv
    <2>2. \A c \in Callers, r \in 1..Rounds : <<c, r>> \in OnChain' \cup Thrown' => r <= round'[c]
        BY <1>0, <2>1, Zenon DEF NodeInv
    <2>3. \A c \in Callers : pc'[c] \in Sending => Current(c)' \notin OnChain' \cup Thrown'
        <3> HIDE DEF Sending
        <3>1. \A c \in Callers : pc[c] \in Sending => Current(c) \notin OnChain \cup Thrown
            BY <2>1, Zenon DEF NodeInv
        <3>2. \A c \in Callers : pc'[c] = pc[c] /\ Current(c)' = Current(c)
            BY <1>0, Zenon
        <3> QED BY <3>1, <3>2, ZenonT(30)
    <2>4. /\ \A c \in Callers : pc'[c] \in {"evicted", "resend"} => tx'[c] \in evicted'
          /\ \A c \in Callers : pc'[c] \in {"rejected", "rewind"} => tx'[c] \in rejected'
        BY <1>0, <2>1, Zenon DEF NodeInv
    <2> QED BY <2>2, <2>3, <2>4, Zenon DEF NodeInv
<1>4. ResultInv'
    <2>1. MsgsIn(rejected) \subseteq MsgsIn(rejected') /\ ResultInv
        BY Zenon DEF MsgsIn, TxInv
    <2> QED BY <1>0, <2>1, Zenon DEF ResultInv
<1>5. StepInv'
    <2> SUFFICES ASSUME faults = {}
                 PROVE  /\ NodeCalm' /\ NoFailure' /\ TrackedIsSigned'
                        /\ mtx' = "free" => sequence' = checkSeq'
                        /\ \A c \in Callers : Aligned(c)'
        BY <1>0, Zenon DEF StepInv
    <2>1. /\ NoFailure /\ TrackedIsSigned /\ (mtx = "free" => sequence = checkSeq)
          /\ \A c \in Callers : Aligned(c)
        BY Zenon DEF TxInv, StepInv
    <2>2. NoFailure' /\ TrackedIsSigned' /\ (mtx' = "free" => sequence' = checkSeq')
        BY <1>0, <2>1, Zenon DEF NoFailure, TrackedIsSigned
    <2>3. \A c \in Callers : Aligned(c)'
        BY <1>0, <2>1, Zenon DEF Aligned
    <2> QED BY <2>2, <2>3, Zenon
<1> QED BY <1>1, <1>2, <1>3, <1>4, <1>5, ZenonT(30) DEF TxInv, TypeInv

\* A block moves a prefix of the mempool to the chain; the recheck splits the rest.
LEMMA BlockStep == ASSUME TxInv, Block PROVE TxInv'
<1>1. PICK n \in 0..Len(mempool) :
         /\ \A i \in 1..n : mempool[i].seq = chainSeq + i - 1
         /\ LET rest == Recheck(chainSeq + n, SubSeq(mempool, n + 1, Len(mempool)))
            IN  /\ mempool' = rest.kept
                /\ rejected' = rejected \cup rest.dropped
                /\ checkSeq' = rest.next
         /\ chainSeq' = chainSeq + n
         /\ committed' = committed \o SubSeq(mempool, 1, n)
    BY Zenon DEF Block
<1>2. UNCHANGED <<sharedVars, mtx, pc, callerVars>> /\ evicted' = evicted
    BY Zenon DEF Block
<1> DEFINE a == SubSeq(mempool, 1, n)
           b == SubSeq(mempool, n + 1, Len(mempool))
           r == Recheck(chainSeq + n, b)
<1>3. /\ mempool \in Seq(Tx) /\ committed \in Seq(Tx) /\ chainSeq \in Nat /\ checkSeq \in Nat
      /\ NodeInv
    BY Zenon DEF TxInv, TypeInv, TxTypeOK
<1>4. n \in Nat /\ chainSeq + n \in Nat /\ Len(mempool) \in Nat /\ DOMAIN mempool = 1 .. Len(mempool)
    BY <1>3
<1>5. /\ a \in Seq(Tx) /\ b \in Seq(Tx) /\ Once(a) /\ Once(b) /\ Len(b) = Len(mempool) - n
      /\ \A i \in 1 .. Len(mempool) - n : b[i] = mempool[n + i]
      /\ MsgsOf(a) \subseteq MsgsOf(mempool) /\ MsgsOf(b) \subseteq MsgsOf(mempool)
      /\ MsgsOf(a) \cap MsgsOf(b) = {}
    <2>1. Once(mempool)
        BY <1>3, Zenon DEF NodeInv
    <2> QED BY <1>3, <2>1, OnceSplit, Zenon
<1>6. /\ committed' = committed \o a /\ mempool' = r.kept /\ rejected' = rejected \cup r.dropped
      /\ checkSeq' = r.next /\ chainSeq' = chainSeq + n
    BY <1>1, Zenon
<1> HIDE DEF a, b
<1>7. /\ r \in RecheckStates /\ Once(r.kept) /\ MsgsOf(r.kept) \subseteq MsgsOf(b)
      /\ MsgsIn(r.dropped) \subseteq MsgsOf(b) /\ MsgsOf(r.kept) \cap MsgsIn(r.dropped) = {}
    BY <1>4, <1>5, RecheckParts, ZenonT(30)
<1>8. r.kept \in Seq(Tx) /\ r.dropped \subseteq Tx /\ r.next \in Nat
    BY <1>7, Zenon DEF RecheckStates
<1> HIDE DEF r
<1>9. /\ MsgsOf(committed) \cap MsgsOf(mempool) = {} /\ Once(committed)
      /\ (MsgsOf(committed) \cup MsgsOf(mempool)) \cap (MsgsIn(evicted) \cup MsgsIn(rejected)) = {}
      /\ MsgsIn(evicted) \cap MsgsIn(rejected) = {} /\ evicted \subseteq Tx /\ rejected \subseteq Tx
      /\ \A t, u \in evicted : t.msg = u.msg => t = u
    BY <1>3, Zenon DEF NodeInv, OnChain, Thrown
<1>10. /\ committed' \in Seq(Tx) /\ Once(committed')
       /\ MsgsOf(committed') \subseteq MsgsOf(committed) \cup MsgsOf(a)
       /\ Range(committed) \subseteq Range(committed')
    <2>1. MsgsOf(committed) \cap MsgsOf(a) = {}
        BY <1>5, <1>9, ZenonT(30)
    <2>2. /\ committed \o a \in Seq(Tx) /\ Once(committed \o a)
          /\ MsgsOf(committed \o a) \subseteq MsgsOf(committed) \cup MsgsOf(a)
          /\ Range(committed) \subseteq Range(committed \o a)
        BY <1>3, <1>5, <1>9, <2>1, OnceConcat, SMTT(30)
    <2> QED BY <1>6, <2>2, Zenon
<1>11. MsgsOf(committed) \subseteq MsgsOf(committed')
    BY <1>10, Zenon DEF Range, MsgsOf
<1>12. /\ MsgsOf(mempool') \subseteq MsgsOf(b) /\ MsgsIn(evicted') = MsgsIn(evicted)
       /\ MsgsIn(rejected') = MsgsIn(rejected) \cup MsgsIn(r.dropped)
       /\ MsgsOf(mempool') \cap MsgsIn(r.dropped) = {}
    BY <1>2, <1>6, <1>7, ZenonT(30) DEF MsgsIn
<1>13. MsgsOf(committed') \cap MsgsOf(mempool') = {}
    BY <1>5, <1>9, <1>10, <1>12, ZenonT(30)
<1>14. OnChain' \cap Thrown' = {}
    <2>1. MsgsOf(committed') \cap MsgsIn(r.dropped) = {}
        BY <1>5, <1>7, <1>9, <1>10, ZenonT(30)
    <2>2. (MsgsOf(committed') \cup MsgsOf(mempool')) \cap (MsgsIn(evicted) \cup MsgsIn(rejected)) = {}
        BY <1>5, <1>9, <1>10, <1>12, ZenonT(30)
    <2> QED BY <1>12, <2>1, <2>2, Zenon DEF OnChain, Thrown
<1>15. MsgsIn(evicted') \cap MsgsIn(rejected') = {}
    BY <1>5, <1>7, <1>9, <1>12, ZenonT(30)
<1>16. OnChain' \cup Thrown' \subseteq OnChain \cup Thrown
    BY <1>5, <1>7, <1>10, <1>12, ZenonT(30) DEF OnChain, Thrown
<1>17. /\ mempool' \in Seq(Tx) /\ Once(mempool') /\ checkSeq' \in Nat /\ chainSeq' \in Nat
       /\ evicted' \subseteq Tx /\ rejected' \subseteq Tx
       /\ evicted \subseteq evicted' /\ rejected \subseteq rejected'
       /\ \A t, u \in evicted' : t.msg = u.msg => t = u
    BY <1>2, <1>4, <1>6, <1>7, <1>8, <1>9, ZenonT(30)
<1>18. ASSUME faults = {} PROVE NodeCalm' /\ checkSeq' = checkSeq
    <2>1. /\ evicted = {} /\ rejected = {} /\ checkSeq = chainSeq + Len(mempool)
          /\ \A i \in DOMAIN mempool : mempool[i].seq = chainSeq + i - 1
        BY <1>18, Zenon DEF TxInv, StepInv, NodeCalm
    <2>2. DOMAIN b = 1 .. Len(mempool) - n
        <3>1. b \in Seq(Tx) => DOMAIN b = 1 .. Len(b)
            OBVIOUS
        <3> QED BY <1>5, <3>1, Zenon
    <2>3. ASSUME NEW i \in DOMAIN b PROVE b[i].seq = (chainSeq + n) + i - 1
        <3>1. /\ i \in 1 .. Len(mempool) - n /\ n + i \in DOMAIN mempool
              /\ chainSeq + (n + i) - 1 = (chainSeq + n) + i - 1
            BY <1>3, <1>4, <2>2, SMTT(30)
        <3>2. b[i] = mempool[n + i] /\ mempool[n + i].seq = chainSeq + (n + i) - 1
            BY <1>5, <2>1, <3>1, Zenon
        <3> QED BY <3>1, <3>2, Zenon
    <2>4. r.kept = b /\ r.dropped = {} /\ r.next = (chainSeq + n) + Len(b)
        BY <1>4, <1>5, <2>3, RecheckConsecutive, ZenonT(30) DEF r
    <2>5. checkSeq' = checkSeq /\ checkSeq' = chainSeq' + Len(b)
        BY <1>3, <1>4, <1>5, <1>6, <2>1, <2>4, SMTT(30)
    <2>6. /\ evicted' = {} /\ rejected' = {} /\ mempool' = b
        BY <1>2, <1>6, <2>1, <2>4, ZenonT(30)
    <2>7. NodeCalm'
        BY <1>6, <2>3, <2>5, <2>6, ZenonT(30) DEF NodeCalm
    <2> QED BY <2>5, <2>7, Zenon
<1> QED BY <1>2, <1>10, <1>11, <1>13, <1>14, <1>15, <1>16, <1>17, <1>18, NodeStep, ZenonT(30)

\* An eviction moves one message out of the mempool.
LEMMA EvictStep == ASSUME TxInv, Evict PROVE TxInv'
<1>1. PICK i \in DOMAIN mempool : mempool' = Without(mempool, i) /\ evicted' = evicted \cup {mempool[i]}
    BY Zenon DEF Evict
<1>2. /\ UNCHANGED <<sharedVars, mtx, pc, callerVars>> /\ faults # {}
      /\ UNCHANGED <<chainSeq, checkSeq, committed, rejected>>
    BY Zenon DEF Evict
<1>3. /\ mempool \in Seq(Tx) /\ committed \in Seq(Tx) /\ chainSeq \in Nat /\ checkSeq \in Nat
      /\ NodeInv
    BY Zenon DEF TxInv, TypeInv, TxTypeOK
<1> DEFINE t == mempool[i]
<1>4. /\ mempool' \in Seq(Tx) /\ Once(mempool') /\ MsgsOf(mempool') \subseteq MsgsOf(mempool) \ {t.msg}
      /\ t \in Tx /\ t.msg \in MsgsOf(mempool)
    <2>1. Once(mempool)
        BY <1>3, Zenon DEF NodeInv
    <2>2. /\ Without(mempool, i) \in Seq(Tx) /\ Once(Without(mempool, i))
          /\ MsgsOf(Without(mempool, i)) \subseteq MsgsOf(mempool) \ {t.msg}
          /\ t \in Tx /\ t.msg \in MsgsOf(mempool)
        BY <1>3, <2>1, OnceWithout, Zenon
    <2> QED BY <1>1, <2>2, Zenon
<1>5. evicted' = evicted \cup {t}
    BY <1>1, Zenon
<1> HIDE DEF t
<1>6. /\ MsgsIn(evicted') = MsgsIn(evicted) \cup {t.msg} /\ MsgsIn(rejected') = MsgsIn(rejected)
      /\ MsgsOf(committed') = MsgsOf(committed)
    BY <1>2, <1>5, Zenon DEF MsgsIn
<1>7. /\ MsgsOf(committed) \cap MsgsOf(mempool) = {} /\ Once(committed)
      /\ (MsgsOf(committed) \cup MsgsOf(mempool)) \cap (MsgsIn(evicted) \cup MsgsIn(rejected)) = {}
      /\ MsgsIn(evicted) \cap MsgsIn(rejected) = {} /\ evicted \subseteq Tx /\ rejected \subseteq Tx
      /\ \A u, v \in evicted : u.msg = v.msg => u = v
    BY <1>3, Zenon DEF NodeInv, OnChain, Thrown
<1>8. /\ MsgsOf(committed') \cap MsgsOf(mempool') = {}
      /\ MsgsIn(evicted') \cap MsgsIn(rejected') = {}
    <2>1. MsgsOf(committed') \cap MsgsOf(mempool') = {}
        BY <1>4, <1>6, <1>7, Zenon
    <2>2. t.msg \notin MsgsIn(rejected)
        BY <1>4, <1>7, Zenon
    <2>3. MsgsIn(evicted') \cap MsgsIn(rejected') = {}
        BY <1>6, <1>7, <2>2, Zenon
    <2> QED BY <2>1, <2>3, Zenon
<1>9. OnChain' \cap Thrown' = {} /\ OnChain' \cup Thrown' \subseteq OnChain \cup Thrown
    BY <1>4, <1>6, <1>7, Zenon DEF OnChain, Thrown
<1>10. \A u, v \in evicted' : u.msg = v.msg => u = v
    <2>1. \A u \in evicted : u.msg # t.msg
        BY <1>4, <1>7, Zenon DEF MsgsIn
    <2> QED BY <1>5, <1>7, <2>1, Zenon
<1>11. /\ evicted' \subseteq Tx /\ rejected' \subseteq Tx /\ Once(committed')
       /\ evicted \subseteq evicted' /\ rejected \subseteq rejected'
       /\ committed' \in Seq(Tx) /\ chainSeq' \in Nat /\ checkSeq' \in Nat
       /\ MsgsOf(committed) \subseteq MsgsOf(committed')
    BY <1>2, <1>3, <1>4, <1>5, <1>6, <1>7, ZenonT(30)
<1> QED BY <1>2, <1>4, <1>8, <1>9, <1>10, <1>11, NodeStep, ZenonT(30)

-----------------------------------------------------------------------------
(* The theorems                                                            *)

\* Nothing is sent, held or told at first.
LEMMA InitInv == ASSUME Init PROVE TxInv
<1>0. /\ sequence = 0 /\ chainSeq = 0 /\ checkSeq = 0 /\ mtx = "free" /\ txTracker = <<>>
      /\ pc = [c \in Callers |-> "idle"] /\ round = [c \in Callers |-> 0]
      /\ tx = [c \in Callers |-> NoTx] /\ reg = [c \in Callers |-> 0]
      /\ result = [m \in Messages |-> "none"]
      /\ mempool = <<>> /\ committed = <<>> /\ evicted = {} /\ rejected = {}
    BY Zenon DEF Init
<1>1. /\ 0 \in Nat /\ 0 \in 0..Rounds /\ <<>> \in Seq(Tx) /\ <<>> \in Seq([tx : Tx, sequence : Nat])
      /\ DOMAIN <<>> = {} /\ Len(<<>>) = 0 /\ 0 = 0 + 0
    BY ClientAssumption
<1>2. TxTypeOK
    <2> HIDE DEF Tx
    <2> QED BY <1>0, <1>1, Zenon DEF TxTypeOK
<1>3. \A c \in Callers : pc[c] = "idle"
    BY <1>0, Zenon
<1>4. /\ "idle" \in Unsigned /\ "idle" \notin Holding /\ "idle" \notin Sending
      /\ "none" \in Results
    BY DEF Unsigned, Holding, Sending, Results
<1>5. PcInv
    <2>1. "free" \notin Callers
        BY ClientAssumption, Zenon
    <2>2. pc \in [Callers -> {"idle"} \cup Holding \cup Waiting]
        <3> HIDE DEF Holding, Waiting
        <3> QED BY <1>0, Zenon
    <2>3. result \in [Messages -> Results]
        <3> HIDE DEF Results, Messages
        <3> QED BY <1>0, <1>4, Zenon
    <2> HIDE DEF Holding, Waiting, Unsigned, Results
    <2> QED BY <1>0, <1>3, <1>4, <2>1, <2>2, <2>3, ZenonT(30) DEF PcInv
<1>6. MsgsOf(committed) = {} /\ MsgsOf(mempool) = {} /\ MsgsIn(evicted) = {} /\ MsgsIn(rejected) = {}
    <2>1. DOMAIN committed = {} /\ DOMAIN mempool = {}
        BY <1>0, <1>1, Zenon
    <2> QED BY <1>0, <2>1, Zenon DEF MsgsOf, MsgsIn
<1>7. NodeInv
    <2>1. Once(committed) /\ Once(mempool) /\ OnChain = {} /\ Thrown = {}
        BY <1>0, <1>1, <1>6, Zenon DEF Once, OnChain, Thrown
    <2>2. \A c \in Callers : pc[c] \notin Sending /\ pc[c] \notin {"evicted", "resend"}
                             /\ pc[c] \notin {"rejected", "rewind"}
        <3>1. "idle" \notin {"evicted", "resend"} /\ "idle" \notin {"rejected", "rewind"}
            OBVIOUS
        <3> HIDE DEF Sending
        <3> QED BY <1>3, <1>4, <3>1, Zenon
    <2> HIDE DEF Sending
    <2> QED BY <1>0, <1>6, <2>1, <2>2, ZenonT(30) DEF NodeInv
<1>8. ResultInv
    <2>1. \A m \in Messages : result[m] = "none"
        BY <1>0, Zenon
    <2>2. "none" # "confirmed" /\ "none" # "rejected"
        OBVIOUS
    <2>3. \A c \in Callers, r \in 1..Rounds : <<c, r>> \in Messages
        BY Zenon DEF Messages
    <2> QED BY <1>3, <2>1, <2>2, <2>3, Zenon DEF ResultInv
<1>9. StepInv
    <2>1. NodeCalm
        BY <1>0, <1>1, Zenon DEF NodeCalm
    <2>2. NoFailure
        <3>1. "none" # "broadcast failed"
            OBVIOUS
        <3> QED BY <1>0, <3>1, Zenon DEF NoFailure
    <2>3. TrackedIsSigned
        BY <1>0, <1>1, Zenon DEF TrackedIsSigned
    <2>4. \A c \in Callers : Aligned(c)
        BY <1>3, <1>4, Zenon DEF Aligned
    <2> QED BY <1>0, <2>1, <2>2, <2>3, <2>4, ZenonT(30) DEF StepInv
<1> QED BY <1>2, <1>5, <1>7, <1>8, <1>9, ZenonT(30) DEF TxInv, TypeInv

\* Every step keeps the invariant.
LEMMA NextStep == ASSUME TxInv, [Next]_vars PROVE TxInv'
<1>1. ASSUME NEW c \in Callers, Broadcast(c) PROVE TxInv'
    BY <1>1, BroadcastStep, EstimateStep, SignStep, SignaturesStep, RouteStep, TrackStep, IncrementStep,
       BroadcastedStep, ZenonT(30) DEF Broadcast
<1>2. ASSUME NEW c \in Callers, Confirm(c) PROVE TxInv'
    BY <1>2, ConfirmStep, TimeOutStep, EvictedStep, ResubmitStep, RejectedStep, RewindStep, ForgetStep,
       ZenonT(30) DEF Confirm
<1>3. CASE UNCHANGED vars
    <2>1. /\ UNCHANGED <<faults, conns, sequence, mtx, txTracker, pc, round, tx, reg, evicting, result>>
          /\ UNCHANGED <<chainSeq, checkSeq, mempool, committed, evicted, rejected>>
        BY <1>3, Zenon DEF vars, callerVars, nodeVars
    <2>2. TxTypeOK' = TxTypeOK /\ PcInv' = PcInv
        BY <2>1, Zenon DEF TxTypeOK, PcInv, Current
    <2>3. NodeInv' = NodeInv /\ ResultInv' = ResultInv
        BY <2>1, Zenon DEF NodeInv, ResultInv, OnChain, Thrown, Current
    <2>4. StepInv' = StepInv
        BY <2>1, Zenon DEF StepInv, NodeCalm, NoFailure, TrackedIsSigned, Aligned
    <2> QED BY <2>2, <2>3, <2>4, Zenon DEF TxInv, TypeInv
<1> QED BY <1>1, <1>2, <1>3, BlockStep, EvictStep, Zenon DEF Next

\* The inductive invariant of the client and its node: TxInv holds throughout, however many
\* goroutines share the client and whatever the node loses, refuses, evicts or rejects.
THEOREM TxInvariant == Spec => []TxInv
<1>1. Init => TxInv
    BY InitInv
<1>2. TxInv /\ [Next]_vars => TxInv'
    BY NextStep
<1> QED BY <1>1, <1>2, PTL DEF Spec

\* BroadcastTx, its re-signing after a mismatch and ConfirmTx's resubmission of evicted bytes
\* together never get a message committed twice.
THEOREM MessagesCommittedOnce == Spec => []CommittedOnce
<1>1. TxInv => CommittedOnce
    BY Zenon DEF TxInv, TypeInv, NodeInv, CommittedOnce, Once
<1> QED BY <1>1, TxInvariant, PTL

\* ConfirmTx tells the truth: what it reports confirmed is on chain, and what it reports
\* rejected never gets there.
THEOREM ResultsTruthful == Spec => []TruthfulResult
<1>1. TxInv => TruthfulResult
    BY ResultsAreTrue, Zenon DEF TxInv, TypeInv, TxTypeOK
<1> QED BY <1>1, TxInvariant, PTL

\* While the node neither refuses nor loses anything, client.mtx keeps the account's sequence
\* in step with the node's whatever the interleaving of broadcasts, confirmations and blocks:
\* none is refused or rejected, and the tracker names the sequences signed.
THEOREM ClientInStep == Spec => []InStep
<1>1. TxInv => InStep
    BY Zenon DEF TxInv, StepInv, NodeCalm, NoFailure, InStep, LockFree
<1> QED BY <1>1, TxInvariant, PTL
=============================================================================
