------------------------------- MODULE Bridge -------------------------------
(***************************************************************************)
(* Tokens that leave and enter through Hyperlane: x/forwarding sends what  *)
(* a forwarding address holds over a warp route, and x/zkism authorises    *)
(* the messages that come back, by proofs against a trusted state of the   *)
(* remote chain.  Both meet in the warp collateral.  Mailbox, warp routes, *)
(* hooks and the remote chain are external.                                *)
(***************************************************************************)
EXTENDS Integers, Sequences, FiniteSets

CONSTANTS
    Messages,       \* numbers of the transfers the remote chain may dispatch, 1 coin each
    MaxLag,         \* bound: roots the ISM may be behind
    Hooks,          \* post-dispatch hooks
    HookDenom,      \* the denom each one charges in
    MaxPrice,
    Denom,          \* of the warp token
    OwnerFunds, RelayerFunds,   \* per denom
    PageLimit       \* entries of one page of query.CollectionPaginate

Denoms == DOMAIN OwnerFunds
Accounts == {"owner", "forward", "relayer", "hook", "collateral"}

ASSUME BridgeAssumption ==
    /\ Messages \subseteq Nat /\ MaxLag \in Nat /\ PageLimit \in Nat /\ MaxPrice \in Nat
    /\ Denom \in Denoms /\ HookDenom \in [Hooks -> Denoms]
    /\ {OwnerFunds, RelayerFunds} \subseteq [Denoms -> Nat]

VARIABLES
    bank,           \* balances per account and denom
    price,          \* what each hook quotes
    supply,         \* coins on the remote chain, and those on the way there
    remote,         \* message trees of the remote roots, from the one the ISM trusts on
    found,          \* the ISM exists
    submitted,      \* its entry in submissions: a proof was accepted for this root
    messages,       \* authorised message ids
    delivered       \* by the mailbox

bankVars == <<bank, price>>
ismVars == <<found, submitted, messages>>
bridgeVars == <<bank, price, supply, remote, found, submitted, messages, delivered>>

Move(b, from, to, d, amount) ==
    [a \in DOMAIN b |->
        [b[a] EXCEPT ![d] = @ + (IF a = to THEN amount ELSE IF a = from THEN -amount ELSE 0)]]

-----------------------------------------------------------------------------
(* x/forwarding                                                            *)

Deposit(d) ==
    /\ bank["owner"][d] > 0
    /\ bank' = Move(bank, "owner", "forward", d, 1)
    /\ UNCHANGED <<price, supply, remote, ismVars, delivered>>

Reprice(h) ==
    /\ \E p \in 0..MaxPrice : p # price[h] /\ price' = [price EXCEPT ![h] = p]
    /\ UNCHANGED <<bank, supply, remote, ismVars, delivered>>

calculateExcessIGPFee_anyDenom(before, after, quoted, d, forwarded) ==
    quoted - (before + quoted - after)

calculateExcessIGPFee(before, after, quoted, d, forwarded) ==
    LET igpUsed == before + quoted - after - (IF d = Denom THEN forwarded ELSE 0)
    IN  quoted - igpUsed

\* RemoteTransferCollateral: the coins are locked and the hook takes what it charges, which
\* may be less than it quoted.
ExecuteWarpTransfer(b, amount, d, used) ==
    Move(Move(b, "forward", "collateral", Denom, amount), "forward", "hook", d, used)

\* The relayer's message: the fee goes to the forwarding address, the whole balance of the
\* token leaves, and what the hook did not charge goes back.
Forward(h, maxIgpFee) ==
    LET d == HookDenom[h]
        quoted == price[h]
        balance == bank["forward"][Denom]
        paid == Move(bank, "relayer", "forward", d, quoted)
    IN  /\ balance > 0
        /\ quoted <= maxIgpFee
        /\ bank["relayer"][d] >= quoted
        /\ \E used \in 0..quoted :
              LET sent == ExecuteWarpTransfer(paid, balance, d, used)
                  excess == calculateExcessIGPFee(bank["forward"][d], sent["forward"][d],
                                                  quoted, d, balance)
              IN bank' = IF quoted > 0 /\ excess > 0
                           THEN Move(sent, "forward", "relayer", d, excess) ELSE sent
        /\ supply' = [supply EXCEPT !.inFlight = @ + balance]
        /\ UNCHANGED <<price, remote, ismVars, delivered>>

-----------------------------------------------------------------------------
(* The remote chain                                                        *)

Arrive ==
    /\ supply.inFlight > 0
    /\ supply' = [inFlight |-> 0, minted |-> supply.minted + supply.inFlight]
    /\ UNCHANGED <<bankVars, remote, ismVars, delivered>>

Dispatched == remote[Len(remote)]

\* Every block has a new root.
RemoteBlock(dispatched) ==
    /\ Len(remote) <= MaxLag
    /\ IsFiniteSet(dispatched)
    /\ dispatched \cap Dispatched = {}
    /\ Cardinality(dispatched) <= supply.minted
    /\ supply' = [supply EXCEPT !.minted = @ - Cardinality(dispatched)]
    /\ remote' = LET tree == Dispatched \cup dispatched IN
                 IF found THEN Append(remote, tree) ELSE <<tree>>
    /\ UNCHANGED <<bankVars, ismVars, delivered>>

-----------------------------------------------------------------------------
(* x/zkism.  The trusted state root is that of remote[1].                  *)

CreateInterchainSecurityModule ==
    /\ ~found
    /\ found' = TRUE
    /\ UNCHANGED <<bankVars, supply, remote, submitted, messages, delivered>>

UpdateInterchainSecurityModule_keepFlag(k) ==
    /\ found
    /\ k < Len(remote)
    /\ remote' = SubSeq(remote, k + 1, Len(remote))
    /\ UNCHANGED <<bankVars, supply, found, submitted, messages, delivered>>

\* A transition proof from the trusted state to the one k roots later; with k = 0 only the
\* data behind the root changes, and the flag is kept.
UpdateInterchainSecurityModule(k) ==
    /\ found
    /\ k < Len(remote)
    /\ remote' = SubSeq(remote, k + 1, Len(remote))
    /\ submitted' = IF k > 0 THEN FALSE ELSE submitted
    /\ UNCHANGED <<bankVars, supply, found, messages, delivered>>

\* What a valid membership proof may be about: the tree of a root of the remote chain, or
\* (root 0) of some other state, with every message in it.
TreeOf(root) == IF root = 0 THEN Messages ELSE remote[root]

SubmitMessages_anyRoot(root, ids) ==
    /\ found
    /\ ~submitted
    /\ ids \subseteq TreeOf(root)
    /\ messages' = messages \cup ids
    /\ submitted' = TRUE
    /\ UNCHANGED <<bankVars, supply, remote, found, delivered>>

SubmitMessages(root, ids) ==
    /\ found
    /\ root = 1
    /\ ~submitted
    /\ ids \subseteq TreeOf(root)
    /\ messages' = messages \cup ids
    /\ submitted' = TRUE
    /\ UNCHANGED <<bankVars, supply, remote, found, delivered>>

\* Verify removes the authorisation it grants.
Verify(m) == m \in messages /\ messages' = messages \ {m}

\* The mailbox delivers a message once; the warp route releases the coin to its recipient.
ProcessMessage(m, recipient) ==
    /\ m \notin delivered
    /\ Verify(m)
    /\ bank["collateral"][Denom] > 0
    /\ bank' = Move(bank, "collateral", recipient, Denom, 1)
    /\ delivered' = delivered \cup {m}
    /\ UNCHANGED <<price, supply, remote, found, submitted>>

\* ExportGenesis collects one page of the messages; the flags are exported in full.
FirstPage(S) == {m \in S : Cardinality({k \in S : k < m}) < PageLimit}

ExportImport ==
    /\ messages' = FirstPage(messages)
    /\ messages' # messages
    /\ UNCHANGED <<bankVars, supply, remote, found, submitted, delivered>>

-----------------------------------------------------------------------------
BridgeInit ==
    /\ bank = [a \in Accounts |-> [d \in Denoms |-> IF a = "owner" THEN OwnerFunds[d]
                                   ELSE IF a = "relayer" THEN RelayerFunds[d] ELSE 0]]
    /\ price = [h \in Hooks |-> 0]
    /\ supply = [inFlight |-> 0, minted |-> 0]
    /\ remote = <<{}>>
    /\ found = FALSE /\ submitted = FALSE /\ messages = {} /\ delivered = {}

Process(m) == \E recipient \in {"owner", "forward"} : ProcessMessage(m, recipient)
Catchup == UpdateInterchainSecurityModule(Len(remote) - 1)
SubmitAll == SubmitMessages(1, TreeOf(1) \ delivered)

BridgeNext ==
    \/ \E d \in Denoms : Deposit(d)
    \/ \E h \in Hooks : Reprice(h) \/ \E max \in 0..MaxPrice : Forward(h, max)
    \/ Arrive
    \/ \E S \in SUBSET Messages : RemoteBlock(S)
    \/ CreateInterchainSecurityModule
    \/ \E k \in 0..MaxLag : UpdateInterchainSecurityModule(k)
    \/ \E r \in 0..Len(remote), S \in SUBSET Messages : SubmitMessages(r, S)
    \/ \E m \in Messages : Process(m)
    \/ ExportImport

\* The remote chain makes blocks; a prover keeps proving the latest state and all that is
\* undelivered in it, whatever others submit in between; a relayer delivers.
BridgeFairness ==
    /\ WF_bridgeVars(RemoteBlock({}))
    /\ WF_bridgeVars(CreateInterchainSecurityModule)
    /\ SF_bridgeVars(Catchup)
    /\ SF_bridgeVars(SubmitAll)
    /\ \A m \in Messages : SF_bridgeVars(Process(m))

BridgeSpec == BridgeInit /\ [][BridgeNext]_bridgeVars /\ BridgeFairness

-----------------------------------------------------------------------------
(* Properties                                                              *)

BridgeTypeOK ==
    /\ \A a \in Accounts, d \in Denoms : bank[a][d] \in 0..(OwnerFunds[d] + RelayerFunds[d])
    /\ messages \subseteq Messages /\ submitted \in BOOLEAN

\* The locked collateral is what exists on the remote chain, is on the way there, or was
\* dispatched and not yet delivered here: no route through forwarding, state updates,
\* message proofs, redelivery or a genesis export releases a coin twice or strands one.
Backed ==
    /\ BridgeTypeOK
    /\ delivered \subseteq Dispatched
    /\ bank["collateral"][Denom] =
          supply.inFlight + supply.minted + Cardinality(Dispatched \ delivered)

\* Hooks are paid by relayers and by nobody else, in every denom: the coins that wait at a
\* forwarding address neither pay fees nor end up with a relayer, and no fee is forwarded.
RelayerPaysFees ==
    \A d \in Denoms : bank["relayer"][d] + bank["hook"][d] = RelayerFunds[d]

\* A dispatched transfer is delivered, although one message proof is accepted per root, it
\* may leave messages out, and an export may drop authorised ones.
DispatchedDelivered ==
    \A m \in Messages : m \in Dispatched ~> m \in delivered

\* ExportGenesis outputs the module's state: importing it loses no authorised message.
ExportKeepsMessages == [][messages \ messages' \subseteq delivered']_bridgeVars
=============================================================================
