SPECIFICATION ProposalSpec
CHECK_DEADLOCK FALSE
SYMMETRY MCSymmetry
CONSTANTS
    Nodes = {n1, n2}
    Txs <- MCTxs
    Requested <- MCRequested
    WithdrawAt = 3
    Signers = {"a", "b"}
    Funds = 3
    Escrow = 2
    MaxTxBytes = 4
    MaxSquare = 3
    MaxSDKMessages = 1
    MaxPFBMessages = 1
    MaxPayForFibreMessages = 1
    HeightWindow = 1
    HistoricalEntries = 2
    MaxHeight = 3
    MaxPool = 2
    MaxProposal = 2
INVARIANTS
    OwnProposalAccepted
    VerdictsAgree
    PaidUnlessDrained
