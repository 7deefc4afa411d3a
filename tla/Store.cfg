SPECIFICATION FairSpec
CONSTANTS
    b1 = b1
    b2 = b2
    p1 = p1
    p2 = p2
    Buyers <- MCBuyers
    Polls <- MCPolls
    Verifier = verifier
    Admin = admin
    Main = main
    None = None
    Shelves <- MCShelves
    MaxItems = 3
    Wallet <- MCWallet
    Requests <- MCRequests
    Commands <- MCCommands
    MaxCommands = 1
INVARIANTS TypeOK SoldOutAnnounced
PROPERTIES OverdrawnOnlyIfChanged DenialEndsBusiness EveryRequestAnswered
CHECK_DEADLOCK FALSE
