CONSTANTS
    Keys <- AllKeys
    Screens <- AllScreens
    Page <- PageOf
    Own <- Observes
    Commands <- AllCommands
    Effect <- Handlers
    Elsewhere <- OtherWrites
    Watches <- EachKey
    MaxCommands = 2
    MaxMoves = 2
    MaxElsewhere = 1
SPECIFICATION Spec
INVARIANTS TypeOK ReadYourWrites NothingHangs
PROPERTIES Settles
CHECK_DEADLOCK FALSE
