CONSTANTS
    Bad = Bad
    Clients = {"c1", "c2"}
    Library = "l"
    Server = "s"
    Public = "p"
    Names = {1, 2}
    Offers <- ModuleOffers
    Segments = {"a", "b", "c"}
    NoName = "none"
    CallLimit = 2
    Servlets = {1, 2}
    Objects = {"a", "b", "c"}
    Threads = {"p", "q"}
    Handles <- HandlesOfThreads
    MaxBlocks = 3
    Exclusive = {"e", "f"}
    Slots = {"a", "b", "c"}
    Root = "root"
    Natives = {1, 2}
    Wrappers = {"a", "b", "c"}
    Unwrapped = Unwrapped
    Tables = {1, 2}
    Libraries = {"l", "p"}
    ServerModules = {"s"}
    Plain = {"p"}
    ScriptOffers <- OffersToScripts
    Senders = {"a"}
    MaxSent = 2
    MaxRead = 2
    FunctionNames = {1, 2, 3}
    Latest = 4
    Paths <- PathsAsked
    Mounts <- DirectoriesMounted
    Disk <- FilesOnDisk
    MaxMounts = 3
    Filler = 99
    CountSize = 2
    PageBytes = 4
    Messages <- Sent
    Tests = {1, 2}
SPECIFICATION ServicesSpec
INVARIANTS OwnedOnce LookupsRight ConversionsRight DeliveriesRight VerdictsRight
PROPERTIES ServicesProgress
CHECK_DEADLOCK FALSE
