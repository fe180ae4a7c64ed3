SPECIFICATION Spec
CONSTANTS
    a = a  b = b  c = c  s = s  t = t  u = u
    Callers = {a, b, c}  Sockets = {s, t, u}  Nobody = Nobody  NoSocket = NoSocket
    MaxConnections = 2  MaxKeepalive = 1
    Requests = {a, b}  Limits = {1, 2}  Credit = 1
    Conns = {a, b, c}  Secure = {c}  FlushTicks = 2
    k1 = k1  k2 = k2  k3 = k3  k4 = k4  k5 = k5  in1 = in1  in2 = in2
    Nodes = {k1, k2, k3, k4, k5}  Entries = {in1, in2}  Deps <- MCDeps  NodeLimit = 2
    Jobs = {k1, k2, k3, k4}  JobLimit = 2
    Ahead = 2  SourceSize = 4  MaxPuts = 3
    BranchCount = 2  Buffer = 1  StreamSize = 3  Listeners = {a, b}
    Feed <- MCFeed  Reconnect = 3  MinimumReconnect = 1  MaximumReconnect = 5  ChunkSize = 2
    Available <- MCAvailable  Streaming = {"br"}  TopWeight = 2  MinimumSize = 2  MaxBody = 4
    NoOffer = NoOffer  Unstated = Unstated  Exact = Exact
    MaxMessage = 1  MaxFrames = 3  Uncapped = Uncapped
    Streams = {a, b}  ReceiveWindow = 1  MaxStreamResets = 1  Together <- MCTogether
    Pipes = {a, b}  BudgetLimit = 1  MaxBytes = 0  MaxRequests = 2
    Askers = {a, b}  ByHand = ByHand  Methods = {"POST"}  MaxHops = 2  MaxAsked = 2  LastTick = 1
    Urls <- MCUrls  SetCookies <- MCSetCookies  HandCookies <- MCHandCookies
    MaxWire = 5  MaxUpload = 3
    Tables <- MCTables  Paths <- MCPaths  Verbs = {"GET", "POST"}  Numbers = {"7"}
    Tree <- MCTree  Root = "prog"  ArgTokens <- MCArgTokens  Answerable = {"-h", "--version"}
    MaxTokens = 3  MaxPositionals = 2  MaxChunk = 3  MaxInput = 5
    Sizes = {0, 3}  MaxVersions = 2  LastMoment = 2  Coarse = 2  MaxAsks = 2  Specs <- MCSpecs
    MaxLogged = 4  Capacity = 2  Waking = Waking
    LineSizes = {1, 2}  FileBound = 2  FileAge = 3  Moments = {2}  FoldAt = 3  FoldBy = 2
    MaxLines = 3  MaxFiles = 2  LastHour = 4
VIEW Watched
SYMMETRY Alike
INVARIANTS
    PoolIsSound
    ShutdownReachesAll
    DriveIsSound
    StreamsDeliver
    ResumesWithoutGap
    AnnouncedIsSent
    ServerIsSound
    ClientIsSound
    RoutesAsDeclared
    CommandLineIsSound
CHECK_DEADLOCK FALSE
