SPECIFICATION ServeSpec
CONSTANTS
    c1 = c1
    c2 = c2
    c3 = c3
    a1 = a1
    a2 = a2
    r1 = r1
    r2 = r2
    p1 = p1
    p2 = p2
    l1 = l1
    l2 = l2
    Client = {c1, c2, c3}
    Address = {a1, a2}
    AddressOf <- MCAddressOf
    TrustedClient = {c1, c3}
    Environment = env
    Cli = cli
    Key = {k1}
    ConfigKey = {k1}
    MaxFailures = 2
    Lockout = 2
    IdleEvict = 1
    MaxEntries = 1
    SessionTTL = 1
    MaxNow = 3
    MaxSessions = 2
    SecretName = {"token"}
    MaxRestarts = 1
    Request = {r1, r2}
    Provider = {"musixmatch", "petitlyrics"}
    DefaultPrimary = "musixmatch"
    Token = {"new"}
    NoToken = "none"
    Free = Free
    Down = Down
    MaxSaves = 2
    Process = {p1, p2}
    Host = {"nas"}
    Loop = {"scheduler"}
    LyricsLoop = {"scheduler"}
    FragileLoop = {"scheduler"}
    None = None
    Blank = Blank
    MaxStarts = 3
    Caller = {c1, c2, c3}
    minInterval = 1
    Horizon = 3
    SlotBound = 4
    Path <- Paths
    Tree <- Directories
    MaxLibs = 3
    MaxDirs = 8
    Listener = {l1, l2}
    NoListener = NoListener
    ConfiguredVocal = {"sung", "choir", "speech"}
    SpeechClass = {"speech"}
    OtherClass = "music"
    Song = {1, 2, 3}
    DefaultBase = 1
    DefaultMax = 3
    Unset = Unset
    Garbage = Garbage
    OpenDefault = 8
    OpenMin = 4
    BaseDefault = 3
    BaseMin = 2
    MissBaseDefault = 2
    MissCapDefault = 6
    MissBaseMin = 1
    MaxMissDefault = 2
    Second = 2
    Hour = 3
    HalfWord = 32
    Configurations <- MCConfigurations
    MaxAttempts = 7
    MaxBase = 5
    MaxMax = 40
    d1 = d1
    d2 = d2
    Delivery = {d1, d2}
    Title = {"love", "love song"}
    File = {1, 2, 3}
    TitleOf <- MCTitleOf
    Names <- MCNames
    InRoot = {1, 2}
    InAlbum = {2}
    Payload <- MCPayload
    MaxDeliveries = 2
    OutputDir = OutputDir
    NoRow = NoRow
SYMMETRY Alike
INVARIANTS
    ServeTypeOK
    SelectionBoots
    TokenServed
    OneMasterKey
    WholeFiles
    SlotsApart
    WatchedOnce
    TargetInside
    VoiceHeard
    Accounted
    PacedRetries
    Acknowledged
PROPERTIES
    AdminStays
    LockoutHeld
    RevokedStays
CHECK_DEADLOCK FALSE
