SPECIFICATION Spec
CONSTANTS
    Parts = {"sockets", "stream", "tls", "server", "client", "chunks", "smtp", "crypto", "call"}
    Objects = {"x", "y"}
    Fds = {1, 2}
    AreaSize = 2
    MaxChars = 4
    MaxStreams = 2
    MaxCertDepth = 1
    MaxChain = 3
    MaxRecords = 4
    HttpWorkers = {w1, w2}
    Conns = {c1, c2}
    NoConn = NoConn
    KeepMax = 2
    MaxAsked = 3
    MaxVersions = 2
    MaxCloses = 1
    AliveTime = 1
    AliveMax = 2
    MaxRequests = 4
    MaxAge = 2
    WriteSize = 2
    ReadSize = 2
    MaxBytes = 5
    MaxEnds = 2
    Contents <- MailContents
    Recipients = 2
    MaxMails = 2
    MaxEhlos = 2
    Quad = 2
    QuadBytes = 1
    Block = 4
    BufSize = 4
    MaxCalls = 8
    Bytes0 = {0, 10, 127, 169, 172, 192, 224, 239, 255}
    Bytes1 = {0, 15, 16, 31, 32, 168, 254, 255}
    BytesN = {0, 1, 254, 255}
    Steps <- MacSteps
    ByteBits = 3
    MantissaBits = 20
    MemberKeys = {"a", "b"}
    MaxMemberOps = 4
    MaxDepth = 3
    FixNegative = 2
    FixString = 2
    FixCount = 2
    FloatBits = 9
    TextSizes = {0, 1, 2, 7, 8, 63, 64}
    MaxTokens = 5
    Radix = 3
    NumberBits = 5
    DoubleBits = 3
    SafeDigits = 3
    ExactPower = 2
    ExtraPower = 3
    MaxDigits = 4
    MaxExponent = 6
    MaxPointers = 2
    NameCells = 4
    ByteSpace = 16
    WordSpace = 8
    PathLength = 7
    ValueLength = 3
    MaxHeaderLen = 8
    ZArea = 4
    BlockSymbols = 5
    MaxZCalls = 7
    VariantValues = {1, 2}
    MaxVariantCalls = 3
    MaxBlankText = 6
    MaxViewText = 2
    MaxViewCalls = 4
SYMMETRY HttpSymmetry
INVARIANTS
    SocketsTrue
    
    StreamsCarry
    ServerKeepsWord
    
    
    
    
    VariantsSound
CHECK_DEADLOCK FALSE
