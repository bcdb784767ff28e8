SPECIFICATION Spec
CONSTANTS
    Parts = {"netlink", "tables", "ping", "path", "names", "dot", "arp", "dhcp"}
    Callers = {"a", "b"}
    NlKeys = {"k"}
    NlValues = {1, 2}
    Metrics = {0, 1}
    RcvBuffer = 3
    MaxSeq = 2
    MaxOther = 1
    Fields = {1, 2}
    Masters = {1}
    Ips = {"i"}
    PrefixLengths = {8, 24}
    MaxChanges = 5
    Pingers = {"a", "b"}
    SeqSpace = 2
    MaxEchoes = 3
    LinkMtus = {3, 4, 5, 6, 7, 8, 10}
    MaxLinks = 3
    LargestPacket = 9
    Overhead = 2
    Probes = 2
    MaxMtuProbes = 5
    MaxHops = 4
    MaxLost = 3
    Askers = {"a", "b"}
    QueryIds = {0, 1}
    NameServers = 2
    MaxAsked = 2
    FrameSizes = {1, 2, 3}
    MaxMsgSize = 2
    MaxFrames = 3
    MaxConnections = 2
    Seekers = {"a", "b"}
    HostIps = {1, 2}
    Macs = {"m"}
    NoMac = "none"
    MaxReplies = 2
    DhcpUsers = {"a", "b"}
    Xids = {1, 2}
    Servers = {"s"}
    Messages = {"", "full"}
    MaxExchanges = 2
INVARIANTS
    CachesFollowKernel
    AnswersReachAskers
    
    PathFound
PROPERTIES
    EntriesReadRight
CHECK_DEADLOCK FALSE
