SPECIFICATION Spec
CONSTANTS
    t1 = t1
    t2 = t2
    f1 = f1
    f2 = f2
    h1 = h1
    h2 = h2
    h3 = h3
    None = None
    Loop = Loop
    Wakeup = Wakeup
    Threads = {t1}
    Fds = {f1, f2}
    Handlers = {h1, h2, h3}
    Masks <- ReadMask
    Kinds = {"hup"}
    QueueSize = 1
    MaxEvents = 2
    MaxRuns = 1
    Ops = {"add", "del", "badfd"}
    Syncs = {TRUE, FALSE}
INVARIANTS
    TypeOK
    NoCallbackAfterDel
    TablesAgree
SYMMETRY Symmetry
