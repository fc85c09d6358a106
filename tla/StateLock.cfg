CONSTANTS
    p1 = p1
    p2 = p2
    p3 = p3
    Procs = {p1, p2, p3}
    Locking = {p1, p2}
    Timeout = 2
    NoProc = NoProc
SPECIFICATION TimerSpec
INVARIANTS
    NoLeakedLock
PROPERTIES
    NoGrantAfterAlarm
    ImplementsLockService
    CallReturns
