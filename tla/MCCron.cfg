SPECIFICATION FairSpec
CONSTANTS
    often = often
    twice = twice
    Job = {often, twice}
    Priority <- MCPriority
    Interval <- MCInterval
    DoAll <- MCDoAll
    Calls <- MCCalls
    First <- MCFirst
    Chain = {c1}
    NextWait = 1
    LastTick = 5
INVARIANTS
    TypeOK
    CallsAccounted
    NoEarlyCall
PROPERTY
    DueIsServed
