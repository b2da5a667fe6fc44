SPECIFICATION Spec
CONSTANTS
    Wkf = {"w", "v", "u"}
    Act <- MCAct
    Trans <- MCTrans
    Sig <- MCSig
    NoSig = "none"
    Res <- MCRes
    NoRes = "nores"
    Data <- MCData
    NoData = "nodata"
    InstId = {1, 2, 3}
    ItemId = {1, 2, 3, 4, 5, 6}
    NoInst = 0
    OnCreate <- MCOnCreate
    NewData = "d"
    Batch = TRUE
    Deletable = {"r1", "r2"}
    WatchData <- MCWatchData
    UserWrite <- MCUserWrite
    ActWkf <- MCActWkf
    Kind <- MCKind
    SplitMode <- MCSplitMode
    JoinMode <- MCJoinMode
    FlowStart = {"s", "v1", "u1"}
    FlowStop = {"e", "z", "v2", "v3", "u2"}
    SignalSend <- MCSignalSend
    StopSig <- MCStopSig
    SubWkf <- MCSubWkf
    Action <- MCAction
    From <- MCFrom
    To <- MCTo
    TransSig <- MCTransSig
    Cond <- MCCond
    Watch <- MCWatch
INVARIANTS TypeOK NoStrandedJoin
