SPECIFICATION Spec
CONSTANTS
    Wkf <- MCWkf
    Act <- MCAct
    Trans <- MCTrans
    Sig <- MCSig
    NoSig <- MCNoSig
    Res <- MCRes
    NoRes <- MCNoRes
    Data <- MCData
    NoData <- MCNoData
    InstId = {1, 2, 3}
    ItemId = {1, 2, 3, 4, 5, 6, 7, 8}
    NoInst = 0
    OnCreate <- MCOnCreate
    NewData = "new"
    Batch = FALSE
    Deletable = {"PO"}
    WatchData <- MCWatchData
    UserWrite <- MCUserWrite
    ActWkf <- MCActWkf
    Kind <- MCKind
    SplitMode <- MCSplitMode
    JoinMode <- MCJoinMode
    FlowStart <- MCFlowStart
    FlowStop <- MCFlowStop
    SignalSend <- MCSignalSend
    StopSig <- MCStopSig
    SubWkf <- MCSubWkf
    Action <- MCAction
    From <- MCFrom
    To <- MCTo
    TransSig <- MCTransSig
    Cond <- MCCond
    Watch <- MCWatch
INVARIANTS CompleteIsOver CompleteHasEnd
PROPERTY NoTokenRevived
