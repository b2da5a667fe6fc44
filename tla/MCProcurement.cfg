SPECIFICATION Spec
CONSTANTS
    Wkf = {"proc", "po"}
    Act <- MCAct
    Trans <- Moves
    Sig <- MCSig
    NoSig = "none"
    Res <- MCRes
    NoRes = "nores"
    Data <- All
    NoData = "nodata"
    InstId = {1, 2, 3}
    ItemId = {1, 2, 3, 4, 5, 6}
    NoInst = 0
    OnCreate <- MCOnCreate
    NewData = "stock"
    Batch = FALSE
    Deletable = {"PO"}
    WatchData <- MCWatchData
    UserWrite <- MCUserWrite
    ActWkf <- MCActWkf
    Kind <- MCKind
    SplitMode <- MCSplitMode
    JoinMode <- MCSplitMode
    FlowStart = {"draft", "po_draft"}
    FlowStop = {"done", "cancel", "po_done", "po_cancel"}
    SignalSend <- MCSignalSend
    StopSig <- MCStopSig
    SubWkf <- MCSubWkf
    Action <- MCAction
    From <- MCFrom
    To <- MCTo
    TransSig <- MCTransSig
    Cond <- MCCond
    Watch <- MCWatch
INVARIANTS NoHalfDoneItem OwnWorkflow
