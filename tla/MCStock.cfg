SPECIFICATION Spec
CONSTANTS
    None = 0
    Loc <- Place
    Under <- PlaceUnder
    Found <- PlaceFound
    Loss = "loss"
    MoveId = {1, 2, 3, 4}
    Picking = {1, 2, 3}
    Kinds <- AllKinds
    Stores <- TwoStores
    Lines <- Counted
    MaxQty = 2
INVARIANTS TypeOK WaitingIsFed
PROPERTIES OverWhole DoneStays QuantityKept ReservedIsThere
CHECK_DEADLOCK FALSE
