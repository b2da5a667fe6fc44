SPECIFICATION FairSpec
CONSTANTS
    product = product
    sale = sale
    stock = stock
    Mod = {product, sale, stock}
    DepGraphs <- MCDepGraphs
INVARIANTS
    TypeOK
    GraphIsComplete
    UninstalledHasNoData
    MarksCarriedOut
PROPERTIES
    LoadedInOrder
    LoadingEnds
