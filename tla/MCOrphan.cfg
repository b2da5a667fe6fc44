SPECIFICATION Spec
CONSTANTS
    product = product
    sale = sale
    stock = stock
    Mod = {product, sale, stock}
    DepGraphs <- MCDepGraphs
INVARIANT NoOrphan
