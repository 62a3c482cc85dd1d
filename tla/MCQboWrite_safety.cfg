SPECIFICATION Spec
CONSTANTS
    i1 = i1
    i2 = i2
    i3 = i3
    b1 = b1
    b2 = b2
    b3 = b3
    None = None
    Invoice = {i1, i2, i3}
    Bill = {b1, b2, b3}
    Call = {k1, k2}
    DocOf <- OneDoc
    AmountOf <- Amounts
    CurrencyOf <- Currencies
    RefOf <- Refs
    Untotalled = {}
    Prompt = TRUE
    MaxFailures = 2
SYMMETRY Symmetry
INVARIANTS
    OneOwner
    BillExact
