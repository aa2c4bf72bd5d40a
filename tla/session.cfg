\* Every kind of request, batches of up to three items.
CONSTANT MaxItems = 3
SPECIFICATION Spec
INVARIANTS
    TypeOK
    EndTellsTruth
    StreamIsWhole
PROPERTY SessionEnds
