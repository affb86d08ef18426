CONSTANTS
    BufferRows = 3
    RefMax = 8
    Handles = {h1, h2, h3, h4}
    NoHandle = none
SPECIFICATION Spec
INVARIANTS
    RefCountExact SizeExact IInv
PROPERTIES
    FreshBuffer
