SPECIFICATION Spec
CONSTANTS
    Inputs <- Files
    Fields <- F
    TLFields <- TF
    ORDER <- Order
    Alphabet <- Sorted_names
    One = 100
    Powers <- Tens
    Bad = Bad
    Cut = Cut
    Gone = Gone
    None = None
INVARIANTS
    TypeOK
    MedianOfTrials
    AxisFits
    PageInSync
    TimelineCards
CHECK_DEADLOCK FALSE
