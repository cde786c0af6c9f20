SPECIFICATION FairSpec
CHECK_DEADLOCK FALSE
CONSTANTS
    Key = {image, pdf}
    Image = {image}
    MaxUploads = 1
    Attempts = 2
    Req = {r1, r2}
    Job = {j1, j2}
    None = None
INVARIANTS
    TypeOK
    ListedServes
    DeletedLeavesNothing
    OneJobPerImage
PROPERTIES
    ImageIsProcessed
