CONSTANTS
    None = None
    Gone = Gone
    Name <- MCName
    Fold <- MCFold
    Group <- MCGroup
    Library <- MCLibrary
    Setting <- MCSetting
SPECIFICATION Spec
INVARIANTS
    TypeOK
    EveryFilmPlanned
    DestinationsDistinct
    EvidenceComplete
PROPERTIES
    ApprovalHolds
    MetadataAgrees
CHECK_DEADLOCK FALSE
