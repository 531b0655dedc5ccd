SPECIFICATION Spec
INVARIANTS
    CameraInv
    NeverAborts
PROPERTIES
    RequestsAnswered
    PhotoEndsDialog
