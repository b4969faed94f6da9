SPECIFICATION FairSpec
CONSTANTS
    Creators = {c1, c2}
    Template = zygote_template
    Outcomes = {"clone", "full"}
INVARIANTS
    TypeOK
    GuestMuProtectsMemory
    OnceProtectsStart
    SweptForGood
    ClosedRuntimeIsInert
    ClonesHaveTheImage
PROPERTIES
    CloseReturns
    NewInstanceReturns
CHECK_DEADLOCK FALSE
