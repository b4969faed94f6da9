SPECIFICATION Spec
CONSTANTS
    Creators = {c1}
    Template = zygote_template
    Outcomes = {"clone"}
INVARIANTS
    CallOnMappedMemory

CHECK_DEADLOCK FALSE
