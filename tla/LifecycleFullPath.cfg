SPECIFICATION Spec
CONSTANTS
    Creators = {c1}
    Template = zygote_template
    Outcomes = {"full"}
INVARIANTS
    StartOnMappedMemory

CHECK_DEADLOCK FALSE
