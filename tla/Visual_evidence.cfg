SPECIFICATION Spec
CONSTANTS
    input = input
    other = other
    tap = tap
    boot = boot
    lua = lua
    a = a
    NoOp = NoOp
    NoRequest = NoRequest
    NoResponse = NoResponse
    Inputs <- TwoInputs
    TapViews <- OneTap
    LuaViews <- OneLua
    StartViews <- OneStart
    Together <- TapAlone
    Keys <- OneKey
    Interval = 4
    MaxDuration = 2
    MaxWait = 1
    MaxFrame = 5
INVARIANT EvidenceIsRetained
CHECK_DEADLOCK FALSE
