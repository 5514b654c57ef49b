SPECIFICATION Spec
CONSTANTS
    tags = tags
    tags2 = tags2
    tags10 = tags10
    name = name
    tagsTmp = tagsTmp
    tags2Tmp = tags2Tmp
    tags10Tmp = tags10Tmp
    nameTmp = nameTmp
    nameTmpTmp = nameTmpTmp
    bad = bad
    Null = Null
    Torn = Torn
    Key <- MCKey
    Value <- MCValue
    Below <- MCBelow
    Sorted <- MCSorted
    Temp <- MCTemp
    Element <- MCElement
    Invalid = {bad}
    Modes = {"file", "ipc"}
    Call = {c1, c2, c3}
    Inputs <- MCInputs
SYMMETRY Calls
CHECK_DEADLOCK FALSE
INVARIANTS TypeOK LastCallWins OutputsAreWhole NegativeIndexFollowsTheList
