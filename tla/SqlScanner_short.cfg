SPECIFICATION ScanSpec
CONSTANTS
    Chars = {"apostrophe", "backtick", "backslash", "dash", "hash", "slash", "star", "semicolon", "question", "newline"}
    MaxLen = 5
INVARIANTS
    ScanTypeOK
    CodeIsRecognised
    ResultIsRight
CHECK_DEADLOCK FALSE
