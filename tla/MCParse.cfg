SPECIFICATION MCSpec
CONSTANTS
    JSMN_NTOK = 5
    HeaderTok = 20
    Nentries = {1, 3}
    Lexeme <- MCLexeme
    MaxLexemes = 6
INVARIANTS PTypeOK Nesting Verdict ValueFound NodesParsed RoomForEntries HeaderParsed
CHECK_DEADLOCK FALSE
