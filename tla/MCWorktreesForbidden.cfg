CONSTANTS
    TaskOrder <- MCTaskOrder
    Stems <- MCStems
    Allowed <- MCAllowed
    Forbidden <- MCForbiddenAsPrompted
    Proposals <- MCProposals
    Contents = {"old", "new"}
    BaseFiles <- MCBaseFiles
    MaxWrites = 1
SPECIFICATION WorktreeSpec
INVARIANT ForbiddenPathsAreKept
CHECK_DEADLOCK FALSE
