\* Three answers, two of them in another script than a-z.
CONSTANTS
    song = song
    original = original
    unknown = unknown
    x = x
    y = y
    Nothing = Nothing
    Words <- MCWords
    Unknown <- MCUnknown
    Original <- MCOriginal
    Rests <- MCRests
    Titles <- FewTitles
    Artists <- MCArtists
SPECIFICATION Spec
INVARIANTS
    ConsensusReal
CHECK_DEADLOCK FALSE
