\* Any environment, five titles and two artists, any answer of each engine.
CONSTANTS
    song = song
    original = original
    unknown = unknown
    x = x
    y = y
    Nothing = Nothing
    Words <- MCWords
    Unknown <- MCUnknown
    Original <- MCOriginal
    Rests <- MCRests
    Titles <- MCTitles
    Artists <- MCArtists
SPECIFICATION FairSpec
INVARIANTS
    TypeOK
    BestOfBestGroup
    PlainAnswerAccepted
    AgreementDecides
PROPERTIES
    AgreementHelps
    IdentifyReturns
CHECK_DEADLOCK FALSE
