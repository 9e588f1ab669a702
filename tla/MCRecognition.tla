--------------------------- MODULE MCRecognition ---------------------------
\* Instances of Recognition for TLC: titles and artists that agree, agree in what
\* the key keeps of them only, or split the same words differently.
EXTENDS Recognition

CONSTANTS song, original, unknown, x, y

MCWords == {song, original, unknown}
MCUnknown == {unknown}
MCOriginal == {original}
MCRests == {x, y}

Text(words, rest) == [words |-> words, rest |-> rest]

MCTitles ==
    {Blank, Text(<<song>>, Nothing), Text(<<song, original>>, Nothing),
     Text(<<unknown>>, Nothing), Text(<< >>, x)}
MCArtists == {Blank, Text(<<original>>, Nothing)}

\* For the finding: a title of a-z, and two of another script.
FewTitles == {Blank, Text(<<song>>, Nothing), Text(<< >>, x), Text(<< >>, y)}
=============================================================================
