CONSTANTS
    Lines <- MCLines
    MaxLines = 4
    IntMin <- MCIntMin
    IntMax = 7
SPECIFICATION ConfigSpec
INVARIANTS ReadsSeeTheFile NothingDroppedSilently
