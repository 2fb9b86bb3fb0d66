\* Texts of up to six characters, slices of up to three bytes, lengths to four.
CONSTANTS
    Base = 3
    Letters = {2}
    Texts <- MCTexts
    Buffers <- MCBuffers
    Lengths <- MCLengths
    MayDecodeInto <- Careful
SPECIFICATION Spec
INVARIANTS
    TypeOK
    NumberKept
    LengthAsAsked
    RefusesOnlyMisfits
