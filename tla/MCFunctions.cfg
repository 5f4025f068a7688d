\* Conditions of up to five words over two variables, renamings of four
\* names, lines of up to two parameters and five characters.  A byte has four
\* values, an integer four bytes, a real number eight; a real number counts
\* eighths and is printed to halves.  Two writes to a place, two texts; names
\* of up to four parts.
SPECIFICATION Spec
CONSTANTS
    Name = {"a", "b"}
    Stranger = "c"
    MaxWords = 5
    MaxKey = 4
    MaxParams = 2
    MaxChars = 5
    ByteBase = 4
    IntSize = 4
    RealSize = 8
    One = 8
    Printed = 4
    Ints <- MCInts
    Reals <- MCReals
    Strings <- MCStrings
    PlaceSize = {1, 2, 3, 4, 8}
    MaxWrites = 2
    Nums <- MCNums
    MaxTexts = 2
    MaxParts = 4
    MaxLoad = 3
    Top = 7
    Main = "main"
    Unit <- MCUnit
    VarOf <- MCVarOf
    SubOf <- MCSubOf
CHECK_DEADLOCK FALSE
INVARIANTS
    SolveIsMeaning
    RenamedAtOnce
    LineIsUnderstood
    CutIsRefused
    PlaceKeepsMeaning
    TextKeepsMeaning
    FoundByName
    DamageIsNoticed
