CONSTANTS
    Other = Other
    MaxId = 255
    MaxDigits = 3
    IdTexts <- Ids6
    Lines <- ShortLines
    WrittenSets <- Singles
    MaxUnits = 21
    MaxGaps = 1
    MaxLines = 2
    Images <- Layouts
SPECIFICATION ReadersSpec
CHECK_DEADLOCK FALSE
INVARIANTS
    DocTypeOK
    ParserReadsTheLanguage
    WrittenIsReadBack
    LegacyListIsWhole
    SearchTypeOK
    TableIsTheClass
    TableStopsTheScan
