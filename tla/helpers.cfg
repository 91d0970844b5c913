\* batch, text_as_fragments and the date walk of next_day/next_month
CONSTANTS
    BatchInputs <- MCBatchInputs
    BatchSizes = {1, 2, 3}
    Texts <- MCTexts
    Blocks <- MCBlocks
    NL <- MCNL
    SP <- MCSP
    Years <- MCYears
    NoDate = NoDate
SPECIFICATION HelpersSpec
\* the generators return and the walk stops at the last year of Years
CHECK_DEADLOCK FALSE
INVARIANTS
    BatchAsDocumented
    FragmentsJoinToText
    FragmentSizes
    NextMonthNearestDay
PROPERTY
    GeneratorsTerminate
