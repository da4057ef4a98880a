SPECIFICATION Spec
CONSTANTS
    code = code
    again = again
    empty = empty
    long = long
    fitting = fitting
    pattern = pattern
    Fields <- MCFields
    Markup <- MCMarkup
    Shape <- MCShape
    Values <- MCValues
    Default <- MCDefault
    Empty = empty
    Late = {again}
    Replace <- MCReplace
    HasSummary = TRUE
    Refuses <- MCRefuses
    NoData = NoData
INVARIANTS TypeOK PendingCounted AnswersFit ErrorsShown ErrorsRechecked RulesExact
PROPERTIES SentIsRight RefusalExplained
