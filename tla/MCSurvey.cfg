\* Surveys of two antennas, the first of which may be cut short; the working
\* range is within a band or spans both.
SPECIFICATION SurveySpec
CONSTANTS
    Commands = {"SetWorkAntenna", "GetRfPortReturnLoss"}
    MaxCalls = 6
    Total = 2
    Lows = {865000, 902500}
    Highs = {868000, 928000}
INVARIANTS
    SurveyTypeOK
    MeasuredOnItsAntenna
    MissingAreOpen
    ChosenAreFit
    PanicsOffBand
CHECK_DEADLOCK FALSE
