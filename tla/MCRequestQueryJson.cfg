SPECIFICATION QuerySpec
CONSTANTS
    Traffics <- MCTraffics
    Questions <- MCQuestions
    UpperCase <- MCUpperCase
    Now <- MCNow
    Day <- MCDay
    DefaultLimit = 1
    MaxLimit = 2
    CommandLimit = 2
    PrefixLimit = 2
    MaxToggles = 1
INVARIANT FieldsAreFound
