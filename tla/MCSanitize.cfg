SPECIFICATION SanitizeSpec
CONSTANTS
    sql = sql
    mongo = mongo
    plain = plain
    quoted = quoted
    dollar = dollar
    mixed = mixed
    Strings = {plain, quoted, dollar, mixed}
    Categories = {sql, mongo}
    Strip <- StripToPlain
    CacheMax = 2
    MaxSteps = 5
INVARIANTS CacheKeepsRecent
PROPERTIES AnswersCurrent
CHECK_DEADLOCK FALSE
