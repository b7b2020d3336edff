SPECIFICATION Spec
CONSTANTS
    Sample = 2
    Scrape = 3
    Evaluation = 5
    Threshold = 10
    For = 7
    MaxAge <- MCMaxAge
INVARIANTS
    TypeOK
    StaleFires
    NoFalseAlarm
