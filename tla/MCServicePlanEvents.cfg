CONSTANTS
    s1 = s1
    s2 = s2
    i1 = i1
    i2 = i2
    gate = gate
    blank = blank
    weekly = weekly
    none = none
    Sessions <- MCSessions
    Schedules <- MCSchedules
    Points <- MCPoints
    BlankPoint = blank
    Recurrences <- MCRecurrences
    None = none
    Payloads <- MCPayloads
    MaxVersion = 5
SPECIFICATION Spec
PROPERTY PublicationReachesOutbox
