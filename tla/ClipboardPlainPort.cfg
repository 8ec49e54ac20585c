SPECIFICATION Spec
CONSTANTS
    Texts = {s1, s2}
    Secrets = {s1}
    Nothing = Nothing
    Delays = {1, 2}
    LastGeneration = 3
PROPERTY ForeignTextSurvives
CHECK_DEADLOCK FALSE
