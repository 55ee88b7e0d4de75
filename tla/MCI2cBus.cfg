SPECIFICATION I2cSpec
CONSTANTS
    Hosts = {h1, h2}
    NoHost = NoHost
    Shapes <- TwoShapes
    CommandsPerWord = 3
    Prompt = TRUE
    MaxTx = 2
    MaxRepeats = 1
INVARIANTS
    OwnAnswer
    SequencesIntact
PROPERTIES
    SequencesEnd
CHECK_DEADLOCK FALSE
