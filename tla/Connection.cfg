SPECIFICATION FairSpec
INVARIANT Agreement
PROPERTY HandshakeCompletes
PROPERTY SomeoneLearns
PROPERTY EarlyServerAnswers
CHECK_DEADLOCK FALSE
