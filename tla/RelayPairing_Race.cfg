SPECIFICATION FairSpec
CONSTANTS
    MaxClients = 4
    Session = {s1}
    Capacity = 3
    Impatient = {1}
    NoSession = NoSession
CHECK_DEADLOCK FALSE
PROPERTIES ImplementsRendezvous TimeoutIsOwn EveryoneIsAnswered SessionIsReleased
