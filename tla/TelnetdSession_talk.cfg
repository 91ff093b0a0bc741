SPECIFICATION FairSession
CONSTANTS
    BUFSIZE = 6
    NAWS_LEN = 6
    Talks <- Dialogues
    Fails = {"again", "short", "kill"}
INVARIANTS BuffersSafe  
PROPERTY InputDelivered
