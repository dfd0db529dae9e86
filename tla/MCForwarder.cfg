\* One connection, two chunks each way, the second of which waits for the
\* peer to read the first.
CONSTANTS
    Conns = {c1}
    Chunks = 2
    Room = 1
    None = None

SPECIFICATION FairForwarderSpec

INVARIANT ForwarderTypeOK
INVARIANT NothingIsCutShort

PROPERTY ThreadsEnd
PROPERTY ListensAgain

\* The connection has been made and is gone, and the listener waits.
CHECK_DEADLOCK FALSE
