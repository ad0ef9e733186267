\* One target read of 1 byte against a window of 2 and one WINDOW_UPDATE:
\* enough for SendToMux's store to overwrite OnWindowUpdate's.
CONSTANTS
    Window = 2
    MaxPayload = 2
    MaxRead = 2
    MaxReads = 2
SPECIFICATION Spec
INVARIANT NoLostWindowUpdate
CHECK_DEADLOCK FALSE
