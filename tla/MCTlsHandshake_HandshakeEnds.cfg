\* Violation run: the handshake loop blocks in recv with the rest of the
\* server's flight already in SECBUFFER_EXTRA.
CONSTANTS
    Flights <- MCFlights
    AppRecords <- MCAppRecords
    HsBufSize = 2
SPECIFICATION Spec
PROPERTY HandshakeEnds
CHECK_DEADLOCK FALSE
