\* Everything goes wrong, between a little-endian and a big-endian host.
SPECIFICATION FairSpec
CONSTANTS
    Messages = 3
    LittleEndian = {"client"}
    Mishaps = {"short", "timeout", "ack_lost", "killed"}
INVARIANTS TypeOK ConnectedToPeer EchoExpected RoundClosed
PROPERTIES ImplementsEcho BufferStable EchoOrDeath ExchangeEnds
