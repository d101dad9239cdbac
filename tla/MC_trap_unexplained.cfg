CONSTANTS
    Mod32 = 16
    Mod64 = 32
    ModUsize = 16
    MemSize = 2
    a = a
    b = b
    ErrByte = ErrByte
    Data = {a, b}
    BadUtf8 <- MCBadUtf8
    Args32 <- MCArgs32Decodable
    Args64 <- MCArgs64
    Payload <- MCPayload
    MaxPayload = 1
    MaxBuffer = 1
    ErrLens = {1, 2}
    Heights = {7}
    Stamps = {0}
    GasLeft = {0}
    ExitCodes <- MCExitCodes
    MaxPages = 2
    MaxCalls = 3
SPECIFICATION SpecControl
INVARIANT TrapAlwaysExplained
