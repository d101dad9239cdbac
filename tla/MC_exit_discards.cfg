CONSTANTS
    Mod32 = 16
    Mod64 = 32
    ModUsize = 16
    MemSize = 2
    a = a
    b = b
    ErrByte = ErrByte
    Data = {a, b}
    BadUtf8 <- MCBadUtf8
    Args32 <- MCArgs32
    Args64 <- MCArgs64
    Payload <- MCPayload
    MaxPayload = 1
    MaxBuffer = 1
    ErrLens = {1, 2}
    Heights = {7, 8}
    Stamps = {0, 16}
    GasLeft = {0, 16}
    ExitCodes <- MCExitCodes
    MaxPages = 2
    MaxCalls = 3
SPECIFICATION SpecControl
INVARIANT ExitAlwaysExits
