\* Two tasks compare at the same time.
CONSTANTS
    Tasks = {"UART", "SPI"}
    Words = {"a", "b"}
    CrcMinLen = 1
    Pairs <- MCPairs
SPECIFICATION Spec
INVARIANTS
    TypeOK
    UndisturbedIsCorrect
