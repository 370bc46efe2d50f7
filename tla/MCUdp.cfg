CONSTANTS
    udpsize = 4
    readbytes = 15
    First = 1
    Last = 16
    Kept <- McKept
    Losses <- McLosses
    MaxRepeated = 1
    Reach = 2
SPECIFICATION Spec
INVARIANTS DataInPlace NothingDropped
