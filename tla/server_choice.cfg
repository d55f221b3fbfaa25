SPECIFICATION FairSpec
CONSTANTS
    Servers = {s1}
    Calls = {"bytes", "size"}
    One = 64
    Measured = 64
    Timeout = 1920
PROPERTIES
    Revived
