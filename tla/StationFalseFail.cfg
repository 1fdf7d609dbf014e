SPECIFICATION NSpec
CONSTANTS
    MaxCount = 3
    Reports = {}
PROPERTIES DhcpFailedAfterTry
