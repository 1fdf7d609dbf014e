SPECIFICATION FlashSpec
CONSTANTS
    Writers = {kv, log}
    Updater = updater
    Savers = {}
    Stray = {}
    Free = free
    Pages = 2
INVARIANTS
    OkMeansWritten
