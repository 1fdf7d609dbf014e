SPECIFICATION Spec
CONSTANTS
    Tasks = {sketch, other}
    None = none
    N = 2
    MaxBytes = 5
PROPERTIES
    StoreNeverOverruns
