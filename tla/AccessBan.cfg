\* The console alone, with a disk that works.
SPECIFICATION Spec
CONSTANTS
    n1 = n1
    n2 = n2
    Names = {n1, n2}
    Logins = {c1}
    Workers = {}
    Main = main
    Lines <- MCLines
    DiskErrors = FALSE
    Missing = missing
    Torn = torn
    None = none
PROPERTY BanAll
CHECK_DEADLOCK FALSE
