\* Two session ids that pathForKey maps to one file.
SPECIFICATION Spec
CONSTANTS
    Clients = {"s1", "s2", "reader"}
    Savers = {"s1", "s2"}
    KeyOf <- SharedKeyOf
    Trimmed <- MCTrimmed
    Safe <- MCSafe
    Values = {"v1", "v2"}
    Absent = Absent
    Torn = Torn
    IOErrors = FALSE
INVARIANT AtomicReplace
