\* Two sessions with files of their own, and a reader, over an unreliable disk.
SPECIFICATION Spec
CONSTANTS
    Clients = {"s1", "s2", "reader"}
    Savers = {"s1", "s2"}
    KeyOf <- ApartKeyOf
    Trimmed <- MCTrimmed
    Safe <- MCSafe
    Values = {"v1", "v2"}
    Absent = Absent
    Torn = Torn
    IOErrors = TRUE
INVARIANTS
    TypeOK
    AtomicReplace
PROPERTY ImplementsAtomicStore
