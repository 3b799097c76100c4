SPECIFICATION StoreSpec
CONSTANTS
    Tails <- MCTails
    HostSections = {"ids", "load"}
    HostValues = {"v"}
    MaxSaves = 2
INVARIANTS
    AdmittedIsWhole
    ReportedIsStored
PROPERTIES
    RefusedStaysRefused
