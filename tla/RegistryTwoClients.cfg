SPECIFICATION Spec
CONSTANTS
    ip1 = ip1
    ip2 = ip2
    w1 = w1
    a1 = a1
    ClientID <- MCClients
    Worker <- MCOneWorker
    App <- MCApps
    Accept = accept
    Control = control
    NoClient = noclient
    MaxSessions = 2
SYMMETRY MCSymmetry
INVARIANTS
    TypeOK
    StopOnce
    Ownership
    NoOverwrite
    NoConnectionLeak
    LiveNotReported
    AtMostOneLeftBehind
    ReportedAtMostTwice
