SPECIFICATION Spec
CONSTANTS
    ip1 = ip1
    ip2 = ip2
    w1 = w1
    a1 = a1
    ClientID <- MCOneClient
    Worker <- MCOneWorker
    App <- MCApps
    Accept = accept
    Control = control
    NoClient = noclient
    MaxSessions = 2
INVARIANT OneConnectionPerIP
