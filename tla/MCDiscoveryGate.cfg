SPECIFICATION Spec
CONSTANTS
    unit = unit
    scheduler = scheduler
    Devices <- MCDevices
    Scheduler = scheduler
    Signatures <- MCSignatures
    Comps <- MCComps
    NoSignature = NoSignature
    NoDocument = NoDocument
    MaxConnects = 2
INVARIANTS
    TypeOK
    ClosedGateMeansDocuments
PROPERTIES
    DroppedComponentsAreTombstoned
