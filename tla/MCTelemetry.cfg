CONSTANTS
    cloud = cloud
    lan = lan
    c1 = c1
    c2 = c2
    l1 = l1
    card = card
    d1 = d1
    Jobs <- MCJobs
    Ids <- MCIds
    Scoped <- MCScoped
    Device <- MCDevice
SPECIFICATION Spec
INVARIANTS
    TypeOK
    KnowsItsJob
    JobFieldsBelong
PROPERTIES
    KeepsFields
