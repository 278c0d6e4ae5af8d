SPECIFICATION FairSpec
CONSTANTS
    a1 = a1
    a2 = a2
    Addresses = {a1, a2}
    MaxDevices = 1
    MaxJobs = 3
    MaxSyncs = 1
PROPERTIES
    UploadEnds
    PollingResumes
