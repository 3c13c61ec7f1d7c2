SPECIFICATION FairSpec
CONSTANTS
    s1 = s1  s2 = s2  s3 = s3
    None = none  Words <- AllWords  Chars <- CharsOf
    Sessions = {s1, s2}
    Requests <- WrkAndCurl
    MaxWorkers = 2
    mSaveOpt = "ON_CLUSTER"
CHECK_DEADLOCK FALSE
PROPERTY WrkFileStored
