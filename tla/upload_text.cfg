SPECIFICATION FairSpec
CONSTANTS
    s1 = s1  s2 = s2  s3 = s3
    None = none  Words <- AllWords  Chars <- CharsOf
    Sessions = {s1, s2}
    Requests <- LineFiles
    MaxWorkers = 2
    mSaveOpt = "ON_DB"
CHECK_DEADLOCK FALSE
INVARIANTS TypeOK FileAsSent FieldsTogether SecuredIsNamed
PROPERTIES ParsedAsSent ParseEnds
