SPECIFICATION FairSpec
CONSTANTS
    u1 = u1  u2 = u2  q1 = q1  n1 = n1  n2 = n2  f1 = f1  f2 = f2  x = x  y = y
    Proxy = proxy  NoName = noname  Lost = lost  Newline = newline  None = none
    Uploads = {u1, u2}
    Queries = {q1}
    Nodes = {n1}
    Names = {f1, f2}
    Data = {x, y}
    Requests <- FaultRequests
    Workers = 2
    ParseReturns = {TRUE, FALSE}
    Agreeing <- AgreeingDraws
    MaxCrashes = 0
    MaxFailures = 0
    MaxLosses = 0
CHECK_DEADLOCK FALSE
INVARIANT TmpRemoved
PROPERTIES PostAnswered QueryConcluded
