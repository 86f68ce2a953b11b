SPECIFICATION Spec
CONSTANTS
    NonFinite = NonFinite
    Scales = {0, 1}
    MaxItems = 4
    MaxScore = 2
    MaxTop = 4
    MaxQuota = 2
    Indexes <- MCIndexes
    Requests <- MCRequests
INVARIANTS HeapsHoldLeaders BestAreReturned RanksAreExact
