\* One calendar, two requests at a time.  Once, the account's keys change, or
\* the calendar's keys or settings; and one update of the cache fails
\* that leaves something old.
CONSTANTS
    Cal = {c1}
    Account = account
    Request = {r1, r2}
    NoRequest = NoRequest
    Chain = {n1, n2}
    NoChain = NoChain
    MaxVersion = 2
    MaxChanged = 1
    MaxFailed = 1
SYMMETRY Interchangeable
ACTION_CONSTRAINT FailuresMatter
SPECIFICATION Spec
INVARIANTS TypeOK HealableKeychain StaleCacheIsRetried WritesAreSeen
