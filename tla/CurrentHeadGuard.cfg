\* Three domains, one more than the repository launches, so that "every domain is stale"
\* differs from "this one and the other".
SPECIFICATION Spec
CONSTANT Domains = {"d1", "d2", "d3"}
INVARIANT ClaimsCurrent
INVARIANT RefreshedAfterStale
PROPERTY FailedClosedIsFinal
