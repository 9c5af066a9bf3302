\* Every object alone, and pairs of arrays that share ids and recipients.
SPECIFICATION Spec
CONSTANTS
    Series <- MCSeries
INVARIANTS
    SuppressedOnEvidence
    ReportedIsListed
