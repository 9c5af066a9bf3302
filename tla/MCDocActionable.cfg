SPECIFICATION Spec
CONSTANTS
    Series <- MCNotification
INVARIANTS
    ParsedAreTyped
