\* Every combination of the four fields at their limits, at their defaults and
\* out of range.
SPECIFICATION Spec
CONSTANTS
    Files <- MCFiles
    TooLarge = TooLarge
INVARIANT SafeDefaults
