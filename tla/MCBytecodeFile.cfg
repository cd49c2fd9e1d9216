CONSTANT Programs <- MCPrograms
SPECIFICATION Spec
INVARIANTS TypeOK Aligned RoundTrip OnlyTheCutIsLost
