CONSTANT Programs <- MCNegation
SPECIFICATION Spec
INVARIANT RoundTrip
