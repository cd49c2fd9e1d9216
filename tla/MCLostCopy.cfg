CONSTANT Programs <- MCLoopInLoop
SPECIFICATION Spec
INVARIANT NoLostCopy
