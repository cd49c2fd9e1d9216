CONSTANT Compilations <- MCNested
SPECIFICATION Spec
INVARIANT InStep
