CONSTANT Compilations <- MCCompilations
SPECIFICATION FairSpec
INVARIANTS EmptyGoesOn TypeOK InStep NoDangling EdgesCover TargetsHaveCode
PROPERTY Reaches
