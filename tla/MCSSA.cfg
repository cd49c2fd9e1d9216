CONSTANT Programs <- MCPrograms
SPECIFICATION Spec
INVARIANTS EntryStaysFirst FathersLeadUp IdomNeverWrong FrontierRight ReachingKept NamesCurrent
