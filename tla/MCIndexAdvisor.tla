---------------------------- MODULE MCIndexAdvisor ----------------------------
(* IndexAdvisor for TLC. Clients are interchangeable, and so are keys, in the   *)
(* runs of safety properties.                                                   *)
EXTENDS IndexAdvisor, TLC

InMemory == [pool |-> FALSE, readOnly |-> FALSE]
InMemoryReadOnly == [pool |-> FALSE, readOnly |-> TRUE]
OnFile == [pool |-> TRUE, readOnly |-> FALSE]
OnFileReadOnly == [pool |-> TRUE, readOnly |-> TRUE]

AllHandles == {InMemory, InMemoryReadOnly, OnFile, OnFileReadOnly}
FileHandle == {OnFile}

Symmetry == Permutations(Clients) \cup Permutations(Keys)
=============================================================================
