--------------------------- MODULE MCProgramMetadata ---------------------------
(* Small instances of ProgramMetadata for TLC. *)
EXTENDS ProgramMetadataRefinement

CONSTANTS k1, x, p

\* The rent of every length is one lamport.
FlatRent(n) == 1

NoUpgrade(kind) == [kind |-> kind, upgrade |-> None]
LiveUnder(k) == [kind |-> "live", upgrade |-> k]

\* Every program is an upgradeable one that k1 deployed.
LivePrograms == [Program -> {LiveUnder(k1)}]

\* Every program is in any state it can be met in.
AnyPrograms ==
  [Program -> {NoUpgrade(kind) : kind \in {"none", "v2", "other"}} \cup {LiveUnder(k1)}]

\* p is a keypair's account, executable under an older loader or not, the others are live.
OneOlderProgram ==
  {f \in [Program -> {NoUpgrade("none"), NoUpgrade("v2"), LiveUnder(k1)}] :
     \A q \in Program : f[q] = LiveUnder(k1) <=> q # p}

OneByte == {<<x>>}
===============================================================================
