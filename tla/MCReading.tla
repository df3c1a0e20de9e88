------------------------------ MODULE MCReading ------------------------------
(* A small instance for TLC of the program and of those who read its accounts. *)
EXTENDS Reading, ProgramMetadataProperties

CONSTANTS k1, x, u   \* u is a byte that occurs in no text

FlatRent(n) == 1
SteppedRent(n) == 1 + n \div 3
LivePrograms == [Program -> {[kind |-> "live", upgrade |-> k1]}]
UpToTwoBytes == {<<x>>, <<x, u>>}
===============================================================================
