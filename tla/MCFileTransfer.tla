--------------------------- MODULE MCFileTransfer ---------------------------
EXTENDS FileTransfer, TLC

CONSTANTS a, b, n

MCNameOf == [f \in {a, b} |-> n]
MCFullLen == (a :> 2) @@ (b :> 0)
MCSuffixes == 0 .. 1
=============================================================================
