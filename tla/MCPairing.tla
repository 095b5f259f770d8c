----------------------------- MODULE MCPairing -----------------------------
(* Two machines that can dial each other at once; the second connection's     *)
(* address may be answered by the dialling machine itself.                    *)
EXTENDS Pairing, TLC

CONSTANTS a, b

MCSymmetry == Permutations(Sessions)
MCRank == [n \in Nodes |-> IF n = a THEN 2 ELSE 1]
MCDiscovers == [n \in Nodes |-> Nodes \ {n}]
MCAnswers == [n \in Nodes |-> IF n = b THEN Nodes ELSE {n}]
=============================================================================
