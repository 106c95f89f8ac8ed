--------------------------- MODULE MCScanSession ---------------------------
(* Instances of ScanSession for TLC: the plain file p, the archive z with   *)
(* the members m1 and m2, and the antivirus agents of each run.             *)
EXTENDS ScanSession, TLC

CONSTANTS z

\* Every member is in the one archive.
MCParentOf == [m \in Member |-> z]

\* Agents whose drivers differ are told apart.
MCSymmetry == Permutations(Agent \ Escapes) \cup Permutations(Escapes) \cup Permutations(Member)
=============================================================================
