---------------------------- MODULE MCVaultIndex ----------------------------
(* Small instances of VaultIndex for TLC.                                    *)
EXTENDS VaultIndex, TLC

CONSTANTS t1, t2, c1, c2, n1, n2, i1, i2, i3

Symmetries ==
    Permutations(Tasks) \cup Permutations(Contents)
        \cup Permutations(Names) \cup Permutations(Ids)
=============================================================================
