--------------------------- MODULE MCDesktopWindow ---------------------------
(* Small vaults for TLC: linked with both providers, with a file or without; *)
(* with a file and no provider yet, with an OAuth client and without.        *)
EXTENDS DesktopWindow, TLC

CONSTANTS i1, t1, t2

Vault(item, linked, auto, client) ==
  [items |-> [i \in Items |-> item], linked |-> linked, auto |-> auto, client |-> client]

Symmetries == Permutations({t1, t2})

MCStarts ==
  {Vault(Nil, Provider, Provider, TRUE), Vault(NewItem, Provider, {}, TRUE),
   Vault(NewItem, {}, {}, TRUE), Vault(NewItem, {}, {}, FALSE)}
=============================================================================
