----------------------------- MODULE ItemLedger -----------------------------
(***************************************************************************)
(* What the vault's list of items promises to whoever reads it, without the *)
(* sync commands' sections, snapshots, retries and requests: a provider's   *)
(* mark says synced only of an item that the provider holds, a remote id is *)
(* never forgotten, nothing is sent before the list on disk says so, and a  *)
(* restart returns to the list on disk, which is the one in memory after    *)
(* one of its saves.                                                        *)
(***************************************************************************)
CONSTANTS
    Items,
    Providers,
    Nil

VARIABLES
    memory,   \* the entry of each item in memory, Nil when it is not listed
    stored,   \* the same in the file a restart reads
    running,  \* <<item, provider>> of the syncs that may be sending
    held,     \* <<item, provider>> where the provider holds the item
    ever      \* items ever listed

ledger == <<memory, stored, running, held, ever>>

Fresh == [mark |-> [p \in Providers |-> "local"], known |-> {}]

Mark(e, p, m) == [mark |-> [e.mark EXCEPT ![p] = m], known |-> e.known]

(* The provider answered with a remote id.                                  *)
Learn(e, p, m) == [mark |-> [e.mark EXCEPT ![p] = m], known |-> e.known \cup {p}]

Init ==
    /\ memory = [i \in Items |-> Nil] /\ stored = memory
    /\ running = {} /\ held = {} /\ ever = {}

(* A save that fails leaves the file as it was, and the list changed.       *)
Save(list) == memory' = list /\ stored' \in {stored, list}

Add(i) ==
    /\ i \notin ever
    /\ ever' = ever \cup {i}
    /\ Save([memory EXCEPT ![i] = Fresh])
    /\ UNCHANGED <<running, held>>

Remove(i) ==
    /\ memory[i] # Nil
    /\ Save([memory EXCEPT ![i] = Nil])
    /\ UNCHANGED <<running, held, ever>>

(* The files of some items are gone.                                        *)
Demote(S, p) ==
    /\ \A i \in S : memory[i] # Nil
    /\ Save([i \in Items |-> IF i \in S THEN Mark(memory[i], p, "failed") ELSE memory[i]])
    /\ UNCHANGED <<running, held, ever>>

(* The sync goes on only when the list that shows it was saved.             *)
Start(i, p) ==
    /\ memory[i] # Nil
    /\ Save([memory EXCEPT ![i] = Mark(@, p, "syncing")])
    /\ \/ running' = running
       \/ running' = running \cup {<<i, p>>} /\ stored' = memory'
    /\ UNCHANGED <<held, ever>>

Accept(i, p) ==
    /\ <<i, p>> \in running
    /\ held' = held \cup {<<i, p>>}
    /\ UNCHANGED <<memory, stored, running, ever>>

Outcomes(i, p) ==
    {Mark(memory[i], p, "failed")} \cup
    (IF <<i, p>> \in held THEN {Learn(memory[i], p, m) : m \in {"synced", "failed"}}
                          ELSE {})

(* Another sync of the item with the same provider may still be running.    *)
Ends(i, p) == <<i, p>> \in running /\ running' \in {running, running \ {<<i, p>>}}

Resolve(i, p) ==
    /\ memory[i] # Nil
    /\ \E e \in Outcomes(i, p) : Save([memory EXCEPT ![i] = e])
    /\ Ends(i, p)
    /\ UNCHANGED <<held, ever>>

Abandon(i, p) ==
    /\ memory[i] = Nil
    /\ Ends(i, p)
    /\ UNCHANGED <<memory, stored, held, ever>>

Reload ==
    /\ memory' = stored
    /\ running' = {}
    /\ UNCHANGED <<stored, held, ever>>

Next ==
    \/ \E i \in Items : Add(i) \/ Remove(i)
    \/ \E S \in SUBSET Items, p \in Providers : Demote(S, p)
    \/ \E i \in Items, p \in Providers :
          Start(i, p) \/ Accept(i, p) \/ Resolve(i, p) \/ Abandon(i, p)
    \/ Reload

Spec == Init /\ [][Next]_ledger
=============================================================================
