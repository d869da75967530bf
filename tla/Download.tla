------------------------------ MODULE Download ------------------------------
(***************************************************************************)
(* What cache::pull promises to its caller: when it returns, every inode   *)
(* of the tree is in the index, once, nothing has failed, and every object *)
(* of the tree, also one the cache had before, was there when the command  *)
(* used it.  What it has used is removed only by an eviction that looked   *)
(* at it before.  cache::index_from_tree promises the same of the index,   *)
(* and nothing of the cache.                                               *)
(***************************************************************************)
EXTENDS Naturals

CONSTANTS
    Inodes,             \* the inodes below the root
    Digests             \* the digests of the trees and files, the root included

VARIABLES
    wanted,             \* what the cache has to have had in the end
    local,              \* the digests the cache has
    used,               \* those that the command has used
    looked,             \* those that an eviction is about to remove
    listed,             \* how often each inode is in the index
    failed,             \* a job has failed
    result              \* of the pull

vars == <<wanted, local, used, looked, listed, failed, result>>

Init ==
    /\ wanted \in {Digests, {}}
    /\ local \subseteq Digests
    /\ used = {} /\ looked = {}
    /\ listed = [n \in Inodes |-> 0]
    /\ failed = FALSE
    /\ result = "running"

\* What is there already, and what is not.
Use(h) == h \in local /\ UNCHANGED local
Fetch(h) == local' = local \cup {h}

Provide(h) ==
    /\ result # "returned"
    /\ h \in wanted
    /\ Use(h) \/ Fetch(h)
    /\ used' = used \cup {h}
    /\ UNCHANGED <<wanted, looked, listed, failed, result>>

Look(h) ==
    /\ h \in local \ used
    /\ looked' = looked \cup {h}
    /\ UNCHANGED <<wanted, local, used, listed, failed, result>>

Evict(h) ==
    /\ h \in looked
    /\ local' = local \ {h} /\ looked' = looked \ {h}
    /\ UNCHANGED <<wanted, used, listed, failed, result>>

List(n) ==
    /\ result # "returned"
    /\ listed[n] = 0
    /\ listed' = [listed EXCEPT ![n] = 1]
    /\ UNCHANGED <<wanted, local, used, looked, failed, result>>

Fail ==
    /\ result = "running"
    /\ failed' = TRUE
    /\ UNCHANGED <<wanted, local, used, looked, listed, result>>

Return ==
    /\ result = "running"
    /\ ~failed
    /\ wanted \subseteq used
    /\ \A n \in Inodes : listed[n] = 1
    /\ result' = "returned"
    /\ UNCHANGED <<wanted, local, used, looked, listed, failed>>

Throw ==
    /\ result = "running"
    /\ failed
    /\ result' = "threw"
    /\ UNCHANGED <<wanted, local, used, looked, listed, failed>>

Next ==
    \/ \E h \in Digests : Provide(h) \/ Look(h) \/ Evict(h)
    \/ \E n \in Inodes : List(n)
    \/ Fail
    \/ Return
    \/ Throw

Spec == Init /\ [][Next]_vars
=============================================================================
