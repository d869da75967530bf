------------------------------ MODULE TreeScan ------------------------------
(***************************************************************************)
(* What a recursive sorted_directory_iterator promises to its caller,      *)
(* whatever threads read the directories: the constructor returns only     *)
(* when every entry of every directory it found has been found or skipped, *)
(* it throws when the reading of some directory failed, and the iterator   *)
(* is not touched once the constructor is over.                            *)
(***************************************************************************)
CONSTANTS
    Nodes,              \* the directories, files and symlinks of the tree
    Root,               \* the directory that is scanned
    Parent              \* the directory each other node is in

VARIABLES
    found,              \* nodes added to the iterator's list
    skipped,            \* entries left out: ignored, of another type, gone
    failed,             \* the reading of some directory failed
    result              \* of the constructor

vars == <<found, skipped, failed, result>>

Init ==
    /\ found = {}
    /\ skipped = {}
    /\ failed = FALSE
    /\ result = "running"

\* n is an entry, not seen so far, of a directory of the scan.
Unseen(n) == n \notin found \cup skipped /\ Parent[n] \in found \cup {Root}

Find(n) ==
    /\ result = "running"
    /\ Unseen(n)
    /\ found' = found \cup {n}
    /\ UNCHANGED <<skipped, failed, result>>

Skip(n) ==
    /\ result = "running"
    /\ Unseen(n)
    /\ skipped' = skipped \cup {n}
    /\ UNCHANGED <<found, failed, result>>

Fail ==
    /\ result = "running"
    /\ failed' = TRUE
    /\ UNCHANGED <<found, skipped, result>>

Return ==
    /\ result = "running"
    /\ ~failed
    /\ \A n \in Nodes \ {Root} : ~Unseen(n)
    /\ result' = "returned"
    /\ UNCHANGED <<found, skipped, failed>>

Throw ==
    /\ result = "running"
    /\ failed' = TRUE
    /\ result' = "threw"
    /\ UNCHANGED <<found, skipped>>

Next ==
    \/ \E n \in Nodes \ {Root} : Find(n) \/ Skip(n)
    \/ Fail
    \/ Return
    \/ Throw

Spec == Init /\ [][Next]_vars
=============================================================================
