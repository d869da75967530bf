------------------------------- MODULE Upload -------------------------------
(***************************************************************************)
(* What cache::push promises to its caller and to those who share the      *)
(* remote: it only sends what the pushed tree is made of, it returns only  *)
(* when the remote has all of it, no transfer has failed and none is under *)
(* way, and it sends nothing more once it has returned.  What this push    *)
(* sends is told apart from what other clients send: by the transfers that *)
(* are under way.                                                          *)
(***************************************************************************)
CONSTANTS
    Hashes,             \* the digests of trees and objects
    Content,            \* those the pushed tree is made of, its own included
    Senders             \* those who send for the push

VARIABLES
    remote,             \* the digests the remote has
    sending,            \* the transfers of the push: who sends what
    failed,             \* a request to the remote failed
    result              \* of the push

vars == <<remote, sending, failed, result>>

Init ==
    /\ remote \subseteq Hashes
    /\ sending = {}
    /\ failed = FALSE
    /\ result = "running"

Begin(s, h) ==
    /\ result # "returned"
    /\ h \in Content
    /\ sending' = sending \cup {<<s, h>>}
    /\ UNCHANGED <<remote, failed, result>>

Deliver(s, h) ==
    /\ <<s, h>> \in sending
    /\ sending' = sending \ {<<s, h>>}
    /\ remote' = remote \cup {h}
    /\ UNCHANGED <<failed, result>>

\* A transfer fails, before or after the remote had stored the object.
Fail(s, h) ==
    /\ <<s, h>> \in sending
    /\ sending' = sending \ {<<s, h>>}
    /\ remote' \in {remote, remote \cup {h}}
    /\ failed' = TRUE
    /\ UNCHANGED result

\* Another client of the remote.
Receive(h) ==
    /\ remote' = remote \cup {h}
    /\ UNCHANGED <<sending, failed, result>>

Return ==
    /\ result = "running"
    /\ ~failed
    /\ sending = {}
    /\ Content \subseteq remote
    /\ result' = "returned"
    /\ UNCHANGED <<remote, sending, failed>>

Throw ==
    /\ result = "running"
    /\ failed' = TRUE
    /\ result' = "threw"
    /\ UNCHANGED <<remote, sending>>

Next ==
    \/ \E s \in Senders, h \in Hashes : Begin(s, h) \/ Deliver(s, h) \/ Fail(s, h)
    \/ \E h \in Hashes : Receive(h)
    \/ Return
    \/ Throw

Spec == Init /\ [][Next]_vars
=============================================================================
