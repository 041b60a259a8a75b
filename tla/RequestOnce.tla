----------------------------- MODULE RequestOnce -----------------------------
(***************************************************************************)
(* What the control plane promises about one request, whatever is lost,    *)
(* repeated or late: its action is performed at most once, and all the     *)
(* answers it ever gets are the same bytes.                                *)
(***************************************************************************)
EXTENDS Naturals

CONSTANTS Key, Response

VARIABLES
    runs,       \* how often the action of each request was performed
    answered    \* the answers given, as pairs of a request and a response

vars == <<runs, answered>>

Init == runs = [k \in Key |-> 0] /\ answered = {}

Perform(k) ==
    /\ runs[k] = 0
    /\ runs' = [runs EXCEPT ![k] = 1]
    /\ UNCHANGED answered

Answer(k, r) ==
    /\ \A a \in answered : a[1] = k => a[2] = r
    /\ answered' = answered \cup {<<k, r>>}
    /\ UNCHANGED runs

Next == \E k \in Key : Perform(k) \/ \E r \in Response : Answer(k, r)

Spec == Init /\ [][Next]_vars
=============================================================================
