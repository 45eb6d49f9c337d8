---------------------------- MODULE OwnedResources ----------------------------
(***************************************************************************)
(* What the adapters promise about one kind of resource that carries an    *)
(* owner's mark: of the resources of a service, the operator               *)
(*   - writes only ones it owns, under a name that the pass desires,       *)
(*   - removes only ones it owns and that the pass does not desire,        *)
(*   - leaves everybody else's as they are.                                *)
(* Users may do anything; `moves' counts what they do.                     *)
(***************************************************************************)
EXTENDS Naturals

VARIABLES
    owned,    \* names of the resources that carry the mark, per service
    foreign,  \* the resources that do not, per service
    target,   \* the names that the running pass desires, per service
    moves     \* how often a user intervened

vars == <<owned, foreign, target, moves>>

Init == moves = 0

\* A pass takes up, or drops, the names it is working towards.
Plan(s) ==
    /\ target' = [target EXCEPT ![s] = target'[s]]
    /\ UNCHANGED <<owned, foreign, moves>>

Write(s, n) ==
    /\ n \in target[s]
    /\ owned' = [owned EXCEPT ![s] = @ \cup {n}]
    /\ UNCHANGED <<foreign, target, moves>>

Drop(s, n) ==
    /\ n \in owned[s] /\ n \notin target[s]
    /\ owned' = [owned EXCEPT ![s] = @ \ {n}]
    /\ UNCHANGED <<foreign, target, moves>>

\* The user's hand in the service or in the desired configuration.
User ==
    /\ moves' = moves + 1
    /\ UNCHANGED target

Next ==
    \/ \E s \in DOMAIN target :
           \/ Plan(s)
           \/ \E n \in target[s] : Write(s, n)
           \/ \E n \in owned[s] : Drop(s, n)
    \/ User

Spec == Init /\ [][Next]_vars

=============================================================================
