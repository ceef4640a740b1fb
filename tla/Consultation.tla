---------------------------- MODULE Consultation ----------------------------
(***************************************************************************)
(* An authorizer as the authorization server may imagine it (and as        *)
(* ConsultAuthorizer of UmaProtocol has it): at one moment between its     *)
(* being asked and its answer it looks at what the owner grants, and it    *)
(* grants all of that or, whatever the reason, nothing.  InteropAuthorizer *)
(* implements it with a cache of agents, a waterfall of strategies and     *)
(* many reads of the pod.                                                  *)
(***************************************************************************)

CONSTANTS
    Call, Owner, Ask, Registries,
    Entitled(_, _) \* the modes a registry has for what is asked

VARIABLES
    registry,      \* the registrations of each owner now
    ask,           \* what each call asks, or asked last
    open,          \* whether it waits for an answer
    result         \* the modes it got

vars == <<registry, ask, open, result>>

Init ==
    /\ \A o \in Owner : registry[o] \in Registries[o]
    /\ open = [c \in Call |-> FALSE]
    /\ result = [c \in Call |-> {}]

(* A client that no owner could know is turned away at once.               *)
AskFor(c, q) ==
    /\ ~open[c]
    /\ ask' = [ask EXCEPT ![c] = q]
    /\ open' \in {open, [open EXCEPT ![c] = TRUE]}
    /\ result' = [result EXCEPT ![c] = {}]
    /\ UNCHANGED registry

Decide(c) ==
    /\ open[c]
    /\ open' = [open EXCEPT ![c] = FALSE]
    /\ \E modes \in {Entitled(registry[ask[c].owner], ask[c]), {}} :
         result' = [result EXCEPT ![c] = modes]
    /\ UNCHANGED <<registry, ask>>

ChangeRegistry(o) ==
    /\ registry' \in {[registry EXCEPT ![o] = R] : R \in Registries[o]}
    /\ UNCHANGED <<ask, open, result>>

Next ==
    \/ \E c \in Call : Decide(c) \/ \E q \in Ask : AskFor(c, q)
    \/ \E o \in Owner : ChangeRegistry(o)

Spec == Init /\ [][Next]_vars

=============================================================================
