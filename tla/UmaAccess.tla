----------------------------- MODULE UmaAccess -----------------------------
(***************************************************************************)
(* What the UMA deployment promises a pod owner, without tickets, tokens,  *)
(* keys or messages: a client is let through to something that is not      *)
(* public only on the strength of a lease, a lease only covers what the    *)
(* owner's policy allowed when it was consulted for that client, and a     *)
(* lease that has run out admits nobody.  UmaProtocol implements this.     *)
(***************************************************************************)
EXTENDS Naturals

CONSTANTS
    Session,       \* exchanges between a client and the deployment
    Access,        \* what can be granted: agent, resource and mode
    LeaseLife      \* how long a lease is good for

VARIABLES
    time,
    grants,        \* the accesses the policy allows now
    consent,       \* accesses each session was found entitled to, not leased
    lease,         \* the lease each session holds
    admitted,      \* accesses of the lease that the session was admitted with
    served         \* non-public accesses of the session's last answer

vars == <<time, grants, consent, lease, admitted, served>>

Init ==
    /\ time = 0
    /\ grants \in SUBSET Access
    /\ consent = [s \in Session |-> {}]
    /\ lease = [s \in Session |-> [to |-> {}, until |-> 0]]
    /\ admitted = [s \in Session |-> {}]
    /\ served = [s \in Session |-> {}]

Tick == time' = time + 1 /\ UNCHANGED <<grants, consent, lease, admitted, served>>

(* The owner changes the policy.                                           *)
ChangeGrants ==
    /\ grants' \in SUBSET Access
    /\ UNCHANGED <<time, consent, lease, admitted, served>>

(* The policy is consulted for a session: only what it allows now counts.  *)
Consult(s) ==
    /\ \E found \in SUBSET grants :
         consent' = [consent EXCEPT ![s] = @ \cup found]
    /\ UNCHANGED <<time, grants, lease, admitted, served>>

(* Pending decisions may come to nothing, for one session or for many.     *)
Abandon(S) ==
    /\ consent' = [s \in Session |-> IF s \in S THEN {} ELSE consent[s]]
    /\ UNCHANGED <<time, grants, lease, admitted, served>>

(* A decision becomes a lease, which replaces the one the session held.    *)
Grant(s) ==
    /\ lease' = [lease EXCEPT ![s] = [to |-> consent[s], until |-> time + LeaseLife]]
    /\ consent' = [consent EXCEPT ![s] = {}]
    /\ UNCHANGED <<time, grants, admitted, served>>

(* A request is admitted with the session's lease while that is good.      *)
Admit(s) ==
    /\ time < lease[s].until
    /\ admitted' = [admitted EXCEPT ![s] = lease[s].to]
    /\ UNCHANGED <<time, grants, consent, lease, served>>

(* The request of an admitted session is let through, or it is not.        *)
Serve(s) ==
    /\ served' \in {[served EXCEPT ![s] = what] : what \in SUBSET admitted[s]}
    /\ admitted' = [admitted EXCEPT ![s] = {}]
    /\ UNCHANGED <<time, grants, consent, lease>>

(* The client turns to something else; its last answer is history.         *)
Forget(s) ==
    /\ served' = [served EXCEPT ![s] = {}]
    /\ UNCHANGED <<time, grants, consent, lease, admitted>>

Next ==
    \/ Tick
    \/ ChangeGrants
    \/ \E S \in SUBSET Session : Abandon(S)
    \/ \E s \in Session :
         Consult(s) \/ Grant(s) \/ Admit(s) \/ Serve(s) \/ Forget(s)

Spec == Init /\ [][Next]_vars

=============================================================================
