---------------------------- MODULE MCPodOwners ----------------------------
EXTENDS MCAccountStore, PodOwners

CONSTANT v1

(* Two callers that meddle with one address, and with one WebID from two.  *)
About(e) == [email |-> e]
Meddling == [c \in {c1, c2} |->
    IF c = c1
    THEN {Of("create", [email |-> e1, webId |-> w1, password |-> p, settings |-> s]),
          Of("verify", About(e1)), Of("deleteAccount", About(e1)),
          Of("changePassword", [email |-> e1, password |-> p]),
          Of("updateSettings", [webId |-> w1, settings |-> t])}
    ELSE {Of("create", [email |-> e1, webId |-> w2, password |-> p, settings |-> s]),
          Of("create", [email |-> e2, webId |-> w1, password |-> q, settings |-> t]),
          Of("deleteAccount", About(e1)), Of("deleteAccount", About(e2))}]
=============================================================================
