---------------------- MODULE MCRegistrationDiscovery ----------------------
(***************************************************************************)
(* Alice and carol own pods; bob is somebody else, and app an application  *)
(* that alice uses.  The requests are one for every path through the       *)
(* handler, with two owners whose agents compete for the cache.            *)
(***************************************************************************)
EXTENDS RegistrationDiscovery

CONSTANTS c1, c2, alice, carol, bob, app, regB1, regB2, regA, regC

Bob(iri) == [iri |-> iri, agent |-> bob]
App == [iri |-> regA, agent |-> app]
OwnRegistries == [o \in {alice, carol} |->
    IF o = alice THEN {{}, {Bob(regB1)}, {Bob(regB2), App}} ELSE {{Bob(regC)}}]

From(w, id, o, h) == [webId |-> w, clientId |-> id, owner |-> o, header |-> h]
Requests ==
    {From(bob, app, alice, "token"), From(bob, None, carol, "token"),
     From(alice, app, alice, "token"), From(alice, None, alice, "token"),
     From(None, None, carol, "missing"), From(None, None, carol, "other"),
     From(bob, None, None, "token"), From(None, None, alice, "token")}

=============================================================================
