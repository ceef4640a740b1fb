------------------------ MODULE MCInteropAuthorizer -------------------------
(***************************************************************************)
(* Instances of InteropAuthorizer for TLC.  Alice and carol own pods; bob  *)
(* is somebody else, and app an application that alice uses.               *)
(***************************************************************************)
EXTENDS InteropAuthorizer, TLC

CONSTANTS c1, c2, alice, carol, bob, app, regB, regA, grant1, grant2, data1, data2, reg, note

Configured == <<"ApplicationRegistration", "SocialAgentRegistration", "AccessGrant",
                "DataGrant", "DataRegistration", "DataInstance">>

Grant1 == [iri |-> grant1, data |->
    {[iri |-> data1, registration |-> reg, modes |-> {"read", "append"}, instances |-> {note}]}]
Grant2 == [iri |-> grant2, data |->
    {[iri |-> data2, registration |-> reg, modes |-> {"read", "write"}, instances |-> {note}]}]
Bob(g) == [iri |-> regB, agent |-> bob, grant |-> g]
App(g) == [iri |-> regA, agent |-> app, grant |-> g]

(* Alice grants, replaces and revokes; carol has granted once and for all. *)
OwnRegistries == [o \in {alice, carol} |->
    IF o = alice THEN {{}, {Bob(Grant1)}, {Bob(Grant2), App(Grant1)}}
                 ELSE {{Bob(Grant1)}}]

(* What bob asks of alice and carol, and alice through the application, or *)
(* without one.                                                            *)
ByBob(o, r, m) == [webId |-> bob, clientId |-> None, owner |-> o, resource |-> r, modes |-> m]
ByApp(id, r, m) == [webId |-> alice, clientId |-> id, owner |-> alice, resource |-> r, modes |-> m]
Questions ==
    {ByBob(alice, note, {"read", "append", "write"}), ByBob(alice, grant2, {"read"}),
     ByBob(carol, reg, {"append"}), ByBob(carol, data1, {"write"}),
     ByBob(carol, regB, {"read"}), ByApp(app, regA, {"read"}), ByApp(None, note, {"read"})}

(* The calls are interchangeable.                                          *)
Symmetry == Permutations(Call)

=============================================================================
