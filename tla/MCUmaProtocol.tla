--------------------------- MODULE MCUmaProtocol ---------------------------
(***************************************************************************)
(* Instances of UmaProtocol for TLC: a private diary, a notice that anyone *)
(* may read, and a draft that does not exist yet and belongs to no pod.    *)
(***************************************************************************)
EXTENDS UmaProtocol

CONSTANTS alice, bob, diary, notice, draft, interop, other

Modes == {"read", "write", "create"}

(* One client, three resources, two agents: what is asked, what is         *)
(* granted and what is served differ from one another in every way.        *)
WideRequest ==
    {[res |-> diary,  modes |-> {"read", "write"}],
     [res |-> notice, modes |-> {"read"}],
     [res |-> notice, modes |-> {"read", "write"}],
     [res |-> draft,  modes |-> {"write"}],
     [res |-> draft,  modes |-> {"write", "create"}]}
WideGrantable ==
    {<<interop, bob, diary, "read">>, <<interop, bob, diary, "create">>,
     <<interop, bob, notice, "write">>}
WidePublic ==
    [r \in {diary, notice, draft} |-> IF r = diary THEN {} ELSE {"read"}]
WideOwner ==
    [r \in {diary, notice, draft} |-> IF r = draft THEN None ELSE alice]

(* One private resource and two authorizers: the races between a client,   *)
(* restarts, policy changes and the clock.                                 *)
NarrowRequest == {[res |-> diary, modes |-> {"read", "write"}]}
NarrowGrantable ==
    {<<interop, bob, diary, "read">>, <<other, bob, diary, "write">>}
NarrowPublic == [r \in {diary} |-> {}]
NarrowOwner == [r \in {diary} |-> alice]

=============================================================================
