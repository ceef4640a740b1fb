-------------------------- MODULE MCPermissionCheck -------------------------
(* Instances of PermissionCheck for TLC.                                   *)
EXTENDS PermissionCheck

CONSTANTS diary, notes

Modes == {"read", "create"}
Groups == {"public", "ticket"}

(* One or two modes, in either order.                                      *)
Orders == {<<"read">>, <<"create">>, <<"read", "create">>, <<"create", "read">>}

(* Web access control says anything about the public, a reader of internal *)
(* paths forbids everything, and a reader may have nothing to say.         *)
PublicAnswers == {[g \in {"public"} |-> p] : p \in Permission}
DenyAll == [g \in Groups |-> [m \in Modes |-> FALSE]]
Answers == PublicAnswers \cup {DenyAll, Empty}

=============================================================================
