--------------------------- MODULE MCAccountStore ---------------------------
EXTENDS AccountStore, TLC

CONSTANTS c1, c2, e1, e2, e3, w1, w2, w3, p, q, s, t, r1

(* A request, with None for the arguments that its operation does not have.*)
Nothing == [email |-> None, webId |-> None, password |-> None, settings |-> None,
            record |-> None]
Of(op, arguments) == arguments @@ [op |-> op] @@ Nothing

(* All requests about these addresses, WebIDs, passwords, settings and     *)
(* records.                                                                *)
RequestsAbout(E, W, P, S, R) ==
    {Of("create", [email |-> e, webId |-> w, password |-> x, settings |-> y]) :
        e \in E, w \in W, x \in P, y \in S}
    \cup {Of(op, [email |-> e, password |-> x]) :
            op \in {"changePassword", "authenticate"}, e \in E, x \in P}
    \cup {Of(op, [email |-> e]) :
            op \in {"verify", "deleteAccount"}, e \in E}
    \cup {Of("updateSettings", [webId |-> w, settings |-> y]) : w \in W, y \in S}
    \cup {Of("getSettings", [webId |-> w]) : w \in W}
    \cup {Of("generateForgotPasswordRecord", [email |-> e]) : e \in IF R = {} THEN {} ELSE E}
    \cup {Of(op, [record |-> r]) :
            op \in {"getForgotPasswordRecord", "deleteForgotPasswordRecord"}, r \in R}

(* Two callers that keep apart: one with two addresses for one WebID, one  *)
(* with two passwords, two settings and a record, which always starts with *)
(* the same.                                                               *)
Apart == [c \in {c1, c2} |->
    IF c = c1
    THEN {r \in RequestsAbout({e1, e2}, {w1}, {p}, {s}, {}) :
             r.op \notin {"changePassword", "updateSettings"}}
    ELSE {r \in RequestsAbout({e3}, {w3}, {p, q}, {s, t}, {r1}) :
             r.op = "create" => r.password = p /\ r.settings = s}]
ApartSymmetry == Permutations({e1, e2})

(* Two callers that change the same accounts.                              *)
Changes(R) == {r \in R : r.op \notin {"authenticate", "getSettings", "updateSettings"}}
Racing == [c \in {c1, c2} |-> Changes(RequestsAbout({e1, e2}, {w1, w2}, {p}, {s}, {}))]
RacingSymmetry == ApartSymmetry \cup Permutations({w1, w2}) \cup Permutations({c1, c2})

=============================================================================
