-------------------------- MODULE PermissionCheck --------------------------
(***************************************************************************)
(* How the resource server (packages/css) decides on a request once it has *)
(* the credentials: every permission reader answers for the credential     *)
(* groups it knows, UmaUnionPermissionReader combines the answers one by   *)
(* one, and UmaPermissionBasedAuthorizer goes through the requested modes  *)
(* in order until one is missing.  Of the readers, TokenPermissionReader   *)
(* is the repository's; the others belong to the Community Solid Server    *)
(* and may answer anything, or fail.                                       *)
(***************************************************************************)
EXTENDS Naturals, Sequences

CONSTANTS
    Group,         \* credential groups, "ticket" among them
    Mode,          \* access modes, "read" and "create" among them
    Path,          \* identifiers of resources
    NoPath,        \* the resource of an absent ticket credential
    Order,         \* the lists of modes that are asked for
    Answer,        \* the permission sets other readers may answer with
    MaxReaders     \* bound on the readers

(* A Permission says yes or no to some modes; a PermissionSet holds one    *)
(* for some of the groups.                                                 *)
Permission == UNION {[M -> BOOLEAN] : M \in SUBSET Mode}
PermissionSet == UNION {[G -> Permission] : G \in SUBSET Group}
Empty == [g \in {} |-> {}]

ASSUME GroupAssumption == "ticket" \in Group
ASSUME ModeAssumption == "read" \in Mode
ASSUME OrderAssumption == Order \subseteq Seq(Mode)
ASSUME AnswerAssumption == Answer \subseteq PermissionSet
ASSUME PathAssumption == NoPath \notin Path

VARIABLES
    request,       \* the identifier, the modes in their order, existence
    ticket,        \* the ticket credential of the request
    loggedIn,      \* whether some credential has a WebID
    answers,       \* what the readers have answered
    pc,
    combined,      \* how many of the answers are combined
    permissions,   \* the combined permission set so far
    checked,       \* how many of the modes have been found permitted
    outcome        \* the status of the response

vars == <<request, ticket, loggedIn, answers, pc, combined, permissions, checked, outcome>>

TypeOK ==
    /\ request \in [identifier : Path, modes : Order, exists : BOOLEAN]
    /\ ticket \in [resource : Path \cup {NoPath}, modes : SUBSET Mode]
    /\ loggedIn \in BOOLEAN
    /\ answers \in Seq(PermissionSet)
    /\ pc \in {"read", "combine", "authorize", "done"}
    /\ combined \in 0..Len(answers)
    /\ permissions \in PermissionSet
    /\ checked \in 0..Len(request.modes)
    /\ outcome \in {"none", "200", "401", "403", "404", "500"}

(* A ticket credential comes with a WebID; an agent credential may come    *)
(* with one; the public credential never does.                             *)
Init ==
    /\ request \in [identifier : Path, modes : Order, exists : BOOLEAN]
    /\ ticket \in [resource : Path, modes : SUBSET Mode]
                    \cup [resource : {NoPath}, modes : {{}}]
    /\ loggedIn \in IF ticket.resource = NoPath THEN BOOLEAN ELSE {TRUE}
    /\ answers = <<>>
    /\ pc = "read"
    /\ combined = 0
    /\ permissions = Empty
    /\ checked = 0
    /\ outcome = "none"

(* ticketModesToPermissions: yes to the modes of the ticket, no to others. *)
TicketModesToPermissions(modes) == [m \in Mode |-> m \in modes]

(* TokenPermissionReader answers if the ticket is for this identifier.     *)
TokenApplies_Always == ticket.resource # NoPath
TokenApplies == ticket.resource = request.identifier
TokenPermissions ==
    IF TokenApplies
    THEN [g \in {"ticket"} |-> TicketModesToPermissions(ticket.modes)]
    ELSE Empty

(* A reader answers ...                                                    *)
Read(a) ==
    /\ pc = "read"
    /\ Len(answers) < MaxReaders
    /\ answers' = Append(answers, a)
    /\ UNCHANGED <<request, ticket, loggedIn, pc, combined, permissions, checked, outcome>>

(* ... or fails, and then the union does.                                  *)
ReaderFails ==
    /\ pc = "read"
    /\ pc' = "done" /\ outcome' = "500"
    /\ UNCHANGED <<request, ticket, loggedIn, answers, combined, permissions, checked>>

(* The answers are all there, the one of the TokenPermissionReader last or *)
(* anywhere else.                                                          *)
AllRead ==
    /\ pc = "read"
    /\ \E n \in 0..Len(answers) :
         answers' = SubSeq(answers, 1, n) \o <<TokenPermissions>>
                        \o SubSeq(answers, n + 1, Len(answers))
    /\ pc' = "combine"
    /\ UNCHANGED <<request, ticket, loggedIn, combined, permissions, checked, outcome>>

(* applyPermissions_: a no stays, anything else gives way.                 *)
Kept_Never(result, m) == FALSE
Kept(result, m) == m \in DOMAIN result /\ result[m] = FALSE
ApplyPermissions(value, result) ==
    [m \in DOMAIN value \cup DOMAIN result |->
        IF m \in DOMAIN value /\ ~Kept(result, m) THEN value[m] ELSE result[m]]

(* combine: the groups of one more answer.                                 *)
ResultOf(set, g) == IF g \in DOMAIN set THEN set[g] ELSE Empty
CombinedWith(answer) ==
    [g \in DOMAIN answer \cup DOMAIN permissions |->
        IF g \in DOMAIN answer
        THEN ApplyPermissions(answer[g], ResultOf(permissions, g))
        ELSE permissions[g]]

Combine ==
    /\ pc = "combine"
    /\ combined < Len(answers)
    /\ combined' = combined + 1
    /\ permissions' = CombinedWith(answers[combined + 1])
    /\ UNCHANGED <<request, ticket, loggedIn, answers, pc, checked, outcome>>

AllCombined ==
    /\ pc = "combine"
    /\ combined = Len(answers)
    /\ pc' = "authorize"
    /\ UNCHANGED <<request, ticket, loggedIn, answers, combined, permissions, checked, outcome>>

(* hasModePermission: one group that permits the mode is enough.           *)
Says(set, g, m, yes) == g \in DOMAIN set /\ m \in DOMAIN set[g] /\ set[g][m] = yes
HasModePermission(m) == \E g \in Group : Says(permissions, g, m, TRUE)

Asked(m) == \E i \in 1..Len(request.modes) : request.modes[i] = m

(* The next mode is permitted ...                                          *)
RequireModePermission ==
    /\ pc = "authorize"
    /\ checked < Len(request.modes)
    /\ HasModePermission(request.modes[checked + 1])
    /\ checked' = checked + 1
    /\ UNCHANGED <<request, ticket, loggedIn, answers, pc, combined, permissions, outcome>>

(* ... or it is missing, and the request is refused ...                    *)
ExposesExistence_ToAll == TRUE
ExposesExistence == HasModePermission("read")
Refusal_BadRequest == "400"
Refusal ==
    CASE ExposesExistence /\ ~Asked("create") /\ ~request.exists -> "404"
      [] OTHER -> IF loggedIn THEN "403" ELSE "401"

Refuse ==
    /\ pc = "authorize"
    /\ checked < Len(request.modes)
    /\ ~HasModePermission(request.modes[checked + 1])
    /\ outcome' = Refusal
    /\ pc' = "done"
    /\ UNCHANGED <<request, ticket, loggedIn, answers, combined, permissions, checked>>

(* ... or none was missing.                                                *)
LetThrough ==
    /\ pc = "authorize"
    /\ checked = Len(request.modes)
    /\ outcome' = "200"
    /\ pc' = "done"
    /\ UNCHANGED <<request, ticket, loggedIn, answers, combined, permissions, checked>>

Next ==
    \/ \E a \in Answer : Read(a)
    \/ ReaderFails \/ AllRead
    \/ Combine \/ AllCombined
    \/ RequireModePermission \/ Refuse \/ LetThrough

Spec == Init /\ [][Next]_vars

-----------------------------------------------------------------------------
(* The rule "false > true > undefined" of UmaUnionPermissionReader, said   *)
(* of all answers at once: a group permits what some reader permits it and *)
(* no reader forbids it, in whatever order the readers have answered.      *)
Forbidden(g, m) == \E i \in 1..combined : Says(answers[i], g, m, FALSE)
Permitted(g, m) ==
    ~Forbidden(g, m) /\ \E i \in 1..combined : Says(answers[i], g, m, TRUE)

CombinedByRule ==
    \A g \in Group, m \in Mode :
        /\ Says(permissions, g, m, TRUE) <=> Permitted(g, m)
        /\ Says(permissions, g, m, FALSE) <=> Forbidden(g, m)

(* The status follows from what the readers said, and not from the order   *)
(* of their answers or of the modes: all modes permitted, or else a        *)
(* resource that is not there for someone who may read it, or else 401 or  *)
(* 403 by whether the client is known.                                     *)
Granted(m) == \E g \in Group : Permitted(g, m)
OutcomeFollowsAnswers ==
    pc = "done" /\ outcome # "500" =>
        outcome = IF \A m \in Mode : Asked(m) => Granted(m) THEN "200"
                  ELSE IF Granted("read") /\ ~Asked("create") /\ ~request.exists THEN "404"
                  ELSE IF loggedIn THEN "403" ELSE "401"

(* A ticket lets nobody through to another resource than its own: with no  *)
(* other reader in favour of a mode, there is no access in that mode.      *)
ForeignTicketIsWorthless ==
    outcome = "200" /\ ticket.resource # request.identifier =>
        \A m \in Mode : Asked(m) =>
            \E i \in 1..Len(answers), g \in Group :
                Says(answers[i], g, m, TRUE) /\ answers[i] \in Answer

=============================================================================
