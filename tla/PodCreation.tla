---------------------------- MODULE PodCreation ----------------------------
(***************************************************************************)
(* CustomGeneratedPodManager of packages/css: a new pod is filled with     *)
(* resources generated from templates, which name the owner's WebID and    *)
(* authorization agent.  That the pod is not there yet is checked once,    *)
(* and the resources are then written one by one, containers before what   *)
(* is in them: creations of one pod interleave, a write may fail, the      *)
(* process may crash, and people use what there is of a pod all the while. *)
(* Nothing rolls a creation back, and the root of a pod is never deleted.  *)
(***************************************************************************)
EXTENDS Naturals

CONSTANTS
    Creator,       \* requests that create pods, one creation at a time each
    Pod,           \* identifiers of pods
    WebId,         \* the owners that the settings of a pod may have
    Length,        \* number of generated resources; the first is the pod
    Edited,        \* content that somebody has put there later
    None           \* no resource, no creation, no answer

ASSUME LengthAssumption == Length \in Nat \ {0}
ASSUME ContentAssumption == Edited \notin WebId /\ None \notin WebId \cup {Edited}

Resource == 1 .. Length
Creation == [pod : Pod, webId : WebId, overwrite : BOOLEAN]
ASSUME NoneAssumption == None \notin Creation \cup {"ok", "conflict", "failed"}

VARIABLES
    content,       \* for each pod what its resources were generated for
    pc,            \* what each creation awaits
    written,       \* how many of its resources are done
    creation,      \* its arguments
    answer,        \* what it came to
    found,         \* history: the pod was there when createPod was called
    alone,         \* history: it was not, and nobody else has been creating it
    contended      \* history: pods overwritten, or created by two at once

history == <<found, alone, contended>>
vars == <<content, pc, written, creation, answer, history>>

PC == {"idle", "hasResource", "setRepresentation"}

TypeOK ==
    /\ content \in [Pod -> [Resource -> WebId \cup {Edited, None}]]
    /\ pc \in [Creator -> PC]
    /\ written \in [Creator -> 0 .. Length]
    /\ creation \in [Creator -> Creation \cup {None}]
    /\ \A c \in Creator : creation[c] = None <=> pc[c] = "idle"
    /\ answer \in [Creator -> {"ok", "conflict", "failed", None}]
    /\ found \in [Creator -> BOOLEAN] /\ alone \in [Creator -> BOOLEAN]
    /\ contended \in SUBSET Pod

Exists(p) == content[p][1] # None
Creating(p) == {c \in Creator : creation[c] # None /\ creation[c].pod = p}

Init ==
    /\ content = [p \in Pod |-> [r \in Resource |-> None]]
    /\ pc = [c \in Creator |-> "idle"]
    /\ written = [c \in Creator |-> 0]
    /\ creation = [c \in Creator |-> None]
    /\ answer = [c \in Creator |-> None]
    /\ found = [c \in Creator |-> FALSE]
    /\ alone = [c \in Creator |-> FALSE]
    /\ contended = {}

(* createPod up to its first await: a creation that overwrites is not      *)
(* checked.                                                                *)
CreatePod(c, k) ==
    /\ creation[c] = None
    /\ creation' = [creation EXCEPT ![c] = k]
    /\ pc' = [pc EXCEPT ![c] = IF k.overwrite THEN "setRepresentation" ELSE "hasResource"]
    /\ answer' = [answer EXCEPT ![c] = None]
    /\ found' = [found EXCEPT ![c] = Exists(k.pod)]
    /\ alone' = [d \in Creator |->
            IF d = c THEN ~Exists(k.pod) /\ Creating(k.pod) = {}
            ELSE alone[d] /\ d \notin Creating(k.pod)]
    /\ contended' = contended \cup
            IF k.overwrite \/ Creating(k.pod) # {} THEN {k.pod} ELSE {}
    /\ UNCHANGED <<content, written>>

Return_StillUnderWay(c, result) ==
    /\ pc' = [pc EXCEPT ![c] = "idle"]
    /\ written' = [written EXCEPT ![c] = 0]
    /\ answer' = [answer EXCEPT ![c] = result]
    /\ UNCHANGED <<creation, history>>
Return(c, result) ==
    /\ pc' = [pc EXCEPT ![c] = "idle"]
    /\ written' = [written EXCEPT ![c] = 0]
    /\ creation' = [creation EXCEPT ![c] = None]
    /\ answer' = [answer EXCEPT ![c] = result]
    /\ found' = [found EXCEPT ![c] = FALSE]
    /\ alone' = [alone EXCEPT ![c] = FALSE]
    /\ UNCHANGED contended

(* The pod counts as taken as soon as its root is there.                   *)
Taken_WhenFilled(p) == \A r \in Resource : content[p][r] # None
Taken(p) == Exists(p)

HasResource(c) ==
    /\ pc[c] = "hasResource"
    /\ \/ Taken(creation[c].pod) /\ Return(c, "conflict")
       \/ /\ ~Taken(creation[c].pod)
          /\ pc' = [pc EXCEPT ![c] = "setRepresentation"]
          /\ UNCHANGED <<written, creation, answer, history>>
       \/ Return(c, "failed")
    /\ UNCHANGED content

(* addGeneratedResources: the next resource is generated and written, or   *)
(* the error of doing so ends the creation.                                *)
GoesOnAfterFailure_Always(c) == TRUE
GoesOnAfterFailure(c) == FALSE

Proceed(c) ==
    IF written[c] + 1 < Length
    THEN /\ written' = [written EXCEPT ![c] = @ + 1]
         /\ UNCHANGED <<pc, creation, answer, history>>
    ELSE Return(c, "ok")

AddGeneratedResource(c) ==
    /\ pc[c] = "setRepresentation"
    /\ \/ /\ content' = [content EXCEPT
                 ![creation[c].pod][written[c] + 1] = creation[c].webId]
          /\ Proceed(c)
       \/ /\ UNCHANGED content
          /\ IF GoesOnAfterFailure(c) THEN Proceed(c) ELSE Return(c, "failed")

(* Somebody writes to a pod that is there.                                 *)
Edit ==
    /\ \E p \in Pod, r \in Resource \ {1} :
         /\ Exists(p)
         /\ content' = [content EXCEPT ![p][r] = Edited]
    /\ UNCHANGED <<pc, written, creation, answer, history>>

Crash ==
    /\ \E c \in Creator : pc[c] # "idle"
    /\ pc' = [c \in Creator |-> "idle"]
    /\ written' = [c \in Creator |-> 0]
    /\ creation' = [c \in Creator |-> None]
    /\ answer' = [c \in Creator |-> None]
    /\ found' = [c \in Creator |-> FALSE]
    /\ alone' = [c \in Creator |-> FALSE]
    /\ UNCHANGED <<content, contended>>

Next ==
    \/ \E c \in Creator :
         \/ \E k \in Creation : CreatePod(c, k)
         \/ HasResource(c) \/ AddGeneratedResource(c)
    \/ Edit \/ Crash

Spec == Init /\ [][Next]_vars

-----------------------------------------------------------------------------
(* Unless it is to overwrite, a creation never writes to a pod that was    *)
(* there when it was called, however small a part of it an earlier one had *)
(* written before it failed or crashed, and whatever its users have made   *)
(* of it since.                                                            *)
ExistingPodsAreKept ==
    [][\A c \in Creator :
         AddGeneratedResource(c) /\ content' # content /\ found[c]
            => creation[c].overwrite]_vars

(* A pod of which one part names one owner and another part another was    *)
(* created by two at once, or overwritten: failed writes and crashes leave *)
(* part of a pod, which nobody completes for another owner.                *)
OwnersIn(p) == {content[p][r] : r \in Resource} \cap WebId
MixedPodsWereContended ==
    \A p \in Pod : OwnersIn(p) # {} =>
        p \in contended \/ \E w \in WebId : OwnersIn(p) = {w}

(* A creation that nobody else interfered with only reports success of a   *)
(* pod all of whose resources are there, for its own owner or as users     *)
(* have changed them since.                                                *)
SuccessIsWhole ==
    [][\A c \in Creator :
         creation[c] # None /\ answer'[c] = "ok" /\ alone[c] =>
            \A r \in Resource :
               content'[creation[c].pod][r] \in {creation[c].webId, Edited}]_vars

=============================================================================
