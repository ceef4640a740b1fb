----------------------------- MODULE PodOwners -----------------------------
(***************************************************************************)
(* TicketWwwAuthMetadataWriter looking for the owner of the pod a refused  *)
(* resource is in, while the accounts change.  It goes through all the     *)
(* settings there are (getWebIdSettings): the storage lists its keys once  *)
(* and then reads them one by one, skipping what is gone by then.          *)
(***************************************************************************)
EXTENDS AccountHistory, Naturals, Sequences

CONSTANTS
    Writer,        \* responses whose 401 is to get a ticket
    Covering       \* the settings whose podBaseUrl is there and is a prefix
                   \* of the IRI of the resource

ASSUME CoveringAssumption == Covering \subseteq Setting
ASSUME NoListAssumption == \A W \in SUBSET WebId : W # None

VARIABLES
    listed,        \* for each writer the WebIDs it has yet to read, or None
    entries,       \* the Map it fills, in its order
    holding,       \* history: WebIDs that held the pod all through the lookup
    held           \* history: WebIDs that held it at some moment

lookups == <<listed, entries, holding, held>>
pvars == <<hvars, lookups>>

Holders == {w \in WebId : settings[w] \in Covering}

PInit ==
    /\ HInit
    /\ listed = [v \in Writer |-> None]
    /\ entries = [v \in Writer |-> <<>>]
    /\ holding = [v \in Writer |-> {}]
    /\ held = [v \in Writer |-> {}]

(* getWebIdSettings up to its first await.  The keys of accounts are       *)
(* listed too, and left out of the Map for not being URLs.                 *)
RetrievePodOwner(v) ==
    /\ listed[v] = None
    /\ listed' = [listed EXCEPT ![v] = {w \in WebId : settings[w] # None}]
    /\ entries' = [entries EXCEPT ![v] = <<>>]
    /\ holding' = [holding EXCEPT ![v] = Holders]
    /\ held' = [held EXCEPT ![v] = Holders]
    /\ UNCHANGED hvars

(* The next key the storage reads.                                         *)
NextEntry(v) ==
    /\ listed[v] \notin {None, {}}
    /\ \E w \in listed[v] :
         /\ listed' = [listed EXCEPT ![v] = @ \ {w}]
         /\ entries' = [entries EXCEPT ![v] =
              IF settings[w] = None THEN @
              ELSE Append(@, [webId |-> w, settings |-> settings[w]])]
    /\ UNCHANGED <<hvars, holding, held>>

(* The first account in the Map whose pod covers the resource.             *)
FirstCovering_Any(map) == IF map = <<>> THEN None ELSE map[1].webId
FirstCovering_FirstOnly(map) ==
    IF map # <<>> /\ map[1].settings \in Covering THEN map[1].webId ELSE None
FirstCovering(map) ==
    LET covers == {i \in DOMAIN map : map[i].settings \in Covering}
    IN IF covers = {} THEN None
       ELSE map[CHOOSE i \in covers : \A j \in covers : i <= j].webId

(* retrievePodOwner returns the owner, or None.                            *)
ReturnOwner(v, owner) ==
    /\ listed[v] = {}
    /\ owner = FirstCovering(entries[v])
    /\ listed' = [listed EXCEPT ![v] = None]
    /\ entries' = [entries EXCEPT ![v] = <<>>]
    /\ holding' = [holding EXCEPT ![v] = {}]
    /\ held' = [held EXCEPT ![v] = {}]
    /\ UNCHANGED hvars

(* Accounts change meanwhile; a crash ends the lookups too.                *)
AccountsChange ==
    /\ HNext
    /\ IF Crash
       THEN /\ listed' = [v \in Writer |-> None]
            /\ entries' = [v \in Writer |-> <<>>]
            /\ holding' = [v \in Writer |-> {}]
            /\ held' = [v \in Writer |-> {}]
       ELSE /\ holding' = [v \in Writer |-> holding[v] \cap Holders']
            /\ held' = [v \in Writer |-> IF listed[v] = None THEN {} ELSE held[v] \cup Holders']
            /\ UNCHANGED <<listed, entries>>

PNext ==
    \/ AccountsChange
    \/ \E v \in Writer :
         \/ RetrievePodOwner(v) \/ NextEntry(v)
         \/ \E owner \in WebId \cup {None} : ReturnOwner(v, owner)

PSpec == PInit /\ [][PNext]_pvars

-----------------------------------------------------------------------------
(* The ticket is only registered for an owner who held the pod at some     *)
(* moment of the lookup, though settings are read one by one while they    *)
(* are written and deleted.                                                *)
OwnerHeldThePod ==
    [][\A v \in Writer, w \in WebId : ReturnOwner(v, w) => w \in held[v]]_pvars

(* An owner who holds the pod all through the lookup is not overlooked     *)
(* for the sake of accounts that come and go: some owner is found.         *)
SteadyOwnerIsFound ==
    [][\A v \in Writer : ReturnOwner(v, None) => holding[v] = {}]_pvars

=============================================================================
