----------------------- MODULE RegistrationDiscovery -----------------------
(***************************************************************************)
(* AgentRegistrationDiscoveryHandler and its service, of packages/aa: a    *)
(* client presents itself at the URL of somebody's authorization agent and *)
(* learns which registration it has with that owner.  The service keeps    *)
(* agents of the last few owners, apart from the cache that                *)
(* InteropAuthorizer keeps in another process.  As there, an agent lists   *)
(* the registrations there were when it was built, and reads a             *)
(* registration from the pod when it is asked for it; owners change their  *)
(* registrations, and pods and identity providers are out of reach, at any *)
(* time.                                                                   *)
(***************************************************************************)
EXTENDS Naturals, Sequences

CONSTANTS
    Call,          \* requests, each in flight once at a time
    Owner,         \* WebIDs of pod owners
    Ask,           \* what may be requested: a URL, a header, an identity
    Registries,    \* for each owner, the sets of registrations it may have
    Capacity,      \* max of the LRUCache
    None           \* no owner, no client id, no agent, no answer

(* The owner of a request is None if its URL is not that of an agent; its  *)
(* header is missing, of another scheme, or a token; webId and clientId    *)
(* are what a verifier makes of the token.                                 *)
Header == {"missing", "other", "token"}
ASSUME CapacityAssumption == Capacity \in Nat \ {0}
ASSUME AskAssumption ==
    \A q \in Ask : q.owner \in Owner \cup {None} /\ q.header \in Header

VARIABLES
    registry,      \* the registrations of each owner now
    cache,         \* the cached agents, least recently used first
    pc,            \* what each call awaits
    ask,           \* its request
    agent,         \* the authorization agent it works with
    answer,        \* the response it came to
    seen           \* history: the registries of the owner during the call

locals == <<ask, agent, answer, seen>>
vars == <<registry, cache, pc, locals>>

AllRegistrations == UNION {UNION Registries[o] : o \in Owner}
Iris(registrations) == {r.iri : r \in registrations}

(* Beside what it lists, an agent has here, as history, the registrations  *)
(* that have been there ever since it was built.                           *)
AgentOf(o) == [owner |-> o, listed |-> Iris(registry[o]), steady |-> registry[o]]
Agent == [owner : Owner, listed : SUBSET Iris(AllRegistrations),
          steady : SUBSET AllRegistrations]

PC == {"idle", "token", "agent", "build", "registration"}

(* A response: a status, with 200 the Link header, which relates the       *)
(* registration to the agent it is for.                                    *)
Denied(status) == [status |-> status, link |-> None]
LinkTo(r) == [status |-> 200, link |-> r]
Response == {Denied(status) : status \in {401, 403, 404, 500, 501}}
            \cup {LinkTo(r) : r \in AllRegistrations}
ASSUME NoneAssumption == None \notin (Ask \cup Agent \cup Response)

TypeOK ==
    /\ \A o \in Owner : registry[o] \in Registries[o]
    /\ cache \in Seq(Agent) /\ Len(cache) <= Capacity
    /\ \A i, j \in 1..Len(cache) : cache[i].owner = cache[j].owner => i = j
    /\ pc \in [Call -> PC]
    /\ ask \in [Call -> Ask \cup {None}]
    /\ agent \in [Call -> Agent \cup {None}]
    /\ answer \in [Call -> Response \cup {None}]

Init ==
    /\ registry \in [Owner -> UNION {Registries[o] : o \in Owner}]
    /\ \A o \in Owner : registry[o] \in Registries[o]
    /\ cache = <<>>
    /\ pc = [c \in Call |-> "idle"]
    /\ ask = [c \in Call |-> None]
    /\ agent = [c \in Call |-> None]
    /\ answer = [c \in Call |-> None]
    /\ seen = [c \in Call |-> {}]

-----------------------------------------------------------------------------
(* getAuthenticatedClientForAuthenticationResult: the owner comes through  *)
(* an application.                                                         *)
Client_Social(q) == q.webId
Client(q) == IF q.webId = q.owner THEN q.clientId ELSE q.webId

(* getRegistrationForAgent: of the registrations the agent lists, that of  *)
(* the client.                                                             *)
Found_AnyAgent(a, q) == {r \in registry[a.owner] : r.iri \in a.listed}
Found(a, q) == {r \in registry[a.owner] : r.iri \in a.listed /\ r.agent = Client(q)}

Position(o) == {i \in 1..Len(cache) : cache[i].owner = o}
Others_All(o) == cache
Others(o) ==
    IF Position(o) = {}
    THEN cache
    ELSE LET i == CHOOSE i \in Position(o) : TRUE
         IN SubSeq(cache, 1, i - 1) \o SubSeq(cache, i + 1, Len(cache))
Kept(agents) == IF Len(agents) > Capacity THEN Tail(agents) ELSE agents

Goto(c, l) == pc' = [pc EXCEPT ![c] = l] /\ UNCHANGED <<ask, agent, answer, seen>>
Return(c, response) ==
    /\ pc' = [pc EXCEPT ![c] = "idle"]
    /\ ask' = [ask EXCEPT ![c] = None]
    /\ agent' = [agent EXCEPT ![c] = None]
    /\ answer' = [answer EXCEPT ![c] = response]
    /\ seen' = [seen EXCEPT ![c] = {}]

(* The handler and the service up to the verification of the token: first  *)
(* there has to be a header, then the URL of an agent, then a token.       *)
NotOfAnAgent(q) == q.owner = None
Refusal(q) ==
    CASE q.header = "missing" -> Denied(401)
      [] q.header # "missing" /\ NotOfAnAgent(q) -> Denied(404)
      [] q.header = "other" /\ ~NotOfAnAgent(q) -> Denied(501)
      [] OTHER -> None

Discover(c, q) ==
    /\ pc[c] = "idle"
    /\ IF Refusal(q) # None
       THEN Return(c, Refusal(q))
       ELSE /\ pc' = [pc EXCEPT ![c] = "token"]
            /\ ask' = [ask EXCEPT ![c] = q]
            /\ answer' = [answer EXCEPT ![c] = None]
            /\ seen' = [seen EXCEPT ![c] = {registry[q.owner]}]
            /\ UNCHANGED agent
    /\ UNCHANGED <<registry, cache>>

(* The verifier identifies the client, or rejects the token, be it for     *)
(* want of the keys of the identity provider.                              *)
Authenticate(c) ==
    /\ pc[c] = "token"
    /\ \/ ask[c].webId # None /\ Goto(c, "agent")
       \/ Return(c, Denied(401))
    /\ UNCHANGED <<registry, cache>>

(* Once there is an agent, an owner without an application is turned away. *)
GoOnWith(c, a) ==
    IF Client(ask[c]) = None
    THEN Return(c, Denied(401))
    ELSE /\ pc' = [pc EXCEPT ![c] = "registration"]
         /\ agent' = [agent EXCEPT ![c] = a]
         /\ UNCHANGED <<ask, answer, seen>>

(* getAuthorizationAgentForWebID: the cached agent of the owner ...        *)
CachedAgent(c) ==
    /\ pc[c] = "agent"
    /\ \E i \in Position(ask[c].owner) :
         /\ cache' = Append(Others(ask[c].owner), cache[i])
         /\ GoOnWith(c, cache[i])
    /\ UNCHANGED registry

(* ... or a new one, if it can be built, ...                               *)
BuildAgent(c) ==
    /\ pc[c] = "agent"
    /\ Position(ask[c].owner) = {}
    /\ \/ /\ pc' = [pc EXCEPT ![c] = "build"]
          /\ agent' = [agent EXCEPT ![c] = AgentOf(ask[c].owner)]
          /\ UNCHANGED <<ask, answer, seen>>
       \/ Return(c, Denied(404))
    /\ UNCHANGED <<registry, cache>>

(* ... which takes the place of whatever agent of that owner is in the     *)
(* cache by then, at the expense of the least recently used one.           *)
CacheAgent(c) ==
    /\ pc[c] = "build"
    /\ cache' = Kept(Append(Others(ask[c].owner), agent[c]))
    /\ GoOnWith(c, agent[c])
    /\ UNCHANGED registry

(* The registration becomes the Link header; without one, the client is    *)
(* told that it needs one; or the pod is out of reach.                     *)
RegistrationRequired == Denied(403)
Responses_FoundOnly(own) == {LinkTo(r) : r \in own}
Responses(own) == IF own = {} THEN {RegistrationRequired, Denied(500)}
                  ELSE {LinkTo(r) : r \in own} \cup {Denied(500)}

FindRegistration(c) ==
    /\ pc[c] = "registration"
    /\ \E response \in Responses(Found(agent[c], ask[c])) : Return(c, response)
    /\ UNCHANGED <<registry, cache>>

Step(c) ==
    \/ Authenticate(c) \/ CachedAgent(c) \/ BuildAgent(c) \/ CacheAgent(c)
    \/ FindRegistration(c)

(* An owner adds, replaces or deletes registrations.                       *)
Steadied(a, o) == IF a # None /\ a.owner = o
                  THEN [a EXCEPT !.steady = @ \cap registry'[o]] ELSE a
ChangeRegistry(o) ==
    /\ \E R \in Registries[o] \ {registry[o]} : registry' = [registry EXCEPT ![o] = R]
    /\ seen' = [c \in Call |->
            IF ask[c] # None /\ ask[c].owner = o THEN seen[c] \cup {registry'[o]} ELSE seen[c]]
    /\ agent' = [c \in Call |-> Steadied(agent[c], o)]
    /\ cache' = [i \in 1..Len(cache) |-> Steadied(cache[i], o)]
    /\ UNCHANGED <<pc, ask, answer>>

Next ==
    \/ \E c \in Call : Step(c) \/ \E q \in Ask : Discover(c, q)
    \/ \E o \in Owner : ChangeRegistry(o)

Spec == Init /\ [][Next]_vars

(* Every promise a call awaits is settled, one way or the other.           *)
FairSpec == Spec /\ \A c \in Call : WF_vars(Step(c))

-----------------------------------------------------------------------------
(* The registrations of the client among R.                                *)
Registered(R, q) == {r \in R : r.agent = IF q.webId = q.owner THEN q.clientId ELSE q.webId}

Returns(c, status) ==
    pc[c] # "idle" /\ pc'[c] = "idle" /\ answer'[c].status = status

(* A client only discovers a registration that the owner it asked about    *)
(* had for it at some moment of the call, however old the agent is that    *)
(* the service has in its cache and whichever call put it there.           *)
DiscoveredDuringCall ==
    [][\A c \in Call : Returns(c, 200) =>
          \E R \in seen[c] : answer'[c].link \in Registered(R, ask[c])]_vars

(* A client is only sent away to be registered if it was not registered at *)
(* some moment since the agent was built: a registration that has been     *)
(* there all along is found, although agents are shared, evicted, built    *)
(* twice and cached in another order than they were built in.              *)
RefusalsAreNoOlderThanTheAgent ==
    [][\A c \in Call : Returns(c, 403) =>
          Registered(agent[c].steady, ask[c]) = {}]_vars

(* Every request is answered, whatever fails and whatever others do.       *)
EveryDiscoveryReturns == \A c \in Call : pc[c] # "idle" ~> pc[c] = "idle"

=============================================================================
