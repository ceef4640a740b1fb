------------------------- MODULE InteropAuthorizer --------------------------
(***************************************************************************)
(* InteropAuthorizer of packages/aa: which modes an authenticated client   *)
(* gets for a requested resource, by the registrations and grants that the *)
(* pod owner keeps.  The authorizer keeps an authorization agent for each  *)
(* of the last few owners; calls that need the agent of the same owner     *)
(* share it, or each build one when there is none.  The agent belongs to   *)
(* the interoperability library: it holds the list of the owner's          *)
(* registrations as of when it was built, and reads a registration with    *)
(* its grants from the pod whenever it is asked for one.  Owners change    *)
(* their registrations at any time, and pods may be out of reach.          *)
(***************************************************************************)
EXTENDS Naturals, Sequences

CONSTANTS
    Call,          \* calls of authorize, each in flight once at a time
    Owner,         \* WebIDs of pod owners
    Ask,           \* what may be asked: a client, an owner, a resource, modes
    Registries,    \* for each owner, the sets of registrations it may have
    Strategies,    \* the configured strategies, in their order
    Capacity,      \* max of the LRUCache
    None           \* no client id, no grant, no agent

(* A registration is for one agent: the WebID of a social agent or the     *)
(* client id of an application; its grant is None or refers to data        *)
(* grants.  A grant is never edited: another one takes its place.          *)
ASSUME CapacityAssumption == Capacity \in Nat \ {0}
AccessMode == {"read", "append", "write", "create", "delete"}
ASSUME AskAssumption == \A q \in Ask : q.owner \in Owner /\ q.modes \subseteq AccessMode
ASSUME StrategiesAssumption ==
    Strategies \in Seq({"ApplicationRegistration", "SocialAgentRegistration",
                        "AccessGrant", "DataGrant", "DataRegistration", "DataInstance"})

VARIABLES
    registry,      \* the registrations of each owner now
    cache,         \* the cached agents, least recently used first
    pc,            \* what each call awaits
    ask,           \* its arguments
    agent,         \* the authorization agent it works with
    strategy,      \* the strategy that is next
    result,        \* the modes found
    seen,          \* history: the registries of the owner during the call
    outage         \* history: whether a read failed during the call

locals == <<ask, agent, strategy, result, seen, outage>>
vars == <<registry, cache, pc, locals>>

(* An agent: whose it is, and which registrations it lists.                *)
Iris(registrations) == {r.iri : r \in registrations}
AgentOf(o) == [owner |-> o, listed |-> Iris(registry[o])]

AllRegistries == UNION {Registries[o] : o \in Owner}

PC == {"idle", "agent", "build", "registration", "strategies", "returned"}

TypeOK ==
    /\ \A o \in Owner : registry[o] \in Registries[o]
    /\ cache \in Seq([owner : Owner,
                      listed : SUBSET UNION {Iris(R) : R \in AllRegistries}])
    /\ Len(cache) <= Capacity
    /\ \A i, j \in 1..Len(cache) : cache[i].owner = cache[j].owner => i = j
    /\ pc \in [Call -> PC]
    /\ ask \in [Call -> Ask \cup {None}]
    /\ strategy \in [Call -> 1..(Len(Strategies) + 1)]
    /\ result \in [Call -> SUBSET AccessMode]

Init ==
    /\ registry \in [Owner -> AllRegistries]
    /\ \A o \in Owner : registry[o] \in Registries[o]
    /\ cache = <<>>
    /\ pc = [c \in Call |-> "idle"]
    /\ ask = [c \in Call |-> None]
    /\ agent = [c \in Call |-> None]
    /\ strategy = [c \in Call |-> 1]
    /\ result = [c \in Call |-> {}]
    /\ seen = [c \in Call |-> {}]
    /\ outage = [c \in Call |-> FALSE]

-----------------------------------------------------------------------------
(* getAuthenticatedClient: the owner acts through an application.          *)
IsApplication(q) == q.webId = q.owner
Client(q) == IF IsApplication(q) THEN q.clientId ELSE q.webId

(* find...Registration of an agent: the registration of the client, if the *)
(* agent lists it.                                                         *)
Listed(a) == {r \in registry[a.owner] : r.iri \in a.listed}
Found_AnyAgent(a, q) == Listed(a)
Found(a, q) == {r \in Listed(a) : r.agent = Client(q)}

DataGrants(r) == IF r.grant = None THEN {} ELSE r.grant.data

(* What the strategies answer for a registration: read access to the       *)
(* registration itself, to its access grant and to its data grants, ...    *)
ReadIf(yes) == IF yes THEN {"read"} ELSE {}
AgentRegistration(r, q) == ReadIf(r.iri = q.resource)
ApplicationRegistration(r, q) == IF IsApplication(q) THEN AgentRegistration(r, q) ELSE {}
SocialAgentRegistration(r, q) == IF IsApplication(q) THEN {} ELSE AgentRegistration(r, q)
AccessGrant(r, q) == ReadIf(r.grant # None /\ r.grant.iri = q.resource)
DataGrant(r, q) == ReadIf(\E g \in DataGrants(r) : g.iri = q.resource)

(* ... to a data registration that a data grant is about, with append if   *)
(* the grant has it, and to a data instance what the grant has of the      *)
(* modes that are asked for.                                               *)
DataRegistration(r, q) ==
    UNION {{"read"} \cup (g.modes \cap {"append"}) :
              g \in {d \in DataGrants(r) : d.registration = q.resource}}
DataInstance(r, q) ==
    UNION {g.modes \cap q.modes :
              g \in {d \in DataGrants(r) : q.resource \in d.instances}}

Granted(name, r, q) ==
    CASE name = "ApplicationRegistration" -> ApplicationRegistration(r, q)
      [] name = "SocialAgentRegistration" -> SocialAgentRegistration(r, q)
      [] name = "AccessGrant" -> AccessGrant(r, q)
      [] name = "DataGrant" -> DataGrant(r, q)
      [] name = "DataRegistration" -> DataRegistration(r, q)
      [] name = "DataInstance" -> DataInstance(r, q)

(* An IRI names one thing: a registration, an access grant, a data grant,  *)
(* a data registration or a data instance; the waterfall relies on it.     *)
AllDataGrants(R) == UNION {DataGrants(r) : r \in R}
Kinds(R) ==
    <<Iris(R),
      {r.grant.iri : r \in {x \in R : x.grant # None}},
      {g.iri : g \in AllDataGrants(R)},
      {g.registration : g \in AllDataGrants(R)},
      UNION {g.instances : g \in AllDataGrants(R)}>>
ASSUME IriAssumption ==
    \A R \in AllRegistries : \A i, j \in 1..5 :
        i # j => Kinds(R)[i] \cap Kinds(R)[j] = {}

(* An owner has one registration for an agent.                             *)
ASSUME RegistryAssumption ==
    \A R \in AllRegistries : \A r, s \in R : r.agent = s.agent => r = s

Answer_RequestedOnly(name, a, q) ==
    q.modes \cap UNION {Granted(name, r, q) : r \in Found(a, q)}
Answer(name, a, q) == UNION {Granted(name, r, q) : r \in Found(a, q)}

-----------------------------------------------------------------------------
Position(o) == {i \in 1..Len(cache) : cache[i].owner = o}
Others(o) ==
    IF Position(o) = {}
    THEN cache
    ELSE LET i == CHOOSE i \in Position(o) : TRUE
         IN SubSeq(cache, 1, i - 1) \o SubSeq(cache, i + 1, Len(cache))

(* authorize up to its first await.  An owner without an application is    *)
(* turned away at once.                                                    *)
Authorize(c, q) ==
    /\ pc[c] \in {"idle", "returned"}
    /\ ask' = [ask EXCEPT ![c] = q]
    /\ agent' = [agent EXCEPT ![c] = None]
    /\ strategy' = [strategy EXCEPT ![c] = 1]
    /\ result' = [result EXCEPT ![c] = {}]
    /\ seen' = [seen EXCEPT ![c] = {registry[q.owner]}]
    /\ outage' = [outage EXCEPT ![c] = FALSE]
    /\ pc' = [pc EXCEPT ![c] = IF Client(q) = None THEN "returned" ELSE "agent"]
    /\ UNCHANGED <<registry, cache>>

(* getAuthorizationAgentForRequest: the cached agent of the owner, which   *)
(* becomes the most recently used one ...                                  *)
CachedAgent(c) ==
    /\ pc[c] = "agent"
    /\ \E i \in Position(ask[c].owner) :
         /\ agent' = [agent EXCEPT ![c] = cache[i]]
         /\ cache' = Append(Others(ask[c].owner), cache[i])
    /\ pc' = [pc EXCEPT ![c] = "registration"]
    /\ UNCHANGED <<registry, ask, strategy, result, seen, outage>>

(* ... or a new one, which is built from what the pod lists ...            *)
BuildAgent(c) ==
    /\ pc[c] = "agent"
    /\ Position(ask[c].owner) = {}
    /\ agent' = [agent EXCEPT ![c] = AgentOf(ask[c].owner)]
    /\ pc' = [pc EXCEPT ![c] = "build"]
    /\ UNCHANGED <<registry, cache, ask, strategy, result, seen, outage>>

Kept_All(agents) == agents
Kept(agents) == IF Len(agents) > Capacity THEN Tail(agents) ELSE agents

(* ... and replaces whatever agent of that owner is in the cache by then,  *)
(* at the expense of the least recently used one.                          *)
CacheAgent(c) ==
    /\ pc[c] = "build"
    /\ cache' = Kept(Append(Others(ask[c].owner), agent[c]))
    /\ pc' = [pc EXCEPT ![c] = "registration"]
    /\ UNCHANGED <<registry, locals>>

(* hasRegistrationForAgent: no registration, no access.                    *)
CheckRegistration(c) ==
    /\ pc[c] = "registration"
    /\ pc' = [pc EXCEPT ![c] =
            IF Found(agent[c], ask[c]) = {} THEN "returned" ELSE "strategies"]
    /\ UNCHANGED <<registry, cache, locals>>

(* The next strategy.  The first one to answer with any mode decides.      *)
Decides_Always(modes) == TRUE
Decides(modes) == modes # {}
RunStrategy(c) ==
    /\ pc[c] = "strategies"
    /\ strategy[c] <= Len(Strategies)
    /\ LET modes == Answer(Strategies[strategy[c]], agent[c], ask[c])
       IN /\ result' = [result EXCEPT ![c] = modes]
          /\ pc' = [pc EXCEPT ![c] = IF Decides(modes) THEN "returned" ELSE "strategies"]
    /\ strategy' = [strategy EXCEPT ![c] = @ + 1]
    /\ UNCHANGED <<registry, cache, ask, agent, seen, outage>>

NoStrategyLeft(c) ==
    /\ pc[c] = "strategies"
    /\ strategy[c] > Len(Strategies)
    /\ pc' = [pc EXCEPT ![c] = "returned"]
    /\ UNCHANGED <<registry, cache, locals>>

(* A pod is out of reach.  While the agent is built or the registration is *)
(* looked up, that is the end of it, with no modes; a strategy that fails  *)
(* is passed over.                                                         *)
Fail(c) ==
    /\ \/ /\ pc[c] = "agent" /\ Position(ask[c].owner) = {}
          /\ pc' = [pc EXCEPT ![c] = "returned"] /\ UNCHANGED strategy
       \/ /\ pc[c] = "registration"
          /\ pc' = [pc EXCEPT ![c] = "returned"] /\ UNCHANGED strategy
       \/ /\ pc[c] = "strategies" /\ strategy[c] <= Len(Strategies)
          /\ strategy' = [strategy EXCEPT ![c] = @ + 1] /\ UNCHANGED pc
    /\ outage' = [outage EXCEPT ![c] = TRUE]
    /\ UNCHANGED <<registry, cache, ask, agent, result, seen>>

Step(c) ==
    \/ CachedAgent(c) \/ BuildAgent(c) \/ CacheAgent(c)
    \/ CheckRegistration(c) \/ RunStrategy(c) \/ NoStrategyLeft(c)

(* An owner grants or revokes something.                                   *)
Pending(c) == pc[c] \notin {"idle", "returned"}
ChangeRegistry(o) ==
    /\ \E R \in Registries[o] \ {registry[o]} :
         /\ registry' = [registry EXCEPT ![o] = R]
         /\ seen' = [c \in Call |->
                IF Pending(c) /\ ask[c].owner = o THEN seen[c] \cup {R} ELSE seen[c]]
    /\ UNCHANGED <<cache, pc, ask, agent, strategy, result, outage>>

Next ==
    \/ \E c \in Call : Step(c) \/ Fail(c) \/ \E q \in Ask : Authorize(c, q)
    \/ \E o \in Owner : ChangeRegistry(o)

Spec == Init /\ [][Next]_vars

-----------------------------------------------------------------------------
(* What a set of registrations entitles a client to: an application of the *)
(* owner by its client id, anyone else by WebID.                           *)
Names == {Strategies[i] : i \in 1..Len(Strategies)}
Entitled(R, q) ==
    LET own == {r \in R : r.agent = IF q.webId = q.owner THEN q.clientId ELSE q.webId}
    IN UNION {Granted(name, r, q) : name \in Names, r \in own}

(* Nobody gets a mode on the strength of what was revoked before the call, *)
(* however old the agent in the cache is: all that a call returns was      *)
(* granted to its client at one and the same moment of the call.           *)
GrantedDuringCall ==
    \A c \in Call : pc[c] = "returned" =>
        \E R \in seen[c] : result[c] \subseteq Entitled(R, ask[c])

(* When nothing is changed and nothing fails during a call, and the agent  *)
(* lists the registrations that there are, the waterfall of strategies     *)
(* loses nothing: the call returns all that the client is entitled to.     *)
QuietCallIsExact ==
    \A c \in Call :
        pc[c] = "returned" /\ ~outage[c] /\ agent[c] # None =>
            \A R \in seen[c] : seen[c] = {R} /\ Iris(R) \subseteq agent[c].listed
                => result[c] = Entitled(R, ask[c])

K == INSTANCE Consultation WITH open <- [c \in Call |-> Pending(c)]

(* A call decides at one moment, between its beginning and its end, on     *)
(* what the owner grants just then: the cached agents, the strategies      *)
(* tried one after the other and the reads of each are never the reason    *)
(* for a part of what is granted, nor for a mixture of grants of different *)
(* moments.                                                                *)
ConsultedAtOnce == K!Spec

=============================================================================
