---------------------- MODULE InteropAuthorizer_proofs ----------------------
(***************************************************************************)
(* Proofs about InteropAuthorizer, for any number of concurrent calls,     *)
(* owners, registrations and strategies and any size of the cache.  First, *)
(* that a stale agent never lets revoked access through.  Nothing about    *)
(* the contents of the cache is needed for it beyond what a call finds in  *)
(* it: an agent names its owner, and whatever registrations it lists, they *)
(* are read afresh.  Then, that the cache keeps to its bounds, that        *)
(* nothing granted is lost, and that a call decides at one moment.         *)
(***************************************************************************)
EXTENDS InteropAuthorizer, SequenceTheorems, TLAPS

Working(c) == pc[c] \in {"build", "registration", "strategies"}

Types ==
    /\ registry = [o \in Owner |-> registry[o]]
    /\ pc \in [Call -> PC]
    /\ ask = [c \in Call |-> ask[c]]
    /\ agent = [c \in Call |-> agent[c]]
    /\ strategy \in [Call -> Nat]
    /\ result = [c \in Call |-> result[c]]
    /\ seen = [c \in Call |-> seen[c]]

(* A pending call asks for something, has seen the present registrations   *)
(* of the owner, and has found no modes yet; its agent is the owner's.     *)
PendingInv(c) ==
    Pending(c) =>
        /\ ask[c] \in Ask
        /\ registry[ask[c].owner] \in seen[c]
        /\ result[c] = {}
        /\ strategy[c] >= 1
AgentInv(c) == Working(c) => agent[c].owner = ask[c].owner
ReturnInv(c) ==
    pc[c] = "returned" => \E R \in seen[c] : result[c] \subseteq Entitled(R, ask[c])
CallInv(c) == PendingInv(c) /\ AgentInv(c) /\ ReturnInv(c)

IInv == Types /\ \A c \in Call : CallInv(c)

(* What a strategy answers, the registrations of the agent's owner entitle *)
(* the client to.                                                          *)
LEMMA AnswerIsEntitled ==
  ASSUME NEW name \in Names, NEW a, NEW q
  PROVE  Answer(name, a, q) \subseteq Entitled(registry[a.owner], q)
<1>1. ASSUME NEW r \in Found(a, q)
      PROVE  /\ r \in registry[a.owner]
             /\ r.agent = IF q.webId = q.owner THEN q.clientId ELSE q.webId
  BY <1>1 DEF Found, Listed, Client, IsApplication
<1>2. ASSUME NEW m \in Answer(name, a, q)
      PROVE  m \in Entitled(registry[a.owner], q)
  <2>1. PICK r \in Found(a, q) : m \in Granted(name, r, q)
    BY <1>2 DEF Answer
  <2> QED
    BY <2>1, <1>1 DEF Entitled
<1> QED
  BY <1>2

LEMMA InitInv == Init => IInv
BY DEF Init, IInv, Types, PC, CallInv, PendingInv, AgentInv, ReturnInv, Working, Pending

(* The invariant of a call speaks of that call and of its owner's          *)
(* registrations only.                                                     *)
LEMMA OtherCalls ==
  ASSUME IInv, NEW c \in Call, NEW d \in Call, d # c,
         registry' = registry,
         pc'[d] = pc[d], ask'[d] = ask[d], agent'[d] = agent[d],
         strategy'[d] = strategy[d], result'[d] = result[d], seen'[d] = seen[d]
  PROVE  CallInv(d)'
BY DEF IInv, CallInv, PendingInv, AgentInv, ReturnInv, Working, Pending, Entitled

LEMMA StepInv ==
  ASSUME IInv, [Next]_vars
  PROVE  IInv'
<1>t. Types /\ \A c \in Call : PendingInv(c) /\ AgentInv(c) /\ ReturnInv(c)
  BY DEF IInv, CallInv
<1>1. ASSUME NEW c \in Call, NEW q \in Ask, Authorize(c, q)
      PROVE  IInv'
  <2>1. Types'
    BY <1>t, <1>1 DEF Authorize, Types, PC
  <2>2. CallInv(c)'
    <3>1. /\ pc'[c] \in {"agent", "returned"} /\ ask'[c] = q /\ result'[c] = {}
          /\ seen'[c] = {registry[q.owner]} /\ strategy'[c] = 1
          /\ registry' = registry
      BY <1>t, <1>1 DEF Authorize, Types
    <3> QED
      BY <3>1 DEF CallInv, PendingInv, AgentInv, ReturnInv, Working, Pending
  <2>3. ASSUME NEW d \in Call, d # c PROVE CallInv(d)'
    BY <1>t, <1>1, <2>3, OtherCalls DEF Authorize, Types
  <2> QED
    BY <2>1, <2>2, <2>3 DEF IInv
<1>2. ASSUME NEW c \in Call, Step(c) \/ Fail(c)
      PROVE  IInv'
  <2>p. Pending(c) /\ ask[c] \in Ask /\ registry[ask[c].owner] \in seen[c]
        /\ result[c] = {} /\ strategy[c] >= 1
    BY <1>t, <1>2 DEF PendingInv, Pending, Step, Fail, CachedAgent, BuildAgent, CacheAgent,
                      CheckRegistration, RunStrategy, NoStrategyLeft
  <2>s. registry' = registry /\ ask' = ask /\ seen' = seen
    BY <1>2 DEF Step, Fail, CachedAgent, BuildAgent, CacheAgent, CheckRegistration,
                RunStrategy, NoStrategyLeft, locals
  <2>1. Types'
    <3>n. strategy[c] + 1 \in Nat
      BY <1>t DEF Types
    <3>1. CASE CachedAgent(c)
      BY <1>t, <3>1 DEF CachedAgent, Types, PC
    <3>2. CASE BuildAgent(c)
      BY <1>t, <3>2 DEF BuildAgent, Types, PC
    <3>3. CASE CacheAgent(c) \/ CheckRegistration(c) \/ NoStrategyLeft(c)
      BY <1>t, <3>3 DEF CacheAgent, CheckRegistration, NoStrategyLeft, locals, Types, PC
    <3>4. CASE RunStrategy(c)
      BY <1>t, <3>n, <3>4 DEF RunStrategy, Types, PC
    <3>5. CASE Fail(c)
      BY <1>t, <3>n, <3>5 DEF Fail, Types, PC
    <3> QED
      BY <1>2, <3>1, <3>2, <3>3, <3>4, <3>5 DEF Step
  <2>3. ASSUME NEW d \in Call, d # c PROVE CallInv(d)'
    <3>1. /\ pc'[d] = pc[d] /\ agent'[d] = agent[d]
          /\ strategy'[d] = strategy[d] /\ result'[d] = result[d]
      BY <1>t, <1>2, <2>3 DEF Step, Fail, CachedAgent, BuildAgent, CacheAgent,
               CheckRegistration, RunStrategy, NoStrategyLeft, locals, Types
    <3> QED
      BY <3>1, <2>s, <2>3, OtherCalls
  <2>e. {} \subseteq Entitled(registry[ask[c].owner], ask[c])
    OBVIOUS
  <2>2. CallInv(c)'
    <3>1. CASE CachedAgent(c)
      <4>1. /\ pc'[c] = "registration" /\ agent'[c].owner = ask[c].owner
            /\ strategy' = strategy /\ result' = result
        BY <1>t, <3>1 DEF CachedAgent, Types, Position
      <4> QED
        BY <4>1, <2>p, <2>s DEF CallInv, PendingInv, AgentInv, ReturnInv
    <3>2. CASE BuildAgent(c)
      <4>1. /\ pc'[c] = "build" /\ agent'[c].owner = ask[c].owner
            /\ strategy' = strategy /\ result' = result
        BY <1>t, <3>2 DEF BuildAgent, Types, AgentOf
      <4> QED
        BY <4>1, <2>p, <2>s DEF CallInv, PendingInv, AgentInv, ReturnInv
    <3>3. CASE CacheAgent(c)
      <4>1. /\ pc'[c] = "registration" /\ agent'[c].owner = ask[c].owner
            /\ strategy' = strategy /\ result' = result
        BY <1>t, <3>3 DEF CacheAgent, Types, locals, AgentInv, Working
      <4> QED
        BY <4>1, <2>p, <2>s DEF CallInv, PendingInv, AgentInv, ReturnInv
    <3>4. CASE CheckRegistration(c)
      <4>1. /\ pc'[c] \in {"returned", "strategies"} /\ agent'[c].owner = ask[c].owner
            /\ strategy' = strategy /\ result' = result
        BY <1>t, <3>4 DEF CheckRegistration, Types, locals, AgentInv, Working
      <4> QED
        BY <4>1, <2>p, <2>s, <2>e DEF CallInv, PendingInv, AgentInv, ReturnInv
    <3>5. CASE RunStrategy(c)
      <4> DEFINE name == Strategies[strategy[c]]
                 modes == Answer(name, agent[c], ask[c])
      <4>1. /\ pc'[c] = (IF Decides(modes) THEN "returned" ELSE "strategies")
            /\ result'[c] = modes /\ agent' = agent
            /\ strategy'[c] = strategy[c] + 1 /\ agent[c].owner = ask[c].owner
        BY <1>t, <3>5 DEF RunStrategy, Types, AgentInv, Working
      <4>2. name \in Names
        BY <1>t, <3>5, <2>p, StrategiesAssumption DEF RunStrategy, Names, Types
      <4>3. modes \subseteq Entitled(registry[ask[c].owner], ask[c])
        BY <4>1, <4>2, AnswerIsEntitled
      <4>4. strategy'[c] >= 1
        BY <1>t, <4>1, <2>p DEF Types
      <4> HIDE DEF modes
      <4>5. ~Decides(modes) => modes = {}
        BY DEF Decides
      <4> QED
        BY <4>1, <4>3, <4>4, <4>5, <2>p, <2>s
           DEF CallInv, PendingInv, AgentInv, ReturnInv, Pending, Working
    <3>6. CASE NoStrategyLeft(c)
      <4>1. /\ pc'[c] = "returned" /\ result' = result
        BY <1>t, <3>6 DEF NoStrategyLeft, Types, locals
      <4> QED
        BY <4>1, <2>p, <2>s, <2>e DEF CallInv, PendingInv, AgentInv, ReturnInv, Pending, Working
    <3>7. CASE Fail(c)
      <4>1. /\ pc'[c] = "returned" \/ (pc'[c] = "strategies" /\ pc[c] = "strategies")
            /\ result' = result /\ agent' = agent
            /\ strategy'[c] = strategy[c] \/ strategy'[c] = strategy[c] + 1
        BY <1>t, <3>7 DEF Fail, Types
      <4>2. strategy'[c] >= 1
        BY <1>t, <4>1, <2>p DEF Types
      <4> QED
        BY <1>t, <4>1, <4>2, <2>p, <2>s, <2>e
           DEF CallInv, PendingInv, AgentInv, ReturnInv, Pending, Working
    <3> QED
      BY <1>2, <3>1, <3>2, <3>3, <3>4, <3>5, <3>6, <3>7 DEF Step
  <2> QED
    BY <2>1, <2>2, <2>3 DEF IInv
<1>3. ASSUME NEW o \in Owner, ChangeRegistry(o)
      PROVE  IInv'
  <2>1. Types'
    BY <1>t, <1>3 DEF ChangeRegistry, Types
  <2>2. ASSUME NEW c \in Call PROVE CallInv(c)'
    <3>1. /\ pc'[c] = pc[c] /\ ask'[c] = ask[c] /\ agent'[c] = agent[c]
          /\ strategy'[c] = strategy[c] /\ result'[c] = result[c]
          /\ seen[c] \subseteq seen'[c]
      BY <1>3 DEF ChangeRegistry
    <3>2. ASSUME Pending(c) PROVE registry'[ask[c].owner] \in seen'[c]
      <4>1. ask[c].owner \in Owner /\ registry[ask[c].owner] \in seen[c]
        BY <1>t, <3>2, AskAssumption DEF PendingInv
      <4>2. PICK R \in Registries[o] : registry' = [registry EXCEPT ![o] = R]
                /\ seen' = [d \in Call |->
                      IF Pending(d) /\ ask[d].owner = o THEN seen[d] \cup {R} ELSE seen[d]]
        BY <1>3 DEF ChangeRegistry
      <4> QED
        BY <1>t, <3>2, <4>1, <4>2 DEF Types
    <3> QED
      BY <1>t, <3>1, <3>2 DEF CallInv, PendingInv, AgentInv, ReturnInv, Pending, Working, Entitled
  <2> QED
    BY <2>1, <2>2 DEF IInv
<1>4. CASE UNCHANGED vars
  <2>1. /\ registry' = registry /\ pc' = pc /\ ask' = ask /\ agent' = agent
        /\ strategy' = strategy /\ result' = result /\ seen' = seen
    BY <1>4 DEF vars, locals
  <2>2. Types'
    BY <1>t, <2>1 DEF Types
  <2>3. ASSUME NEW c \in Call PROVE CallInv(c)'
    BY <1>t, <2>1 DEF CallInv, PendingInv, AgentInv, ReturnInv, Pending, Working, Entitled
  <2> QED
    BY <2>2, <2>3 DEF IInv
<1> QED
  BY <1>1, <1>2, <1>3, <1>4 DEF Next

(* What holds of every call of authorize, at each of its awaits.           *)
THEOREM Invariance == Spec => []IInv
<1> QED
  BY InitInv, StepInv, PTL DEF Spec

(* GrantedDuringCall: what a call of authorize returns was granted to its  *)
(* client at one moment of the call, whatever agent was in the cache.      *)
THEOREM NeverRevived == Spec => []GrantedDuringCall
<1>1. IInv => GrantedDuringCall
  BY DEF IInv, CallInv, ReturnInv, GrantedDuringCall
<1> QED
  BY <1>1, Invariance, PTL


-----------------------------------------------------------------------------
(***************************************************************************)
(* The cache has one agent per owner and never outgrows its capacity.      *)
(***************************************************************************)
Agent == [owner : Owner, listed : SUBSET UNION {Iris(R) : R \in AllRegistries}]
Agents == Seq(Agent)
OnePerOwner(s) == \A i, j \in 1..Len(s) : s[i].owner = s[j].owner => i = j

(* Others takes out the agent of the owner, if there is one.               *)
LEMMA OthersLemma ==
  ASSUME cache \in Agents, OnePerOwner(cache), NEW o
  PROVE  /\ Others(o) \in Agents
         /\ OnePerOwner(Others(o))
         /\ \A k \in 1..Len(Others(o)) : Others(o)[k].owner # o
         /\ Len(Others(o)) <= Len(cache)
         /\ Position(o) # {} => Len(Others(o)) + 1 = Len(cache)
<1>t. Len(cache) \in Nat /\ \A k \in 1..Len(cache) : cache[k] \in Agent
  BY LenProperties, ElementOfSeq DEF Agents
<1>1. CASE Position(o) = {}
  BY <1>1, <1>t DEF Others, Position
<1>2. CASE Position(o) # {}
  <2> DEFINE i == CHOOSE i \in Position(o) : TRUE
             s == SubSeq(cache, 1, i - 1)
             t == SubSeq(cache, i + 1, Len(cache))
  <2>1. i \in 1..Len(cache) /\ cache[i].owner = o
    BY <1>2 DEF Position
  <2>2. Others(o) = s \o t
    BY <1>2 DEF Others
  <2> HIDE DEF i
  <2>3. /\ s \in Agents /\ Len(s) = i - 1
        /\ \A k \in 1..(i - 1) : s[k] = cache[k]
    <3>1. /\ SubSeq(cache, 1, i - 1) \in Agents
          /\ Len(SubSeq(cache, 1, i - 1)) = IF 1 <= i - 1 THEN (i - 1) - 1 + 1 ELSE 0
          /\ \A k \in 1..((i - 1) - 1 + 1) : SubSeq(cache, 1, i - 1)[k] = cache[1 + k - 1]
      BY <2>1, <1>t, SubSeqProperties DEF Agents
    <3> QED
      BY <3>1, <2>1, <1>t
  <2>4. /\ t \in Agents /\ Len(t) = Len(cache) - i
        /\ \A k \in 1..(Len(cache) - i) : t[k] = cache[i + k]
    <3>1. /\ SubSeq(cache, i + 1, Len(cache)) \in Agents
          /\ Len(SubSeq(cache, i + 1, Len(cache)))
                = IF i + 1 <= Len(cache) THEN Len(cache) - (i + 1) + 1 ELSE 0
          /\ \A k \in 1..(Len(cache) - (i + 1) + 1) :
                SubSeq(cache, i + 1, Len(cache))[k] = cache[(i + 1) + k - 1]
      BY <2>1, <1>t, SubSeqProperties DEF Agents
    <3> QED
      BY <3>1, <2>1, <1>t
  <2> HIDE DEF s, t
  <2>5. /\ s \o t \in Agents
        /\ Len(s \o t) = Len(cache) - 1
        /\ \A k \in 1..(Len(cache) - 1) :
             (s \o t)[k] = IF k <= i - 1 THEN s[k] ELSE t[k - (i - 1)]
    <3>1. /\ s \o t \in Agents
          /\ Len(s \o t) = Len(s) + Len(t)
          /\ \A k \in 1..(Len(s) + Len(t)) :
               (s \o t)[k] = IF k <= Len(s) THEN s[k] ELSE t[k - Len(s)]
      BY <2>3, <2>4, ConcatProperties DEF Agents
    <3> QED
      BY <3>1, <2>3, <2>4, <2>1, <1>t
  <2>6. \A k \in 1..(Len(cache) - 1) :
          (s \o t)[k] = cache[IF k <= i - 1 THEN k ELSE k + 1]
    BY <2>3, <2>4, <2>5, <2>1, <1>t
  <2>7. \A k \in 1..(Len(cache) - 1) : (s \o t)[k].owner # o
    <3> SUFFICES ASSUME NEW k \in 1..(Len(cache) - 1) PROVE (s \o t)[k].owner # o
      OBVIOUS
    <3> DEFINE n == IF k <= i - 1 THEN k ELSE k + 1
    <3>1. n \in 1..Len(cache) /\ n # i
      BY <2>1, <1>t
    <3>2. (s \o t)[k] = cache[n]
      BY <2>6
    <3> QED
      BY <3>1, <3>2, <2>1 DEF OnePerOwner
  <2>8. OnePerOwner(s \o t)
    <3> SUFFICES ASSUME NEW k \in 1..(Len(cache) - 1), NEW l \in 1..(Len(cache) - 1),
                        (s \o t)[k].owner = (s \o t)[l].owner
                 PROVE  k = l
      BY <2>5 DEF OnePerOwner
    <3> DEFINE n == IF k <= i - 1 THEN k ELSE k + 1
               m == IF l <= i - 1 THEN l ELSE l + 1
    <3>1. n \in 1..Len(cache) /\ m \in 1..Len(cache)
      BY <2>1, <1>t
    <3>2. cache[n].owner = cache[m].owner
      BY <2>6
    <3>3. n = m
      BY <3>1, <3>2 DEF OnePerOwner
    <3> QED
      BY <3>3, <2>1, <1>t
  <2> QED
    BY <2>2, <2>5, <2>7, <2>8, <1>t
<1> QED
  BY <1>1, <1>2

(* Putting the agent of an owner last leaves one agent per owner.          *)
LEMMA AppendLemma ==
  ASSUME NEW s \in Agents, OnePerOwner(s), NEW a \in Agent,
         \A k \in 1..Len(s) : s[k].owner # a.owner
  PROVE  /\ Append(s, a) \in Agents
         /\ Len(Append(s, a)) = Len(s) + 1
         /\ OnePerOwner(Append(s, a))
<1>1. /\ Append(s, a) \in Agents /\ Len(Append(s, a)) = Len(s) + 1
      /\ \A i \in 1..Len(s) : Append(s, a)[i] = s[i]
      /\ Append(s, a)[Len(s) + 1] = a
      /\ Len(s) \in Nat
  BY AppendProperties, LenProperties DEF Agents
<1> QED
  BY <1>1 DEF OnePerOwner

(* Evicting the least recently used agent keeps to the capacity.           *)
LEMMA KeptLemma ==
  ASSUME NEW s \in Agents, OnePerOwner(s), Len(s) <= Capacity + 1
  PROVE  Kept(s) \in Agents /\ Len(Kept(s)) <= Capacity /\ OnePerOwner(Kept(s))
<1>t. Len(s) \in Nat /\ Capacity \in Nat /\ Capacity >= 1
  BY LenProperties, CapacityAssumption DEF Agents
<1>1. CASE Len(s) <= Capacity
  BY <1>1, <1>t DEF Kept
<1>2. CASE Len(s) > Capacity
  <2>1. s # <<>>
    BY <1>2, <1>t
  <2>2. /\ Tail(s) \in Agents /\ Len(Tail(s)) = Len(s) - 1
        /\ \A i \in 1..Len(Tail(s)) : Tail(s)[i] = s[i + 1]
    BY <2>1, HeadTailProperties DEF Agents
  <2>3. OnePerOwner(Tail(s))
    <3> SUFFICES ASSUME NEW i \in 1..Len(Tail(s)), NEW j \in 1..Len(Tail(s)),
                        Tail(s)[i].owner = Tail(s)[j].owner
                 PROVE  i = j
      BY DEF OnePerOwner
    <3>1. i + 1 \in 1..Len(s) /\ j + 1 \in 1..Len(s) /\ s[i + 1].owner = s[j + 1].owner
      BY <2>2, <1>t
    <3>2. i + 1 = j + 1
      BY <3>1 DEF OnePerOwner
    <3> QED
      BY <3>2, <2>2, <1>t
  <2> QED
    BY <1>2, <1>t, <2>2, <2>3 DEF Kept
<1> QED
  BY <1>1, <1>2, <1>t


(* An agent at work is one for the owner; it is put where it was taken     *)
(* from, or in the place of another of the same owner.                     *)
AgentType(c) == Working(c) => agent[c] \in Agent
TInv == TypeOK /\ \A c \in Call : AgentType(c)

LEMMA GrantedModes ==
  ASSUME NEW i \in 1..Len(Strategies), NEW a, NEW q \in Ask
  PROVE  Answer(Strategies[i], a, q) \subseteq AccessMode
<1>1. Strategies[i] \in {"ApplicationRegistration", "SocialAgentRegistration",
                         "AccessGrant", "DataGrant", "DataRegistration", "DataInstance"}
  BY StrategiesAssumption, ElementOfSeq
<1>2. q.modes \subseteq AccessMode
  BY AskAssumption
<1>3. ASSUME NEW r, NEW m \in Granted(Strategies[i], r, q) PROVE m \in AccessMode
  BY <1>1, <1>2, <1>3 DEF Granted, ApplicationRegistration, SocialAgentRegistration,
        AgentRegistration, AccessGrant, DataGrant, DataRegistration, DataInstance,
        ReadIf, AccessMode
<1> QED
  BY <1>3 DEF Answer

LEMMA NewAgentType ==
  ASSUME TypeOK, NEW o \in Owner
  PROVE  AgentOf(o) \in Agent
<1>1. registry[o] \in AllRegistries
  BY DEF TypeOK, AllRegistries
<1> QED
  BY <1>1 DEF AgentOf, Agent

LEMMA TypeInit == Init => TInv
<1> SUFFICES ASSUME Init PROVE TInv
  OBVIOUS
<1>1. <<>> \in Agents /\ Len(<<>>) = 0
  BY EmptySeq DEF Agents
<1>2. 1 \in 1..(Len(Strategies) + 1) /\ 0 <= Capacity
  BY StrategiesAssumption, LenProperties, CapacityAssumption
<1> QED
  BY <1>1, <1>2 DEF Init, TInv, TypeOK, AgentType, Working, PC, Agents, Agent

LEMMA TypeStep ==
  ASSUME IInv, TInv, [Next]_vars
  PROVE  TInv'
<1>t. /\ Types /\ TypeOK /\ \A c \in Call : AgentType(c)
      /\ \A c \in Call : PendingInv(c) /\ AgentInv(c)
  BY DEF IInv, CallInv, TInv
<1>c. cache \in Agents /\ Len(cache) <= Capacity /\ OnePerOwner(cache)
  BY <1>t DEF TypeOK, Agents, Agent, OnePerOwner
<1>n. Len(Strategies) \in Nat /\ Capacity \in Nat /\ Len(cache) \in Nat
  BY <1>c, StrategiesAssumption, LenProperties, CapacityAssumption DEF Agents
<1>1. ASSUME NEW c \in Call, NEW q \in Ask, Authorize(c, q)
      PROVE  TInv'
  BY <1>1, <1>t, <1>n DEF Authorize, TypeOK, Types, TInv, AgentType, Working, PC
<1>2. ASSUME NEW c \in Call, Step(c) \/ Fail(c)
      PROVE  TInv'
  <2>p. ask[c] \in Ask /\ ask[c].owner \in Owner
    BY <1>t, <1>2, AskAssumption DEF PendingInv, Pending, Step, Fail, CachedAgent,
       BuildAgent, CacheAgent, CheckRegistration, RunStrategy, NoStrategyLeft
  <2> DEFINE o == ask[c].owner
  <2>o. /\ Others(o) \in Agents /\ OnePerOwner(Others(o))
        /\ \A k \in 1..Len(Others(o)) : Others(o)[k].owner # o
        /\ Len(Others(o)) <= Len(cache) /\ Len(Others(o)) \in Nat
        /\ Position(o) # {} => Len(Others(o)) + 1 = Len(cache)
    BY <1>c, OthersLemma, LenProperties DEF Agents
  <2>1. CASE CachedAgent(c)
    <3>1. PICK i \in Position(o) :
             /\ agent' = [agent EXCEPT ![c] = cache[i]]
             /\ cache' = Append(Others(o), cache[i])
      BY <2>1 DEF CachedAgent
    <3>2. cache[i] \in Agent /\ cache[i].owner = o
      BY <1>c, ElementOfSeq DEF Position, Agents
    <3>3. cache' \in Agents /\ Len(cache') <= Capacity /\ OnePerOwner(cache')
      <4>1. /\ Append(Others(o), cache[i]) \in Agents
            /\ Len(Append(Others(o), cache[i])) = Len(Others(o)) + 1
            /\ OnePerOwner(Append(Others(o), cache[i]))
        BY <2>o, <3>2, AppendLemma
      <4>2. Len(Others(o)) + 1 = Len(cache)
        BY <2>o
      <4> QED
        BY <3>1, <4>1, <4>2, <1>c
    <3> QED
      BY <2>1, <3>1, <3>2, <3>3, <1>t, <1>n
         DEF CachedAgent, TypeOK, Types, TInv, AgentType, Working, PC, Agents, Agent, OnePerOwner
  <2>2. CASE BuildAgent(c)
    <3>1. AgentOf(o) \in Agent
      BY <1>t, <2>p, NewAgentType
    <3> QED
      BY <2>2, <3>1, <1>t, <1>n DEF BuildAgent, TypeOK, Types, TInv, AgentType, Working, PC
  <2>3. CASE CacheAgent(c)
    <3>1. agent[c] \in Agent /\ agent[c].owner = o
      BY <2>3, <1>t DEF CacheAgent, AgentType, AgentInv, Working
    <3>2. /\ Append(Others(o), agent[c]) \in Agents
          /\ Len(Append(Others(o), agent[c])) = Len(Others(o)) + 1
          /\ OnePerOwner(Append(Others(o), agent[c]))
      BY <2>o, <3>1, AppendLemma
    <3>3. cache' \in Agents /\ Len(cache') <= Capacity /\ OnePerOwner(cache')
      <4>1. Len(Append(Others(o), agent[c])) <= Capacity + 1
        BY <3>2, <2>o, <1>c, <1>n
      <4> QED
        BY <3>2, <4>1, <2>3, KeptLemma DEF CacheAgent
    <3> QED
      BY <2>3, <3>1, <3>3, <1>t, <1>n
         DEF CacheAgent, locals, TypeOK, Types, TInv, AgentType, Working, PC, Agents, Agent,
             OnePerOwner
  <2>4. CASE CheckRegistration(c) \/ NoStrategyLeft(c)
    BY <2>4, <1>t DEF CheckRegistration, NoStrategyLeft, locals, TypeOK, TInv, AgentType,
                      Working, PC
  <2>5. CASE RunStrategy(c)
    <3>1. strategy[c] \in 1..Len(Strategies) /\ strategy[c] + 1 \in 1..(Len(Strategies) + 1)
      BY <2>5, <1>t, <1>n DEF RunStrategy, TypeOK
    <3>2. Answer(Strategies[strategy[c]], agent[c], ask[c]) \subseteq AccessMode
      BY <3>1, <2>p, GrantedModes
    <3> HIDE DEF o
    <3> QED
      BY <2>5, <3>1, <3>2, <1>t DEF RunStrategy, TypeOK, TInv, AgentType, Working, PC
  <2>6. CASE Fail(c)
    <3>1. strategy[c] <= Len(Strategies) => strategy[c] + 1 \in 1..(Len(Strategies) + 1)
      BY <1>t, <1>n DEF TypeOK
    <3> QED
      BY <2>6, <3>1, <1>t DEF Fail, TypeOK, TInv, AgentType, Working, PC
  <2> QED
    BY <1>2, <2>1, <2>2, <2>3, <2>4, <2>5, <2>6 DEF Step
<1>3. ASSUME NEW o \in Owner, ChangeRegistry(o)
      PROVE  TInv'
  BY <1>3, <1>t DEF ChangeRegistry, TypeOK, Types, TInv, AgentType, Working
<1>4. CASE UNCHANGED vars
  BY <1>4, <1>t DEF vars, locals, TypeOK, TInv, AgentType, Working
<1> QED
  BY <1>1, <1>2, <1>3, <1>4 DEF Next

(* TypeOK: among others, the cache never outgrows its capacity, and never  *)
(* holds two agents of one owner, whatever calls build and cache at once.  *)
THEOREM TypeCorrect == Spec => []TypeOK
<1>1. TInv => TypeOK
  BY DEF TInv
<1> QED
  BY <1>1, TypeInit, TypeStep, Invariance, PTL DEF Spec


-----------------------------------------------------------------------------
(***************************************************************************)
(* The waterfall loses nothing: of all the strategies, at most one has an  *)
(* answer for a resource, so that it does not matter which is tried first. *)
(***************************************************************************)
ClientsOf(R, q) == {r \in R : r.agent = Client(q)}
AnswerOf(name, R, q) == UNION {Granted(name, r, q) : r \in ClientsOf(R, q)}
StrategyNames == {"ApplicationRegistration", "SocialAgentRegistration",
                  "AccessGrant", "DataGrant", "DataRegistration", "DataInstance"}

LEMMA NamesOfStrategies ==
  /\ Len(Strategies) \in Nat
  /\ \A i \in 1..Len(Strategies) : Strategies[i] \in Names \cap StrategyNames
BY StrategiesAssumption, ElementOfSeq, LenProperties DEF Names, StrategyNames

(* The kind of thing that a strategy is about, by its place in Kinds.      *)
KindOf(name) ==
    CASE name \in {"ApplicationRegistration", "SocialAgentRegistration"} -> 1
      [] name = "AccessGrant" -> 2
      [] name = "DataGrant" -> 3
      [] name = "DataRegistration" -> 4
      [] name = "DataInstance" -> 5

LEMMA AnswerNamesItsKind ==
  ASSUME NEW R, NEW q, NEW name \in StrategyNames, AnswerOf(name, R, q) # {}
  PROVE  /\ KindOf(name) \in 1..5
         /\ q.resource \in Kinds(R)[KindOf(name)]
<1>1. PICK r \in R : Granted(name, r, q) # {}
  BY DEF AnswerOf, ClientsOf
<1>g. DataGrants(r) \subseteq AllDataGrants(R)
  BY DEF AllDataGrants
<1>2. CASE name \in {"ApplicationRegistration", "SocialAgentRegistration"}
  <2>1. r.iri = q.resource
    BY <1>1, <1>2 DEF Granted, ApplicationRegistration, SocialAgentRegistration,
                      AgentRegistration, ReadIf
  <2> QED
    BY <2>1, <1>2 DEF KindOf, Kinds, Iris
<1>3. CASE name = "AccessGrant"
  <2>1. r.grant # None /\ r.grant.iri = q.resource
    BY <1>1, <1>3 DEF Granted, AccessGrant, ReadIf
  <2> QED
    BY <2>1, <1>3 DEF KindOf, Kinds
<1>4. CASE name = "DataGrant"
  <2>1. PICK g \in DataGrants(r) : g.iri = q.resource
    BY <1>1, <1>4 DEF Granted, DataGrant, ReadIf
  <2> QED
    BY <2>1, <1>g, <1>4 DEF KindOf, Kinds
<1>5. CASE name = "DataRegistration"
  <2>1. PICK g \in DataGrants(r) : g.registration = q.resource
    BY <1>1, <1>5 DEF Granted, DataRegistration
  <2> QED
    BY <2>1, <1>g, <1>5 DEF KindOf, Kinds
<1>6. CASE name = "DataInstance"
  <2>1. PICK g \in DataGrants(r) : q.resource \in g.instances
    BY <1>1, <1>6 DEF Granted, DataInstance
  <2> QED
    BY <2>1, <1>g, <1>6 DEF KindOf, Kinds
<1> QED
  BY <1>2, <1>3, <1>4, <1>5, <1>6 DEF StrategyNames

(* An agent that lists all the registrations answers for all of them.      *)
LEMMA AnswersAgree ==
  ASSUME NEW a, NEW q, NEW name, Iris(registry[a.owner]) \subseteq a.listed
  PROVE  Answer(name, a, q) = AnswerOf(name, registry[a.owner], q)
<1>1. Found(a, q) = ClientsOf(registry[a.owner], q)
  BY DEF Found, Listed, ClientsOf, Iris
<1> QED
  BY <1>1 DEF Answer, AnswerOf

LEMMA EntitledIsAnswered ==
  ASSUME NEW R, NEW q
  PROVE  Entitled(R, q) = UNION {AnswerOf(name, R, q) : name \in Names}
BY DEF Entitled, AnswerOf, ClientsOf, Client, IsApplication

LEMMA OneStrategyAnswers ==
  ASSUME NEW R \in AllRegistries, NEW q, NEW n \in StrategyNames, NEW m \in StrategyNames,
         AnswerOf(n, R, q) # {}, AnswerOf(m, R, q) # {}
  PROVE  n = m
<1>1. KindOf(n) = KindOf(m)
  BY AnswerNamesItsKind, IriAssumption
<1>2. CASE {n, m} = {"ApplicationRegistration", "SocialAgentRegistration"}
  BY <1>2 DEF AnswerOf, Granted, ApplicationRegistration, SocialAgentRegistration
<1> QED
  BY <1>1, <1>2 DEF KindOf, StrategyNames

(* So the first answer is all there is to answer.                          *)
LEMMA FirstAnswerIsAll ==
  ASSUME NEW R \in AllRegistries, NEW q, NEW i \in 1..Len(Strategies),
         AnswerOf(Strategies[i], R, q) # {}
  PROVE  Entitled(R, q) = AnswerOf(Strategies[i], R, q)
<1>1. \A m \in Names : m \in StrategyNames
  BY NamesOfStrategies DEF Names
<1>2. \A m \in Names : AnswerOf(m, R, q) # {} => m = Strategies[i]
  BY <1>1, NamesOfStrategies, OneStrategyAnswers
<1>3. Strategies[i] \in Names
  BY NamesOfStrategies
<1> QED
  BY <1>2, <1>3, EntitledIsAnswered

(* While a call is quiet, the strategies that it has tried have nothing to *)
(* answer, and it returns with all there is.                               *)
QuietAt(c, R) == seen[c] = {R} /\ ~outage[c] /\ Iris(R) \subseteq agent[c].listed
TriedInv(c) ==
    pc[c] = "strategies" =>
        \A R : QuietAt(c, R) =>
            \A i \in 1..Len(Strategies) :
                i < strategy[c] => AnswerOf(Strategies[i], R, ask[c]) = {}
ExactInv(c) ==
    pc[c] = "returned" /\ agent[c] # None =>
        \A R : QuietAt(c, R) => result[c] = Entitled(R, ask[c])
FreshInv(c) == pc[c] \in {"agent", "build", "registration"} => strategy[c] = 1
QInv == /\ \A c \in Call : TriedInv(c) /\ ExactInv(c) /\ FreshInv(c)
        /\ outage = [c \in Call |-> outage[c]]

LEMMA QuietInit == Init => QInv
BY DEF Init, QInv, TriedInv, ExactInv, FreshInv

LEMMA QuietStep ==
  ASSUME IInv, TInv, QInv, [Next]_vars
  PROVE  QInv'
<1>t. /\ Types /\ TypeOK /\ outage = [d \in Call |-> outage[d]]
      /\ \A d \in Call : TriedInv(d) /\ ExactInv(d) /\ FreshInv(d)
      /\ \A d \in Call : PendingInv(d) /\ AgentInv(d)
  BY DEF IInv, CallInv, QInv, TInv
<1>n. Len(Strategies) \in Nat
  BY NamesOfStrategies
<1>1. ASSUME NEW c \in Call, NEW q \in Ask, Authorize(c, q)
      PROVE  QInv'
  BY <1>1, <1>t DEF Authorize, TypeOK, QInv, TriedInv, ExactInv, FreshInv, Types, QuietAt
<1>2. ASSUME NEW c \in Call, Step(c) \/ Fail(c)
      PROVE  QInv'
  <2>s. registry' = registry /\ ask' = ask /\ seen' = seen
    BY <1>2 DEF Step, Fail, CachedAgent, BuildAgent, CacheAgent, CheckRegistration,
                RunStrategy, NoStrategyLeft, locals
  <2>p. /\ ask[c] \in Ask /\ ask[c].owner \in Owner /\ registry[ask[c].owner] \in seen[c]
        /\ registry[ask[c].owner] \in AllRegistries /\ result[c] = {}
    BY <1>t, <1>2, AskAssumption DEF PendingInv, Pending, Step, Fail, CachedAgent,
       BuildAgent, CacheAgent, CheckRegistration, RunStrategy, NoStrategyLeft,
       TypeOK, AllRegistries
  <2>d. ASSUME NEW d \in Call, d # c PROVE TriedInv(d)' /\ ExactInv(d)' /\ FreshInv(d)'
    <3>1. /\ pc'[d] = pc[d] /\ agent'[d] = agent[d] /\ outage'[d] = outage[d]
          /\ strategy'[d] = strategy[d] /\ result'[d] = result[d]
      BY <1>t, <1>2, <2>d DEF Step, Fail, CachedAgent, BuildAgent, CacheAgent,
               CheckRegistration, RunStrategy, NoStrategyLeft, locals, Types
    <3> QED
      BY <3>1, <2>s, <1>t DEF TriedInv, ExactInv, FreshInv, QuietAt
  <2>o. outage' = [d \in Call |-> outage'[d]]
    BY <1>2, <1>t DEF Step, Fail, CachedAgent, BuildAgent, CacheAgent, CheckRegistration,
                      RunStrategy, NoStrategyLeft, locals
  <2>c. TriedInv(c)' /\ ExactInv(c)' /\ FreshInv(c)'
    <3>1. CASE CachedAgent(c) \/ BuildAgent(c) \/ CacheAgent(c)
      <4>1. pc'[c] \in {"build", "registration"} /\ strategy' = strategy
            /\ pc[c] \in {"agent", "build"}
        BY <3>1, <1>t DEF CachedAgent, BuildAgent, CacheAgent, Types, locals
      <4> QED
        BY <4>1, <1>t DEF TriedInv, ExactInv, FreshInv
    <3>2. CASE CheckRegistration(c)
      <4>1. /\ pc[c] = "registration" /\ strategy' = strategy /\ result' = result
            /\ agent' = agent /\ outage' = outage /\ strategy[c] = 1
            /\ pc'[c] = IF Found(agent[c], ask[c]) = {} THEN "returned" ELSE "strategies"
        BY <3>2, <1>t DEF CheckRegistration, Types, locals, FreshInv
      <4>2. TriedInv(c)' /\ FreshInv(c)'
        BY <4>1 DEF TriedInv, FreshInv
      <4>3. ASSUME Found(agent[c], ask[c]) = {}, NEW R, QuietAt(c, R)
            PROVE  result[c] = Entitled(R, ask[c])
        <5>1. R = registry[ask[c].owner] /\ agent[c].owner = ask[c].owner
          BY <4>1, <4>3, <2>p, <1>t DEF QuietAt, AgentInv, Working
        <5>2. Iris(registry[agent[c].owner]) \subseteq agent[c].listed
          BY <5>1, <4>3 DEF QuietAt
        <5>3. \A name \in Names : AnswerOf(name, R, ask[c]) = {}
          <6> SUFFICES ASSUME NEW name \in Names PROVE AnswerOf(name, R, ask[c]) = {}
            OBVIOUS
          <6>1. Answer(name, agent[c], ask[c]) = {}
            BY <4>3 DEF Answer
          <6> QED
            BY <6>1, <5>1, <5>2, AnswersAgree
        <5> QED
          BY <5>3, <2>p, EntitledIsAnswered
      <4>4. ExactInv(c)'
        BY <4>1, <4>3, <2>s DEF ExactInv, QuietAt
      <4> QED
        BY <4>2, <4>4
    <3>3. CASE RunStrategy(c)
      <4> DEFINE k == strategy[c]
                 modes == Answer(Strategies[k], agent[c], ask[c])
      <4>1. /\ pc[c] = "strategies" /\ k \in 1..Len(Strategies) /\ strategy'[c] = k + 1
            /\ result'[c] = modes /\ agent' = agent /\ outage' = outage
            /\ pc'[c] = IF modes # {} THEN "returned" ELSE "strategies"
            /\ agent[c].owner = ask[c].owner
        BY <3>3, <1>t, <1>n DEF RunStrategy, Decides, Types, TypeOK, AgentInv, Working
      <4>2. ASSUME NEW R, QuietAt(c, R)
            PROVE  R = registry[ask[c].owner] /\ modes = AnswerOf(Strategies[k], R, ask[c])
        <5>1. R = registry[ask[c].owner]
          BY <4>2, <2>p DEF QuietAt
        <5> QED
          BY <5>1, <4>1, <4>2, AnswersAgree DEF QuietAt
      <4> HIDE DEF modes
      <4>3. TriedInv(c)'
        <5> SUFFICES ASSUME pc'[c] = "strategies", NEW R, QuietAt(c, R),
                            NEW i \in 1..Len(Strategies), i < k + 1
                     PROVE  AnswerOf(Strategies[i], R, ask[c]) = {}
          BY <4>1, <2>s DEF TriedInv, QuietAt
        <5>1. CASE i = k
          BY <5>1, <4>1, <4>2
        <5>2. CASE i < k
          BY <5>2, <4>1, <1>t DEF TriedInv
        <5> QED
          BY <5>1, <5>2, <4>1, <1>n
      <4>4. ExactInv(c)'
        <5> SUFFICES ASSUME modes # {}, NEW R, QuietAt(c, R)
                     PROVE  modes = Entitled(R, ask[c])
          BY <4>1, <2>s DEF ExactInv, QuietAt
        <5> QED
          BY <4>1, <4>2, <2>p, FirstAnswerIsAll
      <4>5. FreshInv(c)'
        BY <4>1 DEF FreshInv
      <4> QED
        BY <4>3, <4>4, <4>5
    <3>4. CASE NoStrategyLeft(c)
      <4>1. /\ pc[c] = "strategies" /\ strategy[c] > Len(Strategies) /\ pc'[c] = "returned"
            /\ result' = result /\ agent' = agent /\ outage' = outage
        BY <3>4, <1>t DEF NoStrategyLeft, Types, locals
      <4>2. ASSUME NEW R, QuietAt(c, R) PROVE result[c] = Entitled(R, ask[c])
        <5>1. \A i \in 1..Len(Strategies) : AnswerOf(Strategies[i], R, ask[c]) = {}
          <6>1. \A i \in 1..Len(Strategies) : i < strategy[c]
            BY <4>1, <1>t, <1>n DEF TypeOK
          <6> QED
            BY <4>1, <4>2, <6>1, <1>t DEF TriedInv
        <5> QED
          BY <5>1, <2>p, EntitledIsAnswered DEF Names
      <4> QED
        BY <4>1, <4>2, <2>s DEF TriedInv, ExactInv, FreshInv, QuietAt
    <3>5. CASE Fail(c)
      <4>1. outage'[c] /\ (pc'[c] = "returned" \/ pc'[c] = "strategies")
        BY <3>5, <1>t DEF Fail, Types
      <4> QED
        BY <4>1 DEF TriedInv, ExactInv, FreshInv, QuietAt
    <3> QED
      BY <1>2, <3>1, <3>2, <3>3, <3>4, <3>5 DEF Step
  <2> QED
    BY <2>c, <2>d, <2>o DEF QInv
<1>3. ASSUME NEW o \in Owner, ChangeRegistry(o)
      PROVE  QInv'
  <2>1. PICK R \in Registries[o] \ {registry[o]} :
           seen' = [c \in Call |->
                IF Pending(c) /\ ask[c].owner = o THEN seen[c] \cup {R} ELSE seen[c]]
    BY <1>3 DEF ChangeRegistry
  <2>2. /\ pc' = pc /\ ask' = ask /\ agent' = agent /\ strategy' = strategy
        /\ result' = result /\ outage' = outage
    BY <1>3 DEF ChangeRegistry
  <2>3. ASSUME NEW c \in Call, NEW Q, QuietAt(c, Q)'
        PROVE  QuietAt(c, Q)
    <3>1. CASE Pending(c) /\ ask[c].owner = o
      <4>1. registry[o] \in seen[c] /\ seen'[c] = seen[c] \cup {R}
        BY <3>1, <2>1, <1>t DEF PendingInv
      <4> QED
        BY <4>1, <2>1, <2>3 DEF QuietAt
    <3>2. CASE ~(Pending(c) /\ ask[c].owner = o)
      BY <3>2, <2>1, <2>2, <2>3 DEF QuietAt
    <3> QED
      BY <3>1, <3>2
  <2>4. ASSUME NEW c \in Call PROVE TriedInv(c)' /\ ExactInv(c)' /\ FreshInv(c)'
    BY <2>2, <2>3, <1>t DEF TriedInv, ExactInv, FreshInv
  <2> QED
    BY <2>2, <2>4, <1>t DEF QInv
<1>4. CASE UNCHANGED vars
  BY <1>4, <1>t DEF vars, locals, QInv, TriedInv, ExactInv, FreshInv, QuietAt
<1> QED
  BY <1>1, <1>2, <1>3, <1>4 DEF Next

(* QuietCallIsExact: a call during which nothing changes and nothing fails *)
(* returns all that its client is entitled to, whatever the order of the   *)
(* strategies and whoever built the agent.                                 *)
THEOREM NothingIsLost == Spec => []QuietCallIsExact
<1>1. QInv => QuietCallIsExact
  BY DEF QInv, ExactInv, QuietCallIsExact, QuietAt
<1> QED
  BY <1>1, QuietInit, QuietStep, TypeInit, TypeStep, Invariance, PTL DEF Spec


-----------------------------------------------------------------------------
(***************************************************************************)
(* The authorizer implements Consultation: the strategy that answers, or   *)
(* the return without modes, is the one moment that counts.                *)
(***************************************************************************)
open == [c \in Call |-> Pending(c)]

(* Whatever the agent lists, it either knows the registration of the       *)
(* client or none; so what a strategy answers is all that there is.        *)
LEMMA AnswerIsAll ==
  ASSUME NEW i \in 1..Len(Strategies), NEW a, NEW q,
         registry[a.owner] \in AllRegistries, Answer(Strategies[i], a, q) # {}
  PROVE  Answer(Strategies[i], a, q) = Entitled(registry[a.owner], q)
<1> DEFINE R == registry[a.owner]
<1>1. Found(a, q) # {} /\ Found(a, q) \subseteq ClientsOf(R, q)
  BY DEF Answer, Found, Listed, ClientsOf
<1>2. \A r, s \in ClientsOf(R, q) : r = s
  BY RegistryAssumption DEF ClientsOf
<1>3. Found(a, q) = ClientsOf(R, q)
  BY <1>1, <1>2
<1>4. Answer(Strategies[i], a, q) = AnswerOf(Strategies[i], R, q)
  BY <1>3 DEF Answer, AnswerOf
<1> QED
  BY <1>4, FirstAnswerIsAll

LEMMA ConsultInit == Init => K!Init
BY DEF Init, K!Init, Pending

LEMMA ConsultStep ==
  ASSUME IInv, TInv, [Next]_vars
  PROVE  [K!Next]_(K!vars)
<1>t. /\ Types /\ TypeOK
      /\ \A d \in Call : PendingInv(d) /\ AgentInv(d)
  BY DEF IInv, CallInv, TInv
<1>n. Len(Strategies) \in Nat
  BY NamesOfStrategies
<1>1. ASSUME NEW c \in Call, NEW q \in Ask, Authorize(c, q)
      PROVE  K!AskFor(c, q)
  <2>1. ~Pending(c) /\ ask' = [ask EXCEPT ![c] = q] /\ result' = [result EXCEPT ![c] = {}]
        /\ registry' = registry
    BY <1>1 DEF Authorize, Pending
  <2>2. open' \in {open, [open EXCEPT ![c] = TRUE]}
    <3>1. pc' = [pc EXCEPT ![c] = "returned"] \/ pc' = [pc EXCEPT ![c] = "agent"]
      BY <1>1 DEF Authorize
    <3> QED
      BY <3>1, <2>1, <1>t DEF open, Pending, Types
  <2> QED
    BY <2>1, <2>2 DEF K!AskFor, open
<1>2. ASSUME NEW c \in Call, Step(c) \/ Fail(c)
      PROVE  K!Decide(c) \/ UNCHANGED K!vars
  <2>s. registry' = registry /\ ask' = ask
    BY <1>2 DEF Step, Fail, CachedAgent, BuildAgent, CacheAgent, CheckRegistration,
                RunStrategy, NoStrategyLeft, locals
  <2>p. /\ Pending(c) /\ result[c] = {}
        /\ registry[ask[c].owner] \in AllRegistries
    BY <1>t, <1>2, AskAssumption DEF PendingInv, Pending, Step, Fail, CachedAgent,
       BuildAgent, CacheAgent, CheckRegistration, RunStrategy, NoStrategyLeft,
       TypeOK, AllRegistries
  <2>c. \E l \in PC : pc' = [pc EXCEPT ![c] = l]
    BY <1>2, <1>t DEF Step, Fail, CachedAgent, BuildAgent, CacheAgent, CheckRegistration,
                RunStrategy, NoStrategyLeft, locals, PC, Types
  <2>r. \E modes \in {Entitled(registry[ask[c].owner], ask[c]), {}} :
          /\ result' = [result EXCEPT ![c] = modes]
          /\ modes = {} \/ pc'[c] = "returned"
    <3>1. CASE RunStrategy(c)
      <4> DEFINE modes == Answer(Strategies[strategy[c]], agent[c], ask[c])
      <4>1. /\ strategy[c] \in 1..Len(Strategies) /\ agent[c].owner = ask[c].owner
            /\ result' = [result EXCEPT ![c] = modes]
            /\ pc'[c] = IF modes # {} THEN "returned" ELSE "strategies"
        BY <3>1, <1>t, <1>n DEF RunStrategy, Decides, Types, TypeOK, AgentInv, Working
      <4>2. modes # {} => modes = Entitled(registry[ask[c].owner], ask[c])
        <5> SUFFICES ASSUME modes # {}
                     PROVE  modes = Entitled(registry[ask[c].owner], ask[c])
          OBVIOUS
        <5>1. registry[agent[c].owner] \in AllRegistries
          BY <4>1, <2>p
        <5>2. modes = Entitled(registry[agent[c].owner], ask[c])
          BY <5>1, <4>1, AnswerIsAll
        <5> QED
          BY <5>2, <4>1
      <4> HIDE DEF modes
      <4> QED
        BY <4>1, <4>2
    <3>2. CASE ~RunStrategy(c)
      <4>1. result' = result
        BY <3>2, <1>2 DEF Step, Fail, CachedAgent, BuildAgent, CacheAgent,
                          CheckRegistration, NoStrategyLeft, locals
      <4>2. result' = [result EXCEPT ![c] = {}]
        BY <4>1, <2>p, <1>t DEF Types
      <4> QED
        BY <4>2
    <3> QED
      BY <3>1, <3>2
  <2>1. CASE pc'[c] = "returned"
    <3>1. Pending(c)' = FALSE /\ \A d \in Call : d # c => Pending(d)' = Pending(d)
      BY <2>1, <2>c, <1>t DEF Pending, Types
    <3>2. open' = [open EXCEPT ![c] = FALSE]
      BY <3>1 DEF open
    <3> QED
      BY <3>2, <2>s, <2>p, <2>r DEF K!Decide, open
  <2>2. CASE pc'[c] # "returned"
    <3>1. result' = result
      BY <2>2, <2>r, <2>p, <1>t DEF Types
    <3>2. Pending(c)'
      BY <2>2, <1>2, <1>t DEF Step, Fail, CachedAgent, BuildAgent, CacheAgent,
         CheckRegistration, RunStrategy, NoStrategyLeft, Pending, Types
    <3>3. \A d \in Call : Pending(d)' = Pending(d)
      BY <3>2, <2>p, <2>c, <1>t DEF Pending, Types
    <3>4. open' = open
      BY <3>3 DEF open
    <3> QED
      BY <3>1, <3>4, <2>s DEF K!vars, open
  <2> QED
    BY <2>1, <2>2
<1>3. ASSUME NEW o \in Owner, ChangeRegistry(o)
      PROVE  K!ChangeRegistry(o)
  <2>1. open' = open
    BY <1>3 DEF ChangeRegistry, open, Pending
  <2> QED
    BY <1>3, <2>1 DEF ChangeRegistry, K!ChangeRegistry, open
<1>4. CASE UNCHANGED vars
  <2>1. open' = open
    BY <1>4 DEF vars, open, Pending
  <2> QED
    BY <1>4, <2>1 DEF vars, locals, K!vars, open
<1> QED
  BY <1>1, <1>2, <1>3, <1>4 DEF Next, K!Next

(* ConsultedAtOnce: with all its caching, retrying and reading, a call of  *)
(* the authorizer decides at one moment, on what the owner grants then.    *)
THEOREM ImplementsConsultation == Spec => ConsultedAtOnce
<1>1. IInv /\ TInv /\ [Next]_vars => [K!Next]_(K!vars)
  BY ConsultStep
<1> QED
  BY <1>1, ConsultInit, TypeInit, TypeStep, Invariance, PTL
     DEF Spec, ConsultedAtOnce, K!Spec

=============================================================================
