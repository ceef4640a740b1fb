-------------------- MODULE RegistrationDiscovery_proofs --------------------
(***************************************************************************)
(* Proofs about RegistrationDiscovery, for any number of calls, owners and *)
(* registrations and any size of the cache: that the cached agents stay    *)
(* one per owner, that nothing is discovered that the owner did not have   *)
(* during the call, and that nobody registered ever since the agent was    *)
(* built is sent away.                                                     *)
(***************************************************************************)
EXTENDS RegistrationDiscovery, SequenceTheorems, TLAPS

(***************************************************************************)
(* The cache has one agent per owner and never outgrows its capacity.      *)
(***************************************************************************)
Agents == Seq(Agent)
OnePerOwner(s) == \A i, j \in 1..Len(s) : s[i].owner = s[j].owner => i = j
Among(s, t) == \A k \in 1..Len(s) : \E n \in 1..Len(t) : s[k] = t[n]

(* Others takes out the agent of the owner, if there is one.               *)
LEMMA OthersLemma ==
  ASSUME cache \in Agents, OnePerOwner(cache), NEW o
  PROVE  /\ Others(o) \in Agents
         /\ OnePerOwner(Others(o))
         /\ \A k \in 1..Len(Others(o)) : Others(o)[k].owner # o
         /\ Len(Others(o)) <= Len(cache)
         /\ Position(o) # {} => Len(Others(o)) + 1 = Len(cache)
         /\ Among(Others(o), cache)
<1>t. Len(cache) \in Nat /\ \A k \in 1..Len(cache) : cache[k] \in Agent
  BY LenProperties, ElementOfSeq DEF Agents
<1>1. CASE Position(o) = {}
  BY <1>1, <1>t DEF Others, Position, Among
<1>2. CASE Position(o) # {}
  <2> DEFINE i == CHOOSE i \in Position(o) : TRUE
             s == SubSeq(cache, 1, i - 1)
             t == SubSeq(cache, i + 1, Len(cache))
  <2>1. i \in 1..Len(cache) /\ cache[i].owner = o
    BY <1>2 DEF Position
  <2>2. Others(o) = s \o t
    BY <1>2 DEF Others
  <2> HIDE DEF i
  <2>3. /\ s \in Agents /\ Len(s) = i - 1
        /\ \A k \in 1..(i - 1) : s[k] = cache[k]
    <3>1. /\ SubSeq(cache, 1, i - 1) \in Agents
          /\ Len(SubSeq(cache, 1, i - 1)) = IF 1 <= i - 1 THEN (i - 1) - 1 + 1 ELSE 0
          /\ \A k \in 1..((i - 1) - 1 + 1) : SubSeq(cache, 1, i - 1)[k] = cache[1 + k - 1]
      BY <2>1, <1>t, SubSeqProperties DEF Agents
    <3> QED
      BY <3>1, <2>1, <1>t
  <2>4. /\ t \in Agents /\ Len(t) = Len(cache) - i
        /\ \A k \in 1..(Len(cache) - i) : t[k] = cache[i + k]
    <3>1. /\ SubSeq(cache, i + 1, Len(cache)) \in Agents
          /\ Len(SubSeq(cache, i + 1, Len(cache)))
                = IF i + 1 <= Len(cache) THEN Len(cache) - (i + 1) + 1 ELSE 0
          /\ \A k \in 1..(Len(cache) - (i + 1) + 1) :
                SubSeq(cache, i + 1, Len(cache))[k] = cache[(i + 1) + k - 1]
      BY <2>1, <1>t, SubSeqProperties DEF Agents
    <3> QED
      BY <3>1, <2>1, <1>t
  <2> HIDE DEF s, t
  <2>5. /\ s \o t \in Agents
        /\ Len(s \o t) = Len(cache) - 1
        /\ \A k \in 1..(Len(cache) - 1) :
             (s \o t)[k] = IF k <= i - 1 THEN s[k] ELSE t[k - (i - 1)]
    <3>1. /\ s \o t \in Agents
          /\ Len(s \o t) = Len(s) + Len(t)
          /\ \A k \in 1..(Len(s) + Len(t)) :
               (s \o t)[k] = IF k <= Len(s) THEN s[k] ELSE t[k - Len(s)]
      BY <2>3, <2>4, ConcatProperties DEF Agents
    <3> QED
      BY <3>1, <2>3, <2>4, <2>1, <1>t
  <2>6. \A k \in 1..(Len(cache) - 1) :
          (s \o t)[k] = cache[IF k <= i - 1 THEN k ELSE k + 1]
    BY <2>3, <2>4, <2>5, <2>1, <1>t
  <2>7. \A k \in 1..(Len(cache) - 1) : (s \o t)[k].owner # o
    <3> SUFFICES ASSUME NEW k \in 1..(Len(cache) - 1) PROVE (s \o t)[k].owner # o
      OBVIOUS
    <3> DEFINE n == IF k <= i - 1 THEN k ELSE k + 1
    <3>1. n \in 1..Len(cache) /\ n # i
      BY <2>1, <1>t
    <3>2. (s \o t)[k] = cache[n]
      BY <2>6
    <3> QED
      BY <3>1, <3>2, <2>1 DEF OnePerOwner
  <2>8. OnePerOwner(s \o t)
    <3> SUFFICES ASSUME NEW k \in 1..(Len(cache) - 1), NEW l \in 1..(Len(cache) - 1),
                        (s \o t)[k].owner = (s \o t)[l].owner
                 PROVE  k = l
      BY <2>5 DEF OnePerOwner
    <3> DEFINE n == IF k <= i - 1 THEN k ELSE k + 1
               m == IF l <= i - 1 THEN l ELSE l + 1
    <3>1. n \in 1..Len(cache) /\ m \in 1..Len(cache)
      BY <2>1, <1>t
    <3>2. cache[n].owner = cache[m].owner
      BY <2>6
    <3>3. n = m
      BY <3>1, <3>2 DEF OnePerOwner
    <3> QED
      BY <3>3, <2>1, <1>t
  <2>9. Among(s \o t, cache)
    <3> SUFFICES ASSUME NEW k \in 1..(Len(cache) - 1)
                 PROVE  \E n \in 1..Len(cache) : (s \o t)[k] = cache[n]
      BY <2>5 DEF Among
    <3>1. (IF k <= i - 1 THEN k ELSE k + 1) \in 1..Len(cache)
      BY <2>1, <1>t
    <3> QED
      BY <3>1, <2>6
  <2> QED
    BY <2>2, <2>5, <2>7, <2>8, <2>9, <1>t
<1> QED
  BY <1>1, <1>2

(* Putting the agent of an owner last leaves one agent per owner.          *)
LEMMA AppendLemma ==
  ASSUME NEW s \in Agents, OnePerOwner(s), NEW a \in Agent,
         \A k \in 1..Len(s) : s[k].owner # a.owner
  PROVE  /\ Append(s, a) \in Agents
         /\ Len(Append(s, a)) = Len(s) + 1
         /\ OnePerOwner(Append(s, a))
         /\ \A k \in 1..(Len(s) + 1) :
              Append(s, a)[k] = a \/ \E n \in 1..Len(s) : Append(s, a)[k] = s[n]
<1>1. /\ Append(s, a) \in Agents /\ Len(Append(s, a)) = Len(s) + 1
      /\ \A i \in 1..Len(s) : Append(s, a)[i] = s[i]
      /\ Append(s, a)[Len(s) + 1] = a
      /\ Len(s) \in Nat
  BY AppendProperties, LenProperties DEF Agents
<1> QED
  BY <1>1 DEF OnePerOwner

(* Evicting the least recently used agent keeps to the capacity.           *)
LEMMA KeptLemma ==
  ASSUME NEW s \in Agents, OnePerOwner(s), Len(s) <= Capacity + 1
  PROVE  /\ Kept(s) \in Agents /\ Len(Kept(s)) <= Capacity /\ OnePerOwner(Kept(s))
         /\ Among(Kept(s), s)
<1>t. Len(s) \in Nat /\ Capacity \in Nat /\ Capacity >= 1
  BY LenProperties, CapacityAssumption DEF Agents
<1>1. CASE Len(s) <= Capacity
  BY <1>1, <1>t DEF Kept, Among
<1>2. CASE Len(s) > Capacity
  <2>1. s # <<>>
    BY <1>2, <1>t
  <2>2. /\ Tail(s) \in Agents /\ Len(Tail(s)) = Len(s) - 1
        /\ \A i \in 1..Len(Tail(s)) : Tail(s)[i] = s[i + 1]
    BY <2>1, HeadTailProperties DEF Agents
  <2>3. OnePerOwner(Tail(s))
    <3> SUFFICES ASSUME NEW i \in 1..Len(Tail(s)), NEW j \in 1..Len(Tail(s)),
                        Tail(s)[i].owner = Tail(s)[j].owner
                 PROVE  i = j
      BY DEF OnePerOwner
    <3>1. i + 1 \in 1..Len(s) /\ j + 1 \in 1..Len(s) /\ s[i + 1].owner = s[j + 1].owner
      BY <2>2, <1>t
    <3>2. i + 1 = j + 1
      BY <3>1 DEF OnePerOwner
    <3> QED
      BY <3>2, <2>2, <1>t
  <2>4. Among(Tail(s), s)
    <3> SUFFICES ASSUME NEW k \in 1..Len(Tail(s))
                 PROVE  \E n \in 1..Len(s) : Tail(s)[k] = s[n]
      BY DEF Among
    <3> QED
      BY <2>2, <1>t
  <2> QED
    BY <1>2, <1>t, <2>2, <2>3, <2>4 DEF Kept
<1> QED
  BY <1>1, <1>2, <1>t

-----------------------------------------------------------------------------
(* What an agent is sure of: the registrations that have been there since  *)
(* it was built are there still, and it lists them.                        *)
Sound(a) == a.steady \subseteq registry[a.owner] /\ Iris(a.steady) \subseteq a.listed

Working(c) == pc[c] \in {"build", "registration"}

Types ==
    /\ registry = [o \in Owner |-> registry[o]]
    /\ seen = [c \in Call |-> seen[c]]

(* A pending call asks about an owner, whose present registrations it has  *)
(* seen; the agent it works with is a sound agent of that owner.           *)
PendingInv(c) ==
    pc[c] # "idle" =>
        /\ ask[c] \in Ask /\ ask[c].owner \in Owner
        /\ registry[ask[c].owner] \in seen[c]
AgentInv(c) ==
    /\ Working(c) => agent[c] \in Agent /\ agent[c].owner = ask[c].owner
    /\ agent[c] # None => Sound(agent[c])
CacheInv == \A i \in 1..Len(cache) : Sound(cache[i])

IInv == TypeOK /\ Types /\ CacheInv /\ \A c \in Call : PendingInv(c) /\ AgentInv(c)


LEMMA InitInv == Init => IInv
<1> SUFFICES ASSUME Init PROVE IInv
  OBVIOUS
<1>1. <<>> \in Agents /\ Len(<<>>) = 0
  BY EmptySeq DEF Agents
<1>2. 0 <= Capacity
  BY CapacityAssumption
<1> QED
  BY <1>1, <1>2 DEF Init, IInv, TypeOK, Types, CacheInv, PendingInv, AgentInv, Working,
                    PC, Agents

(* A new agent lists what there is.                                        *)
LEMMA NewAgent ==
  ASSUME TypeOK, NEW o \in Owner
  PROVE  AgentOf(o) \in Agent /\ AgentOf(o).owner = o /\ Sound(AgentOf(o))
<1>1. registry[o] \subseteq AllRegistrations
  BY DEF TypeOK, AllRegistrations
<1> QED
  BY <1>1 DEF AgentOf, Agent, Sound, Iris

(* A change of the registrations leaves an agent sure of what remains.     *)
LEMMA SteadiedLemma ==
  ASSUME TypeOK, Types, NEW o \in Owner, ChangeRegistry(o), NEW a \in Agent, Sound(a)
  PROVE  /\ Steadied(a, o) \in Agent
         /\ Steadied(a, o).owner = a.owner
         /\ Steadied(a, o).steady \subseteq registry'[a.owner]
         /\ Iris(Steadied(a, o).steady) \subseteq Steadied(a, o).listed
<1>1. a # None
  BY NoneAssumption
<1>2. CASE a.owner = o
  <2>1. Steadied(a, o) = [owner |-> a.owner, listed |-> a.listed,
                          steady |-> a.steady \cap registry'[o]]
    BY <1>1, <1>2 DEF Steadied, Agent
  <2> QED
    BY <2>1, <1>2 DEF Agent, Sound, Iris
<1>3. CASE a.owner # o
  <2>1. Steadied(a, o) = a
    BY <1>3 DEF Steadied
  <2>2. registry'[a.owner] = registry[a.owner]
    BY <1>3 DEF ChangeRegistry, Types, Agent
  <2> QED
    BY <2>1, <2>2 DEF Sound
<1> QED
  BY <1>2, <1>3


(* The invariant of a call is about that call and the registrations.       *)
LEMMA OtherCalls ==
  ASSUME NEW d \in Call, PendingInv(d), AgentInv(d),
         registry' = registry, pc'[d] = pc[d], ask'[d] = ask[d],
         agent'[d] = agent[d], seen'[d] = seen[d]
  PROVE  PendingInv(d)' /\ AgentInv(d)'
BY DEF PendingInv, AgentInv, Working, Sound

(* Whatever a call returns, it leaves nothing behind.                      *)
LEMMA ReturnLemma ==
  ASSUME IInv, NEW c \in Call, NEW response \in Response,
         Return(c, response), registry' = registry
  PROVE  /\ pc' \in [Call -> PC] /\ ask' \in [Call -> Ask \cup {None}]
         /\ agent' \in [Call -> Agent \cup {None}]
         /\ answer' \in [Call -> Response \cup {None}]
         /\ seen' = [d \in Call |-> seen'[d]]
         /\ \A d \in Call : PendingInv(d)' /\ AgentInv(d)'
<1>1. /\ pc' \in [Call -> PC] /\ ask' \in [Call -> Ask \cup {None}]
      /\ agent' \in [Call -> Agent \cup {None}]
      /\ answer' \in [Call -> Response \cup {None}]
      /\ seen' = [d \in Call |-> seen'[d]]
  BY DEF IInv, TypeOK, Types, PC, Return
<1>2. pc'[c] = "idle" /\ agent'[c] = None
  BY DEF IInv, TypeOK, Return
<1>3. ASSUME NEW d \in Call, d # c PROVE PendingInv(d)' /\ AgentInv(d)'
  BY <1>3, OtherCalls DEF IInv, TypeOK, Types, Return
<1> QED
  BY <1>1, <1>2, <1>3 DEF PendingInv, AgentInv, Working

(* Once there is a sound agent of the owner, the call goes on with it.     *)
LEMMA GoOnLemma ==
  ASSUME IInv, NEW c \in Call, pc[c] # "idle", NEW a \in Agent,
         a.owner = ask[c].owner, Sound(a), GoOnWith(c, a), registry' = registry
  PROVE  /\ pc' \in [Call -> PC] /\ ask' \in [Call -> Ask \cup {None}]
         /\ agent' \in [Call -> Agent \cup {None}]
         /\ answer' \in [Call -> Response \cup {None}]
         /\ seen' = [d \in Call |-> seen'[d]]
         /\ \A d \in Call : PendingInv(d)' /\ AgentInv(d)'
<1>1. CASE Client(ask[c]) = None
  <2>1. Return(c, Denied(401)) /\ Denied(401) \in Response
    BY <1>1 DEF GoOnWith, Response
  <2> QED
    BY <2>1, ReturnLemma
<1>2. CASE Client(ask[c]) # None
  <2>1. /\ pc' = [pc EXCEPT ![c] = "registration"]
        /\ agent' = [agent EXCEPT ![c] = a]
        /\ ask' = ask /\ answer' = answer /\ seen' = seen
    BY <1>2 DEF GoOnWith
  <2>2. /\ pc' \in [Call -> PC] /\ ask' \in [Call -> Ask \cup {None}]
        /\ agent' \in [Call -> Agent \cup {None}]
        /\ answer' \in [Call -> Response \cup {None}]
        /\ seen' = [d \in Call |-> seen'[d]]
    BY <2>1 DEF IInv, TypeOK, Types, PC
  <2>3. PendingInv(c)' /\ AgentInv(c)'
    <3>1. pc'[c] = "registration" /\ agent'[c] = a
      BY <2>1 DEF IInv, TypeOK
    <3>2. PendingInv(c)
      BY DEF IInv
    <3> QED
      BY <2>1, <3>1, <3>2 DEF PendingInv, AgentInv, Sound
  <2>4. ASSUME NEW d \in Call, d # c PROVE PendingInv(d)' /\ AgentInv(d)'
    BY <2>1, <2>4, OtherCalls DEF IInv, TypeOK, Types
  <2> QED
    BY <2>2, <2>3, <2>4
<1> QED
  BY <1>1, <1>2


(* The cache stays one of sound agents, one per owner, within capacity.    *)
CacheGood ==
    /\ cache \in Agents /\ Len(cache) <= Capacity /\ OnePerOwner(cache)
    /\ \A i \in 1..Len(cache) : Sound(cache[i])

LEMMA CacheGoodLemma == IInv => CacheGood
BY DEF IInv, TypeOK, CacheInv, CacheGood, Agents, OnePerOwner

(* It stays so when the agent of an owner is put last, whether it was in   *)
(* the cache already or not, and one too many is evicted.                  *)
LEMMA PutLemma ==
  ASSUME CacheGood, NEW a \in Agent, Sound(a)
  PROVE  LET s == Append(Others(a.owner), a)
         IN  /\ Kept(s) \in Agents /\ Len(Kept(s)) <= Capacity /\ OnePerOwner(Kept(s))
             /\ \A k \in 1..Len(Kept(s)) : Sound(Kept(s)[k])
             /\ Position(a.owner) # {} => Kept(s) = s
<1> DEFINE o == a.owner
           s == Append(Others(o), a)
<1>1. /\ Others(o) \in Agents /\ OnePerOwner(Others(o))
      /\ \A k \in 1..Len(Others(o)) : Others(o)[k].owner # o
      /\ Len(Others(o)) <= Len(cache)
      /\ Position(o) # {} => Len(Others(o)) + 1 = Len(cache)
      /\ Among(Others(o), cache)
  BY OthersLemma DEF CacheGood
<1>2. /\ s \in Agents /\ Len(s) = Len(Others(o)) + 1 /\ OnePerOwner(s)
      /\ \A k \in 1..(Len(Others(o)) + 1) :
           s[k] = a \/ \E n \in 1..Len(Others(o)) : s[k] = Others(o)[n]
  BY <1>1, AppendLemma
<1> HIDE DEF s
<1>n. Len(Others(o)) \in Nat /\ Len(cache) \in Nat /\ Capacity \in Nat /\ Len(s) \in Nat
      /\ Len(cache) <= Capacity
  BY <1>1, <1>2, LenProperties, CapacityAssumption DEF CacheGood, Agents
<1>3. \A k \in 1..Len(s) : Sound(s[k])
  <2> SUFFICES ASSUME NEW k \in 1..Len(s) PROVE Sound(s[k])
    OBVIOUS
  <2>1. CASE s[k] = a
    BY <2>1
  <2>2. ASSUME NEW n \in 1..Len(Others(o)), s[k] = Others(o)[n] PROVE Sound(s[k])
    <3>1. PICK m \in 1..Len(cache) : Others(o)[n] = cache[m]
      BY <1>1 DEF Among
    <3> QED
      BY <3>1, <2>2 DEF CacheGood
  <2> QED
    BY <1>2, <2>1, <2>2
<1>4. Len(s) <= Capacity + 1
  BY <1>1, <1>2, <1>n
<1>5. Kept(s) \in Agents /\ Len(Kept(s)) <= Capacity /\ OnePerOwner(Kept(s))
      /\ Among(Kept(s), s)
  BY <1>2, <1>4, KeptLemma
<1>6. \A k \in 1..Len(Kept(s)) : Sound(Kept(s)[k])
  BY <1>3, <1>5 DEF Among
<1>7. Position(o) # {} => Kept(s) = s
  BY <1>1, <1>2, <1>n DEF Kept
<1> QED
  BY <1>5, <1>6, <1>7 DEF s

(* A step that leaves the registrations alone is one of a single call: it  *)
(* keeps the invariant if it does so for the cache and for the calls.      *)
LEMMA CallStep ==
  ASSUME IInv, registry' = registry, CacheGood',
         pc' \in [Call -> PC], ask' \in [Call -> Ask \cup {None}],
         agent' \in [Call -> Agent \cup {None}], answer' \in [Call -> Response \cup {None}],
         seen' = [d \in Call |-> seen'[d]],
         \A d \in Call : PendingInv(d)' /\ AgentInv(d)'
  PROVE  IInv'
BY DEF IInv, TypeOK, Types, CacheInv, CacheGood, Agents, OnePerOwner

LEMMA SameCache ==
  ASSUME CacheGood, cache' = cache, registry' = registry
  PROVE  CacheGood'
BY DEF CacheGood, Sound

LEMMA DiscoverStep ==
  ASSUME IInv, NEW c \in Call, NEW q \in Ask, Discover(c, q)
  PROVE  IInv'
<1>s. registry' = registry /\ cache' = cache
  BY DEF Discover
<1>c. CacheGood'
  BY <1>s, CacheGoodLemma, SameCache
<1>1. CASE Refusal(q) # None
  <2>1. Refusal(q) \in Response
    BY <1>1 DEF Refusal, Response, Header
  <2>2. Return(c, Refusal(q))
    BY <1>1 DEF Discover
  <2> QED
    BY <1>s, <1>c, <2>1, <2>2, ReturnLemma, CallStep
<1>2. CASE Refusal(q) = None
  <2>1. /\ pc' = [pc EXCEPT ![c] = "token"] /\ ask' = [ask EXCEPT ![c] = q]
        /\ answer' = [answer EXCEPT ![c] = None] /\ agent' = agent
        /\ seen' = [seen EXCEPT ![c] = {registry[q.owner]}]
    BY <1>2 DEF Discover
  <2>2. q.owner \in Owner
    <3>1. \A s \in {401, 403, 404, 500, 501} : Denied(s) # None
      BY NoneAssumption DEF Response
    <3> QED
      BY <1>2, <3>1, AskAssumption DEF Refusal, NotOfAnAgent
  <2>3. /\ pc' \in [Call -> PC] /\ ask' \in [Call -> Ask \cup {None}]
        /\ agent' \in [Call -> Agent \cup {None}]
        /\ answer' \in [Call -> Response \cup {None}]
        /\ seen' = [d \in Call |-> seen'[d]]
    BY <2>1 DEF IInv, TypeOK, Types, PC
  <2>4. PendingInv(c)' /\ AgentInv(c)'
    <3>1. pc'[c] = "token" /\ ask'[c] = q /\ seen'[c] = {registry[q.owner]}
      BY <2>1 DEF IInv, TypeOK, Types
    <3>2. AgentInv(c)
      BY DEF IInv
    <3> QED
      BY <1>s, <2>1, <2>2, <3>1, <3>2 DEF PendingInv, AgentInv, Working, Sound
  <2>5. ASSUME NEW d \in Call, d # c PROVE PendingInv(d)' /\ AgentInv(d)'
    BY <1>s, <2>1, <2>5, OtherCalls DEF IInv, TypeOK, Types
  <2> QED
    BY <1>s, <1>c, <2>3, <2>4, <2>5, CallStep
<1> QED
  BY <1>1, <1>2

LEMMA WorkStep ==
  ASSUME IInv, NEW c \in Call, Step(c)
  PROVE  IInv'
<1>s. registry' = registry
  BY DEF Step, Authenticate, CachedAgent, BuildAgent, CacheAgent, FindRegistration
<1>g. CacheGood
  BY CacheGoodLemma
<1>p. pc[c] # "idle" /\ ask[c] \in Ask /\ ask[c].owner \in Owner
  BY DEF IInv, PendingInv, Step, Authenticate, CachedAgent, BuildAgent, CacheAgent,
         FindRegistration
<1>d. \A status \in {401, 403, 404, 500, 501} : Denied(status) \in Response
  BY DEF Response
<1>1. CASE Authenticate(c)
  <2>c. CacheGood'
    BY <1>1, <1>s, <1>g, SameCache DEF Authenticate
  <2>1. CASE Return(c, Denied(401))
    BY <1>s, <1>d, <2>c, <2>1, ReturnLemma, CallStep
  <2>2. CASE Goto(c, "agent")
    <3>1. /\ pc' = [pc EXCEPT ![c] = "agent"]
          /\ ask' = ask /\ agent' = agent /\ answer' = answer /\ seen' = seen
      BY <2>2 DEF Goto
    <3>2. /\ pc' \in [Call -> PC] /\ ask' \in [Call -> Ask \cup {None}]
          /\ agent' \in [Call -> Agent \cup {None}]
          /\ answer' \in [Call -> Response \cup {None}]
          /\ seen' = [d \in Call |-> seen'[d]]
      BY <3>1 DEF IInv, TypeOK, Types, PC
    <3>3. PendingInv(c)' /\ AgentInv(c)'
      <4>1. pc'[c] = "agent" /\ PendingInv(c) /\ AgentInv(c)
        BY <3>1 DEF IInv, TypeOK
      <4> QED
        BY <1>s, <1>p, <3>1, <4>1 DEF PendingInv, AgentInv, Working, Sound
    <3>4. ASSUME NEW d \in Call, d # c PROVE PendingInv(d)' /\ AgentInv(d)'
      BY <1>s, <3>1, <3>4, OtherCalls DEF IInv, TypeOK
    <3> QED
      BY <1>s, <2>c, <3>2, <3>3, <3>4, CallStep
  <2> QED
    BY <1>1, <2>1, <2>2 DEF Authenticate
<1>2. CASE CachedAgent(c)
  <2> DEFINE o == ask[c].owner
  <2>1. PICK i \in Position(o) : /\ cache' = Append(Others(o), cache[i])
                                 /\ GoOnWith(c, cache[i])
    BY <1>2 DEF CachedAgent
  <2>2. PICK a \in Agent : a = cache[i] /\ a.owner = o /\ Sound(a)
    <3>1. i \in 1..Len(cache) /\ cache[i].owner = o
      BY DEF Position
    <3>2. cache[i] \in Agent
      BY <1>g, <3>1, ElementOfSeq DEF CacheGood, Agents
    <3> QED
      BY <1>g, <3>1, <3>2 DEF CacheGood
  <2>3. CacheGood'
    <3>1. Position(a.owner) # {}
      BY <2>2
    <3>2. Kept(Append(Others(a.owner), a)) = Append(Others(a.owner), a)
      BY <1>g, <2>2, <3>1, PutLemma
    <3> QED
      BY <1>g, <1>s, <2>1, <2>2, <3>2, PutLemma DEF CacheGood, Sound
  <2> QED
    BY <1>s, <1>p, <2>1, <2>2, <2>3, GoOnLemma, CallStep
<1>3. CASE BuildAgent(c)
  <2>c. CacheGood'
    BY <1>3, <1>s, <1>g, SameCache DEF BuildAgent
  <2>1. CASE Return(c, Denied(404))
    BY <1>s, <1>d, <2>c, <2>1, ReturnLemma, CallStep
  <2>2. CASE /\ pc' = [pc EXCEPT ![c] = "build"]
             /\ agent' = [agent EXCEPT ![c] = AgentOf(ask[c].owner)]
             /\ UNCHANGED <<ask, answer, seen>>
    <3>1. PICK a \in Agent : a = AgentOf(ask[c].owner) /\ a.owner = ask[c].owner /\ Sound(a)
      BY <1>p, NewAgent DEF IInv
    <3>2. /\ pc' \in [Call -> PC] /\ ask' \in [Call -> Ask \cup {None}]
          /\ agent' \in [Call -> Agent \cup {None}]
          /\ answer' \in [Call -> Response \cup {None}]
          /\ seen' = [d \in Call |-> seen'[d]]
      BY <2>2, <3>1 DEF IInv, TypeOK, Types, PC
    <3>3. PendingInv(c)' /\ AgentInv(c)'
      <4>1. pc'[c] = "build" /\ agent'[c] = a /\ PendingInv(c)
        BY <2>2, <3>1 DEF IInv, TypeOK
      <4> QED
        BY <1>s, <1>p, <2>2, <3>1, <4>1 DEF PendingInv, AgentInv, Working, Sound
    <3>4. ASSUME NEW d \in Call, d # c PROVE PendingInv(d)' /\ AgentInv(d)'
      BY <1>s, <2>2, <3>4, OtherCalls DEF IInv, TypeOK
    <3> QED
      BY <1>s, <2>c, <3>2, <3>3, <3>4, CallStep
  <2> QED
    BY <1>3, <2>1, <2>2 DEF BuildAgent
<1>4. CASE CacheAgent(c)
  <2>1. PICK a \in Agent : a = agent[c] /\ a.owner = ask[c].owner /\ Sound(a)
    <3>1. AgentInv(c) /\ pc[c] = "build"
      BY <1>4 DEF IInv, CacheAgent
    <3>2. agent[c] \in Agent /\ agent[c] # None
      BY <3>1, NoneAssumption DEF AgentInv, Working
    <3> QED
      BY <3>1, <3>2 DEF AgentInv, Working
  <2>2. cache' = Kept(Append(Others(a.owner), a)) /\ GoOnWith(c, a)
    BY <1>4, <2>1 DEF CacheAgent
  <2>3. CacheGood'
    BY <1>g, <1>s, <2>1, <2>2, PutLemma DEF CacheGood, Sound
  <2> QED
    BY <1>s, <1>p, <2>1, <2>2, <2>3, GoOnLemma, CallStep
<1>5. CASE FindRegistration(c)
  <2>c. CacheGood'
    BY <1>5, <1>s, <1>g, SameCache DEF FindRegistration
  <2>1. PICK response \in Responses(Found(agent[c], ask[c])) : Return(c, response)
    BY <1>5 DEF FindRegistration
  <2>2. Found(agent[c], ask[c]) \subseteq AllRegistrations
    <3>1. AgentInv(c) /\ pc[c] = "registration"
      BY <1>5 DEF IInv, FindRegistration
    <3>2. agent[c].owner \in Owner
      BY <3>1 DEF AgentInv, Working, Agent
    <3> QED
      BY <3>2 DEF IInv, TypeOK, Found, AllRegistrations
  <2>3. response \in Response
    BY <2>2 DEF Responses, RegistrationRequired, Response
  <2> QED
    BY <1>s, <2>c, <2>1, <2>3, ReturnLemma, CallStep
<1> QED
  BY <1>1, <1>2, <1>3, <1>4, <1>5 DEF Step

LEMMA ChangeStep ==
  ASSUME IInv, NEW o \in Owner, ChangeRegistry(o)
  PROVE  IInv'
<1>1. PICK R \in Registries[o] : registry' = [registry EXCEPT ![o] = R]
  BY DEF ChangeRegistry
<1>2. /\ \A p \in Owner : registry'[p] \in Registries[p]
      /\ registry' = [p \in Owner |-> registry'[p]]
  BY <1>1 DEF IInv, TypeOK, Types
<1>3. pc' = pc /\ ask' = ask /\ answer' = answer
  BY DEF ChangeRegistry
<1>4. \A d \in Call : agent'[d] = Steadied(agent[d], o)
  BY DEF ChangeRegistry
<1>5. ASSUME NEW d \in Call
      PROVE  /\ agent'[d] \in Agent \cup {None}
             /\ agent[d] \in Agent => agent'[d].owner = agent[d].owner
             /\ AgentInv(d)'
  <2>1. CASE agent[d] = None
    <3>1. agent'[d] = None
      BY <1>4, <2>1 DEF Steadied
    <3>2. ~ Working(d)
      BY <2>1, NoneAssumption DEF IInv, AgentInv
    <3> QED
      BY <2>1, <3>1, <3>2, <1>3, NoneAssumption DEF AgentInv, Working
  <2>2. CASE agent[d] # None
    <3>1. agent[d] \in Agent /\ Sound(agent[d])
      BY <2>2 DEF IInv, TypeOK, AgentInv
    <3>2. /\ agent'[d] \in Agent /\ agent'[d].owner = agent[d].owner
          /\ agent'[d].steady \subseteq registry'[agent[d].owner]
          /\ Iris(agent'[d].steady) \subseteq agent'[d].listed
      BY <1>4, <3>1, SteadiedLemma DEF IInv
    <3>3. AgentInv(d)
      BY DEF IInv
    <3> QED
      BY <1>3, <3>2, <3>3 DEF AgentInv, Working, Sound
  <2> QED
    BY <2>1, <2>2
<1>6. agent' \in [Call -> Agent \cup {None}]
  BY <1>5 DEF ChangeRegistry
<1>7. /\ cache' \in Agents /\ Len(cache') = Len(cache)
      /\ \A i \in 1..Len(cache) : cache'[i].owner = cache[i].owner /\ Sound(cache[i])'
  <2>1. Len(cache) \in Nat /\ cache' = [i \in 1..Len(cache) |-> Steadied(cache[i], o)]
    BY LenProperties DEF IInv, TypeOK, ChangeRegistry
  <2>2. \A i \in 1..Len(cache) : cache[i] \in Agent /\ Sound(cache[i])
    BY ElementOfSeq DEF IInv, TypeOK, CacheInv
  <2>3. \A i \in 1..Len(cache) :
          /\ cache'[i] \in Agent /\ cache'[i].owner = cache[i].owner
          /\ cache'[i].steady \subseteq registry'[cache[i].owner]
          /\ Iris(cache'[i].steady) \subseteq cache'[i].listed
    BY <2>1, <2>2, SteadiedLemma DEF IInv
  <2>4. cache' \in Agents /\ Len(cache') = Len(cache)
    BY <2>1, <2>3, IsASeq, LenProperties DEF Agents
  <2> QED
    BY <2>3, <2>4 DEF Sound
<1>8. /\ cache' \in Seq(Agent) /\ Len(cache') <= Capacity
      /\ \A i, j \in 1..Len(cache') : cache'[i].owner = cache'[j].owner => i = j
  BY <1>7 DEF IInv, TypeOK, Agents
<1>9. ASSUME NEW d \in Call PROVE PendingInv(d)'
  <2>1. seen'[d] = IF ask[d] # None /\ ask[d].owner = o
                   THEN seen[d] \cup {registry'[o]} ELSE seen[d]
    BY DEF ChangeRegistry
  <2>2. CASE pc[d] # "idle"
    <3>1. ask[d] \in Ask /\ ask[d].owner \in Owner /\ registry[ask[d].owner] \in seen[d]
          /\ ask[d] # None
      BY <2>2, NoneAssumption DEF IInv, PendingInv
    <3>2. ask[d].owner # o => registry'[ask[d].owner] = registry[ask[d].owner]
      BY <1>1, <3>1 DEF IInv, Types
    <3> QED
      BY <1>3, <2>1, <3>1, <3>2 DEF PendingInv
  <2>3. CASE pc[d] = "idle"
    BY <1>3, <2>3 DEF PendingInv
  <2> QED
    BY <2>2, <2>3
<1>10. seen' = [d \in Call |-> seen'[d]]
  BY DEF ChangeRegistry
<1>11. TypeOK'
  BY <1>2, <1>3, <1>6, <1>8 DEF IInv, TypeOK
<1>12. CacheInv'
  BY <1>7 DEF CacheInv, Sound
<1> QED
  BY <1>2, <1>5, <1>9, <1>10, <1>11, <1>12 DEF IInv, Types

LEMMA StepInv == IInv /\ [Next]_vars => IInv'
<1>1. ASSUME IInv, UNCHANGED vars PROVE IInv'
  <2>1. /\ registry' = registry /\ cache' = cache /\ pc' = pc /\ ask' = ask
        /\ agent' = agent /\ answer' = answer /\ seen' = seen
    BY <1>1 DEF vars, locals
  <2> QED
    BY <1>1, <2>1 DEF IInv, TypeOK, Types, CacheInv, PendingInv, AgentInv, Working, Sound
<1> QED
  BY <1>1, DiscoverStep, WorkStep, ChangeStep DEF Next

(* What holds of every request, and of every agent in the cache.           *)
THEOREM Invariance == Spec => []IInv
  BY InitInv, StepInv, PTL DEF Spec

(* Whatever calls race for the cache, it holds one agent per owner, never  *)
(* more than its capacity, and every response is one the service has.      *)
THEOREM TypeCorrect == Spec => []TypeOK
<1>1. IInv => TypeOK
  BY DEF IInv
<1> QED
  BY <1>1, Invariance, PTL

-----------------------------------------------------------------------------
(* Only the last step of a call answers with a registration, or with the   *)
(* news that there is none.                                                *)
LEMMA Answers ==
  ASSUME IInv, [Next]_vars, NEW c \in Call, NEW status \in {200, 403}, Returns(c, status)
  PROVE  /\ FindRegistration(c)
         /\ answer'[c] \in Responses(Found(agent[c], ask[c]))
<1>0. pc[c] # "idle" /\ pc'[c] = "idle" /\ answer'[c].status = status
  BY DEF Returns
<1>a. answer \in [Call -> Response \cup {None}]
  BY DEF IInv, TypeOK
<1>d. \A s \in {401, 404} : Denied(s).status # status
  BY DEF Denied
<1>1. ASSUME NEW d \in Call, NEW q \in Ask, Discover(d, q) PROVE FALSE
  BY <1>0, <1>1 DEF Discover, Return, IInv, TypeOK
<1>2. ASSUME NEW o \in Owner, ChangeRegistry(o) PROVE FALSE
  BY <1>0, <1>2 DEF ChangeRegistry
<1>3. ASSUME UNCHANGED vars PROVE FALSE
  BY <1>0, <1>3 DEF vars
<1>4. ASSUME NEW d \in Call, Step(d), d # c PROVE FALSE
  BY <1>0, <1>4 DEF Step, Authenticate, CachedAgent, BuildAgent, CacheAgent,
       FindRegistration, GoOnWith, Goto, Return, IInv, TypeOK
<1>5. CASE Step(c)
  <2>1. ASSUME Return(c, Denied(401)) \/ Return(c, Denied(404)) PROVE FALSE
    BY <1>0, <1>a, <1>d, <2>1 DEF Return
  <2>2. ASSUME Authenticate(c) PROVE FALSE
    BY <1>0, <2>1, <2>2 DEF Authenticate, Goto, IInv, TypeOK
  <2>3. ASSUME CachedAgent(c) \/ CacheAgent(c) PROVE FALSE
    BY <1>0, <2>1, <2>3 DEF CachedAgent, CacheAgent, GoOnWith, IInv, TypeOK
  <2>4. ASSUME BuildAgent(c) PROVE FALSE
    BY <1>0, <2>1, <2>4 DEF BuildAgent, IInv, TypeOK
  <2>5. FindRegistration(c)
    BY <1>5, <2>2, <2>3, <2>4 DEF Step
  <2> QED
    BY <1>a, <2>5 DEF FindRegistration, Return
<1> QED
  BY <1>1, <1>2, <1>3, <1>4, <1>5 DEF Next

(* DiscoveredDuringCall: the link a client gets is one to a registration   *)
(* that the owner had for it during the call.                              *)
THEOREM DiscoveriesAreCurrent == Spec => DiscoveredDuringCall
<1> DEFINE Current(c) == Returns(c, 200) =>
             \E R \in seen[c] : answer'[c].link \in Registered(R, ask[c])
           A == \A c \in Call : Current(c)
<1>1. ASSUME IInv, [Next]_vars, NEW c \in Call, Returns(c, 200) PROVE Current(c)
  <2>1. FindRegistration(c) /\ answer'[c] \in Responses(Found(agent[c], ask[c]))
    BY <1>1, Answers
  <2>2. answer'[c].status = 200
    BY <1>1 DEF Returns
  <2>3. PICK r \in Found(agent[c], ask[c]) : answer'[c] = LinkTo(r)
    BY <2>1, <2>2 DEF Responses, RegistrationRequired, Denied
  <2>4. agent[c].owner = ask[c].owner /\ registry[ask[c].owner] \in seen[c]
    BY <1>1, <2>1 DEF IInv, AgentInv, PendingInv, Working, FindRegistration
  <2>5. r \in Registered(registry[ask[c].owner], ask[c])
    BY <2>4 DEF Found, Client, Registered
  <2> QED
    BY <2>3, <2>4, <2>5 DEF LinkTo
<1>2. IInv /\ [Next]_vars => [A]_vars
  BY <1>1
<1> QED
  BY <1>2, Invariance, PTL DEF Spec, DiscoveredDuringCall

(* RefusalsAreNoOlderThanTheAgent: a client that has been registered since *)
(* the agent was built is never told that it has to be.                    *)
THEOREM RefusalsAreTimely == Spec => RefusalsAreNoOlderThanTheAgent
<1> DEFINE Timely(c) == Returns(c, 403) => Registered(agent[c].steady, ask[c]) = {}
           A == \A c \in Call : Timely(c)
<1>1. ASSUME IInv, [Next]_vars, NEW c \in Call, Returns(c, 403) PROVE Timely(c)
  <2>1. FindRegistration(c) /\ answer'[c] \in Responses(Found(agent[c], ask[c]))
    BY <1>1, Answers
  <2>2. answer'[c].status = 403
    BY <1>1 DEF Returns
  <2>3. Found(agent[c], ask[c]) = {}
    BY <2>1, <2>2 DEF Responses, Denied, LinkTo
  <2>4. Sound(agent[c])
    BY <1>1, <2>1, NoneAssumption DEF IInv, AgentInv, Working, FindRegistration
  <2>5. ASSUME NEW r \in Registered(agent[c].steady, ask[c]) PROVE FALSE
    <3>1. r \in registry[agent[c].owner] /\ r.iri \in agent[c].listed
      BY <2>4 DEF Sound, Registered, Iris
    <3>2. r \in Found(agent[c], ask[c])
      BY <3>1 DEF Found, Registered, Client
    <3> QED
      BY <2>3, <3>2
  <2> QED
    BY <2>5
<1>2. IInv /\ [Next]_vars => [A]_vars
  BY <1>1
<1> QED
  BY <1>2, Invariance, PTL DEF Spec, RefusalsAreNoOlderThanTheAgent

=============================================================================
