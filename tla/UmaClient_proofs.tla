-------------------------- MODULE UmaClient_proofs --------------------------
(***************************************************************************)
(* Proofs about the UMA client of the resource server, for any number of   *)
(* requests and keys, and any times: what it has memoized, shared and      *)
(* loaded never does harm for longer than the memoization or the cooldown. *)
(***************************************************************************)
EXTENDS UmaClient, SequenceTheorems, TLAPS

(* A call that is under way has a promise.                                 *)
UnderWay(c) == call[c].at \in {"config", "key", "register"}
Types ==
    /\ TypeOK
    /\ \A c \in Call : UnderWay(c) => call[c].config \in 1..Len(configs)

ServerInv ==
    /\ ~up => lastDown = time
    /\ lastDown # None => lastDown <= time
    /\ \A k \in keys : born[k] # None

(* A promise that was rejected was so in an outage after it was made; a    *)
(* key that is published but not loaded is younger than what was loaded,   *)
(* and one that is loaded but not published was lost in an outage since.   *)
ConfigInv(p) ==
    /\ p.at <= time
    /\ p.status = "rejected" => lastDown # None /\ p.at <= lastDown
    /\ p.loadedAt = None => p.loaded = {}
    /\ p.loadedAt # None =>
         /\ p.status = "ok" /\ p.at <= p.loadedAt /\ p.loadedAt <= time
         /\ \A k \in keys \ p.loaded : p.loadedAt <= born[k]
         /\ \A k \in p.loaded \ keys : lastDown # None /\ p.loadedAt <= lastDown

(* A call goes on as soon as its promise is settled: either the promise is *)
(* still memoized, or nothing is older than this moment.                   *)
Fresh(p) == time <= p.at + MemoTime
CallInv(c) ==
    LET p == configs[call[c].config]
    IN /\ call[c].at = "key" => call[c].kid \in Kid /\ p.status = "ok"
       /\ call[c].at = "key" \/ (call[c].at = "config" /\ p.status = "ok") =>
             Fresh(p) \/ p.loadedAt \in {None, time}
       /\ call[c].at = "config" /\ p.status = "rejected" => Fresh(p) \/ lastDown = time

IInv ==
    /\ Types /\ ServerInv
    /\ \A i \in 1..Len(configs) : ConfigInv(configs[i])
    /\ \A c \in Call : CallInv(c)


LEMMA Promises ==
  ASSUME TypeOK
  PROVE  /\ Len(configs) \in Nat /\ time \in Nat /\ MaxTime \in Nat
         /\ MemoTime \in Nat /\ Cooldown \in Nat
         /\ \A i \in 1..Len(configs) : configs[i] \in Config
<1>1. configs \in Seq(Config)
  BY DEF TypeOK
<1> QED
  BY <1>1, TimeAssumption, LenProperties, ElementOfSeq DEF TypeOK

LEMMA InitInv == Init => IInv
<1> SUFFICES ASSUME Init PROVE IInv
  OBVIOUS
<1>1. <<>> \in Seq(Config) /\ Len(<<>>) = 0
  BY EmptySeq
<1> QED
  BY <1>1, TimeAssumption, NoneAssumption
     DEF Init, Idle, IInv, Types, TypeOK, UnderWay, Steps, ServerInv, ConfigInv, CallInv

(* A call that returns lets go of its promise.                             *)
LEMMA ReturnType ==
  ASSUME Types, NEW c \in Call, NEW l \in {"failed", "verified", "ticket"}, Return(c, l),
         UNCHANGED <<time, up, keys, born, lastDown>>,
         configs' \in Seq(Config), Len(configs') = Len(configs)
  PROVE  Types'
<1>1. call' = [call EXCEPT ![c] = [at |-> l, kid |-> None, config |-> 0]]
  <2>1. [Idle EXCEPT !.at = l] = [at |-> l, kid |-> None, config |-> 0]
    BY DEF Idle
  <2> QED
    BY <2>1 DEF Return
<1>2. Len(configs) \in Nat
  BY Promises DEF Types
<1>3. call' \in [Call -> [at : Steps, kid : Kid \cup {None}, config : 0..Len(configs)]]
  BY <1>1, <1>2 DEF Types, TypeOK, Steps
<1>4. \A d \in Call : UnderWay(d)' => UnderWay(d) /\ call'[d].config = call[d].config
  BY <1>1 DEF Types, TypeOK, UnderWay
<1> QED
  BY <1>3, <1>4 DEF Types, TypeOK

(* What the server does disturbs neither the promises nor the calls.       *)
LEMMA ServerStep ==
  ASSUME IInv, GoDown \/ ComeUp \/ \E k \in Kid : AddKey(k)
  PROVE  IInv'
<1>t. /\ Types /\ TypeOK /\ ServerInv
      /\ \A i \in 1..Len(configs) : ConfigInv(configs[i]) /\ configs[i] \in Config
      /\ \A c \in Call : CallInv(c)
      /\ Len(configs) \in Nat /\ time \in Nat
  BY Promises DEF IInv, Types
<1>0. time' = time /\ configs' = configs /\ call' = call
  BY DEF GoDown, ComeUp, AddKey
<1>1. CASE GoDown
  <2>1. Types'
    BY <1>t, <1>1 DEF GoDown, Types, TypeOK, UnderWay
  <2>2. ServerInv'
    BY <1>t, <1>1 DEF GoDown, ServerInv
  <2>3. ASSUME NEW i \in 1..Len(configs) PROVE ConfigInv(configs[i])'
    BY <1>t, <1>1, NoneAssumption DEF GoDown, ConfigInv, Config
  <2>4. ASSUME NEW c \in Call PROVE CallInv(c)'
    BY <1>t, <1>1 DEF GoDown, CallInv, Fresh
  <2> QED
    BY <2>1, <2>2, <2>3, <2>4, <1>0 DEF IInv
<1>2. CASE ComeUp
  <2>1. Types'
    BY <1>t, <1>2 DEF ComeUp, Types, TypeOK, UnderWay
  <2>2. ServerInv'
    BY <1>t, <1>2 DEF ComeUp, ServerInv
  <2>3. ASSUME NEW i \in 1..Len(configs) PROVE ConfigInv(configs[i])'
    BY <1>t, <1>2, NoneAssumption DEF ComeUp, ConfigInv, Config
  <2>4. ASSUME NEW c \in Call PROVE CallInv(c)'
    BY <1>t, <1>2 DEF ComeUp, CallInv, Fresh
  <2> QED
    BY <2>1, <2>2, <2>3, <2>4, <1>0 DEF IInv
<1>3. ASSUME NEW k \in Kid, AddKey(k) PROVE IInv'
  <2>0. /\ born' = [born EXCEPT ![k] = time] /\ born \in [Kid -> 0..MaxTime \cup {None}]
        /\ keys' = keys \cup {k} /\ keys \subseteq Kid
        /\ lastDown' = lastDown /\ up' = up
    BY <1>t, <1>3 DEF AddKey, TypeOK
  <2>1. Types'
    BY <1>t, <1>3 DEF AddKey, Types, TypeOK, UnderWay
  <2>2. ServerInv'
    BY <1>t, <1>0, <2>0, NoneAssumption DEF ServerInv
  <2>3. ASSUME NEW i \in 1..Len(configs) PROVE ConfigInv(configs[i])'
    BY <1>t, <1>0, <2>0, NoneAssumption DEF ConfigInv, Config
  <2>4. ASSUME NEW c \in Call PROVE CallInv(c)'
    BY <1>t, <1>0, <2>0 DEF CallInv, Fresh
  <2> QED
    BY <2>1, <2>2, <2>3, <2>4, <1>0 DEF IInv
<1> QED
  BY <1>1, <1>2, <1>3

(* A call that starts shares the last promise, or makes a new one.         *)
LEMMA StartStep ==
  ASSUME IInv, NEW c \in Call, NEW k \in Kid \cup {None}, Start(c, k)
  PROVE  IInv'
<1>t. /\ Types /\ TypeOK /\ ServerInv
      /\ \A i \in 1..Len(configs) : ConfigInv(configs[i]) /\ configs[i] \in Config
      /\ \A d \in Call : CallInv(d)
      /\ Len(configs) \in Nat /\ time \in Nat /\ MemoTime \in Nat
  BY Promises DEF IInv, Types
<1>0. UNCHANGED <<time, up, keys, born, lastDown>>
  BY DEF Start, server
<1>1. /\ configs' \in Seq(Config) /\ Len(configs') \in Nat /\ Len(configs') >= 1
      /\ Len(configs) <= Len(configs')
      /\ \A i \in 1..Len(configs) : configs'[i] = configs[i]
      /\ \A i \in 1..Len(configs') : i \notin 1..Len(configs) => configs'[i] = Pending
      /\ Fresh(configs'[Len(configs')])
  <2>1. CASE configs # <<>> /\ Memoized(configs[Len(configs)])
    <3>1. configs' = configs /\ configs \in Seq(Config) /\ Len(configs) # 0
      BY <2>1, <1>t, EmptySeq DEF Start, TypeOK
    <3> QED
      BY <3>1, <2>1, <1>t DEF Fresh, Memoized
  <2>2. CASE ~(configs # <<>> /\ Memoized(configs[Len(configs)]))
    <3>1. configs' = Append(configs, Pending) /\ configs \in Seq(Config)
      BY <2>2, <1>t DEF Start, TypeOK
    <3>2. Pending \in Config
      BY <1>t DEF Pending, Config
    <3>3. /\ Append(configs, Pending) \in Seq(Config)
          /\ Len(Append(configs, Pending)) = Len(configs) + 1
          /\ \A i \in 1..Len(configs) : Append(configs, Pending)[i] = configs[i]
          /\ Append(configs, Pending)[Len(configs) + 1] = Pending
      BY <3>1, <3>2, AppendProperties
    <3>4. Fresh(Pending)
      BY <1>t DEF Fresh, Pending
    <3> QED
      BY <3>1, <3>3, <3>4, <1>t
  <2> QED
    BY <2>1, <2>2
<1>2. call' = [call EXCEPT ![c] = [at |-> "config", kid |-> k, config |-> Len(configs')]]
  BY DEF Start
<1>3. Types'
  <2>1. call' \in [Call -> [at : Steps, kid : Kid \cup {None}, config : 0..Len(configs')]]
    BY <1>t, <1>1, <1>2 DEF TypeOK, Steps
  <2>2. \A d \in Call : UnderWay(d)' => call'[d].config \in 1..Len(configs')
    BY <1>t, <1>1, <1>2 DEF Types, TypeOK, UnderWay
  <2> QED
    BY <1>t, <1>0, <1>1, <2>1, <2>2 DEF Types, TypeOK
<1>4. ServerInv'
  BY <1>t, <1>0 DEF ServerInv
<1>5. ASSUME NEW i \in 1..Len(configs') PROVE ConfigInv(configs[i])'
  <2>1. CASE i \in 1..Len(configs)
    BY <2>1, <1>t, <1>0, <1>1 DEF ConfigInv
  <2>2. CASE i \notin 1..Len(configs)
    BY <2>2, <1>t, <1>0, <1>1 DEF ConfigInv, Pending
  <2> QED
    BY <2>1, <2>2
<1>6. ASSUME NEW d \in Call PROVE CallInv(d)'
  <2>1. CASE d = c
    BY <2>1, <1>t, <1>0, <1>1, <1>2 DEF CallInv, Fresh, TypeOK
  <2>2. CASE d # c
    <3>1. call'[d] = call[d]
      BY <2>2, <1>2, <1>t DEF TypeOK
    <3>2. UnderWay(d) => configs'[call[d].config] = configs[call[d].config]
      BY <1>1, <1>t DEF Types
    <3> QED
      BY <3>1, <3>2, <1>0, <1>t DEF CallInv, Fresh, UnderWay
  <2> QED
    BY <2>1, <2>2
<1> QED
  BY <1>3, <1>4, <1>5, <1>6 DEF IInv

(* A promise is settled at a moment at which every call that waits for it  *)
(* is about to go on.                                                      *)
LEMMA SettleStep ==
  ASSUME IInv, NEW i \in 1..Len(configs), SettleConfig(i)
  PROVE  IInv'
<1>t. /\ Types /\ TypeOK /\ ServerInv
      /\ \A j \in 1..Len(configs) : ConfigInv(configs[j]) /\ configs[j] \in Config
      /\ \A d \in Call : CallInv(d)
      /\ Len(configs) \in Nat /\ time \in Nat
  BY Promises DEF IInv, Types
<1>0. UNCHANGED <<time, up, keys, born, lastDown, call>>
  BY DEF SettleConfig, server
<1> DEFINE p == [configs[i] EXCEPT !.status = Settled]
<1>1. /\ p \in Config /\ p.at = configs[i].at /\ p.loaded = configs[i].loaded
      /\ p.loadedAt = configs[i].loadedAt /\ p.status = Settled
      /\ configs[i].status = "pending"
  BY <1>t DEF SettleConfig, Settled, Config
<1>2. /\ configs' \in Seq(Config) /\ Len(configs') = Len(configs)
      /\ \A j \in 1..Len(configs) : configs'[j] = IF j = i THEN p ELSE configs[j]
  <2>1. configs' = [configs EXCEPT ![i] = p] /\ configs \in Seq(Config)
    BY <1>t DEF SettleConfig, TypeOK
  <2> HIDE DEF p
  <2> QED
    BY <2>1, <1>1, ExceptSeq
<1> HIDE DEF p
<1>3. Types'
  BY <1>t, <1>0, <1>2 DEF Types, TypeOK, UnderWay
<1>4. ServerInv'
  BY <1>t, <1>0 DEF ServerInv
<1>n. configs[i].loadedAt = None
  BY <1>t, <1>1 DEF ConfigInv
<1>5. ASSUME NEW j \in 1..Len(configs') PROVE ConfigInv(configs[j])'
  <2>1. CASE j = i
    BY <2>1, <1>t, <1>0, <1>1, <1>2, <1>n, NoneAssumption DEF ConfigInv, Settled, ServerInv
  <2>2. CASE j # i
    BY <2>2, <1>t, <1>0, <1>2 DEF ConfigInv
  <2> QED
    BY <2>1, <2>2
<1>6. ASSUME NEW d \in Call PROVE CallInv(d)'
  <2>1. CASE UnderWay(d) /\ call[d].config = i
    BY <2>1, <1>t, <1>0, <1>1, <1>2, <1>n DEF CallInv, Fresh, Settled, ServerInv
  <2>2. CASE UnderWay(d) /\ call[d].config # i
    <3>1. configs'[call[d].config] = configs[call[d].config]
      BY <2>2, <1>t, <1>2 DEF Types
    <3> QED
      BY <3>1, <1>t, <1>0 DEF CallInv, Fresh
  <2>3. CASE ~UnderWay(d)
    BY <2>3, <1>0 DEF CallInv, UnderWay
  <2> QED
    BY <2>1, <2>2, <2>3
<1> QED
  BY <1>2, <1>3, <1>4, <1>5, <1>6 DEF IInv

(* The steps of a call that leave the promises alone.                      *)
LEMMA CallStep ==
  ASSUME IInv, NEW c \in Call,
         UseConfig(c) \/ FindKey(c) \/ UnknownKey(c) \/ Register(c)
  PROVE  IInv'
<1>t. /\ Types /\ TypeOK /\ ServerInv
      /\ \A i \in 1..Len(configs) : ConfigInv(configs[i])
      /\ \A d \in Call : CallInv(d)
      /\ Len(configs) \in Nat
  BY Promises DEF IInv, Types
<1>0. UNCHANGED <<time, up, keys, born, lastDown, configs>>
  BY DEF UseConfig, FindKey, UnknownKey, Register, server
<1>1. \/ \E l \in {"failed", "verified", "ticket"} : Return(c, l)
      \/ /\ call[c].at = "config" /\ configs[call[c].config].status = "ok"
         /\ \/ call[c].kid = None /\ Goto(c, "register")
            \/ call[c].kid # None /\ Goto(c, "key")
  BY DEF UseConfig, FindKey, UnknownKey, Register
<1>2. Types'
  <2>1. CASE \E l \in {"failed", "verified", "ticket"} : Return(c, l)
    <3>1. configs' \in Seq(Config)
      BY <1>t, <1>0 DEF TypeOK
    <3> QED
      BY <2>1, <3>1, <1>t, <1>0, ReturnType
  <2>2. CASE \E l \in {"register", "key"} : call[c].at = "config" /\ Goto(c, l)
    <3>1. PICK l \in {"register", "key"} :
             call[c].at = "config" /\ call' = [call EXCEPT ![c].at = l]
      BY <2>2 DEF Goto
    <3>2. call' \in [Call -> [at : Steps, kid : Kid \cup {None}, config : 0..Len(configs)]]
      BY <3>1, <1>t DEF TypeOK, Steps
    <3>3. \A d \in Call : call'[d].config = call[d].config /\ (UnderWay(d)' => UnderWay(d))
      BY <3>1, <1>t DEF TypeOK, UnderWay
    <3> QED
      BY <3>2, <3>3, <1>t, <1>0 DEF Types, TypeOK
  <2> QED
    BY <2>1, <2>2, <1>1
<1>3. ServerInv'
  BY <1>t, <1>0 DEF ServerInv
<1>4. ASSUME NEW i \in 1..Len(configs) PROVE ConfigInv(configs[i])'
  BY <1>t, <1>0 DEF ConfigInv
<1>5. ASSUME NEW d \in Call PROVE CallInv(d)'
  <2>1. CASE d # c
    <3>1. call'[d] = call[d]
      BY <2>1, <1>1, <1>t DEF Return, Goto, TypeOK
    <3> QED
      BY <3>1, <1>0, <1>t DEF CallInv, Fresh
  <2>2. CASE d = c /\ \E l \in {"failed", "verified", "ticket"} : Return(c, l)
    <3>1. call'[c].at \in {"failed", "verified", "ticket"}
      BY <2>2, <1>t DEF Return, Idle, TypeOK
    <3> QED
      BY <3>1, <2>2 DEF CallInv
  <2>3. CASE d = c /\ call[c].at = "config" /\ configs[call[c].config].status = "ok"
             /\ \/ call[c].kid = None /\ Goto(c, "register")
                \/ call[c].kid # None /\ Goto(c, "key")
    <3>1. /\ call'[c].kid = call[c].kid /\ call'[c].config = call[c].config
          /\ call'[c].at = "register" \/ (call'[c].at = "key" /\ call[c].kid \in Kid)
      BY <2>3, <1>t DEF Goto, TypeOK
    <3> QED
      BY <3>1, <2>3, <1>0, <1>t DEF CallInv, Fresh
  <2> QED
    BY <2>1, <2>2, <2>3, <1>1
<1> QED
  BY <1>0, <1>2, <1>3, <1>4, <1>5 DEF IInv

(* A load brings the keys of the promise up to date.                       *)
LEMMA ReloadStep ==
  ASSUME IInv, NEW c \in Call, ReloadKeys(c)
  PROVE  IInv'
<1>t. /\ Types /\ TypeOK /\ ServerInv
      /\ \A j \in 1..Len(configs) : ConfigInv(configs[j]) /\ configs[j] \in Config
      /\ \A d \in Call : CallInv(d)
      /\ Len(configs) \in Nat /\ time \in Nat
  BY Promises DEF IInv, Types
<1>0. UNCHANGED <<time, up, keys, born, lastDown>>
  BY DEF ReloadKeys, server
<1> DEFINE i == call[c].config
           p == [configs[i] EXCEPT !.loaded = keys, !.loadedAt = time]
<1>i. i \in 1..Len(configs) /\ call[c].at = "key" /\ configs[i].status = "ok"
  BY <1>t DEF ReloadKeys, Types, UnderWay, CallInv
<1>1. /\ p \in Config /\ p.at = configs[i].at /\ p.loaded = keys
      /\ p.loadedAt = time /\ p.status = "ok"
  BY <1>t, <1>i DEF Config, TypeOK
<1>2. /\ configs' \in Seq(Config) /\ Len(configs') = Len(configs)
      /\ \A j \in 1..Len(configs) : j # i => configs'[j] = configs[j]
      /\ configs'[i] = configs[i] \/ configs'[i] = p
  <2>1. CASE up
    <3>1. configs' = [configs EXCEPT ![i] = p] /\ configs \in Seq(Config)
      BY <2>1, <1>t DEF ReloadKeys, TypeOK
    <3> HIDE DEF p
    <3> QED
      BY <3>1, <1>i, <1>1, ExceptSeq
  <2>2. CASE ~up
    BY <2>2, <1>t DEF ReloadKeys, TypeOK
  <2> QED
    BY <2>1, <2>2
<1> HIDE DEF p
<1>c. \E l \in {"failed", "verified"} : Return(c, l)
  BY DEF ReloadKeys
<1>3. Types'
  BY <1>t, <1>0, <1>2, <1>c, ReturnType
<1>4. ServerInv'
  BY <1>t, <1>0 DEF ServerInv
<1>5. ASSUME NEW j \in 1..Len(configs') PROVE ConfigInv(configs[j])'
  <2>1. CASE configs'[j] = configs[j]
    BY <2>1, <1>t, <1>0, <1>2 DEF ConfigInv
  <2>2. CASE j = i /\ configs'[j] = p
    BY <2>2, <1>t, <1>0, <1>1, <1>i, NoneAssumption DEF ConfigInv, ServerInv, Config
  <2> QED
    BY <2>1, <2>2, <1>2
<1>6. ASSUME NEW d \in Call PROVE CallInv(d)'
  <2>1. CASE d = c
    <3>1. call'[c].at \in {"failed", "verified"}
      BY <1>c, <1>t DEF Return, Idle, TypeOK
    <3> QED
      BY <3>1, <2>1 DEF CallInv
  <2>2. CASE d # c /\ UnderWay(d)
    <3>1. call'[d] = call[d] /\ call[d].config \in 1..Len(configs)
      BY <2>2, <1>c, <1>t DEF Return, TypeOK, Types
    <3>2. CASE configs'[call[d].config] = configs[call[d].config]
      BY <3>1, <3>2, <1>0, <1>t DEF CallInv, Fresh
    <3>3. CASE call[d].config = i /\ configs'[i] = p
      BY <3>1, <3>3, <1>0, <1>1, <1>t, <1>i DEF CallInv, Fresh
    <3> QED
      BY <3>1, <3>2, <3>3, <1>2
  <2>3. CASE d # c /\ ~UnderWay(d)
    <3>1. call'[d] = call[d]
      BY <2>3, <1>c, <1>t DEF Return, TypeOK
    <3> QED
      BY <3>1, <2>3 DEF CallInv, UnderWay
  <2> QED
    BY <2>1, <2>2, <2>3
<1> QED
  BY <1>2, <1>3, <1>4, <1>5, <1>6 DEF IInv

(* Time goes by when no call has anything to do.                           *)
LEMMA TickStep ==
  ASSUME IInv, Tick
  PROVE  IInv'
<1>t. /\ Types /\ TypeOK /\ ServerInv
      /\ \A i \in 1..Len(configs) : ConfigInv(configs[i]) /\ configs[i] \in Config
      /\ Len(configs) \in Nat /\ time \in Nat /\ MaxTime \in Nat
  BY Promises DEF IInv, Types
<1>0. /\ UNCHANGED <<up, keys, born, configs, call>> /\ time' = time + 1
      /\ lastDown' = IF up THEN lastDown ELSE time + 1
      /\ time < MaxTime /\ \A c \in Call : Waiting(c)
  BY DEF Tick
<1>1. Types'
  BY <1>t, <1>0 DEF Types, TypeOK, UnderWay
<1>2. ServerInv'
  BY <1>t, <1>0, NoneAssumption DEF ServerInv, TypeOK
<1>3. ASSUME NEW i \in 1..Len(configs) PROVE ConfigInv(configs[i])'
  <2>1. configs[i].at \in Nat /\ configs[i].loadedAt \in Nat \cup {None}
    BY <1>t DEF Config
  <2>2. lastDown \in Nat \cup {None}
    BY <1>t DEF TypeOK
  <2> QED
    BY <1>t, <1>0, <2>1, <2>2, NoneAssumption DEF ConfigInv, ServerInv
<1>4. ASSUME NEW c \in Call PROVE CallInv(c)'
  BY <1>0 DEF CallInv, Waiting
<1> QED
  BY <1>0, <1>1, <1>2, <1>3, <1>4 DEF IInv

LEMMA StepInv ==
  ASSUME IInv, [Next]_vars
  PROVE  IInv'
<1>1. CASE UNCHANGED vars
  BY <1>1 DEF vars, server, IInv, Types, TypeOK, UnderWay, ServerInv, ConfigInv, CallInv, Fresh
<1> QED
  BY <1>1, ServerStep, StartStep, SettleStep, CallStep, ReloadStep, TickStep DEF Next, Step

(* What holds of the promises and key sets of the client.                  *)
THEOREM Invariance == Spec => []IInv
<1> QED
  BY InitInv, StepInv, PTL DEF Spec

(* TypeOK.                                                                 *)
THEOREM TypeCorrect == Spec => []TypeOK
<1>1. IInv => TypeOK
  BY DEF IInv, Types
<1> QED
  BY <1>1, Invariance, PTL


(* A call is changed by its own steps only.                                *)
LEMMA OwnStep ==
  ASSUME IInv, [Next]_vars, NEW c \in Call, call'[c] # call[c]
  PROVE  Step(c)
<1>1. ASSUME NEW d \in Call, Step(d) PROVE d = c
  <2>1. \E x : call' = [call EXCEPT ![d] = x]
    BY <1>1 DEF Step, Start, UseConfig, FindKey, ReloadKeys, UnknownKey, Register, Return, Goto
  <2> QED
    BY <2>1 DEF IInv, Types, TypeOK
<1> QED
  BY <1>1 DEF Next, vars, SettleConfig, GoDown, ComeUp, Tick, AddKey

(* What a failing step tells: which call it is of, and why it fails.       *)
LEMMA WhyFailing ==
  ASSUME IInv, [Next]_vars, NEW c \in Call, Failing(c)
  PROVE  \/ UseConfig(c) /\ configs[call[c].config].status = "rejected"
         \/ ReloadKeys(c) /\ (~up \/ call[c].kid \notin keys)
         \/ UnknownKey(c)
         \/ Register(c) /\ ~up
<1>t. call \in [Call -> [at : Steps, kid : Kid \cup {None}, config : 0..Len(configs)]]
  BY DEF IInv, Types, TypeOK
<1>0. call'[c] # call[c]
  BY DEF Failing
<1>1. Step(c)
  BY <1>0, OwnStep
<1>2. \A l : Return(c, l) => call'[c].at = l
  BY <1>t DEF Return, Idle
<1>3. \A l : Goto(c, l) => call'[c].at = l
  BY <1>t DEF Goto
<1>4. ASSUME NEW k, Start(c, k) PROVE FALSE
  BY <1>4, <1>t DEF Start, Failing
<1>5. CASE UseConfig(c)
  BY <1>5, <1>2, <1>3 DEF UseConfig, Failing
<1>6. CASE FindKey(c)
  BY <1>6, <1>2 DEF FindKey, Failing
<1>7. CASE ReloadKeys(c)
  BY <1>7, <1>2 DEF ReloadKeys, Failing
<1>8. CASE Register(c)
  BY <1>8, <1>2 DEF Register, Failing
<1> QED
  BY <1>1, <1>4, <1>5, <1>6, <1>7, <1>8 DEF Step

(* A rejected promise, as well as a failing load or ticket request, points *)
(* to an outage.                                                           *)
LEMMA RejectionsAreRecent ==
  ASSUME IInv, NEW c \in Call,
         ~up \/ (UseConfig(c) /\ configs[call[c].config].status = "rejected")
  PROVE  RecentOutage
<1>t. /\ Types /\ TypeOK /\ ServerInv /\ CallInv(c)
      /\ \A i \in 1..Len(configs) : ConfigInv(configs[i]) /\ configs[i] \in Config
      /\ time \in Nat /\ MemoTime \in Nat /\ lastDown \in Nat \cup {None}
  BY Promises DEF IInv, Types, TypeOK
<1>1. CASE ~up
  BY <1>1, <1>t, NoneAssumption DEF ServerInv, RecentOutage
<1>2. CASE UseConfig(c) /\ configs[call[c].config].status = "rejected"
  <2> DEFINE p == configs[call[c].config]
  <2>1. call[c].config \in 1..Len(configs) /\ call[c].at = "config"
    BY <1>2, <1>t DEF UseConfig, Types, UnderWay
  <2>2. /\ p.at \in Nat /\ lastDown # None /\ p.at <= lastDown
        /\ Fresh(p) \/ lastDown = time
    BY <1>2, <2>1, <1>t DEF ConfigInv, CallInv, Config
  <2> HIDE DEF p
  <2> QED
    BY <2>2, <1>t DEF Fresh, RecentOutage
<1> QED
  BY <1>1, <1>2

(* RefusalsAreBrief: a token whose key is published is only refused within *)
(* the memoization time of an outage or the cooldown after the key was     *)
(* added, whichever calls share promises and key sets.                     *)
THEOREM BriefRefusals == Spec => RefusalsAreBrief
<1>1. ASSUME IInv, [Next]_vars, NEW c \in Call, Failing(c), call[c].kid \in keys
      PROVE  RecentOutage \/ NewKey(call[c].kid)
  <2>1. CASE UnknownKey(c)
    <3> DEFINE p == configs[call[c].config]
               k == call[c].kid
    <3>t. /\ Types /\ TypeOK /\ ServerInv
          /\ \A i \in 1..Len(configs) : ConfigInv(configs[i]) /\ configs[i] \in Config
          /\ time \in Nat /\ Cooldown \in Nat
      BY <1>1, Promises DEF IInv, Types
    <3>1. call[c].config \in 1..Len(configs)
      BY <2>1, <3>t DEF UnknownKey, Types, UnderWay
    <3>2. p.loadedAt # None /\ time < p.loadedAt + Cooldown /\ k \in keys \ p.loaded
      BY <2>1, <1>1 DEF UnknownKey, CoolingDown, KeySet
    <3>3. p.loadedAt \in Nat /\ p.loadedAt <= born[k]
      BY <3>1, <3>2, <3>t DEF ConfigInv, Config
    <3>4. born[k] \in Nat
      BY <3>2, <3>t DEF TypeOK, ServerInv
    <3> HIDE DEF p, k
    <3>5. time < born[k] + Cooldown
      BY <3>2, <3>3, <3>4, <3>t
    <3> QED
      BY <3>5 DEF NewKey, k
  <2>2. CASE ~UnknownKey(c)
    BY <2>2, <1>1, WhyFailing, RejectionsAreRecent
  <2> QED
    BY <2>1, <2>2
<1>2. IInv /\ [Next]_vars =>
        [\A c \in Call : Failing(c) /\ call[c].kid \in keys
            => RecentOutage \/ NewKey(call[c].kid)]_vars
  BY <1>1
<1> QED
  BY <1>2, Invariance, PTL DEF Spec, RefusalsAreBrief

(* TicketsComeBack: a ticket request fails only within the memoization     *)
(* time of an outage.                                                      *)
THEOREM TicketsFailBriefly == Spec => TicketsComeBack
<1>1. ASSUME IInv, [Next]_vars, NEW c \in Call, Failing(c), call[c].kid = None
      PROVE  RecentOutage
  <2>1. call[c].at # "key"
    BY <1>1, NoneAssumption DEF IInv, CallInv
  <2> QED
    BY <2>1, <1>1, WhyFailing, RejectionsAreRecent DEF ReloadKeys, UnknownKey
<1>2. IInv /\ [Next]_vars =>
        [\A c \in Call : Failing(c) /\ call[c].kid = None => RecentOutage]_vars
  BY <1>1
<1> QED
  BY <1>2, Invariance, PTL DEF Spec, TicketsComeBack

(* LostKeysAreForgotten: a token whose key is gone is only accepted within *)
(* the memoization time of the outage in which the key was lost.           *)
THEOREM LostKeysForgotten == Spec => LostKeysAreForgotten
<1>1. ASSUME IInv, [Next]_vars, NEW c \in Call, call[c].at = "key",
             call'[c].at = "verified"
      PROVE  call[c].kid \in keys \/ RecentOutage
  <2> DEFINE p == configs[call[c].config]
             k == call[c].kid
  <2>t. /\ Types /\ TypeOK /\ ServerInv /\ CallInv(c)
        /\ \A i \in 1..Len(configs) : ConfigInv(configs[i]) /\ configs[i] \in Config
        /\ time \in Nat /\ MemoTime \in Nat /\ lastDown \in Nat \cup {None}
    BY <1>1, Promises DEF IInv, Types, TypeOK
  <2>1. k \in p.loaded \/ k \in keys
    <3>1. Step(c)
      BY <1>1, OwnStep
    <3>2. \A l : Return(c, l) => call'[c].at = l
      BY <2>t DEF Return, Idle, TypeOK
    <3> QED
      BY <3>1, <3>2, <1>1 DEF Step, Start, UseConfig, FindKey, ReloadKeys, UnknownKey,
                              Register, KeySet
  <2>2. call[c].config \in 1..Len(configs)
    BY <1>1, <2>t DEF Types, UnderWay
  <2>3. CASE k \in p.loaded \ keys
    <3>1. /\ p.loadedAt # None /\ p.at <= p.loadedAt
          /\ lastDown # None /\ p.loadedAt <= lastDown
          /\ Fresh(p) \/ p.loadedAt = time
          /\ p.at \in Nat /\ p.loadedAt \in Nat
      BY <1>1, <2>2, <2>3, <2>t DEF ConfigInv, CallInv, Config
    <3> HIDE DEF p
    <3> QED
      BY <3>1, <2>t DEF Fresh, RecentOutage
  <2> QED
    BY <2>1, <2>3
<1>2. IInv /\ [Next]_vars =>
        [\A c \in Call : call[c].at = "key" /\ call'[c].at = "verified"
            => call[c].kid \in keys \/ RecentOutage]_vars
  BY <1>1
<1> QED
  BY <1>2, Invariance, PTL DEF Spec, LostKeysAreForgotten

=============================================================================
