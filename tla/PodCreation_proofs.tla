------------------------- MODULE PodCreation_proofs -------------------------
(***************************************************************************)
(* Proofs about the creation of pods, for any number of creators, pods and *)
(* owners, and templates of any length.                                    *)
(***************************************************************************)
EXTENDS PodCreation, TLAPS

(* A creation under way: how far it is, and what it has found.             *)
Progress(c) ==
    /\ creation[c] # None => answer[c] = None
    /\ pc[c] = "idle" => written[c] = 0 /\ ~found[c] /\ ~alone[c]
    /\ pc[c] = "hasResource" => written[c] = 0 /\ ~creation[c].overwrite
    /\ pc[c] = "setRepresentation" =>
          /\ written[c] < Length
          /\ written[c] > 0 => Exists(creation[c].pod)
          /\ found[c] => creation[c].overwrite
    /\ found[c] => Exists(creation[c].pod)

(* The root of a pod comes first and never goes.                           *)
RootFirst == \A p \in Pod : ~Exists(p) => \A r \in Resource : content[p][r] = None

(* As long as a pod is not contended there is one creation of it at most,  *)
(* and once that writes, the pod has no owner but the one it writes for.   *)
Uncontended(p) ==
    /\ \A c, d \in Creating(p) : c = d
    /\ \A c \in Creating(p) : ~creation[c].overwrite
    /\ \A c \in Creating(p) : pc[c] = "setRepresentation" =>
          OwnersIn(p) \subseteq {creation[c].webId}
    /\ \A v, w \in OwnersIn(p) : v = w

(* What a creation that is alone has written stays, but for edits.         *)
Alone(c) ==
    /\ \A d \in Creating(creation[c].pod) : d = c
    /\ \A r \in 1..written[c] : content[creation[c].pod][r] \in {creation[c].webId, Edited}

IInv ==
    /\ TypeOK /\ RootFirst
    /\ \A c \in Creator : Progress(c)
    /\ \A p \in Pod : p \notin contended => Uncontended(p)
    /\ \A c \in Creator : alone[c] => Alone(c)

LEMMA FirstResource == 1 \in Resource /\ Resource \subseteq Nat
BY LengthAssumption DEF Resource

LEMMA WriteLemma ==
  ASSUME TypeOK, NEW p \in Pod, NEW i \in Resource, NEW v,
         content' = [content EXCEPT ![p][i] = v]
  PROVE  \A q \in Pod, r \in Resource :
            content'[q][r] = IF q = p /\ r = i THEN v ELSE content[q][r]
<1>1. content \in [Pod -> [Resource -> WebId \cup {Edited, None}]]
  BY DEF TypeOK
<1> QED
  BY <1>1

LEMMA CreationFields ==
  ASSUME TypeOK, NEW c \in Creator, pc[c] # "idle"
  PROVE  /\ creation[c] \in Creation /\ creation[c] # None /\ creation[c].pod \in Pod
         /\ creation[c].webId \in WebId /\ creation[c].overwrite \in BOOLEAN
<1>1. creation[c] \in Creation /\ creation[c] # None
  BY DEF TypeOK
<1> QED
  BY <1>1 DEF Creation

LEMMA TypeInit == Init => TypeOK
BY LengthAssumption DEF Init, TypeOK, PC

LEMMA ReturnType ==
  ASSUME TypeOK, NEW c \in Creator, NEW x \in {"ok", "conflict", "failed"}, Return(c, x),
         content' \in [Pod -> [Resource -> WebId \cup {Edited, None}]]
  PROVE  TypeOK'
BY LengthAssumption DEF TypeOK, Return, PC

LEMMA TypeStep ==
  ASSUME TypeOK, \A c \in Creator : Progress(c), [Next]_vars
  PROVE  TypeOK'
<1>t. content \in [Pod -> [Resource -> WebId \cup {Edited, None}]]
  BY DEF TypeOK
<1>1. ASSUME NEW c \in Creator, NEW k \in Creation, CreatePod(c, k)
      PROVE  TypeOK'
  BY <1>1, NoneAssumption DEF CreatePod, TypeOK, PC, Exists, Creation
<1>2. ASSUME NEW c \in Creator, HasResource(c)
      PROVE  TypeOK'
  <2>1. content' = content /\ pc[c] # "idle"
    BY <1>2 DEF HasResource
  <2>2. ASSUME NEW x \in {"ok", "conflict", "failed"}, Return(c, x)
        PROVE  TypeOK'
    BY <2>1, <2>2, <1>t, ReturnType
  <2>3. CASE /\ pc' = [pc EXCEPT ![c] = "setRepresentation"]
             /\ UNCHANGED <<written, creation, answer, history>>
    BY <2>1, <2>3 DEF TypeOK, PC, history
  <2> QED
    BY <1>2, <2>2, <2>3 DEF HasResource
<1>3. ASSUME NEW c \in Creator, AddGeneratedResource(c)
      PROVE  TypeOK'
  <2>1. /\ pc[c] = "setRepresentation" /\ creation[c].pod \in Pod
        /\ creation[c].webId \in WebId /\ written[c] < Length /\ written[c] \in Nat
        /\ written[c] + 1 \in Resource
    BY <1>3, CreationFields, LengthAssumption
       DEF AddGeneratedResource, Progress, TypeOK, Resource
  <2>2. content' \in [Pod -> [Resource -> WebId \cup {Edited, None}]]
    <3>1. CASE content' = [content EXCEPT ![creation[c].pod][written[c] + 1] = creation[c].webId]
      BY <3>1, <2>1, <1>t
    <3> QED
      BY <1>3, <3>1, <1>t DEF AddGeneratedResource
  <2>3. ASSUME NEW x \in {"ok", "conflict", "failed"}, Return(c, x)
        PROVE  TypeOK'
    BY <2>2, <2>3, ReturnType
  <2>4. CASE /\ written' = [written EXCEPT ![c] = @ + 1]
             /\ UNCHANGED <<pc, creation, answer, history>>
    BY <2>1, <2>2, <2>4, LengthAssumption DEF TypeOK, history
  <2> QED
    BY <1>3, <2>3, <2>4 DEF AddGeneratedResource, Proceed, GoesOnAfterFailure
<1>4. CASE Edit
  <2>1. content' \in [Pod -> [Resource -> WebId \cup {Edited, None}]]
    BY <1>4, <1>t DEF Edit
  <2> QED
    BY <1>4, <2>1 DEF Edit, TypeOK, history
<1>5. CASE Crash
  BY <1>5, LengthAssumption DEF Crash, TypeOK, PC
<1>6. CASE UNCHANGED vars
  BY <1>6 DEF vars, history, TypeOK
<1> QED
  BY <1>1, <1>2, <1>3, <1>4, <1>5, <1>6 DEF Next

(* What a creation may do to the content of pods, beside its other steps.  *)
ContentStep(c) ==
    /\ content' \in [Pod -> [Resource -> WebId \cup {Edited, None}]]
    /\ \A p \in Pod : Exists(p) => Exists(p)'
    /\ RootFirst'
    /\ \A p \in Pod : p \notin contended => \A v, w \in OwnersIn(p)' : v = w
    /\ \A p \in Pod, d \in Creator : d # c /\ d \in Creating(p) =>
          (p \notin contended \/ alone[d] => content'[p] = content[p])

LEMMA ReturnStep ==
  ASSUME IInv, NEW c \in Creator, NEW x \in {"ok", "conflict", "failed"}, Return(c, x),
         pc[c] # "idle", ContentStep(c)
  PROVE  IInv'
<1>t. /\ TypeOK /\ RootFirst /\ \A d \in Creator : Progress(d)
      /\ \A p \in Pod : p \notin contended => Uncontended(p)
      /\ \A d \in Creator : alone[d] => Alone(d)
  BY DEF IInv
<1>1. TypeOK'
  BY <1>t, ReturnType DEF ContentStep
<1>2. /\ pc'[c] = "idle" /\ written'[c] = 0 /\ creation'[c] = None
      /\ ~found'[c] /\ ~alone'[c] /\ contended' = contended
      /\ \A d \in Creator : d # c =>
            /\ pc'[d] = pc[d] /\ written'[d] = written[d] /\ creation'[d] = creation[d]
            /\ answer'[d] = answer[d] /\ found'[d] = found[d] /\ alone'[d] = alone[d]
  BY <1>t DEF Return, TypeOK
<1>3. \A d \in Creator : Progress(d)'
  <2>1. Progress(c)'
    BY <1>2 DEF Progress
  <2>2. ASSUME NEW d \in Creator, d # c PROVE Progress(d)'
    <3>1. creation[d] # None => creation[d].pod \in Pod /\ pc[d] # "idle"
      BY <1>t, CreationFields DEF TypeOK
    <3>2. /\ pc[d] # "idle" /\ Exists(creation[d].pod) => Exists(creation[d].pod)'
      BY <1>2, <1>t, <2>2, CreationFields DEF ContentStep, Exists
    <3> QED
      BY <1>2, <1>t, <2>2, <3>1, <3>2 DEF Progress
  <2> QED
    BY <2>1, <2>2
<1>4. \A p \in Pod : Creating(p)' \subseteq Creating(p) \ {c}
  BY <1>2 DEF Creating
<1>5. ASSUME NEW p \in Pod, p \notin contended' PROVE Uncontended(p)'
  <2>1. Uncontended(p) /\ \A v, w \in OwnersIn(p)' : v = w
    BY <1>2, <1>5, <1>t DEF ContentStep
  <2>2. \A d \in Creating(p)' : d \in Creating(p) /\ d # c /\ d \in Creator
    BY <1>4 DEF Creating
  <2>3. ASSUME NEW d \in Creating(p)', pc'[d] = "setRepresentation"
        PROVE  OwnersIn(p)' \subseteq {creation'[d].webId}
    <3>1. content'[p] = content[p] /\ OwnersIn(p) \subseteq {creation[d].webId}
      BY <2>1, <2>2, <2>3, <1>2, <1>5 DEF ContentStep, Uncontended
    <3>2. OwnersIn(p)' = OwnersIn(p)
      BY <3>1 DEF OwnersIn
    <3> QED
      BY <3>1, <3>2, <2>2, <1>2
  <2> QED
    BY <2>1, <2>2, <2>3, <1>2 DEF Uncontended
<1>6. ASSUME NEW d \in Creator, alone'[d] PROVE Alone(d)'
  <2>1. d # c /\ alone[d] /\ Alone(d) /\ pc[d] # "idle"
    BY <1>2, <1>6, <1>t DEF Progress
  <2>2. creation[d].pod \in Pod /\ d \in Creating(creation[d].pod)
    BY <2>1, <1>t, CreationFields DEF Creating
  <2>3. content'[creation[d].pod] = content[creation[d].pod]
    BY <2>1, <2>2 DEF ContentStep
  <2> QED
    BY <2>1, <2>2, <2>3, <1>2, <1>4 DEF Alone
<1>7. RootFirst'
  BY DEF ContentStep
<1> QED
  BY <1>1, <1>3, <1>5, <1>6, <1>7 DEF IInv

LEMMA NothingWritten ==
  ASSUME IInv, NEW c \in Creator, content' = content
  PROVE  ContentStep(c)
<1>1. /\ TypeOK /\ RootFirst /\ \A p \in Pod : p \notin contended => Uncontended(p)
  BY DEF IInv
<1>2. \A p \in Pod : (Exists(p)' <=> Exists(p)) /\ OwnersIn(p)' = OwnersIn(p)
  BY DEF Exists, OwnersIn
<1>3. RootFirst'
  BY <1>1 DEF RootFirst, Exists
<1> QED
  BY <1>1, <1>2, <1>3 DEF ContentStep, TypeOK, Uncontended

(* A creation writes the next of its resources.                            *)
LEMMA ResourceWritten ==
  ASSUME IInv, NEW c \in Creator, pc[c] = "setRepresentation", NEW p, NEW w, NEW i,
         p = creation[c].pod, w = creation[c].webId, i = written[c] + 1,
         content' = [content EXCEPT ![p][i] = w]
  PROVE  /\ ContentStep(c) /\ Exists(p)'
         /\ alone[c] => \A r \in 1..i : content'[p][r] \in {w, Edited}
         /\ p \notin contended => OwnersIn(p)' \subseteq {w}
<1>t. /\ TypeOK /\ RootFirst /\ Progress(c)
      /\ \A q \in Pod : q \notin contended => Uncontended(q)
      /\ \A d \in Creator : alone[d] => Alone(d)
      /\ content \in [Pod -> [Resource -> WebId \cup {Edited, None}]]
  BY DEF IInv, TypeOK
<1>f. p \in Pod /\ w \in WebId /\ c \in Creating(p)
  BY <1>t, CreationFields DEF Creating
<1>i. i \in Resource /\ written[c] \in Nat
  BY <1>t, LengthAssumption DEF Progress, Resource, TypeOK
<1>1. \A q \in Pod, r \in Resource :
         content'[q][r] = IF q = p /\ r = i THEN w ELSE content[q][r]
  BY <1>t, <1>f, <1>i, WriteLemma
<1>2. content' \in [Pod -> [Resource -> WebId \cup {Edited, None}]]
  BY <1>t, <1>f, <1>i
<1>3. \A q \in Pod : Exists(q) => Exists(q)'
  BY <1>1, <1>f, FirstResource, ContentAssumption DEF Exists
<1>4. Exists(p)'
  <2>1. CASE written[c] = 0
    BY <2>1, <1>1, <1>f, FirstResource, ContentAssumption DEF Exists
  <2>2. CASE written[c] # 0
    BY <2>2, <1>3, <1>f, <1>i, <1>t DEF Progress
  <2> QED
    BY <2>1, <2>2
<1>5. RootFirst'
  <2> SUFFICES ASSUME NEW q \in Pod, ~Exists(q)', NEW r \in Resource
               PROVE  content'[q][r] = None
    BY DEF RootFirst
  <2>1. q # p /\ ~Exists(q)
    BY <1>3, <1>4
  <2> QED
    BY <2>1, <1>1, <1>t DEF RootFirst
<1>6. ASSUME p \notin contended PROVE OwnersIn(p)' \subseteq {w}
  <2>1. OwnersIn(p) \subseteq {w}
    BY <1>6, <1>t, <1>f DEF Uncontended
  <2>2. \A r \in Resource : content'[p][r] = w \/ content'[p][r] = content[p][r]
    BY <1>1, <1>f
  <2> QED
    BY <2>1, <2>2 DEF OwnersIn
<1>7. ASSUME NEW q \in Pod, q # p PROVE content'[q] = content[q] /\ OwnersIn(q)' = OwnersIn(q)
  <2>1. content'[q] = content[q]
    BY <1>7, <1>t, <1>f
  <2> QED
    BY <2>1 DEF OwnersIn
<1>8. ASSUME NEW q \in Pod, q \notin contended, NEW u \in OwnersIn(q)', NEW v \in OwnersIn(q)'
      PROVE  u = v
  <2>1. CASE q = p
    BY <2>1, <1>6, <1>8
  <2>2. CASE q # p
    BY <2>2, <1>7, <1>8, <1>t DEF Uncontended
  <2> QED
    BY <2>1, <2>2
<1>9. ASSUME NEW q \in Pod, NEW d \in Creator, d # c, d \in Creating(q),
             q \notin contended \/ alone[d]
      PROVE  content'[q] = content[q]
  <2>1. q # p
    <3>1. CASE q \notin contended
      BY <3>1, <1>9, <1>t, <1>f DEF Uncontended
    <3>2. CASE alone[d]
      BY <3>2, <1>9, <1>t, <1>f DEF Alone, Creating
    <3> QED
      BY <1>9, <3>1, <3>2
  <2> QED
    BY <2>1, <1>7
<1>10. ASSUME alone[c], NEW r \in 1..i PROVE content'[p][r] \in {w, Edited}
  <2>1. r \in Resource /\ (r = i \/ r \in 1..written[c])
    <3>1. i \in 1..Length /\ r \in Nat /\ 1 <= r /\ r <= i
      BY <1>10, <1>i DEF Resource
    <3>2. r = i \/ r <= written[c]
      BY <3>1, <1>i
    <3> QED
      BY <3>1, <3>2, <1>i, LengthAssumption DEF Resource
  <2>2. content[p][r] \in {w, Edited} \/ r = i
    BY <2>1, <1>t, <1>10 DEF Alone
  <2> QED
    BY <2>1, <2>2, <1>1, <1>f
<1>11. ContentStep(c)
  BY <1>2, <1>3, <1>5, <1>8, <1>9 DEF ContentStep
<1> QED
  BY <1>4, <1>6, <1>10, <1>11

LEMMA CreatePodStep ==
  ASSUME IInv, NEW c \in Creator, NEW k \in Creation, CreatePod(c, k)
  PROVE  IInv'
<1>t. /\ TypeOK /\ RootFirst /\ \A d \in Creator : Progress(d)
      /\ \A p \in Pod : p \notin contended => Uncontended(p)
      /\ \A d \in Creator : alone[d] => Alone(d)
  BY DEF IInv
<1>1. TypeOK'
  BY <1>t, TypeStep DEF Next
<1>k. k.pod \in Pod /\ k # None
  BY NoneAssumption DEF Creation
<1>2. /\ pc[c] = "idle" /\ creation[c] = None /\ written' = written /\ content' = content
      /\ pc'[c] = IF k.overwrite THEN "setRepresentation" ELSE "hasResource"
      /\ creation'[c] = k /\ answer'[c] = None /\ found'[c] = Exists(k.pod)
      /\ alone' = [d \in Creator |->
            IF d = c THEN ~Exists(k.pod) /\ Creating(k.pod) = {}
            ELSE alone[d] /\ d \notin Creating(k.pod)]
      /\ contended' = contended \cup
            IF k.overwrite \/ Creating(k.pod) # {} THEN {k.pod} ELSE {}
      /\ \A d \in Creator : d # c =>
            /\ pc'[d] = pc[d] /\ creation'[d] = creation[d]
            /\ answer'[d] = answer[d] /\ found'[d] = found[d]
  BY <1>t DEF CreatePod, TypeOK
<1>3. ASSUME NEW d \in Creator PROVE Progress(d)'
  <2>1. CASE d = c
    <3>1. written'[c] = 0 /\ k.overwrite \in BOOLEAN
      BY <1>2, <1>t DEF Progress, Creation
    <3>2. found'[c] => Exists(k.pod)'
      BY <1>2 DEF Exists
    <3> QED
      BY <2>1, <3>1, <3>2, <1>2, <1>k, LengthAssumption DEF Progress, Exists
  <2>2. CASE d # c
    <3>1. alone'[d] => alone[d]
      BY <2>2, <1>2
    <3>2. Exists(creation[d].pod)' <=> Exists(creation[d].pod)
      BY <2>2, <1>2 DEF Exists
    <3> QED
      BY <2>2, <3>1, <3>2, <1>2, <1>t DEF Progress
  <2> QED
    BY <2>1, <2>2
<1>4. \A p \in Pod : /\ OwnersIn(p)' = OwnersIn(p)
                     /\ Creating(p)' = Creating(p) \cup IF p = k.pod THEN {c} ELSE {}
  BY <1>2, <1>k DEF OwnersIn, Creating
<1>5. ASSUME NEW p \in Pod, p \notin contended' PROVE Uncontended(p)'
  <2>1. p \notin contended /\ Uncontended(p)
    BY <1>2, <1>5, <1>t
  <2>2. CASE p = k.pod
    <3>1. ~k.overwrite /\ Creating(p) = {}
      BY <2>2, <1>2, <1>5
    <3>2. Creating(p)' = {c} /\ pc'[c] = "hasResource"
      BY <2>2, <3>1, <1>2, <1>4
    <3> QED
      BY <3>1, <3>2, <2>1, <1>2, <1>4 DEF Uncontended
  <2>3. CASE p # k.pod
    <3>1. Creating(p)' = Creating(p) /\ c \notin Creating(p)
      BY <2>3, <1>2, <1>4 DEF Creating
    <3>2. \A d \in Creating(p) : creation'[d] = creation[d] /\ pc'[d] = pc[d]
      BY <3>1, <1>2 DEF Creating
    <3> QED
      BY <3>1, <3>2, <2>1, <1>4 DEF Uncontended
  <2> QED
    BY <2>2, <2>3
<1>6. ASSUME NEW d \in Creator, alone'[d] PROVE Alone(d)'
  <2>1. CASE d = c
    <3>1. Creating(k.pod) = {} /\ written'[c] = 0 /\ creation'[c] = k
      BY <2>1, <1>2, <1>6, <1>t DEF Progress
    <3> QED
      BY <2>1, <3>1, <1>4, <1>k DEF Alone
  <2>2. CASE d # c
    <3>1. alone[d] /\ d \notin Creating(k.pod) /\ Alone(d) /\ pc[d] # "idle"
      BY <2>2, <1>2, <1>6, <1>t DEF Progress
    <3>2. creation[d].pod \in Pod /\ creation[d].pod # k.pod
      BY <3>1, <1>t, CreationFields DEF Creating
    <3> QED
      BY <2>2, <3>1, <3>2, <1>2, <1>4 DEF Alone
  <2> QED
    BY <2>1, <2>2
<1>7. RootFirst'
  BY <1>2, <1>t DEF RootFirst, Exists
<1> QED
  BY <1>1, <1>3, <1>5, <1>6, <1>7 DEF IInv

LEMMA HasResourceStep ==
  ASSUME IInv, NEW c \in Creator, HasResource(c)
  PROVE  IInv'
<1>t. /\ TypeOK /\ RootFirst /\ \A d \in Creator : Progress(d)
      /\ \A p \in Pod : p \notin contended => Uncontended(p)
      /\ \A d \in Creator : alone[d] => Alone(d)
  BY DEF IInv
<1>0. pc[c] = "hasResource" /\ content' = content
  BY DEF HasResource
<1>1. ASSUME NEW x \in {"ok", "conflict", "failed"}, Return(c, x)
      PROVE  IInv'
  BY <1>0, <1>1, NothingWritten, ReturnStep
<1>2. CASE /\ ~Exists(creation[c].pod)
           /\ pc' = [pc EXCEPT ![c] = "setRepresentation"]
           /\ UNCHANGED <<written, creation, answer, history>>
  <2>1. TypeOK'
    BY <1>t, TypeStep DEF Next
  <2>2. /\ UNCHANGED <<content, written, creation, answer, found, alone, contended>>
        /\ pc'[c] = "setRepresentation" /\ \A d \in Creator : d # c => pc'[d] = pc[d]
    BY <1>0, <1>2, <1>t DEF history, TypeOK
  <2>3. ASSUME NEW d \in Creator PROVE Progress(d)'
    <3>1. CASE d = c
      <4>1. creation[c] # None /\ written[c] = 0 /\ ~found[c]
        BY <1>0, <1>2, <1>t, CreationFields DEF Progress
      <4> QED
        BY <3>1, <4>1, <2>2, <1>t, LengthAssumption DEF Progress, Exists
    <3>2. CASE d # c
      BY <3>2, <2>2, <1>t DEF Progress, Exists
    <3> QED
      BY <3>1, <3>2
  <2>4. ASSUME NEW p \in Pod, p \notin contended PROVE Uncontended(p)'
    <3>1. Uncontended(p) /\ Creating(p)' = Creating(p) /\ OwnersIn(p)' = OwnersIn(p)
      BY <2>2, <2>4, <1>t DEF Creating, OwnersIn
    <3>2. c \in Creating(p) => OwnersIn(p) = {}
      <4>1. c \in Creating(p) => \A r \in Resource : content[p][r] = None
        BY <2>4, <1>2, <1>t DEF Creating, RootFirst
      <4> QED
        BY <4>1, ContentAssumption DEF OwnersIn
    <3> QED
      BY <3>1, <3>2, <2>2 DEF Uncontended, Creating
  <2>5. ASSUME NEW d \in Creator, alone[d] PROVE Alone(d)'
    BY <2>2, <2>5, <1>t DEF Alone, Creating
  <2>6. RootFirst'
    BY <2>2, <1>t DEF RootFirst, Exists
  <2> QED
    BY <2>1, <2>2, <2>3, <2>4, <2>5, <2>6 DEF IInv
<1> QED
  BY <1>1, <1>2 DEF HasResource, Taken

LEMMA AddGeneratedResourceStep ==
  ASSUME IInv, NEW c \in Creator, AddGeneratedResource(c)
  PROVE  IInv'
<1>t. /\ TypeOK /\ RootFirst /\ \A d \in Creator : Progress(d)
      /\ \A p \in Pod : p \notin contended => Uncontended(p)
      /\ \A d \in Creator : alone[d] => Alone(d)
  BY DEF IInv
<1>0. pc[c] = "setRepresentation"
  BY DEF AddGeneratedResource
<1>1. CASE content' = content /\ Return(c, "failed")
  BY <1>0, <1>1, NothingWritten, ReturnStep
<1>2. CASE /\ content' = [content EXCEPT
                 ![creation[c].pod][written[c] + 1] = creation[c].webId]
           /\ Proceed(c)
  <2>1. PICK p, w, i : p = creation[c].pod /\ w = creation[c].webId /\ i = written[c] + 1
    OBVIOUS
  <2>2. /\ ContentStep(c) /\ Exists(p)'
        /\ alone[c] => \A r \in 1..i : content'[p][r] \in {w, Edited}
        /\ p \notin contended => OwnersIn(p)' \subseteq {w}
    BY <2>1, <1>0, <1>2, ResourceWritten
  <2>3. CASE Return(c, "ok")
    BY <2>2, <2>3, <1>0, ReturnStep
  <2>4. CASE /\ written[c] + 1 < Length
             /\ written' = [written EXCEPT ![c] = @ + 1]
             /\ UNCHANGED <<pc, creation, answer, history>>
    <3>1. TypeOK'
      BY <1>t, TypeStep DEF Next
    <3>2. /\ UNCHANGED <<pc, creation, answer, found, alone, contended>>
          /\ written'[c] = i /\ i < Length
          /\ \A d \in Creator : d # c => written'[d] = written[d]
      BY <2>1, <2>4, <1>t DEF history, TypeOK
    <3>3. ASSUME NEW d \in Creator PROVE Progress(d)'
      <4>1. Exists(creation[d].pod) /\ pc[d] # "idle" => Exists(creation[d].pod)'
        BY <2>2, <3>2, <1>t, CreationFields DEF ContentStep, Exists
      <4>2. found[d] => pc[d] # "idle"
        BY <1>t DEF Progress
      <4>3. CASE d = c
        BY <4>1, <4>2, <4>3, <3>2, <2>1, <2>2, <1>0, <1>t DEF Progress, Exists
      <4>4. CASE d # c
        BY <4>1, <4>2, <4>4, <3>2, <1>t DEF Progress
      <4> QED
        BY <4>3, <4>4
    <3>4. ASSUME NEW q \in Pod, q \notin contended PROVE Uncontended(q)'
      <4>1. Uncontended(q) /\ Creating(q)' = Creating(q)
            /\ \A u, v \in OwnersIn(q)' : u = v
        BY <3>2, <3>4, <2>2, <1>t DEF Creating, ContentStep
      <4>2. ASSUME NEW d \in Creating(q), pc[d] = "setRepresentation"
            PROVE  OwnersIn(q)' \subseteq {creation[d].webId}
        <5>1. CASE d = c
          BY <5>1, <4>2, <3>4, <2>1, <2>2 DEF Creating
        <5>2. CASE d # c
          <6>1. content'[q] = content[q]
            BY <5>2, <4>2, <3>4, <2>2 DEF ContentStep, Creating
          <6>2. OwnersIn(q)' = OwnersIn(q)
            BY <6>1 DEF OwnersIn
          <6> QED
            BY <6>2, <4>1, <4>2 DEF Uncontended
        <5> QED
          BY <5>1, <5>2
      <4> QED
        BY <4>1, <4>2, <3>2 DEF Uncontended
    <3>5. ASSUME NEW d \in Creator, alone[d] PROVE Alone(d)'
      <4>1. Alone(d) /\ pc[d] # "idle"
        BY <3>5, <1>t DEF Progress
      <4>2. CASE d = c
        BY <4>1, <4>2, <3>2, <3>5, <2>1, <2>2 DEF Alone, Creating
      <4>3. CASE d # c
        <5>1. creation[d].pod \in Pod /\ d \in Creating(creation[d].pod)
          BY <4>1, <1>t, CreationFields DEF Creating
        <5>2. content'[creation[d].pod] = content[creation[d].pod]
          BY <5>1, <4>3, <3>5, <2>2 DEF ContentStep
        <5> QED
          BY <5>2, <4>1, <4>3, <3>2 DEF Alone, Creating
      <4> QED
        BY <4>2, <4>3
    <3> QED
      BY <3>1, <3>2, <3>3, <3>4, <3>5, <2>2 DEF IInv, ContentStep
  <2> QED
    BY <2>3, <2>4, <1>2 DEF Proceed
<1> QED
  BY <1>1, <1>2 DEF AddGeneratedResource, GoesOnAfterFailure

LEMMA EditStep ==
  ASSUME IInv, Edit
  PROVE  IInv'
<1>t. /\ TypeOK /\ RootFirst /\ \A d \in Creator : Progress(d)
      /\ \A p \in Pod : p \notin contended => Uncontended(p)
      /\ \A d \in Creator : alone[d] => Alone(d)
  BY DEF IInv
<1>0. UNCHANGED <<pc, written, creation, answer, found, alone, contended>>
  BY DEF Edit, history
<1>1. PICK p \in Pod, i \in Resource \ {1} :
         Exists(p) /\ content' = [content EXCEPT ![p][i] = Edited]
  BY DEF Edit
<1>2. \A q \in Pod, r \in Resource :
         content'[q][r] = IF q = p /\ r = i THEN Edited ELSE content[q][r]
  <2>1. /\ content' = [content EXCEPT ![p][i] = Edited] /\ i \in Resource
        /\ content \in [Pod -> [Resource -> WebId \cup {Edited, None}]]
    BY <1>1, <1>t DEF TypeOK
  <2> QED
    BY <2>1
<1>3. TypeOK'
  BY <1>t, TypeStep DEF Next
<1>4. \A q \in Pod : Exists(q)' <=> Exists(q)
  BY <1>1, <1>2, FirstResource DEF Exists
<1>5. RootFirst'
  <2> SUFFICES ASSUME NEW q \in Pod, ~Exists(q)', NEW r \in Resource
               PROVE  content'[q][r] = None
    BY DEF RootFirst
  <2>1. q # p /\ ~Exists(q)
    BY <1>1, <1>4
  <2> QED
    BY <2>1, <1>2, <1>t DEF RootFirst
<1>6. ASSUME NEW d \in Creator PROVE Progress(d)'
  <2>1. pc[d] # "idle" => (Exists(creation[d].pod)' <=> Exists(creation[d].pod))
    BY <1>0, <1>4, <1>t, CreationFields DEF Exists
  <2>2. found[d] => pc[d] # "idle"
    BY <1>t DEF Progress
  <2> QED
    BY <2>1, <2>2, <1>0, <1>t DEF Progress
<1>7. ASSUME NEW q \in Pod PROVE OwnersIn(q)' \subseteq OwnersIn(q)
  <2>1. \A r \in Resource : content'[q][r] \in {content[q][r], Edited}
    BY <1>2
  <2> QED
    BY <2>1, ContentAssumption DEF OwnersIn
<1>8. ASSUME NEW q \in Pod, q \notin contended PROVE Uncontended(q)'
  <2>1. Uncontended(q) /\ Creating(q)' = Creating(q)
    BY <1>0, <1>8, <1>t DEF Creating
  <2> QED
    BY <2>1, <1>0, <1>7 DEF Uncontended
<1>9. ASSUME NEW d \in Creator, alone[d] PROVE Alone(d)'
  <2>1. Alone(d) /\ pc[d] # "idle"
    BY <1>9, <1>t DEF Progress
  <2>2. creation[d].pod \in Pod /\ 1..written[d] \subseteq Resource
    BY <2>1, <1>t, CreationFields, LengthAssumption DEF TypeOK, Resource
  <2> QED
    BY <2>1, <2>2, <1>0, <1>2 DEF Alone, Creating
<1> QED
  BY <1>0, <1>3, <1>5, <1>6, <1>8, <1>9 DEF IInv

LEMMA CrashStep ==
  ASSUME IInv, Crash
  PROVE  IInv'
<1>t. /\ TypeOK /\ RootFirst /\ \A p \in Pod : p \notin contended => Uncontended(p)
  BY DEF IInv
<1>1. /\ content' = content /\ contended' = contended
      /\ \A c \in Creator : /\ pc'[c] = "idle" /\ written'[c] = 0 /\ creation'[c] = None
                            /\ ~found'[c] /\ ~alone'[c]
  BY DEF Crash
<1>2. TypeOK'
  BY TypeStep DEF Next, IInv
<1>3. RootFirst'
  BY <1>1, <1>t DEF RootFirst, Exists
<1>4. ASSUME NEW c \in Creator PROVE Progress(c)'
  BY <1>1 DEF Progress
<1>5. ASSUME NEW p \in Pod, p \notin contended' PROVE Uncontended(p)'
  <2>1. Creating(p)' = {} /\ OwnersIn(p)' = OwnersIn(p)
    BY <1>1 DEF Creating, OwnersIn
  <2> QED
    BY <2>1, <1>1, <1>5, <1>t DEF Uncontended
<1> QED
  BY <1>1, <1>2, <1>3, <1>4, <1>5 DEF IInv

LEMMA InvInit == Init => IInv
<1> SUFFICES ASSUME Init PROVE IInv
  OBVIOUS
<1>1. RootFirst /\ \A c \in Creator : Progress(c) /\ ~alone[c]
  BY DEF Init, RootFirst, Progress
<1>2. \A p \in Pod : Uncontended(p)
  <2>1. \A p \in Pod : Creating(p) = {} /\ OwnersIn(p) = {}
    BY ContentAssumption DEF Init, Creating, OwnersIn
  <2> QED
    BY <2>1 DEF Uncontended
<1> QED
  BY <1>1, <1>2, TypeInit DEF IInv

LEMMA InvStep ==
  ASSUME IInv, [Next]_vars
  PROVE  IInv'
<1>1. CASE UNCHANGED vars
  <2>1. UNCHANGED <<content, pc, written, creation, answer, found, alone, contended>>
    BY <1>1 DEF vars, history
  <2>2. \A p \in Pod : /\ Creating(p)' = Creating(p) /\ OwnersIn(p)' = OwnersIn(p)
    BY <2>1 DEF Creating, OwnersIn
  <2>3. TypeOK'
    BY <1>1, TypeStep DEF IInv
  <2>4. RootFirst' /\ \A c \in Creator : Progress(c)' /\ (alone'[c] => Alone(c)')
    BY <2>1 DEF IInv, RootFirst, Progress, Exists, Alone, Creating
  <2>5. \A p \in Pod : p \notin contended' => Uncontended(p)'
    BY <2>1, <2>2 DEF IInv, Uncontended
  <2> QED
    BY <2>3, <2>4, <2>5 DEF IInv
<1> QED
  BY <1>1, CreatePodStep, HasResourceStep, AddGeneratedResourceStep, EditStep, CrashStep DEF Next

(* What holds of createPod at each of its awaits, and of every pod.        *)
THEOREM Invariance == Spec => []IInv
<1> QED
  BY InvInit, InvStep, PTL DEF Spec

(* TypeOK of PodCreation.                                                  *)
THEOREM TypeCorrect == Spec => []TypeOK
<1>1. IInv => TypeOK
  BY DEF IInv
<1> QED
  BY <1>1, Invariance, PTL

(* MixedPodsWereContended: what failures and crashes leave of a pod nobody *)
(* completes for another owner, unless two create it at once or it is to   *)
(* be overwritten.                                                         *)
THEOREM NoMixedPods == Spec => []MixedPodsWereContended
<1>1. IInv => MixedPodsWereContended
  <2> SUFFICES ASSUME IInv, NEW p \in Pod, p \notin contended, NEW w \in OwnersIn(p)
               PROVE  w \in WebId /\ OwnersIn(p) = {w}
    BY DEF MixedPodsWereContended
  <2> QED
    BY DEF IInv, Uncontended, OwnersIn
<1> QED
  BY <1>1, Invariance, PTL

(* ExistingPodsAreKept: a creation that is not to overwrite never writes   *)
(* to a pod that was there when it was called.                             *)
THEOREM PodsAreKept == Spec => ExistingPodsAreKept
<1>1. IInv /\ [Next]_vars =>
        [\A c \in Creator : AddGeneratedResource(c) /\ content' # content /\ found[c]
            => creation[c].overwrite]_vars
  BY DEF IInv, Progress, AddGeneratedResource
<1> QED
  BY <1>1, Invariance, PTL DEF Spec, ExistingPodsAreKept

(* SuccessIsWhole: success that nobody interfered with is success with all *)
(* of the pod.                                                             *)
THEOREM SuccessesAreWhole == Spec => SuccessIsWhole
<1>1. ASSUME IInv, Next, NEW c \in Creator, creation[c] # None, answer'[c] = "ok", alone[c],
             NEW r \in Resource
      PROVE  content'[creation[c].pod][r] \in {creation[c].webId, Edited}
  <2>t. TypeOK /\ Progress(c) /\ answer[c] = None /\ answer \in [Creator -> {"ok", "conflict", "failed", None}]
    BY <1>1 DEF IInv, TypeOK, Progress
  <2>1. AddGeneratedResource(c)
    <3>1. ASSUME NEW d \in Creator, NEW k \in Creation, CreatePod(d, k) PROVE FALSE
      BY <3>1, <1>1, <2>t, NoneAssumption DEF CreatePod
    <3>2. ASSUME NEW d \in Creator, HasResource(d) PROVE FALSE
      BY <3>2, <1>1, <2>t, NoneAssumption DEF HasResource, Return
    <3>3. ASSUME NEW d \in Creator, d # c, AddGeneratedResource(d) PROVE FALSE
      BY <3>3, <1>1, <2>t, NoneAssumption
         DEF AddGeneratedResource, Proceed, GoesOnAfterFailure, Return
    <3>4. CASE Edit \/ Crash
      BY <3>4, <1>1, <2>t, NoneAssumption DEF Edit, Crash
    <3> QED
      BY <1>1, <3>1, <3>2, <3>3, <3>4 DEF Next
  <2>2. /\ content' = [content EXCEPT
              ![creation[c].pod][written[c] + 1] = creation[c].webId]
        /\ ~(written[c] + 1 < Length) /\ pc[c] = "setRepresentation"
    BY <2>1, <1>1, <2>t, NoneAssumption
       DEF AddGeneratedResource, Proceed, GoesOnAfterFailure, Return
  <2>3. \A q \in 1 .. written[c] + 1 :
           content'[creation[c].pod][q] \in {creation[c].webId, Edited}
    BY <2>2, <1>1, ResourceWritten
  <2>4. r \in 1 .. written[c] + 1
    BY <2>2, <2>t, LengthAssumption DEF Progress, TypeOK, Resource
  <2> QED
    BY <2>3, <2>4
<1>2. IInv /\ [Next]_vars =>
        [\A c \in Creator : creation[c] # None /\ answer'[c] = "ok" /\ alone[c] =>
            \A r \in Resource :
               content'[creation[c].pod][r] \in {creation[c].webId, Edited}]_vars
  BY <1>1
<1> QED
  BY <1>2, Invariance, PTL DEF Spec, SuccessIsWhole

=============================================================================
