------------------------- MODULE UmaProtocol_proofs -------------------------
(***************************************************************************)
(* Proofs about UmaProtocol, for any number of clients, agents, resources, *)
(* modes and authorizers, any lifetimes and any policy.                    *)
(***************************************************************************)
EXTENDS UmaProtocol, TLAPS

USE DEF wallet, asVars

(* What the handlers rely on at each point of a call.                      *)
CallInv(s) ==
    /\ call[s].at # "idle" => served[s] = {}
    /\ call[s].at \in RsPC => call[s].res \in Resource
    /\ call[s].at \in {"verify", "deserialize"} =>
            call[s].jwt \in {ticket[s], token[s]} \ {None}
    /\ call[s].at = "authorize" => call[s].jwt \in {None, token[s]}
    /\ call[s].at \in {"challenge", "register"} =>
            /\ call[s].jwt = None
            /\ \A m \in call[s].modes : <<call[s].res, m>> \in asked
    /\ call[s].at = "register" => PodOwner[call[s].res] # None
    /\ call[s].at \in {"authenticate", "consult"} =>
            call[s].jwt = ticket[s] /\ call[s].jwt # None
    /\ call[s].at = "consult" =>
            call[s].claim \in Agent /\ call[s].granted \subseteq call[s].jwt.modes
    /\ call[s].at # "consult" => call[s].granted = {}

(* Tickets and tokens are told apart, and neither exceeds a challenge.     *)
WalletInv(s) ==
    /\ ticket[s] # None =>
            /\ ticket[s].webid = None /\ ticket[s].owner # None
            /\ \A m \in ticket[s].modes : <<ticket[s].sub, m>> \in asked
    /\ token[s] # None =>
            /\ token[s].owner = None /\ token[s].webid \in Agent
            /\ \A m \in token[s].modes : <<token[s].sub, m>> \in asked

IInv == TypeOK /\ \A s \in Session : CallInv(s) /\ WalletInv(s)

LEMMA IdleIsCall == Idle \in Call
BY DEF Idle, Call, RsPC, AsPC

LEMMA InitInv == Init => IInv
BY IdleIsCall DEF Init, IInv, TypeOK, Without, Status, CallInv, WalletInv,
                  Idle, RsPC

(* A session that a step leaves alone keeps its invariants.                *)
LEMMA Bystander ==
  ASSUME NEW t \in Session, CallInv(t), WalletInv(t),
         call'[t] = call[t], served'[t] = served[t],
         ticket'[t] = ticket[t], token'[t] = token[t], asked \subseteq asked'
  PROVE  CallInv(t)' /\ WalletInv(t)'
BY DEF CallInv, WalletInv

(* Responses and moves are well-typed.                                     *)
LEMMA ReplyType ==
  ASSUME TypeOK, NEW s \in Session, NEW t \in Status, NEW b \in BOOLEAN,
         Reply(s, [status |-> t, ticket |-> b])
  PROVE  /\ call' \in [Session -> Call] /\ call' = [call EXCEPT ![s] = Idle]
         /\ answer' \in [Session -> [status : Status, ticket : BOOLEAN]]
BY IdleIsCall DEF TypeOK, Reply

LEMMA AnswerType ==
  ASSUME TypeOK, NEW s \in Session, NEW t \in Status, Answer(s, t)
  PROVE  /\ call' \in [Session -> Call] /\ call' = [call EXCEPT ![s] = Idle]
         /\ answer' \in [Session -> [status : Status, ticket : BOOLEAN]]
BY ReplyType DEF Answer, Without

(* The call of a session that has answered makes no demands.               *)
LEMMA Answered ==
  ASSUME TypeOK, NEW s \in Session, call' = [call EXCEPT ![s] = Idle]
  PROVE  CallInv(s)'
BY DEF CallInv, Idle, RsPC, TypeOK

LEMMA KeysType ==
  ASSUME TypeOK
  PROVE  /\ DefaultKid \in Nat
         /\ InitKeys => keys' \subseteq Nat /\ currentKid' \in Nat /\ kidCount' \in Nat
<1>1. keys \subseteq Nat /\ currentKid \in Nat /\ kidCount \in Nat
  BY DEF TypeOK
<1>2. DefaultKid \in Nat
  BY <1>1 DEF DefaultKid
<1>3. kidCount + 1 \in Nat
  BY <1>1
<1> QED
  BY <1>1, <1>2, <1>3 DEF InitKeys

(* The steps of a call that answer and leave wallets and history alone.    *)
LEMMA AnswerStep ==
  ASSUME IInv, NEW s \in Session, NEW t \in Status, Answer(s, t),
         served' \in [Session -> SUBSET ((Agent \cup {None}) \X Resource \X Mode)],
         \A x \in Session \ {s} : served'[x] = served[x],
         keys' \subseteq Nat /\ currentKid' \in Nat /\ kidCount' \in Nat,
         UNCHANGED <<time, policy, rsKeys, wallet, asked>>
  PROVE  IInv'
<1>1. TypeOK'
  BY AnswerType DEF IInv, TypeOK
<1>2. CallInv(s)' /\ WalletInv(s)'
  BY AnswerType, Answered DEF IInv, WalletInv
<1>3. ASSUME NEW x \in Session \ {s} PROVE CallInv(x)' /\ WalletInv(x)'
  BY <1>3, AnswerType, Bystander DEF IInv, TypeOK
<1> QED
  BY <1>1, <1>2, <1>3 DEF IInv

(* The steps that move a call on.                                          *)
LEMMA MoveStep ==
  ASSUME IInv, NEW s \in Session, NEW c \in Call,
         call' = [call EXCEPT ![s] = c], CallInv(s)',
         answer' \in [Session -> [status : Status, ticket : BOOLEAN]],
         served' \in [Session -> SUBSET ((Agent \cup {None}) \X Resource \X Mode)],
         \A x \in Session \ {s} : served'[x] = served[x],
         keys' \subseteq Nat /\ currentKid' \in Nat /\ kidCount' \in Nat,
         asked \subseteq asked' /\ asked' \subseteq Resource \X Mode,
         UNCHANGED <<time, policy, rsKeys, wallet>>
  PROVE  IInv'
<1>1. TypeOK'
  BY DEF IInv, TypeOK
<1>2. WalletInv(s)'
  BY DEF IInv, WalletInv
<1>3. ASSUME NEW x \in Session \ {s} PROVE CallInv(x)' /\ WalletInv(x)'
  BY <1>3, Bystander DEF IInv, TypeOK
<1> QED
  BY <1>1, <1>2, <1>3 DEF IInv

(* The locals of a handler that moves on, or starts, are well-typed.       *)
LEMMA MovedType ==
  ASSUME NEW c \in Call, NEW l \in RsPC \cup AsPC, NEW e \in Nat
  PROVE  /\ [c EXCEPT !.at = l] \in Call
         /\ [c EXCEPT !.at = l, !.bearerExp = e] \in Call
BY DEF Call

LEMMA StartType ==
  ASSUME NEW l \in RsPC \cup AsPC, NEW r \in Resource \cup {None},
         NEW M \in SUBSET Mode, NEW j \in Jwt \cup {None}, NEW a \in Agent \cup {None}
  PROVE  /\ [Idle EXCEPT !.at = l, !.res = r, !.modes = M, !.jwt = j] \in Call
         /\ [Idle EXCEPT !.at = l, !.jwt = j, !.claim = a] \in Call
BY IdleIsCall DEF Call

LEMMA ClientStep ==
  ASSUME IInv, NEW s \in Session, Client(s)
  PROVE  IInv'
<1> USE DEF IInv, TypeOK, CallInv, WalletInv
<1>1. Without("none") \in [status : Status, ticket : BOOLEAN]
  BY DEF Without, Status
<1>2. ASSUME NEW q \in Request, NEW j \in {None, ticket[s], token[s]},
             SendRequest(s, q, j)
      PROVE  IInv'
  <2> DEFINE c == [Idle EXCEPT !.at = IF j = None THEN "authorize" ELSE "verify",
                               !.res = q.res, !.modes = q.modes, !.jwt = j]
  <2>1. c \in Call
    <3>1. q.res \in Resource /\ q.modes \in SUBSET Mode
      BY RequestAssumption
    <3>2. j \in Jwt \cup {None}
      OBVIOUS
    <3>3. CASE j = None
      BY <3>1, <3>2, <3>3, StartType DEF RsPC
    <3>4. CASE j # None
      BY <3>1, <3>2, <3>4, StartType DEF RsPC
    <3> QED
      BY <3>3, <3>4
  <2>2. call' = [call EXCEPT ![s] = c]
    BY <1>2 DEF SendRequest
  <2>3. CallInv(s)'
    BY <1>2, <2>2, RequestAssumption DEF SendRequest, Idle, RsPC
  <2> HIDE DEF c, CallInv, WalletInv
  <2> QED
    BY <1>1, <1>2, <2>1, <2>2, <2>3, MoveStep DEF SendRequest
<1>3. ASSUME NEW j \in {ticket[s], token[s]} \ {None}, NEW a \in Agent \cup {None},
             RequestToken(s, j, a)
      PROVE  IInv'
  <2> DEFINE c == [Idle EXCEPT !.at = "deserialize", !.jwt = j, !.claim = a]
  <2>1. c \in Call
    BY StartType DEF AsPC
  <2>2. call' = [call EXCEPT ![s] = c]
    BY <1>3 DEF RequestToken
  <2>3. CallInv(s)'
    BY <1>3, <2>2 DEF RequestToken, Idle, RsPC
  <2> HIDE DEF c, CallInv, WalletInv
  <2> QED
    BY <1>1, <1>3, <2>1, <2>2, <2>3, MoveStep DEF RequestToken
<1> QED
  BY <1>2, <1>3 DEF Client

(* What can be served fits the type of served.                             *)
LEMMA ServeType ==
  ASSUME IInv, NEW s \in Session, Allow(s)
  PROVE  served' \in [Session -> SUBSET ((Agent \cup {None}) \X Resource \X Mode)]
<1> DEFINE what == {<<IF call[s].jwt = None THEN None ELSE call[s].jwt.webid,
                     call[s].res, m>> : m \in call[s].modes \ Public[call[s].res]}
<1>1. call[s] \in Call /\ call[s].res \in Resource
  BY DEF IInv, TypeOK, CallInv, Allow, RsPC
<1>2. what \in SUBSET ((Agent \cup {None}) \X Resource \X Mode)
  BY <1>1 DEF Call, Jwt
<1> HIDE DEF what
<1>3. served' = [served EXCEPT ![s] = what]
  BY DEF Allow, what
<1> QED
  BY <1>2, <1>3 DEF IInv, TypeOK

LEMMA ResourceServerStep ==
  ASSUME IInv, NEW s \in Session, ResourceServer(s) \/ ConfigUnavailable(s)
  PROVE  IInv'
<1> USE DEF IInv, TypeOK, CallInv, WalletInv
<1>1. CASE VerifyToken(s)
  <2> DEFINE c == [call[s] EXCEPT !.at = "authorize"]
  <2>1. c \in Call
    BY MovedType, 0 \in Nat DEF RsPC
  <2>2. call' = [call EXCEPT ![s] = c]
    BY <1>1 DEF VerifyToken, Goto
  <2>3. CallInv(s)'
    <3>1. call[s].jwt = token[s]
      BY <1>1 DEF VerifyToken, IsUMAToken
    <3> QED
      BY <1>1, <2>2, <3>1 DEF VerifyToken, RsPC, Call
  <2> HIDE DEF c, CallInv, WalletInv
  <2> QED
    BY <1>1, <2>1, <2>2, <2>3, MoveStep DEF VerifyToken, Goto
<1>2. CASE RejectToken(s) \/ ConfigUnavailable(s)
  BY <1>2, AnswerStep DEF RejectToken, ConfigUnavailable, Status
<1>3. CASE Allow(s)
  BY <1>3, AnswerStep, ServeType DEF Allow, Status
<1>4. CASE Refuse(s)
  BY <1>4, AnswerStep DEF Refuse, Status
<1>5. CASE Challenge(s)
  <2> DEFINE c == [call[s] EXCEPT !.at = "challenge"]
  <2>1. c \in Call
    BY MovedType, 0 \in Nat DEF RsPC
  <2>2. call' = [call EXCEPT ![s] = c]
    BY <1>5 DEF Challenge, Goto
  <2>3. CallInv(s)'
    BY <1>5, <2>2 DEF Challenge, RsPC, Call
  <2>4. asked \subseteq asked' /\ asked' \subseteq Resource \X Mode
    BY <1>5 DEF Challenge, RsPC, Call
  <2> HIDE DEF c, CallInv, WalletInv
  <2> QED
    BY <1>5, <2>1, <2>2, <2>3, <2>4, MoveStep DEF Challenge, Goto
<1>6. CASE FetchPermissionTicket(s)
  <2> DEFINE c == [call[s] EXCEPT !.at = "register", !.bearerExp = time + BearerLife]
  <2>1. c \in Call
    <3>1. time + BearerLife \in Nat
      BY TimeAssumption
    <3> QED
      BY <3>1, MovedType DEF RsPC
  <2>2. call' = [call EXCEPT ![s] = c]
    BY <1>6 DEF FetchPermissionTicket
  <2>3. CallInv(s)'
    BY <1>6, <2>2 DEF FetchPermissionTicket, RsPC, Call
  <2> HIDE DEF c, CallInv, WalletInv
  <2> QED
    BY <1>6, <2>1, <2>2, <2>3, MoveStep DEF FetchPermissionTicket
<1>7. CASE ChallengeWithoutTicket(s)
  BY <1>7, AnswerStep DEF ChallengeWithoutTicket, Status
<1> QED
  BY <1>1, <1>2, <1>3, <1>4, <1>5, <1>6, <1>7 DEF ResourceServer

(* A session receives a ticket, or a token, of its own.                    *)
LEMMA WalletStep ==
  ASSUME IInv, NEW s \in Session, NEW t \in Status, NEW b \in BOOLEAN,
         NEW j \in Jwt \cup {None}, NEW k \in Jwt \cup {None},
         Reply(s, [status |-> t, ticket |-> b]), InitKeys,
         ticket' = [ticket EXCEPT ![s] = j], token' = [token EXCEPT ![s] = k],
         WalletInv(s)',
         UNCHANGED <<time, policy, rsKeys, served, asked>>
  PROVE  IInv'
<1>1. TypeOK'
  BY ReplyType, KeysType DEF IInv, TypeOK
<1>2. CallInv(s)'
  BY ReplyType, Answered DEF IInv
<1>3. ASSUME NEW x \in Session \ {s} PROVE CallInv(x)' /\ WalletInv(x)'
  BY <1>3, ReplyType, Bystander DEF IInv, TypeOK
<1> QED
  BY <1>1, <1>2, <1>3 DEF IInv

(* What the two factories sign.                                            *)
LEMMA SerializeType ==
  ASSUME TypeOK, NEW sub \in Resource, NEW M \in SUBSET Mode
  PROVE  /\ \A o \in Owner \cup {None} : SerializeTicket(sub, M, o) \in Jwt
         /\ \A a \in Agent \cup {None} : SerializeToken(sub, M, a) \in Jwt
<1>1. DefaultKid \in Nat /\ time \in Nat
  BY KeysType DEF TypeOK
<1>2. time + TicketLife \in Nat /\ time + TokenLife \in Nat
  BY <1>1, TimeAssumption
<1> QED
  BY <1>1, <1>2 DEF SerializeTicket, SerializeToken, Jwt

LEMMA AuthorizationServerStep ==
  ASSUME IInv, NEW s \in Session, AuthorizationServer(s) \/ LoseGrant(s)
  PROVE  IInv'
<1> USE DEF IInv, TypeOK
<1>0. CallInv(s) /\ WalletInv(s) /\ call[s] \in Call
  OBVIOUS
<1>1. CASE RegisterPermission(s)
  <2> DEFINE j == SerializeTicket(call[s].res, TicketNeeds(call[s]), PodOwner[call[s].res])
  <2>1. /\ call[s].res \in Resource /\ call[s].modes \in SUBSET Mode
        /\ PodOwner[call[s].res] \in Owner \cup {None} /\ PodOwner[call[s].res] # None
        /\ \A m \in call[s].modes : <<call[s].res, m>> \in asked
    BY <1>0, <1>1, DataAssumption DEF RegisterPermission, CallInv, Call, RsPC
  <2>2. j \in Jwt
    BY <2>1, SerializeType DEF TicketNeeds
  <2>3. /\ j.webid = None /\ j.owner # None
        /\ \A m \in j.modes : <<j.sub, m>> \in asked
    BY <2>1 DEF SerializeTicket, TicketNeeds
  <2>4. /\ ticket' = [ticket EXCEPT ![s] = j]
        /\ token' = [token EXCEPT ![s] = token[s]] /\ token[s] \in Jwt \cup {None}
    BY <1>1 DEF RegisterPermission
  <2> HIDE DEF j
  <2>5. WalletInv(s)'
    BY <1>0, <1>1, <2>2, <2>3, <2>4 DEF RegisterPermission, WalletInv
  <2> QED
    BY <1>1, <2>2, <2>4, <2>5, WalletStep DEF RegisterPermission, Status
<1>2. CASE DeserializeTicket(s)
  <2>1. keys' \subseteq Nat /\ currentKid' \in Nat /\ kidCount' \in Nat
    BY <1>2, KeysType DEF DeserializeTicket
  <2>2. CASE ~IsTicket(call[s].jwt)
    BY <1>2, <2>1, <2>2, AnswerStep DEF DeserializeTicket, Status
  <2>3. CASE IsTicket(call[s].jwt)
    <3> DEFINE c == [call[s] EXCEPT !.at = "authenticate"]
    <3>1. c \in Call
      BY MovedType, 0 \in Nat DEF AsPC
    <3>2. call' = [call EXCEPT ![s] = c]
      BY <1>2, <2>3 DEF DeserializeTicket, Goto
    <3>3. call[s].jwt = ticket[s] /\ call[s].jwt # None
      BY <1>0, <1>2, <2>3 DEF DeserializeTicket, IsTicket, CallInv, WalletInv
    <3>4. CallInv(s)'
      BY <1>0, <1>2, <3>2, <3>3 DEF DeserializeTicket, CallInv, RsPC, Call
    <3> HIDE DEF c
    <3> QED
      BY <1>2, <2>1, <2>3, <3>1, <3>2, <3>4, MoveStep DEF DeserializeTicket, Goto
  <2> QED
    BY <2>2, <2>3
<1>3. CASE Authenticate(s)
  <2> DEFINE c == [call[s] EXCEPT !.at = "consult"]
  <2>1. c \in Call
    BY MovedType, 0 \in Nat DEF AsPC
  <2>2. call' = [call EXCEPT ![s] = c]
    BY <1>3 DEF Authenticate, Goto
  <2>3. CallInv(s)'
    BY <1>0, <1>3, <2>2 DEF Authenticate, CallInv, RsPC, Call
  <2> HIDE DEF c
  <2> QED
    BY <1>3, <2>1, <2>2, <2>3, MoveStep DEF Authenticate, Goto
<1>4. CASE NeedInfo(s)
  <2>1. keys' \subseteq Nat /\ currentKid' \in Nat /\ kidCount' \in Nat
    BY <1>4, KeysType DEF NeedInfo
  <2> QED
    BY <1>4, <2>1, AnswerStep DEF NeedInfo, Status
<1>5. ASSUME NEW z \in Authorizer, ConsultAuthorizer(s, z) PROVE IInv'
  <2>1. PICK M \in {Allowed(call[s], z), {}} :
           call' = [call EXCEPT ![s].granted = @ \cup Filtered(call[s], M),
                                ![s].consulted = @ \cup {z}]
    BY <1>5 DEF ConsultAuthorizer
  <2> DEFINE c == [call[s] EXCEPT !.granted = @ \cup Filtered(call[s], M),
                                  !.consulted = @ \cup {z}]
  <2>2. call' = [call EXCEPT ![s] = c]
    BY <2>1
  <2>3. call[s].at = "consult" /\ call[s].jwt \in Jwt /\ M \subseteq Mode
    BY <1>0, <1>5 DEF ConsultAuthorizer, CallInv, Call, Allowed
  <2>4. c \in Call
    <3>1. call[s].granted \cup Filtered(call[s], M) \in SUBSET Mode
      BY <2>3 DEF Call, Filtered
    <3>2. call[s].consulted \cup {z} \in SUBSET Authorizer
      BY DEF Call
    <3> QED
      BY <1>0, <3>1, <3>2 DEF Call
  <2>5. CallInv(s)'
    BY <1>0, <1>5, <2>2, <2>3 DEF ConsultAuthorizer, CallInv, RsPC, Call, Filtered
  <2> HIDE DEF c
  <2> QED
    BY <1>5, <2>2, <2>4, <2>5, MoveStep DEF ConsultAuthorizer
<1>6. CASE DenyRequest(s) \/ LoseGrant(s)
  BY <1>6, AnswerStep DEF DenyRequest, LoseGrant, Status
<1>7. CASE IssueToken(s)
  <2> DEFINE j == SerializeToken(call[s].jwt.sub, call[s].granted, call[s].claim)
  <2>1. /\ call[s].at = "consult" /\ call[s].jwt \in Jwt /\ call[s].jwt = ticket[s]
        /\ call[s].granted \subseteq Mode /\ call[s].claim \in Agent
        /\ call[s].granted \subseteq call[s].jwt.modes
    BY <1>0, <1>7 DEF IssueToken, CallInv, Call
  <2>2. call[s].jwt.sub \in Resource
    BY <2>1 DEF Jwt
  <2>3. j \in Jwt
    BY <2>1, <2>2, SerializeType
  <2>4. /\ j.owner = None /\ j.webid \in Agent
        /\ \A m \in j.modes : <<j.sub, m>> \in asked
    BY <1>0, <2>1, NoneAssumption DEF SerializeToken, WalletInv
  <2>5. /\ token' = [token EXCEPT ![s] = j]
        /\ ticket' = [ticket EXCEPT ![s] = ticket[s]] /\ ticket[s] \in Jwt \cup {None}
    BY <1>7 DEF IssueToken
  <2> HIDE DEF j
  <2>7. Reply(s, [status |-> "token", ticket |-> FALSE]) /\ InitKeys
        /\ UNCHANGED <<time, policy, rsKeys, served, asked>>
    BY <1>7 DEF IssueToken, Answer, Without
  <2>8. "token" \in Status
    BY DEF Status
  <2>9. WalletInv(s)'
    BY <1>0, <1>7, <2>3, <2>4, <2>5 DEF IssueToken, WalletInv
  <2> QED
    BY <2>3, <2>5, <2>7, <2>8, <2>9, WalletStep
<1> QED
  BY <1>1, <1>2, <1>3, <1>4, <1>5, <1>6, <1>7 DEF AuthorizationServer

(* The keys, the clock and the policy change under the calls.              *)
LEMMA EnvironmentStep ==
  ASSUME IInv, FetchJwks \/ LateKey \/ Restart \/ ChangePolicy \/ Tick
  PROVE  IInv'
<1> USE DEF IInv
<1>1. CASE FetchJwks
  <2>1. TypeOK'
    BY <1>1, KeysType DEF FetchJwks, Fetched, TypeOK
  <2> QED
    BY <1>1, <2>1, Bystander DEF FetchJwks
<1>2. CASE LateKey
  <2>1. kidCount \in Nat /\ kidCount + 1 \in Nat
    BY DEF TypeOK
  <2>2. TypeOK'
    BY <1>2, <2>1 DEF LateKey, TypeOK
  <2> QED
    BY <1>2, <2>2, Bystander DEF LateKey
<1>3. CASE Restart
  <2>1. call' \in [Session -> Call]
    BY <1>3, IdleIsCall DEF Restart, TypeOK
  <2>2. answer' \in [Session -> [status : Status, ticket : BOOLEAN]]
    BY <1>3 DEF Restart, TypeOK, Without, Status
  <2>3. TypeOK'
    BY <1>3, <2>1, <2>2 DEF Restart, TypeOK
  <2>4. ASSUME NEW s \in Session PROVE CallInv(s)' /\ WalletInv(s)'
    <3>1. CASE call[s].at \in AsPC \cup {"register"}
      <4>1. call'[s] = Idle
        BY <1>3, <3>1 DEF Restart
      <4>2. CallInv(s)'
        BY <4>1 DEF CallInv, Idle, RsPC
      <4> QED
        BY <1>3, <4>2 DEF Restart, WalletInv
    <3>2. CASE call[s].at \notin AsPC \cup {"register"}
      BY <1>3, <3>2, Bystander DEF Restart
    <3> QED
      BY <3>1, <3>2
  <2> QED
    BY <2>3, <2>4
<1>4. CASE ChangePolicy
  <2>1. TypeOK'
    BY <1>4 DEF ChangePolicy, TypeOK
  <2> QED
    BY <1>4, <2>1, Bystander DEF ChangePolicy
<1>5. CASE Tick
  <2>1. time \in Nat /\ time + 1 \in Nat
    BY DEF TypeOK
  <2>2. TypeOK'
    BY <1>5, <2>1 DEF Tick, TypeOK
  <2> QED
    BY <1>5, <2>2, Bystander DEF Tick
<1> QED
  BY <1>1, <1>2, <1>3, <1>4, <1>5

LEMMA InvStep == IInv /\ [Next]_vars => IInv'
<1> SUFFICES ASSUME IInv, [Next]_vars PROVE IInv'
    OBVIOUS
<1>1. CASE UNCHANGED vars
  <2>1. TypeOK'
    BY <1>1 DEF IInv, TypeOK, vars
  <2> QED
    BY <1>1, <2>1, Bystander DEF IInv, vars
<1>2. CASE Next
  BY <1>2, ClientStep, ResourceServerStep, AuthorizationServerStep, EnvironmentStep
     DEF Next, Failure
<1> QED
  BY <1>1, <1>2

(* The inductive invariant holds in every reachable state.                 *)
THEOREM Invariance == Spec => []IInv
<1> QED
  BY InitInv, InvStep, PTL DEF Spec

(* Every variable of the protocol keeps its type.                          *)
THEOREM TypeCorrect == Spec => []TypeOK
<1>1. IInv => TypeOK
  BY DEF IInv
<1> QED
  BY <1>1, Invariance, PTL

(* No access token exceeds the requests the resource server challenged:    *)
(* the filter of the grant processor, the scopes of the registration and   *)
(* the claims that tell tickets from tokens see to that together.          *)
THEOREM TokensBounded == Spec => []TokensWithinChallenges
<1>1. IInv => TokensWithinChallenges
  BY DEF IInv, WalletInv, TokensWithinChallenges
<1> QED
  BY <1>1, Invariance, PTL

-----------------------------------------------------------------------------
(* The refinement.  The accesses of a JWT and of a pending decision.       *)

Triples == Agent \X Resource \X Mode

LEMMA RefinesInit == Init => A!Init
BY DEF Init, A!Init, GrantsBar, ConsentBar, ConsentOf, LeaseBar, LeaseOf,
       AdmittedBar, AdmittedOf, Idle, AccessesOf

(* A step of one call changes the consent and the admission of its session *)
(* alone, and neither leases nor grants.                                   *)
LEMMA BarStep ==
  ASSUME TypeOK, NEW s \in Session, NEW c, call' = [call EXCEPT ![s] = c]
  PROVE  /\ ConsentBar' = [ConsentBar EXCEPT ![s] = ConsentOf(c)]
         /\ AdmittedBar' = [AdmittedBar EXCEPT ![s] = AdmittedOf(c)]
<1>1. \A x \in Session : call'[x] = IF x = s THEN c ELSE call[x]
  BY DEF TypeOK
<1>2. ConsentBar' = [x \in Session |-> ConsentOf(IF x = s THEN c ELSE call[x])]
  BY <1>1 DEF ConsentBar
<1>3. AdmittedBar' = [x \in Session |-> AdmittedOf(IF x = s THEN c ELSE call[x])]
  BY <1>1 DEF AdmittedBar
<1>4. ConsentBar' = [ConsentBar EXCEPT ![s] = ConsentOf(c)]
  BY <1>2 DEF ConsentBar
<1>5. AdmittedBar' = [AdmittedBar EXCEPT ![s] = AdmittedOf(c)]
  BY <1>3 DEF AdmittedBar
<1> QED
  BY <1>4, <1>5

LEMMA BarFixed ==
  /\ UNCHANGED policy => UNCHANGED GrantsBar
  /\ UNCHANGED token => UNCHANGED LeaseBar
  /\ UNCHANGED call => UNCHANGED <<ConsentBar, AdmittedBar>>
BY DEF GrantsBar, LeaseBar, ConsentBar, AdmittedBar

LEMMA BarType ==
  /\ ConsentBar = [s \in Session |-> ConsentBar[s]]
  /\ AdmittedBar = [s \in Session |-> AdmittedBar[s]]
  /\ LeaseBar = [s \in Session |-> LeaseBar[s]]
  /\ \A s \in Session : /\ ConsentBar[s] = ConsentOf(call[s])
                         /\ AdmittedBar[s] = AdmittedOf(call[s])
                         /\ LeaseBar[s] = LeaseOf(token[s])
BY DEF ConsentBar, AdmittedBar, LeaseBar

(* A step that neither decides, admits, issues nor serves is a stutter.    *)
LEMMA QuietStep ==
  ASSUME TypeOK, NEW s \in Session, NEW c, call' = [call EXCEPT ![s] = c],
         ConsentOf(c) = ConsentOf(call[s]), AdmittedOf(c) = AdmittedOf(call[s]),
         UNCHANGED <<time, policy, token, served>>
  PROVE  UNCHANGED A!vars
<1>0. ConsentOf(c) = ConsentBar[s] /\ AdmittedOf(c) = AdmittedBar[s]
  BY BarType
<1>4. /\ ConsentBar' = [ConsentBar EXCEPT ![s] = ConsentOf(c)]
      /\ AdmittedBar' = [AdmittedBar EXCEPT ![s] = AdmittedOf(c)]
  BY BarStep
<1>1. ConsentBar' = [ConsentBar EXCEPT ![s] = ConsentBar[s]]
  BY <1>0, <1>4
<1>2. AdmittedBar' = [AdmittedBar EXCEPT ![s] = AdmittedBar[s]]
  BY <1>0, <1>4
<1>3. UNCHANGED <<ConsentBar, AdmittedBar>>
  BY <1>1, <1>2, BarType
<1> QED
  BY <1>3, BarFixed DEF A!vars

(* The client turning to something else is Forget.                         *)
LEMMA RefinesClient ==
  ASSUME IInv, NEW s \in Session, Client(s)
  PROVE  A!Forget(s)
<1>1. ASSUME NEW c, call' = [call EXCEPT ![s] = c], call[s].at = "idle",
             c.at = "deserialize" \/ c.at = "verify" \/ (c.at = "authorize" /\ c.jwt = None),
             served' = [served EXCEPT ![s] = {}], UNCHANGED <<time, policy, token>>
      PROVE  A!Forget(s)
  <2>1. /\ ConsentOf(c) = {} /\ ConsentOf(call[s]) = {}
        /\ AdmittedOf(c) = {} /\ AdmittedOf(call[s]) = {}
    BY <1>1 DEF ConsentOf, AdmittedOf, AccessesOf
  <2>0. TypeOK /\ ConsentBar[s] = {} /\ AdmittedBar[s] = {}
    BY <2>1, BarType DEF IInv
  <2>2. ConsentBar' = [ConsentBar EXCEPT ![s] = ConsentBar[s]]
        /\ AdmittedBar' = [AdmittedBar EXCEPT ![s] = AdmittedBar[s]]
    <3>1. ConsentBar' = [ConsentBar EXCEPT ![s] = ConsentOf(c)]
          /\ AdmittedBar' = [AdmittedBar EXCEPT ![s] = AdmittedOf(c)]
      BY <1>1, <2>0, BarStep
    <3> QED
      BY <2>0, <2>1, <3>1
  <2>3. UNCHANGED <<ConsentBar, AdmittedBar>>
    BY <2>2, BarType
  <2> QED
    BY <1>1, <2>3, BarFixed DEF A!Forget
<1>2. ASSUME NEW q \in Request, NEW j \in {None, ticket[s], token[s]}, SendRequest(s, q, j)
      PROVE  A!Forget(s)
  <2> DEFINE c == [Idle EXCEPT !.at = IF j = None THEN "authorize" ELSE "verify",
                               !.res = q.res, !.modes = q.modes, !.jwt = j]
  <2>1. c.at = "verify" \/ (c.at = "authorize" /\ c.jwt = None)
    BY DEF Idle
  <2>2. call' = [call EXCEPT ![s] = c]
    BY <1>2 DEF SendRequest
  <2> HIDE DEF c
  <2> QED
    BY <1>1, <1>2, <2>1, <2>2 DEF SendRequest
<1>3. ASSUME NEW j \in {ticket[s], token[s]} \ {None}, NEW a \in Agent \cup {None},
             RequestToken(s, j, a)
      PROVE  A!Forget(s)
  <2> DEFINE c == [Idle EXCEPT !.at = "deserialize", !.jwt = j, !.claim = a]
  <2>1. c.at = "deserialize"
    BY DEF Idle
  <2>2. call' = [call EXCEPT ![s] = c]
    BY <1>3 DEF RequestToken
  <2> HIDE DEF c
  <2> QED
    BY <1>1, <1>3, <2>1, <2>2 DEF RequestToken
<1> QED
  BY <1>2, <1>3 DEF Client

(* Verifying a token is Admit: only the session's own access token passes. *)
LEMMA RefinesVerify ==
  ASSUME IInv, NEW s \in Session, VerifyToken(s)
  PROVE  A!Admit(s)
<1> DEFINE c == [call[s] EXCEPT !.at = "authorize"]
<1>1. call[s] \in Call /\ call[s].at = "verify"
  BY DEF IInv, TypeOK, VerifyToken
<1>2. call' = [call EXCEPT ![s] = c]
  BY <1>1 DEF VerifyToken, Goto
<1>3. call[s].jwt = token[s] /\ token[s] # None
  BY DEF VerifyToken, IsUMAToken, IInv, CallInv, WalletInv
<1>8. time < GoodUntil(token[s])
  <2>1. token[s] \in Jwt /\ time \in Nat
    BY <1>3 DEF IInv, TypeOK
  <2>2. token[s].exp \in Nat /\ token[s].iat \in Nat /\ MaxTokenAge \in Nat
    BY <2>1, TimeAssumption DEF Jwt
  <2>3. time < token[s].exp /\ time <= token[s].iat + MaxTokenAge
    BY <1>3 DEF VerifyToken, IsUMAToken
  <2> QED
    BY <2>1, <2>2, <2>3 DEF GoodUntil, Earlier
<1>4. /\ ConsentOf(c) = {} /\ ConsentOf(call[s]) = {}
      /\ AdmittedOf(c) = AccessesOf(token[s])
  BY <1>1, <1>3 DEF ConsentOf, AdmittedOf, Call
<1>5. LeaseBar[s].to = AccessesOf(token[s]) /\ LeaseBar[s].until = GoodUntil(token[s])
  BY <1>3, BarType DEF LeaseOf
<1> HIDE DEF c
<1>0. TypeOK /\ ConsentBar[s] = {}
  BY <1>4, BarType DEF IInv
<1>6. ConsentBar' = [ConsentBar EXCEPT ![s] = ConsentBar[s]]
      /\ AdmittedBar' = [AdmittedBar EXCEPT ![s] = LeaseBar[s].to]
  <2>1. ConsentBar' = [ConsentBar EXCEPT ![s] = ConsentOf(c)]
        /\ AdmittedBar' = [AdmittedBar EXCEPT ![s] = AdmittedOf(c)]
    BY <1>0, <1>2, BarStep
  <2> QED
    BY <1>0, <1>2, <1>4, <1>5, <2>1
<1>7. UNCHANGED ConsentBar
  BY <1>6, BarType
<1> QED
  BY <1>3, <1>5, <1>6, <1>7, <1>8, BarFixed DEF A!Admit, VerifyToken

(* Letting a request through, or refusing it, is Serve.                    *)
LEMMA RefinesAuthorize ==
  ASSUME IInv, NEW s \in Session, Allow(s) \/ Refuse(s)
  PROVE  A!Serve(s)
<1> DEFINE what == {<<IF call[s].jwt = None THEN None ELSE call[s].jwt.webid,
                     call[s].res, m>> : m \in call[s].modes \ Public[call[s].res]}
<1>1. call[s].at = "authorize" /\ call' = [call EXCEPT ![s] = Idle]
      /\ UNCHANGED <<time, policy, token>>
  BY DEF Allow, Refuse, Answer, Reply
<1>2. /\ ConsentOf(Idle) = {} /\ AdmittedOf(Idle) = {} /\ ConsentOf(call[s]) = {}
      /\ AdmittedBar[s] = AccessesOf(call[s].jwt)
  BY <1>1, BarType DEF ConsentOf, AdmittedOf, Idle
<1>0. TypeOK /\ ConsentBar[s] = {}
  BY <1>2, BarType DEF IInv
<1>3. ConsentBar' = [ConsentBar EXCEPT ![s] = ConsentBar[s]]
      /\ AdmittedBar' = [AdmittedBar EXCEPT ![s] = {}]
  <2>1. ConsentBar' = [ConsentBar EXCEPT ![s] = ConsentOf(Idle)]
        /\ AdmittedBar' = [AdmittedBar EXCEPT ![s] = AdmittedOf(Idle)]
    BY <1>0, <1>1, BarStep
  <2> QED
    BY <1>0, <1>1, <1>2, <2>1
<1>4. UNCHANGED ConsentBar
  BY <1>3, BarType
<1>5. ASSUME Allow(s) PROVE what \subseteq AdmittedBar[s]
  <2>1. call[s].modes \ Public[call[s].res] \subseteq TokenModes(call[s])
    BY <1>5 DEF Allow, Missing, Permitted
  <2>2. CASE call[s].jwt # None /\ call[s].jwt.sub = call[s].res
    BY <1>2, <2>1, <2>2 DEF TokenModes, AccessesOf, Accesses
  <2>3. CASE ~(call[s].jwt # None /\ call[s].jwt.sub = call[s].res)
    BY <2>1, <2>3 DEF TokenModes
  <2> QED
    BY <2>2, <2>3
<1> HIDE DEF what
<1>6. \E w \in SUBSET AdmittedBar[s] : served' = [served EXCEPT ![s] = w]
  <2>1. CASE Allow(s)
    BY <1>5, <2>1 DEF Allow, what
  <2>2. CASE Refuse(s)
    <3>1. served[s] = {} /\ served' = served
      BY <1>1, <2>2 DEF Refuse, IInv, CallInv
    <3>2. served = [served EXCEPT ![s] = {}]
      BY <3>1 DEF IInv, TypeOK
    <3> QED
      BY <3>1, <3>2
  <2> QED
    BY <2>1, <2>2
<1> QED
  BY <1>1, <1>3, <1>4, <1>6, BarFixed DEF A!Serve

(* The other steps of the resource server change nothing that counts.      *)
LEMMA RefinesResourceServer ==
  ASSUME IInv, NEW s \in Session, ResourceServer(s) \/ ConfigUnavailable(s)
  PROVE  A!Admit(s) \/ A!Serve(s) \/ UNCHANGED A!vars
<1>1. TypeOK /\ call[s] \in Call /\ CallInv(s)
  BY DEF IInv, TypeOK
<1>2. ConsentOf(Idle) = {} /\ AdmittedOf(Idle) = {}
  BY DEF ConsentOf, AdmittedOf, Idle
<1>3. CASE RejectToken(s) \/ ConfigUnavailable(s) \/ ChallengeWithoutTicket(s)
  <2>1. ConsentOf(call[s]) = {} /\ AdmittedOf(call[s]) = {}
    BY <1>3 DEF RejectToken, ConfigUnavailable, ChallengeWithoutTicket, ConsentOf, AdmittedOf
  <2>2. call' = [call EXCEPT ![s] = Idle] /\ UNCHANGED <<time, policy, token, served>>
    BY <1>3 DEF RejectToken, ConfigUnavailable, ChallengeWithoutTicket, Answer, Reply
  <2> QED
    BY <1>1, <1>2, <2>1, <2>2, QuietStep
<1>4. CASE Challenge(s)
  <2> DEFINE c == [call[s] EXCEPT !.at = "challenge"]
  <2>1. call' = [call EXCEPT ![s] = c] /\ UNCHANGED <<time, policy, token, served>>
    BY <1>4 DEF Challenge, Goto
  <2>2. /\ ConsentOf(c) = {} /\ AdmittedOf(c) = {}
        /\ ConsentOf(call[s]) = {} /\ AdmittedOf(call[s]) = {}
    BY <1>1, <1>4 DEF Challenge, ConsentOf, AdmittedOf, AccessesOf, Call
  <2> HIDE DEF c
  <2> QED
    BY <1>1, <2>1, <2>2, QuietStep
<1>5. CASE FetchPermissionTicket(s)
  <2> DEFINE c == [call[s] EXCEPT !.at = "register", !.bearerExp = time + BearerLife]
  <2>1. call' = [call EXCEPT ![s] = c] /\ UNCHANGED <<time, policy, token, served>>
    BY <1>5 DEF FetchPermissionTicket
  <2>2. /\ ConsentOf(c) = {} /\ AdmittedOf(c) = {}
        /\ ConsentOf(call[s]) = {} /\ AdmittedOf(call[s]) = {}
    BY <1>1, <1>5 DEF FetchPermissionTicket, ConsentOf, AdmittedOf, Call
  <2> HIDE DEF c
  <2> QED
    BY <1>1, <2>1, <2>2, QuietStep
<1> QED
  BY <1>3, <1>4, <1>5, RefinesVerify, RefinesAuthorize DEF ResourceServer

(* What an authorizer contributes is found in the policy of that moment.   *)
LEMMA RefinesConsult ==
  ASSUME IInv, NEW s \in Session, NEW z \in Authorizer, ConsultAuthorizer(s, z)
  PROVE  A!Consult(s)
<1>1. TypeOK /\ call[s] \in Call /\ CallInv(s) /\ call[s].at = "consult"
  BY DEF IInv, TypeOK, ConsultAuthorizer
<1>2. PICK M \in {Allowed(call[s], z), {}} :
         call' = [call EXCEPT ![s].granted = @ \cup Filtered(call[s], M),
                              ![s].consulted = @ \cup {z}]
  BY DEF ConsultAuthorizer
<1> DEFINE c == [call[s] EXCEPT !.granted = @ \cup Filtered(call[s], M),
                                !.consulted = @ \cup {z}]
           found == Accesses(call[s].claim, call[s].jwt.sub, Filtered(call[s], M))
<1>3. call' = [call EXCEPT ![s] = c]
  BY <1>1, <1>2
<1>4. /\ AdmittedOf(c) = {} /\ AdmittedOf(call[s]) = {}
      /\ ConsentOf(c) = Accesses(call[s].claim, call[s].jwt.sub,
                                 call[s].granted \cup Filtered(call[s], M))
      /\ ConsentOf(call[s]) = Accesses(call[s].claim, call[s].jwt.sub, call[s].granted)
  BY <1>1 DEF AdmittedOf, ConsentOf, Call
<1>5. ConsentOf(c) = ConsentOf(call[s]) \cup found
  BY <1>4 DEF Accesses
<1>6. found \subseteq GrantsBar
  <2>1. call[s].claim \in Agent /\ call[s].jwt.sub \in Resource
    BY <1>1 DEF CallInv, Call, Jwt
  <2>2. ASSUME NEW m \in Filtered(call[s], M)
        PROVE  <<call[s].claim, call[s].jwt.sub, m>> \in GrantsBar
    <3>1. m \in Mode /\ <<z, call[s].claim, call[s].jwt.sub, m>> \in policy
      BY <1>2 DEF Filtered, Allowed
    <3> QED
      BY <2>1, <3>1 DEF GrantsBar
  <2> QED
    BY <2>2 DEF Accesses
<1> HIDE DEF c, found
<1>7. ConsentBar' = [ConsentBar EXCEPT ![s] = ConsentBar[s] \cup found]
      /\ UNCHANGED AdmittedBar
  <2>1. ConsentBar' = [ConsentBar EXCEPT ![s] = ConsentOf(c)]
        /\ AdmittedBar' = [AdmittedBar EXCEPT ![s] = AdmittedOf(c)]
    BY <1>1, <1>3, BarStep
  <2>2. AdmittedBar[s] = AdmittedOf(c) /\ ConsentBar[s] \cup found = ConsentOf(c)
    BY <1>4, <1>5, BarType
  <2> QED
    BY <2>1, <2>2, BarType
<1>8. ConsentBar' = [ConsentBar EXCEPT ![s] = @ \cup found]
  BY <1>7
<1> QED
  BY <1>6, <1>7, <1>8, BarFixed DEF A!Consult, ConsultAuthorizer

(* The token carries the pending decision: IssueToken is Grant.            *)
LEMMA RefinesIssue ==
  ASSUME IInv, NEW s \in Session, IssueToken(s)
  PROVE  A!Grant(s)
<1> DEFINE j == SerializeToken(call[s].jwt.sub, call[s].granted, call[s].claim)
<1>1. /\ TypeOK /\ call[s] \in Call /\ CallInv(s) /\ call[s].at = "consult"
      /\ call' = [call EXCEPT ![s] = Idle] /\ token' = [token EXCEPT ![s] = j]
      /\ UNCHANGED <<time, policy, served>>
  BY DEF IInv, TypeOK, IssueToken, Answer, Reply
<1>2. j \in Jwt /\ j # None
  <2>1. call[s].jwt \in Jwt /\ call[s].granted \in SUBSET Mode /\ call[s].claim \in Agent
    BY <1>1 DEF CallInv, Call
  <2>2. call[s].jwt.sub \in Resource
    BY <2>1 DEF Jwt
  <2> QED
    BY <1>1, <2>1, <2>2, SerializeType, NoneAssumption
<1>3. LeaseOf(j) = [to |-> ConsentOf(call[s]),
                   until |-> time + Earlier(TokenLife, MaxTokenAge + 1)]
  <2>1. AccessesOf(j) = ConsentOf(call[s])
    BY <1>1, <1>2 DEF AccessesOf, ConsentOf, SerializeToken
  <2>2. j.iat = time /\ j.exp = time + TokenLife
    BY DEF SerializeToken
  <2>3. time \in Nat /\ TokenLife \in Nat /\ MaxTokenAge \in Nat
    BY <1>1, TimeAssumption DEF TypeOK
  <2>4. GoodUntil(j) = time + Earlier(TokenLife, MaxTokenAge + 1)
    BY <2>2, <2>3 DEF GoodUntil, Earlier
  <2> QED
    BY <1>2, <2>1, <2>4 DEF LeaseOf
<1>4. /\ ConsentOf(Idle) = {} /\ AdmittedOf(Idle) = {} /\ AdmittedOf(call[s]) = {}
  BY <1>1 DEF ConsentOf, AdmittedOf, Idle
<1> HIDE DEF j
<1>5. LeaseBar' = [LeaseBar EXCEPT ![s] = LeaseOf(j)]
  <2>1. LeaseBar' = [x \in Session |-> LeaseOf(IF x = s THEN j ELSE token[x])]
    BY <1>1 DEF LeaseBar, TypeOK
  <2> QED
    BY <2>1 DEF LeaseBar
<1>6. ConsentBar' = [ConsentBar EXCEPT ![s] = {}] /\ UNCHANGED AdmittedBar
  <2>1. ConsentBar' = [ConsentBar EXCEPT ![s] = ConsentOf(Idle)]
        /\ AdmittedBar' = [AdmittedBar EXCEPT ![s] = AdmittedOf(Idle)]
    BY <1>1, BarStep
  <2>2. AdmittedBar[s] = AdmittedOf(Idle)
    BY <1>4, BarType
  <2> QED
    BY <1>4, <2>1, <2>2, BarType
<1> QED
  BY <1>1, <1>3, <1>5, <1>6, BarType, BarFixed DEF A!Grant

(* The steps of the authorization server that come to nothing, or decide   *)
(* nothing yet.                                                            *)
LEMMA RefinesAuthorizationServer ==
  ASSUME IInv, NEW s \in Session, AuthorizationServer(s) \/ LoseGrant(s)
  PROVE  [A!Next]_A!vars
<1>1. TypeOK /\ call[s] \in Call /\ CallInv(s)
  BY DEF IInv, TypeOK
<1>2. ConsentOf(Idle) = {} /\ AdmittedOf(Idle) = {}
  BY DEF ConsentOf, AdmittedOf, Idle
<1>3. CASE RegisterPermission(s) \/ NeedInfo(s)
           \/ (DeserializeTicket(s) /\ ~IsTicket(call[s].jwt))
  <2>1. ConsentOf(call[s]) = {} /\ AdmittedOf(call[s]) = {}
    BY <1>3 DEF RegisterPermission, NeedInfo, DeserializeTicket, ConsentOf, AdmittedOf
  <2>2. call' = [call EXCEPT ![s] = Idle] /\ UNCHANGED <<time, policy, token, served>>
    BY <1>3 DEF RegisterPermission, NeedInfo, DeserializeTicket, Answer, Reply
  <2> QED
    BY <1>1, <1>2, <2>1, <2>2, QuietStep
<1>4. CASE Authenticate(s) \/ (DeserializeTicket(s) /\ IsTicket(call[s].jwt))
  <2> DEFINE l == IF call[s].at = "authenticate" THEN "consult" ELSE "authenticate"
             c == [call[s] EXCEPT !.at = l]
  <2>1. call' = [call EXCEPT ![s] = c] /\ UNCHANGED <<time, policy, token, served>>
    BY <1>4 DEF Authenticate, DeserializeTicket, Goto
  <2>2. call[s].at \in {"authenticate", "deserialize"} /\ call[s].granted = {}
    BY <1>1, <1>4 DEF Authenticate, DeserializeTicket, CallInv
  <2>3. /\ ConsentOf(c) = {} /\ AdmittedOf(c) = {}
        /\ ConsentOf(call[s]) = {} /\ AdmittedOf(call[s]) = {}
    BY <1>1, <2>2 DEF ConsentOf, AdmittedOf, Accesses, Call
  <2> HIDE DEF c
  <2> QED
    BY <1>1, <2>1, <2>3, QuietStep
<1>5. CASE DenyRequest(s) \/ LoseGrant(s)
  <2>1. call' = [call EXCEPT ![s] = Idle] /\ UNCHANGED <<time, policy, token, served>>
    BY <1>5 DEF DenyRequest, LoseGrant, Answer, Reply
  <2>2. AdmittedOf(call[s]) = {}
    BY <1>5 DEF DenyRequest, LoseGrant, AsPC, AdmittedOf
  <2>3. ConsentBar' = [ConsentBar EXCEPT ![s] = {}] /\ UNCHANGED AdmittedBar
    <3>1. ConsentBar' = [ConsentBar EXCEPT ![s] = ConsentOf(Idle)]
          /\ AdmittedBar' = [AdmittedBar EXCEPT ![s] = AdmittedOf(Idle)]
      BY <1>1, <2>1, BarStep
    <3>2. AdmittedBar[s] = AdmittedOf(Idle)
      BY <1>2, <2>2, BarType
    <3> QED
      BY <1>2, <3>1, <3>2, BarType
  <2>4. A!Abandon({s})
    BY <2>1, <2>3, BarType, BarFixed DEF A!Abandon
  <2> QED
    BY <2>4 DEF A!Next
<1> QED
  BY <1>3, <1>4, <1>5, RefinesConsult, RefinesIssue DEF AuthorizationServer, A!Next

LEMMA RefinesEnvironment ==
  ASSUME IInv, FetchJwks \/ LateKey \/ Restart \/ ChangePolicy \/ Tick
  PROVE  [A!Next]_A!vars
<1>1. CASE FetchJwks \/ LateKey
  BY <1>1, BarFixed DEF FetchJwks, LateKey, A!vars
<1>2. CASE Restart
  <2> DEFINE S == {s \in Session : call[s].at \in AsPC \cup {"register"}}
  <2>1. \A s \in Session : call'[s] = IF s \in S THEN Idle ELSE call[s]
    BY <1>2 DEF Restart
  <2>2. \A s \in S : AdmittedOf(call[s]) = {}
    BY DEF AsPC, AdmittedOf
  <2>3. ConsentOf(Idle) = {} /\ AdmittedOf(Idle) = {}
    BY DEF ConsentOf, AdmittedOf, Idle
  <2>4. ConsentBar' = [s \in Session |-> IF s \in S THEN {} ELSE ConsentBar[s]]
    <3>1. ConsentBar' = [s \in Session |-> ConsentOf(IF s \in S THEN Idle ELSE call[s])]
      BY <2>1 DEF ConsentBar
    <3> HIDE DEF S
    <3> QED
      BY <2>3, <3>1, BarType
  <2>5. UNCHANGED AdmittedBar
    <3>1. AdmittedBar' = [s \in Session |-> AdmittedOf(IF s \in S THEN Idle ELSE call[s])]
      BY <2>1 DEF AdmittedBar
    <3> HIDE DEF S
    <3> QED
      BY <2>2, <2>3, <3>1 DEF AdmittedBar
  <2>6. A!Abandon(S)
    BY <1>2, <2>4, <2>5, BarFixed DEF A!Abandon, Restart
  <2>7. S \in SUBSET Session
    OBVIOUS
  <2> HIDE DEF S
  <2> QED
    BY <2>6, <2>7 DEF A!Next
<1>3. CASE ChangePolicy
  <2>1. GrantsBar' \in SUBSET Triples
    BY DEF GrantsBar, Triples
  <2> QED
    BY <1>3, <2>1, BarFixed DEF ChangePolicy, A!ChangeGrants, A!Next, Triples
<1>4. CASE Tick
  BY <1>4, BarFixed DEF Tick, A!Tick, A!Next
<1> QED
  BY <1>1, <1>2, <1>3, <1>4

LEMMA RefinesStep == IInv /\ [Next]_vars => [A!Next]_A!vars
<1> SUFFICES ASSUME IInv, [Next]_vars PROVE [A!Next]_A!vars
    OBVIOUS
<1>1. CASE UNCHANGED vars
  BY <1>1, BarFixed DEF vars, A!vars
<1>2. ASSUME NEW s \in Session, Client(s) PROVE A!Next
  BY <1>2, RefinesClient DEF A!Next
<1>3. ASSUME NEW s \in Session, ResourceServer(s) \/ ConfigUnavailable(s)
      PROVE  [A!Next]_A!vars
  BY <1>3, RefinesResourceServer DEF A!Next
<1>4. CASE Next
  BY <1>2, <1>3, <1>4, RefinesAuthorizationServer, RefinesEnvironment DEF Next, Failure
<1> QED
  BY <1>1, <1>4

(* The protocol implements what UmaAccess promises the owner of a pod:     *)
(* nothing beyond the public modes is served without an unexpired token    *)
(* for that agent and resource, issued for what the owner's authorizers    *)
(* allowed when they were consulted.                                       *)
THEOREM Refinement == Spec => ServedUnderLease
<1> QED
  BY RefinesInit, RefinesStep, Invariance, PTL DEF Spec, A!Spec, ServedUnderLease

====
