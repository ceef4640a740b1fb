---------------------------- MODULE UmaProtocol ----------------------------
(***************************************************************************)
(* The User-Managed Access flow of this repository, end to end: clients    *)
(* ask the resource server (packages/css) for pod resources, are           *)
(* challenged with a permission ticket that the resource server registers  *)
(* at the authorization server (packages/uma), exchange the ticket for an  *)
(* access token there, and come back with the token.  Tickets and tokens   *)
(* are JWTs signed with the same in-memory keys; they expire, may be       *)
(* presented again and at either server; policies change while requests    *)
(* are under way; the authorization server restarts and loses its keys.    *)
(***************************************************************************)
EXTENDS Naturals, FiniteSets

CONSTANTS
    Session,       \* clients, each with at most one request under way
    Agent,         \* principals: a WebID with the client it uses
    Owner,         \* WebIDs of pod owners
    Resource,      \* resource paths
    Mode,          \* access modes
    Authorizer,    \* the authorizers of the grant processor
    Request,       \* the requests clients make: a resource and its modes
    Grantable,     \* the accesses an authorizer may ever allow
    Public,        \* for each resource, the modes WAC allows everybody
    Existing,      \* the resources that exist
    PodOwner,      \* for each resource, the owner of its pod, or None
    None,          \* no JWT, claim, agent or owner
    TicketLife,    \* expirationTime of the ticket factory
    TokenLife,     \* expirationTime of the token factory
    BearerLife,    \* lifetime of the JWT the resource server registers with
    MaxTokenAge,   \* maxTokenAge of the UMA client
    ColdCallers,   \* how many callers may race to generate the first key
    MaxKids,       \* bound on the keys ever generated
    MaxTime        \* bound on the clock

ASSUME RequestAssumption ==
    Request \subseteq [res : Resource, modes : SUBSET Mode]
ASSUME GrantableAssumption ==
    Grantable \subseteq Authorizer \X Agent \X Resource \X Mode
ASSUME DataAssumption ==
    /\ Public \in [Resource -> SUBSET Mode]
    /\ PodOwner \in [Resource -> Owner \cup {None}]
ASSUME TimeAssumption ==
    /\ TicketLife \in Nat /\ TokenLife \in Nat
    /\ BearerLife \in Nat /\ MaxTokenAge \in Nat

VARIABLES
    time,          \* the clock both servers read
    policy,        \* what the authorizers would allow now
    keys,          \* the kids in the key holder of the authorization server
    currentKid,    \* its default kid, 0 while there is none
    kidCount,      \* kids generated so far, by this and by earlier processes
    rsKeys,        \* the kids of the JWKS the resource server last fetched
    call,          \* the request of each session that is being handled
    ticket,        \* the last ticket the session received
    token,         \* the last access token the session received
    answer,        \* the last answer the session received
    served,        \* the accesses the resource server let it through to
    asked          \* history: accesses the resource server has challenged

asVars == <<keys, currentKid, kidCount>>
wallet == <<ticket, token>>
vars == <<time, policy, asVars, rsKeys, call, wallet, answer, served, asked>>

(* A ticket names the owner, a token names the authenticated agent; both   *)
(* are signed by the same keys for the same issuer and audience.           *)
Jwt == [sub : Resource, modes : SUBSET Mode,
        owner : Owner \cup {None}, webid : Agent \cup {None},
        kid : Nat, iat : Nat, exp : Nat]

ASSUME NoneAssumption == None \notin Agent /\ None \notin Owner /\ None \notin Jwt

RsPC == {"verify", "authorize", "challenge", "register"}
AsPC == {"deserialize", "authenticate", "consult"}

(* The locals of the handlers: what was asked of the resource server, the  *)
(* JWT the request carries, the agent its claim token authenticates, the   *)
(* authorizers consulted and the modes they granted, and the expiry of the *)
(* JWT that goes with a registration.                                      *)
Call == [at : {"idle"} \cup RsPC \cup AsPC,
         res : Resource \cup {None}, modes : SUBSET Mode,
         jwt : Jwt \cup {None}, claim : Agent \cup {None},
         consulted : SUBSET Authorizer, granted : SUBSET Mode,
         bearerExp : Nat]
Idle == [at |-> "idle", res |-> None, modes |-> {}, jwt |-> None,
         claim |-> None, consulted |-> {}, granted |-> {}, bearerExp |-> 0]

(* The responses told apart, and whether one carries a ticket.             *)
Status == {"none", "200", "400", "401", "403", "404",
           "token", "invalid_grant", "need_info", "request_denied", "failed"}

TypeOK ==
    /\ time \in Nat
    /\ policy \subseteq Grantable
    /\ keys \subseteq Nat /\ currentKid \in Nat /\ kidCount \in Nat
    /\ rsKeys \subseteq Nat
    /\ call \in [Session -> Call]
    /\ ticket \in [Session -> Jwt \cup {None}]
    /\ token \in [Session -> Jwt \cup {None}]
    /\ answer \in [Session -> [status : Status, ticket : BOOLEAN]]
    /\ served \in [Session -> SUBSET ((Agent \cup {None}) \X Resource \X Mode)]
    /\ asked \subseteq Resource \X Mode

Init ==
    /\ time = 0
    /\ policy \in SUBSET Grantable
    /\ keys = {} /\ currentKid = 0 /\ kidCount = 0
    /\ rsKeys = {}
    /\ call = [s \in Session |-> Idle]
    /\ ticket = [s \in Session |-> None]
    /\ token = [s \in Session |-> None]
    /\ answer = [s \in Session |-> [status |-> "none", ticket |-> FALSE]]
    /\ served = [s \in Session |-> {}]
    /\ asked = {}

(* A handler moves on, or answers and is done with its locals.             *)
Goto(s, l) == call' = [call EXCEPT ![s].at = l] /\ UNCHANGED answer
Reply(s, response) ==
    /\ call' = [call EXCEPT ![s] = Idle]
    /\ answer' = [answer EXCEPT ![s] = response]
Without(status) == [status |-> status, ticket |-> FALSE]
Answer(s, status) == Reply(s, Without(status))

-----------------------------------------------------------------------------
(* The keys of the authorization server (KeyHolder tells the whole story). *)

(* init() of the key holder: the first use generates a key.                *)
DefaultKid == IF currentKid = 0 THEN kidCount + 1 ELSE currentKid
InitKeys ==
    /\ keys' = keys \cup {DefaultKid}
    /\ currentKid' = DefaultKid
    /\ kidCount' = IF currentKid = 0 THEN kidCount + 1 ELSE kidCount

(* A second caller that raced for the first key comes in late, and its key *)
(* becomes the default beside the one already in use.                      *)
LateKey ==
    /\ keys # {} /\ Cardinality(keys) < ColdCallers /\ kidCount < MaxKids
    /\ keys' = keys \cup {kidCount + 1}
    /\ currentKid' = kidCount + 1
    /\ kidCount' = kidCount + 1
    /\ UNCHANGED <<time, policy, rsKeys, call, wallet, answer, served, asked>>

(* The resource server fetches the JWKS in the course of a verification:   *)
(* with every UMA configuration, which it keeps for a minute, it sets up   *)
(* a remote key set anew, and jose loads that set at first use and again   *)
(* when it meets an unknown kid and has not done so lately.  When that is  *)
(* depends on real time, so that here it may be at any verification.       *)
Fetched_Once == IF rsKeys = {} THEN keys' ELSE rsKeys
Fetched == keys'
FetchJwks ==
    /\ \E s \in Session : call[s].at = "verify"
    /\ InitKeys
    /\ rsKeys' = Fetched
    /\ UNCHANGED <<time, policy, call, wallet, answer, served, asked>>

-----------------------------------------------------------------------------
(* JWTs: JwtTicketFactory, JwtTokenFactory and verifyUMAToken.             *)

SerializeTicket(sub, modes, owner) ==
    [sub |-> sub, modes |-> modes, owner |-> owner, webid |-> None,
     kid |-> DefaultKid, iat |-> time, exp |-> time + TicketLife]

SerializeToken_NoExpiry(sub, modes, webid) ==
    [sub |-> sub, modes |-> modes, owner |-> None, webid |-> webid,
     kid |-> DefaultKid, iat |-> time, exp |-> None]
SerializeToken(sub, modes, webid) ==
    [sub |-> sub, modes |-> modes, owner |-> None, webid |-> webid,
     kid |-> DefaultKid, iat |-> time, exp |-> time + TokenLife]

(* deserialize of the ticket factory, against the keys that getJwks yields *)
(* (a key generated just now has signed nothing yet).                      *)
IsTicket(j) ==
    /\ j.kid \in keys
    /\ time < j.exp
    /\ j.owner # None

(* verifyUMAToken of the resource server.                                  *)
IsUMAToken_AnyAge(j) == j.kid \in rsKeys /\ time < j.exp /\ j.webid # None
IsUMAToken_Expired(j) ==
    j.kid \in rsKeys /\ time <= j.iat + MaxTokenAge /\ j.webid # None
IsUMAToken(j) ==
    /\ j.kid \in rsKeys
    /\ time < j.exp /\ time <= j.iat + MaxTokenAge
    /\ j.webid # None

-----------------------------------------------------------------------------
(* The resource server.                                                    *)

(* A client asks for a resource, with one of the JWTs it holds or without. *)
SendRequest(s, q, j) ==
    /\ call[s].at = "idle"
    /\ call' = [call EXCEPT ![s] =
            [Idle EXCEPT !.at = IF j = None THEN "authorize" ELSE "verify",
                         !.res = q.res, !.modes = q.modes, !.jwt = j]]
    /\ answer' = [answer EXCEPT ![s] = Without("none")]
    /\ served' = [served EXCEPT ![s] = {}]
    /\ UNCHANGED <<time, policy, asVars, rsKeys, wallet, asked>>

(* UmaTokenExtractor: a verified token becomes the ticket credential.      *)
VerifyToken(s) ==
    /\ call[s].at = "verify"
    /\ IsUMAToken(call[s].jwt)
    /\ Goto(s, "authorize")
    /\ UNCHANGED <<time, policy, asVars, rsKeys, wallet, served, asked>>

(* Anything else is a bad request ...                                      *)
RejectToken(s) ==
    /\ call[s].at = "verify"
    /\ ~IsUMAToken(call[s].jwt)
    /\ Answer(s, "400")
    /\ UNCHANGED <<time, policy, asVars, rsKeys, wallet, served, asked>>

(* ... and so is any token while the UMA configuration or the JWKS of the  *)
(* authorization server cannot be had.                                     *)
ConfigUnavailable(s) ==
    /\ call[s].at = "verify"
    /\ Answer(s, "400")
    /\ UNCHANGED <<time, policy, asVars, rsKeys, wallet, served, asked>>

(* TokenPermissionReader: the modes of the token, for its own resource.    *)
TokenModes_AnyResource(c) == IF c.jwt # None THEN c.jwt.modes ELSE {}
TokenModes(c) ==
    IF c.jwt # None /\ c.jwt.sub = c.res THEN c.jwt.modes ELSE {}

(* The modes that the public or the ticket credential group grants.        *)
Permitted(c) == Public[c.res] \cup TokenModes(c)
Missing(c) == c.modes \ Permitted(c)

(* For a missing mode: a resource that is not there, and is not about to   *)
(* be created, is not found for an agent that may read it.                 *)
NotFound(c) ==
    /\ "read" \in Permitted(c)
    /\ "create" \notin c.modes
    /\ c.res \notin Existing

(* UmaPermissionBasedAuthorizer lets the request through ...               *)
Allow(s) ==
    /\ call[s].at = "authorize"
    /\ Missing(call[s]) = {}
    /\ served' = [served EXCEPT ![s] =
            {<<IF call[s].jwt = None THEN None ELSE call[s].jwt.webid,
               call[s].res, m>> : m \in call[s].modes \ Public[call[s].res]}]
    /\ Answer(s, "200")
    /\ UNCHANGED <<time, policy, asVars, rsKeys, wallet, asked>>

(* ... or refuses it for good ...                                          *)
Refuse(s) ==
    /\ call[s].at = "authorize"
    /\ Missing(call[s]) # {}
    /\ \/ NotFound(call[s]) /\ Answer(s, "404")
       \/ ~NotFound(call[s]) /\ call[s].jwt # None /\ Answer(s, "403")
    /\ UNCHANGED <<time, policy, asVars, rsKeys, wallet, served, asked>>

(* ... or, with nobody authenticated, answers 401 and asks for a ticket.   *)
Challenge(s) ==
    /\ call[s].at = "authorize"
    /\ Missing(call[s]) # {} /\ ~NotFound(call[s]) /\ call[s].jwt = None
    /\ asked' = asked \cup {<<call[s].res, m>> : m \in call[s].modes}
    /\ Goto(s, "challenge")
    /\ UNCHANGED <<time, policy, asVars, rsKeys, wallet, served>>

(* UnauthorizedHttpError carries all modes of the request, not only those  *)
(* that are missing; they become the scopes of the registration.           *)
TicketNeeds(c) == c.modes

(* TicketWwwAuthMetadataWriter with the owner of the pod at hand: a fresh  *)
(* JWT is signed for the registration, and the request goes out.           *)
FetchPermissionTicket(s) ==
    /\ call[s].at = "challenge"
    /\ PodOwner[call[s].res] # None
    /\ call' = [call EXCEPT ![s].at = "register", ![s].bearerExp = time + BearerLife]
    /\ UNCHANGED <<time, policy, asVars, rsKeys, wallet, answer, served, asked>>

(* No owner, no configuration, no connection, an expired registration or   *)
(* an error of the authorization server: the 401 goes out without ticket.  *)
ChallengeWithoutTicket(s) ==
    /\ call[s].at \in {"challenge", "register"}
    /\ Answer(s, "401")
    /\ UNCHANGED <<time, policy, asVars, rsKeys, wallet, served, asked>>

-----------------------------------------------------------------------------
(* The authorization server.                                               *)

(* PermissionRegistrationHandler: the bearer JWT of the resource server is *)
(* verified and a ticket issued; the resource server hands it to the       *)
(* client in the WWW-Authenticate header of its 401.                       *)
RegisterPermission(s) ==
    /\ call[s].at = "register"
    /\ time < call[s].bearerExp
    /\ InitKeys
    /\ ticket' = [ticket EXCEPT ![s] =
            SerializeTicket(call[s].res, TicketNeeds(call[s]), PodOwner[call[s].res])]
    /\ Reply(s, [status |-> "401", ticket |-> TRUE])
    /\ UNCHANGED <<time, policy, rsKeys, token, served, asked>>

(* A client asks for a token: with a JWT it holds as its ticket, and a     *)
(* claim token that authenticates an agent, or does not (None).            *)
RequestToken(s, j, a) ==
    /\ call[s].at = "idle"
    /\ call' = [call EXCEPT ![s] =
            [Idle EXCEPT !.at = "deserialize", !.jwt = j, !.claim = a]]
    /\ answer' = [answer EXCEPT ![s] = Without("none")]
    /\ served' = [served EXCEPT ![s] = {}]
    /\ UNCHANGED <<time, policy, asVars, rsKeys, wallet, asked>>

(* process: the ticket is verified with the keys of the holder ...         *)
DeserializeTicket(s) ==
    /\ call[s].at = "deserialize"
    /\ InitKeys
    /\ \/ IsTicket(call[s].jwt) /\ Goto(s, "authenticate")
       \/ ~IsTicket(call[s].jwt) /\ Answer(s, "invalid_grant")
    /\ UNCHANGED <<time, policy, rsKeys, wallet, served, asked>>

(* ... the claim token yields a principal ...                              *)
Authenticate(s) ==
    /\ call[s].at = "authenticate"
    /\ call[s].claim # None
    /\ Goto(s, "consult")
    /\ UNCHANGED <<time, policy, asVars, rsKeys, wallet, served, asked>>

(* ... or the client is told what is needed.  The fresh ticket signed for  *)
(* that answer stays behind: JsonHttpErrorHandler writes the type, the     *)
(* message and the additionalParams of an error, and no ticket.            *)
NeedInfo(s) ==
    /\ call[s].at = "authenticate"
    /\ call[s].claim = None
    /\ InitKeys
    /\ Answer(s, "need_info")
    /\ UNCHANGED <<time, policy, rsKeys, wallet, served, asked>>

(* authorize, one authorizer (they are asked in the configured order, of   *)
(* which nothing depends here): of the modes it allows, those the ticket   *)
(* asks for count.  An authorizer that cannot reach the owner's            *)
(* authorization agent answers with no modes at all (InteropAuthorizer).   *)
Allowed(c, z) == {m \in Mode : <<z, c.claim, c.jwt.sub, m>> \in policy}
Filtered_Not(c, modes) == modes
Filtered(c, modes) == modes \cap c.jwt.modes
ConsultAuthorizer(s, z) ==
    /\ call[s].at = "consult"
    /\ z \notin call[s].consulted
    /\ \E modes \in {Allowed(call[s], z), {}} :
         call' = [call EXCEPT ![s].granted = @ \cup Filtered(call[s], modes),
                              ![s].consulted = @ \cup {z}]
    /\ UNCHANGED <<time, policy, asVars, rsKeys, wallet, answer, served, asked>>

(* All authorizers have answered, and some granted something ...           *)
MayIssue_InFullOnly(c) == c.granted = c.jwt.modes
MayIssue(c) == c.granted # {}

(* ... or none did.                                                        *)
DenyRequest(s) ==
    /\ call[s].at = "consult"
    /\ call[s].consulted = Authorizer
    /\ call[s].granted = {}
    /\ Answer(s, "request_denied")
    /\ UNCHANGED <<time, policy, asVars, rsKeys, wallet, served, asked>>

(* The token is for these modes, and for the resource of the ticket.       *)
IssueToken(s) ==
    /\ call[s].at = "consult"
    /\ call[s].consulted = Authorizer
    /\ MayIssue(call[s])
    /\ InitKeys
    /\ token' = [token EXCEPT ![s] =
            SerializeToken(call[s].jwt.sub, call[s].granted, call[s].claim)]
    /\ Answer(s, "token")
    /\ UNCHANGED <<time, policy, rsKeys, ticket, served, asked>>

(* The connection breaks before the answer to a token request arrives.     *)
LoseGrant(s) ==
    /\ call[s].at \in AsPC
    /\ Answer(s, "failed")
    /\ UNCHANGED <<time, policy, asVars, rsKeys, wallet, served, asked>>

(* The authorization server restarts: its keys were in memory, and what it *)
(* was working on is gone.  The resource server turns a registration that  *)
(* failed into a 401 without ticket.                                       *)
Restart ==
    /\ keys # {} /\ kidCount < MaxKids
    /\ keys' = {} /\ currentKid' = 0
    /\ call' = [s \in Session |->
            IF call[s].at \in AsPC \cup {"register"} THEN Idle ELSE call[s]]
    /\ answer' = [s \in Session |->
            CASE call[s].at \in AsPC -> Without("failed")
              [] call[s].at = "register" -> Without("401")
              [] OTHER -> answer[s]]
    /\ UNCHANGED <<time, policy, kidCount, rsKeys, wallet, served, asked>>

-----------------------------------------------------------------------------
ChangePolicy ==
    /\ policy' \in SUBSET Grantable
    /\ UNCHANGED <<time, asVars, rsKeys, call, wallet, answer, served, asked>>

Tick ==
    /\ time < MaxTime
    /\ time' = time + 1
    /\ UNCHANGED <<policy, asVars, rsKeys, call, wallet, answer, served, asked>>

Client(s) ==
    \/ \E q \in Request, j \in {None, ticket[s], token[s]} : SendRequest(s, q, j)
    \/ \E j \in {ticket[s], token[s]} \ {None}, a \in Agent \cup {None} :
         RequestToken(s, j, a)

ResourceServer(s) ==
    \/ VerifyToken(s) \/ RejectToken(s)
    \/ Allow(s) \/ Refuse(s) \/ Challenge(s)
    \/ FetchPermissionTicket(s) \/ ChallengeWithoutTicket(s)

AuthorizationServer(s) ==
    \/ RegisterPermission(s)
    \/ DeserializeTicket(s) \/ Authenticate(s) \/ NeedInfo(s)
    \/ \E z \in Authorizer : ConsultAuthorizer(s, z)
    \/ DenyRequest(s) \/ IssueToken(s)

Failure(s) == ConfigUnavailable(s) \/ LoseGrant(s)

Next ==
    \/ \E s \in Session :
         Client(s) \/ ResourceServer(s) \/ AuthorizationServer(s) \/ Failure(s)
    \/ FetchJwks \/ LateKey \/ Restart \/ ChangePolicy \/ Tick

Spec == Init /\ [][Next]_vars

(* Neither server leaves a request it is working on alone.                 *)
FairServers == \A s \in Session :
    WF_vars(ResourceServer(s)) /\ WF_vars(AuthorizationServer(s))
FairSpec == Spec /\ FairServers

(* A client that does what the answers tell it to do.                      *)
Cooperate(s) ==
    \/ answer[s].ticket /\ \E a \in Agent : RequestToken(s, ticket[s], a)
    \/ answer[s].status = "token" /\ \E q \in Request : SendRequest(s, q, token[s])
    \/ answer[s].status # "token" /\ ~answer[s].ticket
       /\ \E q \in Request : SendRequest(s, q, None)

-----------------------------------------------------------------------------
(* No access token is good for more than some client was challenged for:   *)
(* the modes of a token are among those of a request that the resource     *)
(* server answered with 401, on the same resource, whatever the            *)
(* authorizers would allow, whichever JWT is traded in and whatever        *)
(* restarts happen on the way.                                             *)
TokensWithinChallenges ==
    \A s \in Session : token[s] # None =>
        \A m \in token[s].modes : <<token[s].sub, m>> \in asked

(* What the tests of the servers take for granted and no test reaches:     *)
(* whatever else happens, a request that a server began to handle is       *)
(* answered, or fails with its server.                                     *)
EveryRequestAnswered ==
    \A s \in Session : call[s].at # "idle" ~> call[s].at = "idle"

(* The connections and the owner's authorization agent that a step relied  *)
(* on let it down.                                                         *)
Outage ==
    \E s \in Session :
        \/ ConfigUnavailable(s) /\ IsUMAToken(call[s].jwt)
        \/ ChallengeWithoutTicket(s)
        \/ LoseGrant(s)
        \/ /\ call[s].at = "consult" /\ call'[s].at = "consult"
           /\ \E z \in call'[s].consulted \ call[s].consulted :
                ~(Filtered(call[s], Allowed(call[s], z)) \subseteq call'[s].granted)

(* What a client may count on is up to four conditions: from some time on  *)
(* nothing lets it down and the owner's policy grants what is asked; it    *)
(* does as the answers say and does not give up; and jose fetches the JWKS *)
(* again when it meets an unknown kid and its cooldown is over, which      *)
(* comes about if tokens are presented again and again.                    *)
Settled ==
    /\ <>[][~Outage /\ \A s \in Session : Client(s) => Cooperate(s)]_vars
    /\ <>[](policy = Grantable)
    /\ \A s \in Session : WF_vars(Cooperate(s))
    /\ SF_vars(FetchJwks)

(* Under these conditions every client is served, again and again,         *)
(* whatever it did before, whatever keys were lost or added, whatever has  *)
(* expired and whatever key set the resource server had cached.            *)
ClientsAreServed ==
    Settled => \A s \in Session : []<>(answer[s].status = "200")

(* "It MUST include a ticket parameter", says NeedInfoError of itself.     *)
NeedInfoCarriesTicket ==
    \A s \in Session : answer[s].status = "need_info" => answer[s].ticket

(* The refinement: how UmaAccess is to be read off this state.             *)
Accesses(webid, sub, modes) == {<<webid, sub, m>> : m \in modes}
AccessesOf(j) == IF j = None THEN {} ELSE Accesses(j.webid, j.sub, j.modes)

GrantsBar ==
    {g \in Agent \X Resource \X Mode :
        \E z \in Authorizer : <<z, g[1], g[2], g[3]>> \in policy}
ConsentOf(c) == IF c.at = "consult" THEN Accesses(c.claim, c.jwt.sub, c.granted) ELSE {}
AdmittedOf(c) == IF c.at = "authorize" THEN AccessesOf(c.jwt) ELSE {}

(* A token is good until it expires or is older than the resource server   *)
(* accepts, whichever comes first.                                         *)
Earlier(t, u) == IF t <= u THEN t ELSE u
GoodUntil(j) == Earlier(j.exp, j.iat + MaxTokenAge + 1)
LeaseOf(j) == [to |-> AccessesOf(j), until |-> IF j = None THEN 0 ELSE GoodUntil(j)]
ConsentBar == [s \in Session |-> ConsentOf(call[s])]
AdmittedBar == [s \in Session |-> AdmittedOf(call[s])]
LeaseBar == [s \in Session |-> LeaseOf(token[s])]

A == INSTANCE UmaAccess WITH
        Access <- Agent \X Resource \X Mode,
        LeaseLife <- Earlier(TokenLife, MaxTokenAge + 1),
        grants <- GrantsBar, consent <- ConsentBar, lease <- LeaseBar,
        admitted <- AdmittedBar

(* Whatever a client is let through to beyond what is public, it was       *)
(* admitted to with a token neither expired nor too old, whose modes the owner's authorizers *)
(* allowed, for that agent and that resource, when they were consulted.    *)
ServedUnderLease == A!Spec

=============================================================================
