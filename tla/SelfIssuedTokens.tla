-------------------------- MODULE SelfIssuedTokens --------------------------
(***************************************************************************)
(* SolidOidcTokenFactory and InteropFetchFactory of packages/aa, at work   *)
(* with the key holder they share with everybody else: an authorization    *)
(* agent that fetches from a pod issues itself a token, bound to a DPoP    *)
(* proof.  getToken obtains the default key, and getDpop, which it then    *)
(* awaits, obtains it again: to the key holder these are two callers, one  *)
(* of which works while the other waits.  The server of the pod fetches    *)
(* the agent's key set and judges the pair.                                *)
(***************************************************************************)
EXTENDS KeyHolder

CONSTANTS
    Factory,       \* the callers that may be calls of getToken
    Dpop,          \* for each of them the caller its call of getDpop is
    MaxSent,       \* bound on the tokens being made or with servers
    None           \* no token

ASSUME FactoryAssumption == Factory \subseteq Caller /\ Dpop \in [Factory -> Caller]
ASSUME ApartAssumption ==
    \A f, g \in Factory : Dpop[f] \notin Factory /\ (Dpop[f] = Dpop[g] => f = g)
ASSUME SentAssumption == MaxSent \in Nat \ {0}
ASSUME TokenAssumption == None \notin [kid : Kid, jkt : Kid, proof : Kid]

VARIABLES
    issuing,       \* how far each call of getToken has come
    proof,         \* the key its DPoP proof is signed with and contains
    sent,          \* tokens that servers have and have not judged yet
    judging        \* the token that the key set is fetched for by each caller

tokens == <<issuing, proof, sent, judging>>
tvars == <<vars, tokens>>

(* A token: the kid in its header, the thumbprint it confirms, and the key *)
(* in the proof that comes with it.                                        *)
Token == [kid : Kid, jkt : Kid, proof : Kid]

TokenTypeOK ==
    /\ issuing \in [Factory -> {"no", "token", "dpop", "signed"}]
    /\ proof \in [Factory -> Kid \cup {NoKid}]
    /\ sent \subseteq Token
    /\ judging \in [Caller -> Token \cup {None}]

TInit ==
    /\ Init
    /\ issuing = [f \in Factory |-> "no"]
    /\ proof = [f \in Factory |-> NoKid]
    /\ sent = {}
    /\ judging = [c \in Caller |-> None]

(* getToken: the first key, ...                                            *)
GetToken(f) ==
    /\ issuing[f] = "no"
    /\ Cardinality(sent) + Cardinality({g \in Factory : issuing[g] # "no"}) < MaxSent
    /\ GetDefaultKey(f)
    /\ issuing' = [issuing EXCEPT ![f] = "token"]
    /\ UNCHANGED <<proof, sent, judging>>

(* ... with which getDpop is called, which gets a key for itself ...       *)
GetDpop(f) ==
    /\ issuing[f] = "token" /\ pc[f] = "signing"
    /\ GetDefaultKey(Dpop[f])
    /\ issuing' = [issuing EXCEPT ![f] = "dpop"]
    /\ UNCHANGED <<proof, sent, judging>>

(* ... and signs the proof with it, ...                                    *)
SignDpop(f) ==
    /\ issuing[f] = "dpop"
    /\ GetPrivateKey(Dpop[f])
    /\ proof' = [proof EXCEPT ![f] = kid[Dpop[f]]]
    /\ issuing' = [issuing EXCEPT ![f] = "signed"]
    /\ UNCHANGED <<sent, judging>>

(* ... whose thumbprint the token confirms.  The token is signed with the  *)
(* first key, and the request goes out with both.                          *)
Jkt_OfToken(f) == kid[f]
Jkt_OfReturned(f) == kid[Dpop[f]]
Jkt(f) == proof[f]

AuthenticatedFetch(f) ==
    sent' = sent \cup {[kid |-> kid[f], jkt |-> Jkt(f), proof |-> proof[f]]}
Signable_OfOneKey(f) == issuing[f] = "signed" /\ kid[f] = proof[f]
Signable(f) == issuing[f] = "signed"
SignToken(f) ==
    /\ Signable(f)
    /\ GetPrivateKey(f)
    /\ AuthenticatedFetch(f)
    /\ issuing' = [issuing EXCEPT ![f] = "no"]
    /\ proof' = [proof EXCEPT ![f] = NoKid]
    /\ UNCHANGED judging

(* The server of a pod fetches the key set for a token it has got ...      *)
FetchKeys(c, t) ==
    /\ \A f \in Factory : issuing[f] # "no" => c # f
    /\ GetJwks(c)
    /\ judging' = [judging EXCEPT ![c] = t]
    /\ UNCHANGED <<issuing, proof, sent>>

(* ... and with it accepts or refuses the token.                           *)
Accepts(t, kids) == t.kid \in kids /\ t.jkt = t.proof
Judge(c) ==
    /\ judging[c] # None
    /\ ReturnJwks(c)
    /\ sent' = sent \ {judging[c]}
    /\ judging' = [judging EXCEPT ![c] = None]
    /\ UNCHANGED <<issuing, proof>>

(* Callers that sign something else, or publish keys to somebody else, and *)
(* the steps above that are the key holder's alone.                        *)
Signs(c) ==
    \/ c \in Factory /\ issuing[c] # "no"
    \/ \E f \in Factory : c = Dpop[f] /\ issuing[f] = "dpop"
Otherwise(c) ==
    /\ \/ ~Signs(c) /\ (GetDefaultKey(c) \/ GetJwks(c) \/ GetPrivateKey(c))
       \/ GenerateKeypair(c) \/ ReturnDefaultKey(c) \/ GetKids(c)
       \/ judging[c] = None /\ ReturnJwks(c)
    /\ UNCHANGED tokens

(* The agent restarts; what the servers have got is still theirs.          *)
RestartAgent ==
    /\ Restart
    /\ issuing' = [f \in Factory |-> "no"]
    /\ proof' = [f \in Factory |-> NoKid]
    /\ judging' = [c \in Caller |-> None]
    /\ UNCHANGED sent

TNext ==
    \/ \E f \in Factory : GetToken(f) \/ GetDpop(f) \/ SignDpop(f) \/ SignToken(f)
    \/ \E c \in Caller : Judge(c) \/ Otherwise(c) \/ \E t \in sent : FetchKeys(c, t)
    \/ RestartAgent

TSpec == TInit /\ [][TNext]_tvars

(* Every pending promise is settled and its continuation runs; getToken    *)
(* calls getDpop, which in the code waits for no other caller.             *)
TFairSpec ==
    /\ TSpec
    /\ \A f \in Factory : SF_tvars(GetDpop(f)) /\ WF_tvars(SignDpop(f) \/ SignToken(f))
    /\ \A c \in Caller : WF_tvars(Judge(c) \/ (Otherwise(c) /\ Resume(c)))

-----------------------------------------------------------------------------
(* The two keys of a token and its proof may differ (another caller's pair *)
(* becomes the default between the two times the key is asked for); a      *)
(* server that fetches the key set once it has the token accepts the pair  *)
(* all the same, unless the agent has restarted since it signed.           *)
AcceptedUnlessRestarted ==
    [][\A c \in Caller :
         Judge(c) /\ ~Accepts(judging[c], jwks[c]) => judging[c].kid \in retired]_tvars

=============================================================================
