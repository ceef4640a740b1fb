----------------------------- MODULE KeyHolder -----------------------------
(***************************************************************************)
(* InMemoryJwksKeyHolder of packages/util: the signing keys of the UMA     *)
(* authorization server.  Nothing is generated at start-up; the first      *)
(* caller that needs a key generates one (init), and generation is         *)
(* asynchronous, so that callers interleave at every await.  A caller is   *)
(* one in-flight request of the server: it either signs a ticket or a      *)
(* token (getDefaultKey, then getPrivateKey), or publishes the key set     *)
(* (getJwks).  The keys live in memory only: a restart loses them.         *)
(***************************************************************************)
EXTENDS Naturals, FiniteSets

CONSTANTS
    Caller,        \* concurrent requests of the authorization server
    Kid,           \* key identifiers; v4() never yields one twice
    NoKid,         \* the undefined kid
    MaxRestarts    \* bound on the restarts of the process

ASSUME CallerAssumption == IsFiniteSet(Caller)
ASSUME KidAssumption == NoKid \notin Kid
ASSUME RestartAssumption == MaxRestarts \in Nat

VARIABLES
    keys,          \* the kids in the Map of key pairs
    currentKid,    \* the default kid
    pc,            \* where each caller awaits
    kid,           \* the kid getDefaultKey returned to each caller
    jwks,          \* the kids of the key set each caller is exporting
    retired,       \* kids of earlier processes, which v4() does not repeat
    signed,        \* history: kids this process has signed with
    seen,          \* history: what was signed when the caller asked for keys
    restarts

vars == <<keys, currentKid, pc, kid, jwks, retired, signed, seen, restarts>>

(* "sign..." and "jwks..." tell the two operations apart.                  *)
PC == {"idle", "signGenerating", "signReady", "signing",
       "jwksGenerating", "jwksReady", "exporting"}

Generating == {c \in Caller : pc[c] \in {"signGenerating", "jwksGenerating"}}

TypeOK ==
    /\ keys \subseteq Kid
    /\ currentKid \in Kid \cup {NoKid}
    /\ pc \in [Caller -> PC]
    /\ kid \in [Caller -> Kid \cup {NoKid}]
    /\ jwks \in [Caller -> SUBSET Kid]
    /\ retired \subseteq Kid
    /\ signed \subseteq Kid
    /\ seen \in [Caller -> SUBSET Kid]
    /\ restarts \in 0..MaxRestarts

Init ==
    /\ keys = {}
    /\ currentKid = NoKid
    /\ pc = [c \in Caller |-> "idle"]
    /\ kid = [c \in Caller |-> NoKid]
    /\ jwks = [c \in Caller |-> {}]
    /\ retired = {}
    /\ signed = {}
    /\ seen = [c \in Caller |-> {}]
    /\ restarts = 0

(* init() generates a key pair when there is no default kid.               *)
NeedsKey_Always == TRUE
NeedsKey == currentKid = NoKid

(* generateKeypair stores the new pair beside the ones there are.          *)
Stored_Replacing(k) == {k}
Stored_UnderOldKid(k) == keys \cup {currentKid}
Stored(k) == keys \cup {k}

(* The kids getJwks exports: all of getKids(), not the default one alone.  *)
ExportedKids_DefaultOnly == {currentKid}
ExportedKids == keys

(* getDefaultKey up to its await.                                          *)
GetDefaultKey(c) ==
    /\ pc[c] = "idle"
    /\ pc' = [pc EXCEPT ![c] = IF NeedsKey THEN "signGenerating" ELSE "signReady"]
    /\ UNCHANGED <<keys, currentKid, kid, jwks, retired, signed, seen, restarts>>

(* getJwks up to its await.                                                *)
GetJwks(c) ==
    /\ pc[c] = "idle"
    /\ pc' = [pc EXCEPT ![c] = IF NeedsKey THEN "jwksGenerating" ELSE "jwksReady"]
    /\ seen' = [seen EXCEPT ![c] = signed]
    /\ UNCHANGED <<keys, currentKid, kid, jwks, retired, signed, restarts>>

(* generateKeypair once its key pair is there.  It does not look at        *)
(* currentKid again: the pair is stored and becomes the default.           *)
GenerateKeypair(c) ==
    /\ c \in Generating
    /\ \E k \in Kid \ (keys \cup retired) :
         /\ keys' = Stored(k)
         /\ currentKid' = k
    /\ pc' = [pc EXCEPT ![c] =
                IF pc[c] = "signGenerating" THEN "signReady" ELSE "jwksReady"]
    /\ UNCHANGED <<kid, jwks, retired, signed, seen, restarts>>

(* getDefaultKey after its await: it returns the default kid of now.       *)
ReturnDefaultKey(c) ==
    /\ pc[c] = "signReady"
    /\ kid' = [kid EXCEPT ![c] = currentKid]
    /\ pc' = [pc EXCEPT ![c] = "signing"]
    /\ UNCHANGED <<keys, currentKid, jwks, retired, signed, seen, restarts>>

(* The factory signs with getPrivateKey(kid), which throws for a kid the   *)
(* holder does not know: the request then fails.                           *)
GetPrivateKey(c) ==
    /\ pc[c] = "signing"
    /\ signed' = IF kid[c] \in keys THEN signed \cup {kid[c]} ELSE signed
    /\ pc' = [pc EXCEPT ![c] = "idle"]
    /\ kid' = [kid EXCEPT ![c] = NoKid]
    /\ UNCHANGED <<keys, currentKid, jwks, retired, seen, restarts>>

(* getJwks after its await: getKids() is read once, then the public keys   *)
(* are exported asynchronously.                                            *)
GetKids(c) ==
    /\ pc[c] = "jwksReady"
    /\ jwks' = [jwks EXCEPT ![c] = ExportedKids]
    /\ pc' = [pc EXCEPT ![c] = "exporting"]
    /\ UNCHANGED <<keys, currentKid, kid, retired, signed, seen, restarts>>

(* All of toPublicJwk have resolved; the key set is returned.              *)
ReturnJwks(c) ==
    /\ pc[c] = "exporting"
    /\ pc' = [pc EXCEPT ![c] = "idle"]
    /\ jwks' = [jwks EXCEPT ![c] = {}]
    /\ seen' = [seen EXCEPT ![c] = {}]
    /\ UNCHANGED <<keys, currentKid, kid, retired, signed, restarts>>

(* The process stops and starts: the Map is empty again and every request  *)
(* in flight is gone.                                                      *)
Restart ==
    /\ restarts < MaxRestarts
    /\ restarts' = restarts + 1
    /\ retired' = retired \cup keys
    /\ keys' = {}
    /\ currentKid' = NoKid
    /\ pc' = [c \in Caller |-> "idle"]
    /\ kid' = [c \in Caller |-> NoKid]
    /\ jwks' = [c \in Caller |-> {}]
    /\ seen' = [c \in Caller |-> {}]
    /\ signed' = {}

(* What an await leads to: the steps the event loop owes a caller.         *)
Resume(c) ==
    \/ GenerateKeypair(c)
    \/ ReturnDefaultKey(c)
    \/ GetPrivateKey(c)
    \/ GetKids(c)
    \/ ReturnJwks(c)

Next ==
    \/ \E c \in Caller : GetDefaultKey(c) \/ GetJwks(c) \/ Resume(c)
    \/ Restart

Spec == Init /\ [][Next]_vars

(* Every pending promise is settled and its continuation runs.             *)
FairSpec == Spec /\ \A c \in Caller : WF_vars(Resume(c))

-----------------------------------------------------------------------------
(* The default key may be replaced between the moment a caller obtains its *)
(* kid and the moment it signs (two cold callers each generate a pair):    *)
(* getPrivateKey nevertheless never meets a kid it has no key for.         *)
SignerHasKey == \A c \in Caller : pc[c] = "signing" => kid[c] \in keys

(* A key set that is being returned verifies everything that had been      *)
(* signed when it was asked for: a resource server that fetches the JWKS   *)
(* after it received a token can always verify that token.                 *)
JwksVerifiesEarlierSignatures ==
    \A c \in Caller : pc[c] = "exporting" => seen[c] \subseteq jwks[c]

(* The damage of the cold-start race is bounded: one process never         *)
(* generates more pairs than it has concurrent callers, however long it    *)
(* runs, since nobody generates once there is a default key.               *)
KeysBoundedByColdCallers ==
    Cardinality(keys) + Cardinality(Generating) <= Cardinality(Caller)

(* Every request for a key or a key set is answered.                       *)
EveryCallReturns == \A c \in Caller : pc[c] # "idle" ~> pc[c] = "idle"

=============================================================================
