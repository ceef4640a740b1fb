---------------------- MODULE SelfIssuedTokens_proofs ----------------------
(***************************************************************************)
(* Proofs about KeyHolder, for any number of callers, kids and restarts,   *)
(* and about SelfIssuedTokens, for any number of factories and callers.    *)
(* Every step of the second is one of the key holder's, or leaves it       *)
(* alone, so that what is proved of the key holder holds of it there too.  *)
(***************************************************************************)
EXTENDS SelfIssuedTokens, FiniteSetTheorems, TLAPS

(* What holds at every step: a default kid is a known kid, and there is no *)
(* default only while the holder is empty.                                 *)
DefaultInv ==
    /\ currentKid # NoKid => currentKid \in keys
    /\ currentKid = NoKid => keys = {}

(* A caller past init() relies on a default key; a signer on its kid.      *)
CallerInv ==
    /\ \A c \in Caller : pc[c] \in {"signReady", "jwksReady"} => currentKid # NoKid
    /\ SignerHasKey

(* Everything signed, or seen signed by somebody, is a key of the holder.  *)
SignedInv ==
    /\ signed \subseteq keys
    /\ \A c \in Caller : seen[c] \subseteq keys
    /\ JwksVerifiesEarlierSignatures

(* The bound on the number of keys only makes sense of a finite set.       *)
CountInv == IsFiniteSet(keys) /\ KeysBoundedByColdCallers

IInv == TypeOK /\ DefaultInv /\ CallerInv /\ SignedInv /\ CountInv

(* The state of the holder is well-typed in every reachable state.         *)
THEOREM TypeCorrect == Spec => []TypeOK
<1>1. Init => TypeOK
  BY RestartAssumption DEF Init, TypeOK, PC
<1>2. TypeOK /\ [Next]_vars => TypeOK'
  <2> SUFFICES ASSUME TypeOK, [Next]_vars PROVE TypeOK'
    OBVIOUS
  <2> USE DEF TypeOK, PC
  <2>1. ASSUME NEW c \in Caller, GetDefaultKey(c) PROVE TypeOK'
    BY <2>1 DEF GetDefaultKey
  <2>2. ASSUME NEW c \in Caller, GetJwks(c) PROVE TypeOK'
    BY <2>2 DEF GetJwks
  <2>3. ASSUME NEW c \in Caller, GenerateKeypair(c) PROVE TypeOK'
    BY <2>3 DEF GenerateKeypair, Stored
  <2>4. ASSUME NEW c \in Caller, ReturnDefaultKey(c) PROVE TypeOK'
    BY <2>4 DEF ReturnDefaultKey
  <2>5. ASSUME NEW c \in Caller, GetPrivateKey(c) PROVE TypeOK'
    BY <2>5 DEF GetPrivateKey
  <2>6. ASSUME NEW c \in Caller, GetKids(c) PROVE TypeOK'
    BY <2>6 DEF GetKids, ExportedKids
  <2>7. ASSUME NEW c \in Caller, ReturnJwks(c) PROVE TypeOK'
    BY <2>7 DEF ReturnJwks
  <2>8. CASE Restart
    BY <2>8, RestartAssumption DEF Restart
  <2>9. CASE UNCHANGED vars
    BY <2>9 DEF vars
  <2> QED
    BY <2>1, <2>2, <2>3, <2>4, <2>5, <2>6, <2>7, <2>8, <2>9 DEF Next, Resume
<1> QED
  BY <1>1, <1>2, PTL DEF Spec

(* A step never generates a second key unless the holder was cold, so the  *)
(* keys and the pending generations of a process stay within its callers.  *)
LEMMA CountStep ==
  ASSUME IInv, [Next]_vars
  PROVE  CountInv'
<1> USE DEF IInv, TypeOK, PC, CountInv, KeysBoundedByColdCallers
<1>0. IsFiniteSet(Generating) /\ Cardinality(Generating) <= Cardinality(Caller)
  BY CallerAssumption, FS_Subset DEF Generating
<1>1. Cardinality(keys) \in Nat /\ Cardinality(Generating) \in Nat
      /\ Cardinality(Caller) \in Nat
  BY <1>0, CallerAssumption, FS_CardinalityType
<1>2. ASSUME NEW c \in Caller,
             pc[c] = "idle", UNCHANGED <<keys, currentKid>>,
             \/ NeedsKey /\ Generating' = Generating \cup {c}
             \/ ~NeedsKey /\ Generating' = Generating
      PROVE  CountInv'
  <2>1. CASE NeedsKey
    <3>1. keys = {} /\ Cardinality(keys) = 0
      BY <2>1, FS_EmptySet DEF NeedsKey, DefaultInv
    <3>2. Generating' \in SUBSET Caller
      BY <1>2, <2>1 DEF Generating
    <3>3. Cardinality(Generating') <= Cardinality(Caller)
          /\ Cardinality(Generating') \in Nat
      BY <3>2, CallerAssumption, FS_Subset, FS_CardinalityType
    <3> QED
      BY <1>2, <1>1, <3>1, <3>3
  <2>2. CASE ~NeedsKey
    BY <1>2, <2>2
  <2> QED
    BY <2>1, <2>2
<1>3. ASSUME NEW c \in Caller, GenerateKeypair(c) PROVE CountInv'
  <2>1. PICK k \in Kid \ (keys \cup retired) : keys' = keys \cup {k}
    BY <1>3 DEF GenerateKeypair, Stored
  <2>2. IsFiniteSet(keys') /\ Cardinality(keys') = Cardinality(keys) + 1
    BY <2>1, FS_AddElement
  <2>3. c \in Generating /\ Generating' = Generating \ {c}
    BY <1>3 DEF GenerateKeypair, Generating
  <2>4. Cardinality(Generating') = Cardinality(Generating) - 1
    BY <2>3, <1>0, FS_RemoveElement
  <2> QED
    BY <2>2, <2>4, <1>1
<1>4. ASSUME UNCHANGED keys, Generating' = Generating PROVE CountInv'
  BY <1>4
<1>5. CASE Restart
  <2>1. keys' = {} /\ Generating' = {}
    BY <1>5 DEF Restart, Generating
  <2> QED
    BY <2>1, <1>1, FS_EmptySet
<1>6. ASSUME NEW c \in Caller, GetDefaultKey(c) PROVE CountInv'
  <2>1. NeedsKey => Generating' = Generating \cup {c}
    BY <1>6 DEF GetDefaultKey, Generating
  <2>2. ~NeedsKey => Generating' = Generating
    BY <1>6 DEF GetDefaultKey, Generating
  <2> QED
    BY <1>2, <1>6, <2>1, <2>2 DEF GetDefaultKey
<1>7. ASSUME NEW c \in Caller, GetJwks(c) PROVE CountInv'
  <2>1. NeedsKey => Generating' = Generating \cup {c}
    BY <1>7 DEF GetJwks, Generating
  <2>2. ~NeedsKey => Generating' = Generating
    BY <1>7 DEF GetJwks, Generating
  <2> QED
    BY <1>2, <1>7, <2>1, <2>2 DEF GetJwks
<1>8. ASSUME NEW c \in Caller, ReturnDefaultKey(c) PROVE CountInv'
  BY <1>4, <1>8 DEF ReturnDefaultKey, Generating
<1>9. ASSUME NEW c \in Caller, GetPrivateKey(c) PROVE CountInv'
  BY <1>4, <1>9 DEF GetPrivateKey, Generating
<1>10. ASSUME NEW c \in Caller, GetKids(c) PROVE CountInv'
  BY <1>4, <1>10 DEF GetKids, Generating
<1>11. ASSUME NEW c \in Caller, ReturnJwks(c) PROVE CountInv'
  BY <1>4, <1>11 DEF ReturnJwks, Generating
<1>12. CASE UNCHANGED vars
  BY <1>4, <1>12 DEF vars, Generating
<1> QED
  BY <1>3, <1>5, <1>6, <1>7, <1>8, <1>9, <1>10, <1>11, <1>12 DEF Next, Resume

(* The rest of the invariant: default key, callers and signatures.         *)
LEMMA KeyStep ==
  ASSUME IInv, [Next]_vars
  PROVE  DefaultInv' /\ CallerInv' /\ SignedInv'
<1> USE KidAssumption
    DEF IInv, TypeOK, PC, DefaultInv, CallerInv, SignedInv,
        SignerHasKey, JwksVerifiesEarlierSignatures
<1> DEFINE Goal == DefaultInv' /\ CallerInv' /\ SignedInv'
<1>1. ASSUME NEW c \in Caller, GetDefaultKey(c) PROVE Goal
  BY <1>1 DEF GetDefaultKey, NeedsKey
<1>2. ASSUME NEW c \in Caller, GetJwks(c) PROVE Goal
  BY <1>2 DEF GetJwks, NeedsKey
<1>3. ASSUME NEW c \in Caller, GenerateKeypair(c) PROVE Goal
  BY <1>3 DEF GenerateKeypair, Generating, Stored
<1>4. ASSUME NEW c \in Caller, ReturnDefaultKey(c) PROVE Goal
  BY <1>4 DEF ReturnDefaultKey
<1>5. ASSUME NEW c \in Caller, GetPrivateKey(c) PROVE Goal
  BY <1>5 DEF GetPrivateKey
<1>6. ASSUME NEW c \in Caller, GetKids(c) PROVE Goal
  BY <1>6 DEF GetKids, ExportedKids
<1>7. ASSUME NEW c \in Caller, ReturnJwks(c) PROVE Goal
  BY <1>7 DEF ReturnJwks
<1>8. CASE Restart
  BY <1>8 DEF Restart
<1>9. CASE UNCHANGED vars
  BY <1>9 DEF vars
<1> QED
  BY <1>1, <1>2, <1>3, <1>4, <1>5, <1>6, <1>7, <1>8, <1>9 DEF Next, Resume

(* What holds of the key holder, at each await of its callers.             *)
THEOREM Invariance == Spec => []IInv
<1>1. Init => DefaultInv /\ CallerInv /\ SignedInv
  BY DEF Init, DefaultInv, CallerInv, SignedInv, SignerHasKey,
         JwksVerifiesEarlierSignatures
<1>2. Init => CountInv
  <2> SUFFICES ASSUME Init PROVE CountInv
    OBVIOUS
  <2>1. keys = {} /\ Generating = {}
    BY DEF Init, Generating
  <2> QED
    BY <2>1, CallerAssumption, FS_EmptySet, FS_CardinalityType
       DEF CountInv, KeysBoundedByColdCallers
<1>3. TypeOK /\ IInv /\ [Next]_vars /\ TypeOK' => IInv'
  BY CountStep, KeyStep DEF IInv
<1> QED
  BY <1>1, <1>2, <1>3, TypeCorrect, PTL DEF Spec, IInv

(* getPrivateKey never throws for a caller that obtained its kid from      *)
(* getDefaultKey, whatever other callers generate in between.              *)
THEOREM SignerAlwaysHasKey == Spec => []SignerHasKey
  BY Invariance, PTL DEF IInv, CallerInv

(* A JWKS verifies whatever was signed before it was asked for.            *)
THEOREM JwksComplete == Spec => []JwksVerifiesEarlierSignatures
  BY Invariance, PTL DEF IInv, SignedInv

(* No process ever holds more keys than it has concurrent callers.         *)
THEOREM KeysBounded == Spec => []KeysBoundedByColdCallers
  BY Invariance, PTL DEF IInv, CountInv

-----------------------------------------------------------------------------
(* Callers that issue themselves tokens use the key holder as any others.  *)
THEOREM TokensUseKeyHolder == TSpec => Spec
<1>1. TInit => Init
  BY DEF TInit
<1>2. [TNext]_tvars => [Next]_vars
  <2> USE FactoryAssumption DEF Next, Resume
  <2>1. ASSUME NEW f \in Factory, GetToken(f) PROVE Next
    BY <2>1 DEF GetToken
  <2>2. ASSUME NEW f \in Factory, GetDpop(f) PROVE Next
    BY <2>2 DEF GetDpop
  <2>3. ASSUME NEW f \in Factory, SignDpop(f) PROVE Next
    BY <2>3 DEF SignDpop
  <2>4. ASSUME NEW f \in Factory, SignToken(f) PROVE Next
    BY <2>4 DEF SignToken
  <2>5. ASSUME NEW c \in Caller, Judge(c) PROVE Next
    BY <2>5 DEF Judge
  <2>6. ASSUME NEW c \in Caller, Otherwise(c) PROVE Next
    BY <2>6 DEF Otherwise
  <2>7. ASSUME NEW c \in Caller, NEW t \in sent, FetchKeys(c, t) PROVE Next
    BY <2>7 DEF FetchKeys
  <2>8. CASE RestartAgent
    BY <2>8 DEF RestartAgent
  <2>9. CASE UNCHANGED tvars
    BY <2>9 DEF tvars
  <2> QED
    BY <2>1, <2>2, <2>3, <2>4, <2>5, <2>6, <2>7, <2>8, <2>9 DEF TNext
<1> QED
  BY <1>1, <1>2, PTL DEF TSpec, Spec

-----------------------------------------------------------------------------
(* A token is bound to the proof that comes with it, and was signed by     *)
(* this process or an earlier one: when it is sent, and, as far as the     *)
(* key set is concerned, when its server asks for the keys.                *)
SentInv ==
    \A t \in sent : t.jkt = t.proof /\ t.kid \in signed \cup retired
JudgingInv ==
    \A c \in Caller : judging[c] # None =>
        /\ pc[c] \in {"jwksGenerating", "jwksReady", "exporting"}
        /\ judging[c].jkt = judging[c].proof
        /\ judging[c].kid \in seen[c] \cup retired
JudgingType == DOMAIN judging = Caller /\ judging = [c \in Caller |-> judging[c]]
TInv == JudgingType /\ SentInv /\ JudgingInv

LEMMA TokenStep ==
  ASSUME IInv, TInv, [TNext]_tvars
  PROVE  TInv'
<1> USE FactoryAssumption
    DEF IInv, TypeOK, PC, CallerInv, SignedInv, SignerHasKey,
        TInv, JudgingType, SentInv, JudgingInv
<1>1. ASSUME NEW f \in Factory, GetToken(f) PROVE TInv'
  BY <1>1 DEF GetToken, GetDefaultKey
<1>2. ASSUME NEW f \in Factory, GetDpop(f) PROVE TInv'
  BY <1>2 DEF GetDpop, GetDefaultKey
<1>3. ASSUME NEW f \in Factory, SignDpop(f) PROVE TInv'
  BY <1>3 DEF SignDpop, GetPrivateKey
<1>4. ASSUME NEW f \in Factory, SignToken(f) PROVE TInv'
  BY <1>4 DEF SignToken, Signable, GetPrivateKey, AuthenticatedFetch, Jkt
<1>5. ASSUME NEW c \in Caller, Judge(c) PROVE TInv'
  BY <1>5 DEF Judge, ReturnJwks
<1>6. ASSUME NEW c \in Caller, Otherwise(c) PROVE TInv'
  <2>1. CASE GetDefaultKey(c)
    BY <1>6, <2>1 DEF Otherwise, tokens, GetDefaultKey
  <2>2. CASE GetJwks(c)
    BY <1>6, <2>2 DEF Otherwise, tokens, GetJwks
  <2>3. CASE GetPrivateKey(c)
    BY <1>6, <2>3 DEF Otherwise, tokens, GetPrivateKey
  <2>4. CASE GenerateKeypair(c)
    BY <1>6, <2>4 DEF Otherwise, tokens, GenerateKeypair, Generating
  <2>5. CASE ReturnDefaultKey(c)
    BY <1>6, <2>5 DEF Otherwise, tokens, ReturnDefaultKey
  <2>6. CASE GetKids(c)
    BY <1>6, <2>6 DEF Otherwise, tokens, GetKids
  <2>7. CASE judging[c] = None /\ ReturnJwks(c)
    BY <1>6, <2>7 DEF Otherwise, tokens, ReturnJwks
  <2> QED
    BY <1>6, <2>1, <2>2, <2>3, <2>4, <2>5, <2>6, <2>7 DEF Otherwise
<1>7. ASSUME NEW c \in Caller, NEW t \in sent, FetchKeys(c, t) PROVE TInv'
  BY <1>7 DEF FetchKeys, GetJwks
<1>8. CASE RestartAgent
  BY <1>8 DEF RestartAgent, Restart
<1>9. CASE UNCHANGED tvars
  BY <1>9 DEF tvars, vars, tokens
<1> QED
  BY <1>1, <1>2, <1>3, <1>4, <1>5, <1>6, <1>7, <1>8, <1>9 DEF TNext

(* What holds of the tokens that are out, beside it.                       *)
THEOREM TokenInvariance == TSpec => [](IInv /\ TInv)
<1>1. TInit => TInv
  BY DEF TInit, TInv, JudgingType, SentInv, JudgingInv
<1>2. IInv /\ TInv /\ [TNext]_tvars => TInv'
  BY TokenStep
<1>3. TSpec => []IInv
  BY TokensUseKeyHolder, Invariance, PTL
<1> QED
  BY <1>1, <1>2, <1>3, PTL DEF TSpec

(* A self-issued token is accepted with the proof that comes with it,      *)
(* whichever keys the two were signed with, by every server that asks for  *)
(* the key set once it has the token, unless the agent restarted meanwhile.*)
THEOREM TokensAreAccepted == TSpec => AcceptedUnlessRestarted
<1> DEFINE Refusal == \A c \in Caller :
         Judge(c) /\ ~Accepts(judging[c], jwks[c]) => judging[c].kid \in retired
<1>1. IInv /\ TInv /\ [TNext]_tvars => [Refusal]_tvars
  BY DEF IInv, SignedInv, JwksVerifiesEarlierSignatures, TInv, JudgingInv,
         Judge, ReturnJwks, Accepts
<1> QED
  BY <1>1, TokenInvariance, PTL DEF TSpec, AcceptedUnlessRestarted

-----------------------------------------------------------------------------
(* A caller signs with a kid it has been given, so that the thumbprint of  *)
(* a proof and the fields of a token are kids, never the undefined one.    *)
ProofInv == \A f \in Factory : issuing[f] = "signed" => proof[f] \in Kid

LEMMA TokenTypeStep ==
  ASSUME IInv, TokenTypeOK, ProofInv, [TNext]_tvars
  PROVE  TokenTypeOK' /\ ProofInv'
<1> USE FactoryAssumption
    DEF IInv, TypeOK, PC, CallerInv, SignerHasKey, TokenTypeOK, Token, ProofInv
<1> DEFINE Goal == TokenTypeOK' /\ ProofInv'
<1>1. ASSUME NEW f \in Factory, GetToken(f) PROVE Goal
  BY <1>1 DEF GetToken, GetDefaultKey
<1>2. ASSUME NEW f \in Factory, GetDpop(f) PROVE Goal
  BY <1>2 DEF GetDpop, GetDefaultKey
<1>3. ASSUME NEW f \in Factory, SignDpop(f) PROVE Goal
  <2>1. kid[Dpop[f]] \in Kid
    BY <1>3 DEF SignDpop, GetPrivateKey
  <2> QED
    BY <1>3, <2>1 DEF SignDpop, GetPrivateKey
<1>4. ASSUME NEW f \in Factory, SignToken(f) PROVE Goal
  <2>1. kid[f] \in Kid /\ proof[f] \in Kid
    BY <1>4 DEF SignToken, Signable, GetPrivateKey
  <2> QED
    BY <1>4, <2>1 DEF SignToken, GetPrivateKey, AuthenticatedFetch, Jkt
<1>5. ASSUME NEW c \in Caller, Judge(c) PROVE Goal
  BY <1>5 DEF Judge, ReturnJwks
<1>6. ASSUME NEW c \in Caller, Otherwise(c) PROVE Goal
  BY <1>6 DEF Otherwise, tokens
<1>7. ASSUME NEW c \in Caller, NEW t \in sent, FetchKeys(c, t) PROVE Goal
  BY <1>7 DEF FetchKeys, GetJwks
<1>8. CASE RestartAgent
  BY <1>8 DEF RestartAgent, Restart
<1>9. CASE UNCHANGED tvars
  BY <1>9 DEF tvars, tokens
<1> QED
  BY <1>1, <1>2, <1>3, <1>4, <1>5, <1>6, <1>7, <1>8, <1>9 DEF TNext

(* The tokens are well-typed in every reachable state: no request ever     *)
(* goes out with an undefined kid in the token or in its proof.            *)
THEOREM TokenTypeCorrect == TSpec => []TokenTypeOK
<1>1. TInit => TokenTypeOK /\ ProofInv
  BY DEF TInit, TokenTypeOK, ProofInv
<1>2. IInv /\ TokenTypeOK /\ ProofInv /\ [TNext]_tvars => (TokenTypeOK /\ ProofInv)'
  BY TokenTypeStep
<1>3. TSpec => []IInv
  BY TokensUseKeyHolder, Invariance, PTL
<1> QED
  BY <1>1, <1>2, <1>3, PTL DEF TSpec

=============================================================================
