# Formal models of the interoperability stack

This directory models the User-Managed Access (UMA) deployment of this repository in TLA+,
model-checks the models with TLC and proves their main properties with TLAPS. Paths below
are relative to `src/packages/`.

## 1. The system

A pod owner's data is served by a **resource server** (RS, a Community Solid Server with the
extensions of `css`). Access is decided by an **authorization server** (AS, `uma`), which
asks an **interop authorizer** (`aa`) what the owner's registrations and grants allow. `util`
has the signing keys, routes and error handling both use; `interfaces` has types; `http` starts
the AS. Everything runs on Node.js: one thread per server, with interleaving at every `await`.

| component | state it keeps | operations | where it is hard |
|---|---|---|---|
| key holder, `util/src/secrets/InMemoryJwksKeyHolder.ts` | key pairs by kid, the default kid, in memory | `getDefaultKey`, `getPrivateKey`, `getJwks`, `generateKeypair` | lazy asynchronous generation, restarts |
| permission registration, `uma/src/http/PermissionRegistrationHandler.ts` | none; issues ticket JWTs | `handle` | expiry, replay, keys lost in a restart |
| grant processor, `uma/src/grant/UmaGrantProcessor.ts` | none; trades tickets and claims for token JWTs | `process`, `authorize`, `authenticate` | policies change during the consultation, partial grants |
| ticket and token factories, `uma/src/{ticket,token}` | none | `serialize`, `deserialize` | both kinds of JWT share keys, issuer and audience |
| token extraction and challenge, `css/src/{authentication,http}` | none | `UmaTokenExtractor.handle`, `TicketWwwAuthMetadataWriter.handle` | the AS may be down; a failure here must still answer |
| permission evaluation, `css/src/authorization` | none | union of readers, walk through the modes | order of readers and modes |
| UMA client, `css/src/uma` | memoized configuration promise and its JWKS | `verifyToken`, `fetchPermissionTicket`, `fetchUMAConfig` | shared and rejected promises, stale keys |
| interop authorizer, `aa/src/authz` | LRU cache of authorization agents | `authorize`, six strategies | stale agents, concurrent fills, failing pods |
| account store, `css/src/util/ExtendedAccountStore.ts` | accounts and settings in a key-value storage, expiring forgot-password records | `create`, `verify`, `changePassword`, `authenticate`, `deleteAccount`, `getSettings`, `updateSettings`, `getWebIdSettings`, three for the records | get-then-set across awaits, crashes between writes, reading all settings while they change |
| registration discovery, `aa/src/{agent/discovery,http}` | a cache of agents of its own | `handle` | same as the authorizer's cache |
| self-issued tokens, `aa/src/agent/idp`, `aa/src/factory` | none; a key holder | `getToken`, `getDpop`, `getAuthenticatedFetch` | two keys for one token, restarts before it is verified |
| pod creation, `css/src/pods` | none | `createPod` | check-then-create, half a pod after a failure |
| identity provider stubs, claim processors, WebID documents, routes, logging, start-up | none that changes | | |

How they interact: a client asks the RS for a resource. `UmaTokenExtractor` verifies a token
through the UMA client, which fetches the configuration and keys of the AS. The permission
readers and `UmaPermissionBasedAuthorizer` decide; a refusal of an unknown client makes
`TicketWwwAuthMetadataWriter` look up the pod's owner in the account store and register a
ticket at the AS, which goes out in the header of the 401. The client brings ticket and claims to
the token endpoint of the AS; the grant processor verifies both, consults the authorizers, filters
what they allow by the modes of the ticket, and issues a token, with which the client returns. The
authorization agent reads the owners' pods with tokens it issues to itself, whose servers fetch its
key set; a client asks the agent at its URL which registration it has with the owner. Accounts and pods
are created by the identity provider of the RS.

What makes each component correct: the key holder never signs with, and never fails to publish, a
key it does not have; a client gets no further than it was challenged for and the owner's policy
allowed when consulted, and not after expiry; the decision of the RS depends on what the readers
say and not on their order; the UMA client gets over an outage within the memoization time; a stale
agent never revives revoked access; an account operation is all or nothing to those who do not
race over the same account, and a race never yields a login nobody earned; the owner who is looked up
held the pod, and an owner who held it all along is found; discovery finds what is there and steadily
there; a self-issued token is accepted unless the agent restarted; a pod is its owner's alone unless two
creations contended for it.

## 2. Modules

| module | what it is | code |
|---|---|---|
| `KeyHolder` | the key holder, an action per await | `util/src/secrets` |
| `SelfIssuedTokens`, `MCSelfIssuedTokens`, `SelfIssuedTokens_proofs` | a token factory, a fetch and pod servers on top of `KeyHolder`; the proofs are of both | `aa/src/agent/idp`, `aa/src/factory` |
| `UmaAccess` | abstract promise to the owner: consult, lease, admit, serve | |
| `UmaProtocol`, `MCUmaProtocol`, `UmaProtocol_proofs` | RS and AS end to end, implements `UmaAccess` | `uma/src`, `css/src` |
| `PermissionCheck`, `MCPermissionCheck`, `PermissionCheck_proofs` | readers, union and walk through the modes, for one request | `css/src/authorization` |
| `UmaClient`, `MCUmaClient`, `UmaClient_proofs` | memoized configuration, key sets, outages | `css/src/uma` |
| `Consultation` | abstract authorizer that decides at one moment | |
| `InteropAuthorizer`, `MCInteropAuthorizer`, `InteropAuthorizer_proofs` | calls, LRU cache, strategies, registries; implements `Consultation` | `aa/src/authz`, `aa/src/factory` |
| `AccountDirectory` | abstract accounts with atomic operations | |
| `AccountStore`, `MCAccountStore` | the store call by call, implements `AccountDirectory` | `css/src/util/ExtendedAccountStore.ts` |
| `AccountHistory` | `AccountStore` with the history the racing properties need | |
| `PodOwners`, `MCPodOwners` | the lookup of a pod's owner while accounts change, on top of `AccountHistory` | `css/src/http/output/metadata` |
| `Accounts_proofs` | proofs about these three | |
| `RegistrationDiscovery`, `MCRegistrationDiscovery`, `RegistrationDiscovery_proofs` | discovery requests, their cache, registries | `aa/src/agent/discovery`, `aa/src/http` |
| `PodCreation`, `MCPodCreation`, `PodCreation_proofs` | creations of pods resource by resource | `css/src/pods` |

`PROJECT.json` maps every definition that stands for code to its lines. Names follow the source.
An operator `Foo_Bug` just before `Foo` is a wrong version of it; putting it in the place of `Foo`
breaks the property that `PROJECT.json` pairs with it, which shows that the property can fail.

**KeyHolder.** A caller is an in-flight request that signs (`getDefaultKey`, then `getPrivateKey`) or
publishes (`getJwks`). An action runs from one await to the next. `GenerateKeypair` is the rest of
`generateKeypair` once the key pair is there: it does not look at `currentKid` again, so cold callers
generate a pair each. `Restart` empties the map.

**SelfIssuedTokens.** A call of `getToken` is a caller of the key holder, and the call of `getDpop` it
awaits is another (`Dpop`). `GetToken` and `GetDpop` are `GetDefaultKey` of the one and of the other,
`SignDpop` and `SignToken` their `GetPrivateKey`; with the last the request goes out
(`getAuthenticatedFetch`). `FetchKeys` and `Judge` are a pod's server, which fetches the key set once it has
the token; `Otherwise` is everything else the key holder does. Every step is a step of `KeyHolder` or a stutter.

**UmaProtocol.** A session is a client with at most one request under way; `call[s].at` names the
handler and the await it is at. RS: `SendRequest`, `VerifyToken`/`RejectToken`/`ConfigUnavailable`
(extractor), `Allow`/`Refuse`/`Challenge` (authorizer), `FetchPermissionTicket`/
`ChallengeWithoutTicket` (metadata writer). AS: `RegisterPermission`, `RequestToken`,
`DeserializeTicket`, `Authenticate`/`NeedInfo`, `ConsultAuthorizer` (one authorizer at a time),
`DenyRequest`/`IssueToken`. Environment: `ChangePolicy`, `Tick`, `Restart`, `LateKey` (what is left of
the cold-start race of `KeyHolder`), `FetchJwks`, `LoseGrant`. A client may present any JWT it holds
at either server, again and again.

**PermissionCheck.** One request. Other readers answer anything from a constant set or fail; the
`TokenPermissionReader` may stand anywhere among them. `Combine` folds one answer in,
`RequireModePermission` and `Refuse` walk through the modes.

**UmaClient.** `configs` are the promises of `fetchUMAConfig`, the memoized one last; each has a key
set. `Start` joins the memoized promise or makes a new one; `SettleConfig` resolves or rejects it;
`FindKey`, `ReloadKeys` and `UnknownKey` are jose's remote key set. Time only moves when no
call has anything to do but wait for a configuration: the minute of memoization is long compared
with a request.

**InteropAuthorizer.** `cache` is the LRU cache, least recently used first. `CachedAgent`, `BuildAgent` and
`CacheAgent` are `getAuthorizationAgentForRequest` around its await; then come `CheckRegistration` and
one `RunStrategy` per strategy; `Fail` is an outage at any of these awaits, with the catch block it
meets. External, by how the code uses the library: an agent lists the registrations there were
when it was built and reads their contents afresh.

**Consultation.** What `UmaProtocol` takes an authorizer to be: at one moment of the call it looks at what
is granted and returns all of it or nothing.

**AccountStore.** `GetAccount`, `GetSettings`, `SetAccount`, `SetSettings`, `DeleteKey`, `DeleteWebId`,
`SetRecord`, `GetRecord` and `DeleteRecord` are the calls of the two storages, each atomic, with what each
operation does up to its next call; `FirstCall` says which of them an operation starts with. `Reject` is any
of these calls failing, which no operation catches: the caller gets the rejection, what was written before
stays, and the other callers carry on. `Crash` cuts off every operation under way and leaves the storages.
`Expire` drops a record.

**AccountHistory.** `begun` is what was asked for at an address since it was last vacant, that is, without an
account and without a caller about to write back one it has read there. `cut` are the WebIDs whose settings
were lost to a crash, a rejected write or a deletion and have not been written since. Both only remember.

**PodOwners.** `RetrievePodOwner` lists the keys of the storage, `NextEntry` reads one of them (any: the
storage promises no order), `ReturnOwner` takes the first account in the map whose pod covers the
resource. `AccountsChange` is any step of the accounts in between. The Community Solid Server's storage lists
its keys once and skips entries that are gone when it comes to read them. Which settings have a pod
whose URL is a prefix of the resource's is the constant `Covering`.

**RegistrationDiscovery.** `Discover` is the handler and the service up to the verification of the token,
with every refusal that comes first, in the code's order; `Authenticate` the verifier; `CachedAgent`,
`BuildAgent`, `CacheAgent` the cache around its await, with `GoOnWith` turning away owners who come
without an application; `FindRegistration` the rest, up to the Link header. The library's agents are as in
`InteropAuthorizer`, but the two caches are of two processes and have nothing to do with each other.

**PodCreation.** `CreatePod` is `createPod` up to its first await, `HasResource` its check,
`AddGeneratedResource` one write of `addGeneratedResources`, which may fail. `Edit` is somebody using the
pod, `Crash` the end of the process. Containers are written before what is in them, so that resource 1 is
the pod's root, which the check looks for.

## 3. What TLC checks

Every `.cfg` gives the constants their values; nothing else is bounded but what is said here.

| run | instance | properties |
|---|---|---|
| `KeyHolder` | 2 callers, one of them a token factory whose `getDpop` is the other, 1 token out, 1 restart, 4 kids (each process generates at most one per caller) | `TypeOK`, `TokenTypeOK`, `SignerHasKey`, `JwksVerifiesEarlierSignatures`, `KeysBoundedByColdCallers`, `AcceptedUnlessRestarted`, `EveryCallReturns` |
| `UmaWide` | 1 client, 3 resources (private, partly public, missing and without owner), 3 modes, 1 tick, a maximal age below the life of tokens | `TypeOK`, `TokensWithinChallenges`, `ServedUnderLease` |
| `UmaTimed` | 1 client, 2 authorizers, 3 kids (two restarts, or a restart and a late key), 2 ticks | `ServedUnderLease`, `EveryRequestAnswered`, `ClientsAreServed` |
| `PermissionCheck` | 2 groups, 2 modes, 2 resources, 2 other readers, 6 answers or more each | `TypeOK`, `CombinedByRule`, `OutcomeFollowsAnswers`, `ForeignTicketIsWorthless` |
| `UmaClient` | 2 calls, 2 keys, 3 ticks, memoization and cooldown of 1 tick | `TypeOK`, `RefusalsAreBrief`, `TicketsComeBack`, `LostKeysAreForgotten` |
| `Interop` | 2 calls, 2 owners, a cache of 1, 3 registries, 7 questions that reach every strategy | `TypeOK`, `GrantedDuringCall`, `QuietCallIsExact`, `ConsultedAtOnce` |
| `AccountsApart` | 2 callers apart: one with 2 addresses for 1 WebID, one with 2 passwords, 2 settings and 1 record | `TypeOK`, `BehavesAtomically` |
| `AccountsRacing` | 2 callers on the same 2 addresses and 2 WebIDs, 2 settings of which one covers the resource, 1 lookup | `AccountsHaveSettings`, `LoginsAreEarned`, `OwnerHeldThePod`, `SteadyOwnerIsFound` |
| `Discovery` | 2 requests, 2 owners, a cache of 1, 3 registries, 8 questions that reach every path | `TypeOK`, `DiscoveredDuringCall`, `RefusalsAreNoOlderThanTheAgent`, `EveryDiscoveryReturns` |
| `PodCreation` | 3 creations of 1 pod, 2 owners, 3 resources | `TypeOK`, `MixedPodsWereContended`, `ExistingPodsAreKept`, `SuccessIsWhole` |
| `UmaNeedInfo`, `AccountsClash` | 1 client as in `UmaWide`; 2 callers that create, change and delete 2 addresses and WebIDs | one property each, violated; see section 5 |

Why the bounds are enough. Two actors are what a race needs, and every handler works on one resource,
one JWT and one owner; a second of each tells "mine" from "another's". One restart makes a key stale,
two make the stale one's successor stale. Lifetimes are one tick or two, so that a JWT can be fresh,
in its last moment and expired within the clock; what matters is only the order of the expiries.
A cache of one agent with two owners evicts in every way.
Three creations are one that fails, one that tries again and one that contends with it. `PermissionCheck` takes deadlock off, since a
request ends. `SYMMETRY` is used only where callers, addresses and WebIDs, or keys are interchangeable
in every property, and never with liveness.

**The abstract specifications.** `ServedUnderLease` is `UmaAccess!Spec` under a mapping in which a
token is a lease, the modes granted so far in a consultation are consent, and the token of a request
that is being authorized is what it was admitted with. It says at once that a token is for what
some authorizer allowed its agent at the moment of consultation, that an expired or foreign token
admits nobody, that a ticket is not a token, and that a session is served within its lease. A lease ends when
the token expires or is older than the resource server accepts, whichever comes first: in `UmaWide` it is the
age, in `UmaTimed`, as in the deployed configuration (5 minutes against 600 seconds), the expiry.
`BehavesAtomically` is `AccountDirectory!Spec`, in which each operation takes effect at one moment; an
operation of two writes counts as done with the last. A rejected call or a crash may only tear the account
that is being created, or deleted, from its settings: the settings are then as they were. It holds for callers with addresses and WebIDs of their own; `AccountsRacing` has what is
left without that. `ConsultedAtOnce` is `Consultation!Spec` with a call that is neither idle nor returned as
open: neither the stale cache, nor the waterfall of strategies, nor the several reads of one strategy
make an answer a part of what is granted, or a mixture of what was granted at two moments. It supposes, as
the library does, that an IRI is of one kind and that a client has one registration with an owner: the
first strategy that finds any mode hides those of a later one.

**Fairness.** `KeyHolder`: weak fairness of every continuation of a call, since promises settle and the
event loop runs their continuations. `TFairSpec` says the same of the factory's steps; strong fairness
of `GetDpop` is because here it waits for its caller to be free, which the code's `getDpop` does not.
`RegistrationDiscovery`: weak fairness of each request's steps: whatever is awaited is settled, one way or
the other. `UmaProtocol`: weak fairness of each session's RS and AS steps
(`FairServers`), for the same reason; no fairness of clients, the clock, failures or restarts.
`ClientsAreServed` has its conditions as premises (`Settled`): from some time on no outage happens and
the policy allows what is asked; the client follows the answers; and jose fetches the JWKS again when
a verification meets an unknown kid after the cooldown, which is strong fairness of `FetchJwks`,
since it is only enabled while a token is being verified. As the clock is bounded, expiry happens
finitely often in a behaviour.

## 4. What TLAPS proves

Every invariant, action property and refinement that a passing run checks, for every value
of the constants that meets the named assumptions of the modules. Each proof has the same shape: an inductive
invariant (`IInv`, checked by TLC on the run's instance before it was proved), one lemma per action or
group of actions, and from the invariant the property. The invariants, and why they are needed:

- **`SelfIssuedTokens_proofs`, about `KeyHolder`**: `TypeCorrect`, `SignerAlwaysHasKey`, `JwksComplete`,
  `KeysBounded`. What was signed with is among the keys; a default kid is a key, and there are keys only if
  there is a default; a caller past its await finds a default kid; what a caller has seen signed is still
  among the keys. The count adds that keys and pending generations together only grow while the holder is
  cold.
- **`SelfIssuedTokens_proofs`, about the tokens**: `TokensUseKeyHolder`, the refinement that carries all of the
  above over, `TokensAreAccepted` and `TokenTypeCorrect`. A token that was sent confirms the key of its
  proof and was signed by this process or an earlier one; the token a key set is fetched for was
  signed with a key that counted as signed with when the set was asked for, or with one of an earlier
  process. With `JwksComplete` the key set then has it. What the proof cannot do without is that the set is
  asked for after the token was signed. That no token carries the undefined kid rests on `SignerHasKey`.
- **`UmaProtocol_proofs`**: `TypeCorrect`, `TokensBounded`, `Refinement`. The invariant says of a call's JWT, of
  each ticket and of each token that its modes have been challenged for its resource; of a call at each
  stage, that the JWT it works with is the session's own ticket or token, of the kind that stage accepts,
  and that nothing is granted beyond the ticket. Without it a token request could rest on a JWT of
  unknown origin. `Refinement` shows that the initial states map to
  initial states and each action to a step or a stutter of `UmaAccess`, one lemma per server, for any life and
  any maximal age of tokens.
- **`PermissionCheck_proofs`**: `TypeCorrect`, `UnionByRule`, `OutcomeCorrect`, `ForeignTicketsAreWorthless`. The
  invariant is `CombinedByRule` and `OutcomeFollowsAnswers` with what holds at each stage: nothing is combined
  before it is read, every answer is combined before the walk starts, and the modes already walked
  through are permitted. For a token of another resource it adds that every answer is one of the other
  readers' or empty.
- **`UmaClient_proofs`**: `TypeCorrect`, `BriefRefusals`, `TicketsFailBriefly`, `LostKeysForgotten`. A promise is
  made, then its keys are loaded, then it is now; a rejected one has had an outage since it was made; a key
  that is published but not loaded is no older than the load, and one that is loaded but not
  published was lost in an outage since. A call that goes on with a settled promise does so while the promise
  is memoized, or at the moment at which it was settled.
- **`InteropAuthorizer_proofs`**: `NeverRevived`: a pending call has the owner's present registry among those it
  has seen and no modes yet; its agent is of the owner it asked about. Nothing is needed about the
  cache or the library's list, which is why staleness does no harm here. `TypeCorrect`: one agent per owner and
  no more than the capacity, however calls interleave. `NothingIsLost`: while nothing changes and nothing fails,
  the strategies a call has tried have nothing to answer, and the next that answers answers with all there is.
  `ImplementsConsultation`: the strategy that answers, or the return without modes, is the moment that counts.
- **`Accounts_proofs`, about `AccountHistory`**: `TypeCorrect`, `NoneWithoutSettings`, `NoLoginUnearned`. A request is at
  a call of the storage that its operation makes; an account that is about to be written is either new,
  and then its settings follow, or was served (had settings, was about to get them, or had lost them) when
  it was read, and that stays so; it is made of what was asked for at its address since that was vacant. For
  the last part, an address is not vacant while such an account is about to be written, and a creation
  writes what its own request asks for, whatever is forgotten.
- **`Accounts_proofs`, about `PodOwners`**: `OwnersHeldThePod`, `SteadyOwnersAreFound`. The map of a lookup only has WebIDs
  that held the pod meanwhile; who has held it all along is in the map or still to be read.
- **`Accounts_proofs`, about `AccountDirectory`**: `ImplementsDirectory`, under the hypothesis `KeepApart` that no two
  callers ask about the same address or the same WebID. `KeptApart` is its invariant: the accounts at a
  caller's addresses have its WebIDs, and what it has read of accounts and settings is still what they
  are. The mapping takes an operation of two writes to have happened with the last of them. Without
  `KeepApart` the store does not implement the directory (`AccountsClash` is one way in which it does not),
  so the hypothesis is needed; the instance of `AccountsApart` satisfies it.
- **`RegistrationDiscovery_proofs`**: `TypeCorrect`, `DiscoveriesAreCurrent`, `RefusalsAreTimely`. A pending request has
  seen the owner's present registrations and works with an agent of that owner; an agent in use or in the
  cache lists the registrations that have been there since it was built, and those are still there. The
  lemmas on `Others`, `Append` and `Kept` say that the cache loses no more than the agent it evicts.
- **`PodCreation_proofs`**: `TypeCorrect`, `NoMixedPods`, `PodsAreKept`, `SuccessesAreWhole`. The root of a pod is written
  first, so that the check for it finds any part of a pod; an uncontended pod has one creation at most,
  which may not overwrite and writes for the only owner there is; what a creation that is alone has written is
  still there, but for edits.

**Assumptions on constants**, each a named `ASSUME` that TLC evaluates in every run of its module:

- `None`, `NoKid` and the like are none of the values they stand beside (`NoneAssumption`, `NoListAssumption`,
  `KidAssumption`, `TokenAssumption`, ...): they stand for `undefined`, or for nothing being there.
- Sizes and times are naturals, the capacity of a cache and the length of a template positive; the callers of a
  key holder are finite in number.
- `Asks` of the account store are requests with the arguments of their operation, and only those.
- `StrategiesAssumption` and the modes of `AskAssumption`: the strategies are the six the repository has, and
  what is asked for are modes of its `AccessMode`.
- `IriAssumption`, needed for `NothingIsLost` and `ImplementsConsultation`: no IRI is at once that of a
  registration, of an access grant, of a data grant, of a data registration and of an instance, or of two
  of these. They are resources of different kinds in the pod. If it failed, the first strategy in the
  waterfall would hide what a later one answers.
- `RegistryAssumption`, for `ImplementsConsultation`: an owner has one registration for an agent. The
  library finds at most one, so that with two a stale agent could answer with one of them.

**Only model-checked**: liveness (`EveryCallReturns`, `EveryRequestAnswered`, `ClientsAreServed`,
`EveryDiscoveryReturns`), which is out of the prover's reach, and the two properties that are violated.

## 5. Disagreements between code and documents

- `AccountsClash`: `ExtendedAccountStore.create` reads the settings of a WebID and writes them only after two
  more awaits; two creations with different addresses both succeed, against the comment at
  `css/src/util/ExtendedAccountStore.ts:119`.
- `UmaNeedInfo`: `NeedInfoError` says at `uma/src/error/NeedInfoError.ts:16` that it must include a ticket;
  `JsonHttpErrorHandler` leaves it out.

Seen by reading, without a run of their own, since the code contradicts the text in a single step:
`css/README.md:18-19` has the ticket registered for the missing modes, while
`UmaPermissionBasedAuthorizer.ts:95` passes all modes of the request; `RegistrationRequiredError` says that it
includes the URI of the authorization agent, while `AgentRegistrationDiscoveryServiceImpl.ts:77` gives it a
constant; `CustomGeneratedPodManager` says that it throws if the identifier already has a resource, which
`MixedPodsWereContended` shows to fail for creations at the same time only.

## 6. What is left out, and why

- Cryptography, HTTP framing, parsing and RDF: their outcome is an input. A missing body parameter (400) is not
  told from other client errors. A JWT is a record; a forged one is not modelled, since no verifier
  accepts it.
- `UmaProtocol` clients present their own JWTs only. Auxiliary resources, for which the RS also accepts the
  token of their subject, and the Solid-OIDC credentials it accepts besides, are not in `UmaProtocol`;
  `PermissionCheck` has `loggedIn` for the latter. Tokens that the AS issues to itself to read pods
  (`UmaFetchFactory`) are not among the tokens `TokensWithinChallenges` speaks of. The runs have one client;
  that two of them cannot use each other's leases is part of `Refinement`, which is for any number. They also
  have one agent, so that a ticket comes back with the same claims or with none; with those of another
  agent it is covered by `TokensBounded` and `Refinement` only.
- The pod's owner is the constant `PodOwner` in `UmaProtocol`; what the lookup returns while accounts change is
  `PodOwners`. A refusal without an owner, and hence without a ticket, is in both.
- The grant strategies of `aa` answer with read access whatever the request; `UmaGrantProcessor` filters by the
  ticket, and both models keep that division.
- What the code does and the properties therefore cannot exclude, only confine:
  - a client that was registered after the agent of its owner was cached stays denied until eviction: the
    hypothesis on `listed` in `QuietCallIsExact`;
  - a pod that is out of reach looks like a denial: `QuietCallIsExact` speaks of calls without an outage,
    `GrantedDuringCall` and `ConsultedAtOnce` of all, and allow the denial;
  - of nested or similar URLs of pods the order of the storage decides: any account whose pod covers the
    resource counts as an owner in `OwnerHeldThePod` and `SteadyOwnerIsFound`;
  - racing `verify`, `changePassword` and `deleteAccount` undo one another: `LoginsAreEarned` bounds what an
    account can then be by what was asked for at its address since that was vacant;
  - two creations of one pod at the same time mix it: `MixedPodsWereContended` and `ExistingPodsAreKept` except
    contended pods, and say that it comes about in no other way.
- External assumptions on the library behind `aa`: an agent lists the registrations there were when it was
  built, and reads the contents of a registry afresh whenever it is asked (`InteropAuthorizer` and
  `RegistrationDiscovery` both rest on it; nothing in this repository shows it). `RunStrategy` is one read
  although a strategy awaits several, which is sound as long as grants are replaced under a new IRI and
  never edited, as the application interoperability specification has it.
- Hashing a password only delays what follows and is not a step. The storage is taken to be atomic per call and
  to return copies; a call that it rejects has done nothing. A rejection while `PodOwners` goes through the
  storage ends the lookup without an owner, which is the outcome of a lookup that finds none, and is not
  modelled besides.
- What the Community Solid Server's union handlers make of a 400 or 500 that a failing extractor or reader throws
  is not in `src/`; `UmaProtocol` and `PermissionCheck` let it through, and no property depends on it.
- Users of a pod only overwrite in `PodCreation` (`Edit`); that they delete what a creation is writing is left out,
  so that `SuccessIsWhole` speaks of pods that nobody removes from meanwhile.
- The contents of generated pods, and the URL of the agent that is put into the settings: `PodCreation` only
  tells whose a resource is. What the Community Solid Server does with locks within one write is external.
- Claim token processing (`uma/src/authn`): stateless decoding and verification; `UmaProtocol` takes its result, an
  agent or none, as an input. `StaticIdpConfigHandler`, `UmaConfigRequestHandler`, `WebIdHandler` and the OAuth
  configuration: documents that are constant or computed from the request. `DummyTokenVerifier`: for tests.
  Routes, mode parsing, logging and start-up: pure functions or pure I/O.

## 7. Plan

The order was: keys, since everything is signed with them; the protocol and its promise; the decision of
the RS; the client of the RS; the authorizer behind the AS; accounts; then the owner lookup, discovery,
pod creation and self-issued tokens; then the proofs, in the same order. What is left to prove is how the
modules fit together: that `KeyHolder` implements `InitKeys` and `LateKey` of `UmaProtocol`, so that the keys the
protocol takes for granted are those the holder has.
