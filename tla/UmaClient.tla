----------------------------- MODULE UmaClient ------------------------------
(***************************************************************************)
(* UmaClientImpl of packages/css: how the resource server gets at the UMA  *)
(* configuration and the keys of the authorization server.  fetchUMAConfig *)
(* is memoized for a minute, as a promise: whoever calls meanwhile shares  *)
(* it, a rejected one too.  Every configuration comes with a remote key    *)
(* set of its own, which jose loads at first use and reloads for an        *)
(* unknown kid, though not within a cooldown after the last load.  A tick  *)
(* of the clock is long compared with a request, so that the clock only    *)
(* moves when no call has anything to do but wait for a configuration.     *)
(***************************************************************************)
EXTENDS Naturals, Sequences

CONSTANTS
    Call,          \* requests that the resource server is handling
    Kid,           \* key identifiers; none is used twice
    None,
    MemoTime,      \* the argument of MemoizeExpiring
    Cooldown,      \* cooldownDuration of the remote key set
    MaxTime        \* bound on the clock

ASSUME NoneAssumption == None \notin Kid /\ None \notin Nat
ASSUME TimeAssumption == MemoTime \in Nat /\ Cooldown \in Nat /\ MaxTime \in Nat

VARIABLES
    time,
    up,            \* whether the authorization server can be reached
    keys,          \* the kids it publishes
    born,          \* history: when each kid was published first, or None
    lastDown,      \* history: when the server was last out of reach, or None
    configs,       \* the promises of fetchUMAConfig, the memoized one last
    call           \* what each call awaits, and which kid and promise it uses

server == <<up, keys, born, lastDown>>
vars == <<time, server, configs, call>>

Config == [at : Nat, status : {"pending", "ok", "rejected"},
           loaded : SUBSET Kid, loadedAt : Nat \cup {None}]
Steps == {"idle", "config", "key", "register", "verified", "ticket", "failed"}

TypeOK ==
    /\ time \in 0..MaxTime
    /\ up \in BOOLEAN
    /\ keys \subseteq Kid
    /\ born \in [Kid -> 0..MaxTime \cup {None}]
    /\ lastDown \in 0..MaxTime \cup {None}
    /\ configs \in Seq(Config)
    /\ call \in [Call -> [at : Steps, kid : Kid \cup {None}, config : 0..Len(configs)]]

Idle == [at |-> "idle", kid |-> None, config |-> 0]

Init ==
    /\ time = 0
    /\ up = TRUE
    /\ keys = {}
    /\ born = [k \in Kid |-> None]
    /\ lastDown = None
    /\ configs = <<>>
    /\ call = [c \in Call |-> Idle]

Goto(c, l) == call' = [call EXCEPT ![c].at = l]
Return(c, l) == call' = [call EXCEPT ![c] = [Idle EXCEPT !.at = l]]

-----------------------------------------------------------------------------
(* The authorization server comes and goes, adds keys, and loses them in a *)
(* restart.                                                                *)
GoDown ==
    /\ up
    /\ up' = FALSE /\ lastDown' = time
    /\ UNCHANGED <<time, keys, born, configs, call>>

ComeUp ==
    /\ ~up
    /\ up' = TRUE /\ keys' \in {keys, {}} /\ lastDown' = time
    /\ UNCHANGED <<time, born, configs, call>>

AddKey(k) ==
    /\ up /\ born[k] = None
    /\ keys' = keys \cup {k}
    /\ born' = [born EXCEPT ![k] = time]
    /\ UNCHANGED <<time, up, lastDown, configs, call>>

-----------------------------------------------------------------------------
(* verifyToken of a token that was signed with k, or fetchPermissionTicket *)
(* (None): both need the configuration, the memoized one or a new one.     *)
Memoized_Forever(p) == TRUE
Memoized(p) == time <= p.at + MemoTime
Pending == [at |-> time, status |-> "pending", loaded |-> {}, loadedAt |-> None]

Start(c, k) ==
    /\ call[c].at \in {"idle", "verified", "ticket", "failed"}
    /\ configs' = IF configs # <<>> /\ Memoized(configs[Len(configs)])
                  THEN configs ELSE Append(configs, Pending)
    /\ call' = [call EXCEPT ![c] =
            [at |-> "config", kid |-> k, config |-> Len(configs')]]
    /\ UNCHANGED <<time, server>>

(* A configuration arrives, or is found to be out of reach.                *)
Settled_Dropped == IF up THEN "ok" ELSE None
Settled == IF up THEN "ok" ELSE "rejected"
SettleConfig(i) ==
    /\ configs[i].status = "pending"
    /\ configs' = [configs EXCEPT ![i].status = Settled]
    /\ UNCHANGED <<time, server, call>>

UseConfig(c) ==
    /\ call[c].at = "config"
    /\ LET status == configs[call[c].config].status
       IN \/ status = "rejected" /\ Return(c, "failed")
          \/ status = "ok" /\ Goto(c, IF call[c].kid = None THEN "register" ELSE "key")
    /\ UNCHANGED <<time, server, configs>>

(* The key set of the configuration finds the kid among what it has ...    *)
KeySet(c) == configs[call[c].config]
FindKey(c) ==
    /\ call[c].at = "key"
    /\ call[c].kid \in KeySet(c).loaded
    /\ Return(c, "verified")
    /\ UNCHANGED <<time, server, configs>>

(* ... or in what it loads, unless it has loaded it only just now.         *)
CoolingDown_Always(p) == p.loadedAt # None
CoolingDown(p) == p.loadedAt # None /\ time < p.loadedAt + Cooldown

ReloadKeys(c) ==
    /\ call[c].at = "key"
    /\ call[c].kid \notin KeySet(c).loaded /\ ~CoolingDown(KeySet(c))
    /\ IF up
       THEN /\ configs' = [configs EXCEPT ![call[c].config].loaded = keys,
                                          ![call[c].config].loadedAt = time]
            /\ Return(c, IF call[c].kid \in keys THEN "verified" ELSE "failed")
       ELSE Return(c, "failed") /\ UNCHANGED configs
    /\ UNCHANGED <<time, server>>

UnknownKey(c) ==
    /\ call[c].at = "key"
    /\ call[c].kid \notin KeySet(c).loaded /\ CoolingDown(KeySet(c))
    /\ Return(c, "failed")
    /\ UNCHANGED <<time, server, configs>>

(* The ticket request goes to the endpoint of the configuration.           *)
Register(c) ==
    /\ call[c].at = "register"
    /\ Return(c, IF up THEN "ticket" ELSE "failed")
    /\ UNCHANGED <<time, server, configs>>

Step(c) ==
    \/ \E k \in {x \in Kid : born[x] # None} \cup {None} : Start(c, k)
    \/ UseConfig(c) \/ FindKey(c) \/ ReloadKeys(c) \/ UnknownKey(c) \/ Register(c)

Waiting(c) ==
    \/ call[c].at \in {"idle", "verified", "ticket", "failed"}
    \/ call[c].at = "config" /\ configs[call[c].config].status = "pending"

Tick ==
    /\ time < MaxTime
    /\ \A c \in Call : Waiting(c)
    /\ time' = time + 1
    /\ lastDown' = IF up THEN lastDown ELSE time + 1
    /\ UNCHANGED <<up, keys, born, configs, call>>

Next ==
    \/ \E c \in Call : Step(c)
    \/ \E i \in 1..Len(configs) : SettleConfig(i)
    \/ GoDown \/ ComeUp \/ Tick
    \/ \E k \in Kid : AddKey(k)

Spec == Init /\ [][Next]_vars

-----------------------------------------------------------------------------
(* An outage is over for the resource server one minute after it is over:  *)
(* a rejected configuration refuses tokens and keeps tickets from clients  *)
(* for no longer than that.                                                *)
RecentOutage == lastDown # None /\ time <= lastDown + MemoTime

(* A token is not refused for its key, except while that key is new.       *)
NewKey(k) == time < born[k] + Cooldown

Failing(c) == call[c].at # "failed" /\ call'[c].at = "failed"

(* Whatever the moment at which the configuration and the keys were        *)
(* fetched, a token signed with a published key is only refused soon after *)
(* an outage or soon after its key was added ...                           *)
RefusalsAreBrief ==
    [][\A c \in Call : Failing(c) /\ call[c].kid \in keys
            => RecentOutage \/ NewKey(call[c].kid)]_vars

(* ... and a ticket fails to be had only soon after an outage.             *)
TicketsComeBack ==
    [][\A c \in Call : Failing(c) /\ call[c].kid = None => RecentOutage]_vars

(* A token whose key was lost in a restart of the authorization server is  *)
(* only accepted for as long as the resource server may hold on to the     *)
(* configuration with which it has loaded the key.                         *)
LostKeysAreForgotten ==
    [][\A c \in Call : call[c].at = "key" /\ call'[c].at = "verified"
            => call[c].kid \in keys \/ RecentOutage]_vars

=============================================================================
