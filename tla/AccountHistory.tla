--------------------------- MODULE AccountHistory ---------------------------
(***************************************************************************)
(* AccountStore with what the properties of callers that do get into each  *)
(* other's way have to remember.                                           *)
(***************************************************************************)
EXTENDS AccountStore

VARIABLES
    begun,         \* history: the WebIDs, the passwords and the confirmation
                   \* that were asked for at each address since it was vacant
    cut            \* history: the WebIDs without settings whose creation was
                   \* cut off, or whose settings were deleted

hvars == <<vars, begun, cut>>

HInit == Init /\ begun = [e \in Email |-> {}] /\ cut = {}

BegunBy(r, e) ==
    CASE r = None \/ r.email # e -> {}
      [] r.op = "create" -> {r.webId, r.password}
      [] r.op = "changePassword" -> {r.password}
      [] r.op = "verify" -> {"verify"}
      [] OTHER -> {}

(* No account is at the address, and nobody is about to write one that it  *)
(* has read there: what was asked for before no longer counts.             *)
Vacant(e) ==
    /\ accounts[e] = None
    /\ \A c \in Caller :
         pc[c] = "setAccount" /\ request[c].email = e => request[c].op = "create"

CutOff(c) == pc[c] = "setSettings" /\ request[c].op = "create" /\ pc'[c] = "idle"

HNext ==
    /\ Next
    /\ begun' = [e \in Email |->
            (IF Vacant(e)' THEN {} ELSE begun[e])
            \cup UNION {BegunBy(request'[c], e) : c \in Caller}]
    /\ cut' = {w \in WebId :
            /\ settings'[w] = None
            /\ \/ w \in cut \/ settings[w] # None
               \/ \E c \in Caller : CutOff(c) /\ request[c].webId = w}

HSpec == HInit /\ [][HNext]_hvars

-----------------------------------------------------------------------------
(* Every account has the settings its WebID is to be served by, unless     *)
(* they are about to be written, or their writing was cut off by a crash   *)
(* or a rejected call, or a deletion took them away, and nobody has        *)
(* written any since: racing creations, confirmations and changes of       *)
(* password leave no account without settings.                             *)
AccountsHaveSettings ==
    \A e \in Email : accounts[e] # None =>
        LET w == accounts[e].webId
        IN settings[w] # None \/ w \in cut \/ Creating(w) # {}

(* Whatever operations race and whatever updates are lost, nobody logs in  *)
(* with a password that was not asked for at that address, before the      *)
(* address was confirmed, or to a WebID that was not registered with it,   *)
(* and what was asked for of an account that was there before does not     *)
(* count: an account only comes back after its deletion to those who raced *)
(* with it.                                                                *)
LoginsAreEarned ==
    \A e \in Email : accounts[e] # None =>
        /\ {accounts[e].webId, accounts[e].password} \subseteq begun[e]
        /\ accounts[e].verified => "verify" \in begun[e]

=============================================================================
