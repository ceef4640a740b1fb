-------------------------- MODULE AccountDirectory --------------------------
(***************************************************************************)
(* The accounts of the identity provider as its users may imagine them: an *)
(* e-mail address has an account, a WebID has settings, and an operation   *)
(* succeeds or fails at one moment between its call and its answer.  Where *)
(* the storage rejects a call, or the process crashes, an operation may be *)
(* half done: an account without its settings, or settings without their   *)
(* account.                                                                *)
(* AccountStore implements this for callers that keep out of each other's  *)
(* accounts.                                                               *)
(***************************************************************************)

CONSTANTS Caller, Email, WebId, Setting, Record, Request, None

VARIABLES
    accounts,      \* for each address its account, or None
    settings,      \* for each WebID its settings, or None
    records,       \* for each forgot-password record its address, or None
    request,       \* what each caller has asked for and not yet been given
    answer         \* what each caller's last operation came to

directory == <<accounts, settings, records>>
vars == <<directory, request, answer>>

Init ==
    /\ accounts = [e \in Email |-> None]
    /\ settings = [w \in WebId |-> None]
    /\ records = [r \in Record |-> None]
    /\ request = [c \in Caller |-> None]
    /\ answer = [c \in Caller |-> None]

Ask(c, r) ==
    /\ request[c] = None
    /\ request' = [request EXCEPT ![c] = r]
    /\ answer' = [answer EXCEPT ![c] = None]
    /\ UNCHANGED directory

Settle(c, result) ==
    /\ request' = [request EXCEPT ![c] = None]
    /\ answer' = [answer EXCEPT ![c] = result]

(* The operations of a caller whose request r is.                          *)
Create(c, r) ==
    /\ r.op = "create" /\ accounts[r.email] = None /\ settings[r.webId] = None
    /\ accounts' = [accounts EXCEPT ![r.email] =
            [webId |-> r.webId, password |-> r.password, verified |-> FALSE]]
    /\ settings' = [settings EXCEPT ![r.webId] = r.settings]
    /\ Settle(c, "ok") /\ UNCHANGED records

Verify(c, r) ==
    /\ r.op = "verify" /\ accounts[r.email] # None
    /\ accounts' = [accounts EXCEPT ![r.email].verified = TRUE]
    /\ Settle(c, "ok") /\ UNCHANGED <<settings, records>>

ChangePassword(c, r) ==
    /\ r.op = "changePassword" /\ accounts[r.email] # None
    /\ accounts' = [accounts EXCEPT ![r.email].password = r.password]
    /\ Settle(c, "ok") /\ UNCHANGED <<settings, records>>

UpdateSettings(c, r) ==
    /\ r.op = "updateSettings" /\ settings[r.webId] # None
    /\ settings' = [settings EXCEPT ![r.webId] = r.settings]
    /\ Settle(c, "ok") /\ UNCHANGED <<accounts, records>>

DeleteAccount(c, r) ==
    /\ r.op = "deleteAccount" /\ accounts[r.email] # None
    /\ accounts' = [accounts EXCEPT ![r.email] = None]
    /\ settings' = [settings EXCEPT ![accounts[r.email].webId] = None]
    /\ Settle(c, "ok") /\ UNCHANGED records

(* A forgot-password record is for an account; nobody else has it.         *)
GenerateRecord(c, r) ==
    /\ r.op = "generateForgotPasswordRecord" /\ accounts[r.email] # None
    /\ \E id \in Record :
         /\ records[id] = None
         /\ records' = [records EXCEPT ![id] = r.email]
         /\ Settle(c, id)
    /\ UNCHANGED <<accounts, settings>>

DeleteRecord(c, r) ==
    /\ r.op = "deleteForgotPasswordRecord"
    /\ records' = [records EXCEPT ![r.record] = None]
    /\ Settle(c, "ok") /\ UNCHANGED <<accounts, settings>>

Expire ==
    /\ \E id \in Record : records[id] # None /\ records' = [records EXCEPT ![id] = None]
    /\ UNCHANGED <<accounts, settings, request, answer>>

(* Operations that change nothing: logging in yields the WebID, looking    *)
(* settings up yields them, and there may be nothing to delete.            *)
LogsIn(r) ==
    /\ accounts[r.email] # None /\ accounts[r.email].verified
    /\ accounts[r.email].password = r.password

Look(c, r) ==
    /\ \/ r.op = "authenticate" /\ LogsIn(r) /\ Settle(c, accounts[r.email].webId)
       \/ r.op = "getSettings" /\ settings[r.webId] # None /\ Settle(c, settings[r.webId])
       \/ r.op = "deleteAccount" /\ accounts[r.email] = None /\ Settle(c, "ok")
       \/ r.op = "getForgotPasswordRecord" /\ Settle(c, records[r.record])
    /\ UNCHANGED directory

(* An operation fails where it cannot be done.                             *)
Fail(c, r) ==
    /\ \/ r.op = "create" /\ (accounts[r.email] # None \/ settings[r.webId] # None)
       \/ r.op \in {"verify", "changePassword", "generateForgotPasswordRecord"}
          /\ accounts[r.email] = None
       \/ r.op = "authenticate" /\ ~LogsIn(r)
       \/ r.op \in {"getSettings", "updateSettings"} /\ settings[r.webId] = None
    /\ Settle(c, "failed")
    /\ UNCHANGED directory

(* The storage rejects a call, and nothing has been done.                  *)
Reject(c) == Settle(c, "rejected") /\ UNCHANGED directory

(* Or half of it has: a create has made its account, a deletion has removed*)
(* it, and the settings are as they were.                                  *)
MayTear(r) ==
    \/ r.op = "create" /\ accounts[r.email] = None /\ settings[r.webId] = None
    \/ r.op = "deleteAccount" /\ accounts[r.email] # None
Half(r) ==
    IF r.op = "create"
    THEN [webId |-> r.webId, password |-> r.password, verified |-> FALSE] ELSE None

Tear(c, r) ==
    /\ MayTear(r)
    /\ accounts' = [accounts EXCEPT ![r.email] = Half(r)]
    /\ Settle(c, "rejected") /\ UNCHANGED <<settings, records>>

(* A crash interrupts every call, and tears some.                          *)
Crash ==
    /\ \E torn \in SUBSET {c \in Caller : request[c] # None /\ MayTear(request[c])} :
         accounts' = [e \in Email |->
             LET at == {c \in torn : request[c].email = e}
             IN IF at = {} THEN accounts[e] ELSE Half(request[CHOOSE c \in at : TRUE])]
    /\ request' = [c \in Caller |-> None]
    /\ answer' = [c \in Caller |-> None]
    /\ UNCHANGED <<settings, records>>

Next ==
    \/ \E c \in Caller :
         \/ \E r \in Request : Ask(c, r)
         \/ /\ request[c] # None
            /\ \/ Create(c, request[c]) \/ Verify(c, request[c])
               \/ ChangePassword(c, request[c]) \/ UpdateSettings(c, request[c])
               \/ DeleteAccount(c, request[c]) \/ Look(c, request[c])
               \/ GenerateRecord(c, request[c]) \/ DeleteRecord(c, request[c])
               \/ Fail(c, request[c]) \/ Reject(c) \/ Tear(c, request[c])
    \/ Expire \/ Crash

Spec == Init /\ [][Next]_vars

=============================================================================
