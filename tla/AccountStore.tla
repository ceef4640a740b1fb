---------------------------- MODULE AccountStore ----------------------------
(***************************************************************************)
(* ExtendedAccountStore of packages/css: the accounts of the identity      *)
(* provider and the settings of their WebIDs, in one key-value storage,    *)
(* and the records of those who forgot their passwords, in an expiring one.*)
(* Every operation is a few calls of the storage, awaited one by one, and  *)
(* operations of different requests interleave at every await.  The        *)
(* storage does each of its calls at once, or rejects it and does nothing, *)
(* and hands out copies; no operation catches a rejection, which ends it   *)
(* where it is.  The storage survives a crash, which cuts off whatever is  *)
(* under way.                                                              *)
(***************************************************************************)

CONSTANTS
    Caller,        \* requests of the identity provider, one at a time each
    Email,
    WebId,
    Password,      \* a hash is kept as the password that compares equal
    Setting,       \* the values AccountSettings may have
    Record,        \* identifiers of forgot-password records
    Asks,          \* what each caller may ask for
    None           \* undefined

(* The arguments of the operations: those that an operation does not have  *)
(* are None.                                                               *)
Ops == {"create", "verify", "changePassword", "authenticate",
        "deleteAccount", "updateSettings", "getSettings",
        "generateForgotPasswordRecord", "getForgotPasswordRecord",
        "deleteForgotPasswordRecord"}
OfAddress == {"create", "verify", "changePassword", "authenticate", "deleteAccount",
              "generateForgotPasswordRecord"}
Request ==
    {r \in [op : Ops, email : Email \cup {None}, webId : WebId \cup {None},
            password : Password \cup {None}, settings : Setting \cup {None},
            record : Record \cup {None}] :
        /\ r.email = None <=> r.op \notin OfAddress
        /\ r.webId = None <=> r.op \notin {"create", "updateSettings", "getSettings"}
        /\ r.password = None <=> r.op \notin {"create", "changePassword", "authenticate"}
        /\ r.settings = None <=> r.op \notin {"create", "updateSettings"}
        /\ r.record = None <=> r.op \notin {"getForgotPasswordRecord",
                                           "deleteForgotPasswordRecord"}}
Account == [webId : WebId, password : Password, verified : BOOLEAN]

ASSUME AsksAssumption == Asks \in [Caller -> SUBSET Request]
ASSUME NoneAssumption ==
    None \notin Request \cup Account \cup Email \cup WebId \cup Password \cup Setting
               \cup Record \cup {"ok", "failed", "rejected"}

VARIABLES
    accounts,      \* the storage under account/<e-mail>
    settings,      \* the storage under the WebIDs
    records,       \* the expiring storage: the address each record is for
    pc,            \* what each caller awaits
    request,       \* the arguments of its operation
    payload,       \* the account it has read, or is about to write
    answer         \* what its last operation came to

store == <<accounts, settings, records>>
vars == <<store, pc, request, payload, answer>>

PC == {"idle", "getAccount", "getSettings", "setAccount", "setSettings",
       "deleteKey", "deleteWebId", "setRecord", "getRecord", "deleteRecord"}

(* An operation that does not return either fails one of its assertions or *)
(* passes the rejection of the storage on.                                 *)
Answer == {"ok", "failed", "rejected", None} \cup WebId \cup Setting \cup Email \cup Record

TypeOK ==
    /\ accounts \in [Email -> Account \cup {None}]
    /\ settings \in [WebId -> Setting \cup {None}]
    /\ records \in [Record -> Email \cup {None}]
    /\ pc \in [Caller -> PC]
    /\ request \in [Caller -> Request \cup {None}]
    /\ payload \in [Caller -> Account \cup {None}]
    /\ answer \in [Caller -> Answer]

Init ==
    /\ accounts = [e \in Email |-> None]
    /\ settings = [w \in WebId |-> None]
    /\ records = [r \in Record |-> None]
    /\ pc = [c \in Caller |-> "idle"]
    /\ request = [c \in Caller |-> None]
    /\ payload = [c \in Caller |-> None]
    /\ answer = [c \in Caller |-> None]

Goto(c, l) == pc' = [pc EXCEPT ![c] = l] /\ UNCHANGED <<request, answer>>
Return(c, result) ==
    /\ pc' = [pc EXCEPT ![c] = "idle"]
    /\ request' = [request EXCEPT ![c] = None]
    /\ payload' = [payload EXCEPT ![c] = None]
    /\ answer' = [answer EXCEPT ![c] = result]

(* Every operation starts with a call of the storage.                      *)
FirstCall(op) ==
    CASE op \in {"getSettings", "updateSettings"} -> "getSettings"
      [] op = "getForgotPasswordRecord" -> "getRecord"
      [] op = "deleteForgotPasswordRecord" -> "deleteRecord"
      [] OTHER -> "getAccount"
Call(c, r) ==
    /\ pc[c] = "idle"
    /\ pc' = [pc EXCEPT ![c] = FirstCall(r.op)]
    /\ request' = [request EXCEPT ![c] = r]
    /\ answer' = [answer EXCEPT ![c] = None]
    /\ UNCHANGED <<store, payload>>

(* The account is not as the operation asserts it to be.                   *)
LogsIn(a, r) == a.verified /\ a.password = r.password
Refused(a, r) ==
    \/ r.op = "create" /\ a # None
    \/ r.op \in {"verify", "changePassword", "authenticate",
                 "generateForgotPasswordRecord"} /\ a = None
    \/ r.op = "authenticate" /\ a # None /\ ~LogsIn(a, r)

(* What verify and changePassword make of the account they have read (the  *)
(* hash of the new password is awaited, which only delays what follows).   *)
Changed(a, r) ==
    IF r.op = "verify" THEN [a EXCEPT !.verified = TRUE]
    ELSE [a EXCEPT !.password = r.password]

GetAccount(c) ==
    /\ pc[c] = "getAccount"
    /\ LET a == accounts[request[c].email]
           r == request[c]
       IN \/ Refused(a, r) /\ Return(c, "failed")
          \/ /\ r.op = "create" /\ a = None
             /\ Goto(c, "getSettings") /\ UNCHANGED payload
          \/ /\ r.op \in {"verify", "changePassword"} /\ a # None
             /\ Goto(c, "setAccount") /\ payload' = [payload EXCEPT ![c] = Changed(a, r)]
          \/ r.op = "authenticate" /\ ~Refused(a, r) /\ Return(c, a.webId)
          \/ /\ r.op = "deleteAccount" /\ a # None
             /\ Goto(c, "deleteKey") /\ payload' = [payload EXCEPT ![c] = a]
          \/ r.op = "deleteAccount" /\ a = None /\ Return(c, "ok")
          \/ /\ r.op = "generateForgotPasswordRecord" /\ a # None
             /\ Goto(c, "setRecord") /\ UNCHANGED payload
    /\ UNCHANGED store

(* "Make sure there is no other account for this WebID"; the payload of a  *)
(* new account is complete once its password is hashed.                    *)
WebIdTaken_Never(w) == FALSE
WebIdTaken(w) == settings[w] # None

NewAccount_NoHash(r) == [webId |-> r.webId, password |-> None, verified |-> FALSE]
NewAccount_Confirmed(r) ==
    [webId |-> r.webId, password |-> r.password, verified |-> TRUE]
NewAccount(r) == [webId |-> r.webId, password |-> r.password, verified |-> FALSE]

GetSettings(c) ==
    /\ pc[c] = "getSettings"
    /\ LET r == request[c]
       IN \/ r.op = "create" /\ WebIdTaken(r.webId) /\ Return(c, "failed")
          \/ /\ r.op = "create" /\ ~WebIdTaken(r.webId)
             /\ Goto(c, "setAccount")
             /\ payload' = [payload EXCEPT ![c] = NewAccount(r)]
          \/ /\ r.op # "create" /\ settings[r.webId] = None
             /\ Return(c, "failed")
          \/ /\ r.op = "updateSettings" /\ settings[r.webId] # None
             /\ Goto(c, "setSettings") /\ UNCHANGED payload
          \/ /\ r.op = "getSettings" /\ settings[r.webId] # None
             /\ Return(c, settings[r.webId])
    /\ UNCHANGED store

(* The settings follow a new account, and only that.                       *)
SettingsFollow_Never(r) == FALSE
SettingsFollow(r) == r.op = "create"

SetAccount(c) ==
    /\ pc[c] = "setAccount"
    /\ accounts' = [accounts EXCEPT ![request[c].email] = payload[c]]
    /\ IF SettingsFollow(request[c])
       THEN Goto(c, "setSettings") /\ UNCHANGED payload
       ELSE Return(c, "ok")
    /\ UNCHANGED <<settings, records>>

SetSettings(c) ==
    /\ pc[c] = "setSettings"
    /\ settings' = [settings EXCEPT ![request[c].webId] = request[c].settings]
    /\ Return(c, "ok")
    /\ UNCHANGED <<accounts, records>>

(* deleteAccount: the account goes first, its WebID's settings after it.   *)
DeleteKey(c) ==
    /\ pc[c] = "deleteKey"
    /\ accounts' = [accounts EXCEPT ![request[c].email] = None]
    /\ Goto(c, "deleteWebId")
    /\ UNCHANGED <<settings, records, payload>>

DeleteWebId(c) ==
    /\ pc[c] = "deleteWebId"
    /\ settings' = [settings EXCEPT ![payload[c].webId] = None]
    /\ Return(c, "ok")
    /\ UNCHANGED <<accounts, records>>

(* Forgot-password records.  An identifier is a fresh UUID: it is in use   *)
(* for no other record.                                                    *)
Unused_Any == Record
Unused == {r \in Record : records[r] = None}

SetRecord(c) ==
    /\ pc[c] = "setRecord"
    /\ \E r \in Unused :
         /\ records' = [records EXCEPT ![r] = request[c].email]
         /\ Return(c, r)
    /\ UNCHANGED <<accounts, settings>>

GetRecord(c) ==
    /\ pc[c] = "getRecord"
    /\ Return(c, records[request[c].record])
    /\ UNCHANGED store

DeleteRecord(c) ==
    /\ pc[c] = "deleteRecord"
    /\ records' = [records EXCEPT ![request[c].record] = None]
    /\ Return(c, "ok")
    /\ UNCHANGED <<accounts, settings>>

(* Records go by themselves after forgotPasswordExpiration.                *)
Expire ==
    /\ \E r \in Record : records[r] # None /\ records' = [records EXCEPT ![r] = None]
    /\ UNCHANGED <<accounts, settings, pc, request, payload, answer>>

(* The storage rejects the call that c awaits: what c has written stays,    *)
(* what it was about to write is not written.                              *)
Reject(c) ==
    /\ pc[c] # "idle"
    /\ Return(c, "rejected")
    /\ UNCHANGED store

Crash ==
    /\ \E c \in Caller : pc[c] # "idle"
    /\ pc' = [c \in Caller |-> "idle"]
    /\ request' = [c \in Caller |-> None]
    /\ payload' = [c \in Caller |-> None]
    /\ answer' = [c \in Caller |-> None]
    /\ UNCHANGED store

Next ==
    \/ \E c \in Caller :
         \/ \E r \in Asks[c] : Call(c, r)
         \/ GetAccount(c) \/ GetSettings(c) \/ SetAccount(c)
         \/ SetSettings(c) \/ DeleteKey(c) \/ DeleteWebId(c)
         \/ SetRecord(c) \/ GetRecord(c) \/ DeleteRecord(c) \/ Reject(c)
    \/ Expire \/ Crash

Spec == Init /\ [][Next]_vars

-----------------------------------------------------------------------------
(* What the comment in create says of the store: no two accounts are for   *)
(* the same WebID.                                                         *)
OneAccountPerWebId ==
    \A e, f \in Email : accounts[e] # None /\ accounts[f] # None
        /\ accounts[e].webId = accounts[f].webId => e = f

(* The refinement.  An operation of several writes counts as done with the *)
(* last of them: until then the account of a create is not there yet, and  *)
(* that of a deletion still is.                                            *)
Creating(w) == {c \in Caller :
    pc[c] = "setSettings" /\ request[c].op = "create" /\ request[c].webId = w}
CreatingAt(e) == {c \in Caller :
    pc[c] = "setSettings" /\ request[c].op = "create" /\ request[c].email = e}
DeletingAt(e) == {c \in Caller : pc[c] = "deleteWebId" /\ request[c].email = e}

AccountsBar == [e \in Email |->
    IF CreatingAt(e) # {} THEN None
    ELSE IF DeletingAt(e) # {} THEN payload[CHOOSE c \in DeletingAt(e) : TRUE]
    ELSE accounts[e]]

D == INSTANCE AccountDirectory WITH
        Request <- UNION {Asks[c] : c \in Caller}, accounts <- AccountsBar

(* To callers that keep out of each other's e-mail addresses and WebIDs,   *)
(* every operation is atomic: a password that was changed is the one that  *)
(* counts, an account that was deleted is gone, a WebID that is taken is   *)
(* not given away, a forgot-password record is for the address it was      *)
(* generated for until it is deleted or expires, and a rejected call or a  *)
(* crash tears nothing but the account that is being created or deleted    *)
(* from the settings of its WebID.                                         *)
BehavesAtomically == D!Spec

=============================================================================
