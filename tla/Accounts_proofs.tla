--------------------------- MODULE Accounts_proofs --------------------------
(***************************************************************************)
(* Proofs about the account store, the history of its accounts and the     *)
(* lookup of pod owners, for any number of callers and writers, accounts   *)
(* and records: what racing operations cannot spoil, and that operations   *)
(* are atomic for callers that keep apart.                                 *)
(***************************************************************************)
EXTENDS PodOwners, SequenceTheorems, WellFoundedInduction, TLAPS

Steps(c) ==
    \/ GetAccount(c) \/ GetSettings(c) \/ SetAccount(c) \/ SetSettings(c)
    \/ DeleteKey(c) \/ DeleteWebId(c) \/ SetRecord(c) \/ GetRecord(c) \/ DeleteRecord(c)
    \/ Reject(c)

(* The operations that may await a call of the storage.                    *)
OpsAt(l) ==
    CASE l = "getAccount" -> OfAddress
      [] l = "getSettings" -> {"create", "updateSettings", "getSettings"}
      [] l = "setAccount" -> {"create", "verify", "changePassword"}
      [] l = "setSettings" -> {"create", "updateSettings"}
      [] l \in {"deleteKey", "deleteWebId"} -> {"deleteAccount"}
      [] l = "setRecord" -> {"generateForgotPasswordRecord"}
      [] l = "getRecord" -> {"getForgotPasswordRecord"}
      [] l = "deleteRecord" -> {"deleteForgotPasswordRecord"}

CallerInv(c) ==
    /\ pc[c] = "idle" => request[c] = None
    /\ pc[c] # "idle" => request[c] \in Asks[c] /\ request[c].op \in OpsAt(pc[c])
    /\ pc[c] \in {"setAccount", "deleteKey", "deleteWebId"} => payload[c] \in Account
TInv == TypeOK /\ \A c \in Caller : CallerInv(c)

LEMMA RequestFields ==
  ASSUME NEW c \in Caller, NEW r \in Asks[c]
  PROVE  /\ r \in Request /\ r.op \in Ops
         /\ r.op \in OfAddress => r.email \in Email
         /\ r.op \in {"create", "updateSettings", "getSettings"} => r.webId \in WebId
         /\ r.op \in {"create", "changePassword", "authenticate"} => r.password \in Password
         /\ r.op \in {"create", "updateSettings"} => r.settings \in Setting
         /\ r.op \in {"getForgotPasswordRecord", "deleteForgotPasswordRecord"} =>
               r.record \in Record
<1>1. r \in Request
  BY AsksAssumption
<1> QED
  BY <1>1 DEF Request

(* A caller changes its own variables only.                                *)
LEMMA OthersUntouched ==
  ASSUME TypeOK, NEW c \in Caller, NEW d \in Caller, d # c,
         Steps(c) \/ \E r \in Asks[c] : Call(c, r)
  PROVE  /\ pc'[d] = pc[d] /\ request'[d] = request[d]
         /\ payload'[d] = payload[d] /\ answer'[d] = answer[d]
BY DEF TypeOK, Steps, Call, GetAccount, GetSettings, SetAccount, SetSettings, DeleteKey,
       DeleteWebId, SetRecord, GetRecord, DeleteRecord, Reject, Goto, Return

LEMMA TypeInit == Init => TInv
BY DEF Init, TInv, TypeOK, CallerInv, PC, Answer

(* Going on to the next call of the storage, and returning.                *)
LEMMA GotoType ==
  ASSUME TInv, NEW c \in Caller, NEW l \in PC \ {"idle"}, Goto(c, l),
         pc[c] # "idle", request[c].op \in OpsAt(l),
         payload' = payload \/ \E a \in Account : payload' = [payload EXCEPT ![c] = a],
         l \in {"setAccount", "deleteKey", "deleteWebId"} => payload'[c] \in Account,
         accounts' \in [Email -> Account \cup {None}],
         settings' \in [WebId -> Setting \cup {None}],
         records' \in [Record -> Email \cup {None}]
  PROVE  TInv'
<1>1. TypeOK'
  BY DEF TInv, TypeOK, Goto
<1>2. ASSUME NEW d \in Caller PROVE CallerInv(d)'
  BY DEF TInv, TypeOK, Goto, CallerInv
<1> QED
  BY <1>1, <1>2 DEF TInv

LEMMA ReturnType ==
  ASSUME TInv, NEW c \in Caller,
         NEW x \in {"ok", "failed", "rejected", None} \cup WebId \cup Setting \cup Email
                   \cup Record,
         Return(c, x),
         accounts' \in [Email -> Account \cup {None}],
         settings' \in [WebId -> Setting \cup {None}],
         records' \in [Record -> Email \cup {None}]
  PROVE  TInv'
<1>1. TypeOK'
  BY DEF TInv, TypeOK, Return, PC, Answer
<1>2. ASSUME NEW d \in Caller PROVE CallerInv(d)'
  BY DEF TInv, TypeOK, Return, CallerInv
<1> QED
  BY <1>1, <1>2 DEF TInv

LEMMA TypeStep ==
  ASSUME TInv, [Next]_vars
  PROVE  TInv'
<1>t. /\ TypeOK /\ \A c \in Caller : CallerInv(c)
      /\ accounts \in [Email -> Account \cup {None}]
      /\ settings \in [WebId -> Setting \cup {None}]
      /\ records \in [Record -> Email \cup {None}]
      /\ payload \in [Caller -> Account \cup {None}]
  BY DEF TInv, TypeOK
<1>1. ASSUME NEW c \in Caller, NEW r \in Asks[c], Call(c, r)
      PROVE  TInv'
  <2>1. FirstCall(r.op) \in PC \ {"idle"} /\ r.op \in OpsAt(FirstCall(r.op)) /\ r \in Request
        /\ FirstCall(r.op) \notin {"setAccount", "deleteKey", "deleteWebId"}
    BY RequestFields DEF FirstCall, OpsAt, PC, Ops, OfAddress
  <2>2. TypeOK'
    BY <1>1, <1>t, <2>1 DEF Call, TypeOK, store, Answer
  <2>3. ASSUME NEW d \in Caller PROVE CallerInv(d)'
    BY <1>1, <1>t, <2>1 DEF Call, TypeOK, CallerInv
  <2> QED
    BY <2>2, <2>3 DEF TInv
<1>2. ASSUME NEW c \in Caller, Steps(c)
      PROVE  TInv'
  <2> DEFINE r == request[c]
             a == accounts[r.email]
  <2>r. pc[c] # "idle" /\ r \in Asks[c] /\ r.op \in OpsAt(pc[c])
    BY <1>2, <1>t DEF Steps, GetAccount, GetSettings, SetAccount, SetSettings, DeleteKey,
       DeleteWebId, SetRecord, GetRecord, DeleteRecord, Reject, CallerInv
  <2>f. /\ r \in Request
        /\ r.op \in OfAddress => r.email \in Email
        /\ r.op \in {"create", "updateSettings", "getSettings"} => r.webId \in WebId
        /\ r.op \in {"create", "changePassword", "authenticate"} => r.password \in Password
        /\ r.op \in {"create", "updateSettings"} => r.settings \in Setting
        /\ r.op \in {"getForgotPasswordRecord", "deleteForgotPasswordRecord"} =>
              r.record \in Record
    BY <2>r, RequestFields
  <2>1. CASE GetAccount(c)
    <3>0. r.op \in OfAddress /\ r.email \in Email /\ a \in Account \cup {None}
          /\ UNCHANGED store
      BY <2>1, <2>r, <2>f, <1>t DEF GetAccount, OpsAt
    <3>s. /\ accounts' \in [Email -> Account \cup {None}]
          /\ settings' \in [WebId -> Setting \cup {None}]
          /\ records' \in [Record -> Email \cup {None}]
      BY <3>0, <1>t DEF store
    <3>1. CASE Refused(a, r) /\ Return(c, "failed")
      BY <3>1, <3>s, ReturnType
    <3>2. CASE r.op = "create" /\ Goto(c, "getSettings") /\ UNCHANGED payload
      BY <3>2, <3>s, <2>r, GotoType DEF OpsAt, PC
    <3>3. CASE /\ r.op \in {"verify", "changePassword"} /\ a # None
               /\ Goto(c, "setAccount") /\ payload' = [payload EXCEPT ![c] = Changed(a, r)]
      <4>1. Changed(a, r) \in Account
        BY <3>0, <3>3, <2>f DEF Changed, Account
      <4>2. payload'[c] \in Account
        BY <4>1, <3>3, <1>t
      <4> QED
        BY <3>3, <4>1, <4>2, <3>s, <2>r, GotoType DEF OpsAt, PC
    <3>4. CASE r.op = "authenticate" /\ ~Refused(a, r) /\ Return(c, a.webId)
      <4>1. a.webId \in WebId
        BY <3>0, <3>4 DEF Refused, Account
      <4> QED
        BY <3>4, <4>1, <3>s, ReturnType
    <3>5. CASE /\ r.op = "deleteAccount" /\ a # None
               /\ Goto(c, "deleteKey") /\ payload' = [payload EXCEPT ![c] = a]
      <4>2. payload'[c] \in Account /\ a \in Account
        BY <3>5, <1>t, <3>0
      <4> QED
        BY <3>5, <4>2, <3>s, <2>r, GotoType DEF OpsAt, PC
    <3>6. CASE Return(c, "ok")
      BY <3>6, <3>s, ReturnType
    <3>7. CASE /\ r.op = "generateForgotPasswordRecord"
               /\ Goto(c, "setRecord") /\ UNCHANGED payload
      BY <3>7, <3>s, <2>r, GotoType DEF OpsAt, PC
    <3> QED
      BY <2>1, <3>1, <3>2, <3>3, <3>4, <3>5, <3>6, <3>7 DEF GetAccount
  <2>2. CASE GetSettings(c)
    <3>0. r.webId \in WebId /\ settings[r.webId] \in Setting \cup {None} /\ UNCHANGED store
      BY <2>2, <2>r, <2>f, <1>t DEF GetSettings, OpsAt
    <3>s. /\ accounts' \in [Email -> Account \cup {None}]
          /\ settings' \in [WebId -> Setting \cup {None}]
          /\ records' \in [Record -> Email \cup {None}]
      BY <3>0, <1>t DEF store
    <3>1. CASE Return(c, "failed")
      BY <3>1, <3>s, ReturnType
    <3>2. CASE /\ r.op = "create" /\ Goto(c, "setAccount")
               /\ payload' = [payload EXCEPT ![c] = NewAccount(r)]
      <4>1. NewAccount(r) \in Account
        BY <3>2, <2>f DEF NewAccount, Account
      <4>2. payload'[c] \in Account
        BY <4>1, <3>2, <1>t
      <4> QED
        BY <3>2, <4>1, <4>2, <3>s, <2>r, GotoType DEF OpsAt, PC
    <3>3. CASE r.op = "updateSettings" /\ Goto(c, "setSettings") /\ UNCHANGED payload
      BY <3>3, <3>s, <2>r, GotoType DEF OpsAt, PC
    <3>4. CASE settings[r.webId] # None /\ Return(c, settings[r.webId])
      BY <3>4, <3>0, <3>s, ReturnType
    <3> QED
      BY <2>2, <3>1, <3>2, <3>3, <3>4 DEF GetSettings
  <2>3. CASE SetAccount(c)
    <3>0. r.email \in Email /\ payload[c] \in Account
      BY <2>3, <2>r, <2>f, <1>t DEF SetAccount, OpsAt, OfAddress, CallerInv
    <3>s. /\ accounts' \in [Email -> Account \cup {None}]
          /\ settings' \in [WebId -> Setting \cup {None}]
          /\ records' \in [Record -> Email \cup {None}]
      BY <3>0, <2>3, <1>t DEF SetAccount
    <3>1. CASE Return(c, "ok")
      BY <3>1, <3>s, ReturnType
    <3>2. CASE r.op = "create" /\ Goto(c, "setSettings") /\ UNCHANGED payload
      BY <3>2, <3>s, <2>r, GotoType DEF OpsAt, PC
    <3> QED
      BY <2>3, <3>1, <3>2 DEF SetAccount, SettingsFollow
  <2>4. CASE SetSettings(c)
    <3>0. r.webId \in WebId /\ r.settings \in Setting
      BY <2>4, <2>r, <2>f DEF SetSettings, OpsAt
    <3>s. /\ accounts' \in [Email -> Account \cup {None}]
          /\ settings' \in [WebId -> Setting \cup {None}]
          /\ records' \in [Record -> Email \cup {None}]
      BY <3>0, <2>4, <1>t DEF SetSettings
    <3> QED
      BY <2>4, <3>s, ReturnType DEF SetSettings
  <2>5. CASE DeleteKey(c)
    <3>s. /\ accounts' \in [Email -> Account \cup {None}]
          /\ settings' \in [WebId -> Setting \cup {None}]
          /\ records' \in [Record -> Email \cup {None}]
      BY <2>5, <1>t DEF DeleteKey
    <3>1. payload'[c] \in Account /\ r.op \in OpsAt("deleteWebId")
      BY <2>5, <2>r, <1>t DEF DeleteKey, CallerInv, OpsAt
    <3> QED
      BY <2>5, <3>s, <3>1, <2>r, GotoType DEF DeleteKey, PC
  <2>6. CASE DeleteWebId(c)
    <3>s. /\ accounts' \in [Email -> Account \cup {None}]
          /\ settings' \in [WebId -> Setting \cup {None}]
          /\ records' \in [Record -> Email \cup {None}]
      BY <2>6, <1>t DEF DeleteWebId
    <3> QED
      BY <2>6, <3>s, ReturnType DEF DeleteWebId
  <2>7. CASE SetRecord(c)
    <3>0. r.email \in Email
      BY <2>7, <2>r, <2>f DEF SetRecord, OpsAt, OfAddress
    <3>1. PICK id \in Unused :
             records' = [records EXCEPT ![id] = r.email] /\ Return(c, id)
      BY <2>7 DEF SetRecord
    <3>s. /\ accounts' \in [Email -> Account \cup {None}]
          /\ settings' \in [WebId -> Setting \cup {None}]
          /\ records' \in [Record -> Email \cup {None}]
      BY <2>7, <3>0, <3>1, <1>t DEF SetRecord
    <3> QED
      BY <3>1, <3>s, ReturnType DEF Unused
  <2>8. CASE GetRecord(c)
    <3>0. records[r.record] \in Email \cup {None}
      BY <2>8, <2>r, <2>f, <1>t DEF GetRecord, OpsAt
    <3>s. /\ accounts' \in [Email -> Account \cup {None}]
          /\ settings' \in [WebId -> Setting \cup {None}]
          /\ records' \in [Record -> Email \cup {None}]
      BY <2>8, <1>t DEF GetRecord, store
    <3> QED
      BY <2>8, <3>0, <3>s, ReturnType DEF GetRecord
  <2>9. CASE DeleteRecord(c)
    <3>s. /\ accounts' \in [Email -> Account \cup {None}]
          /\ settings' \in [WebId -> Setting \cup {None}]
          /\ records' \in [Record -> Email \cup {None}]
      BY <2>9, <1>t DEF DeleteRecord
    <3> QED
      BY <2>9, <3>s, ReturnType DEF DeleteRecord
  <2>10. CASE Reject(c)
    <3>s. /\ accounts' \in [Email -> Account \cup {None}]
          /\ settings' \in [WebId -> Setting \cup {None}]
          /\ records' \in [Record -> Email \cup {None}]
      BY <2>10, <1>t DEF Reject, store
    <3> QED
      BY <2>10, <3>s, ReturnType DEF Reject
  <2> QED
    BY <1>2, <2>1, <2>2, <2>3, <2>4, <2>5, <2>6, <2>7, <2>8, <2>9, <2>10 DEF Steps
<1>3. CASE Expire
  BY <1>3, <1>t DEF Expire, TInv, TypeOK, CallerInv
<1>4. CASE Crash
  BY <1>4, <1>t DEF Crash, store, TInv, TypeOK, CallerInv, PC, Answer
<1>5. CASE UNCHANGED vars
  BY <1>5, <1>t DEF vars, store, TInv, TypeOK, CallerInv
<1> QED
  BY <1>1, <1>2, <1>3, <1>4, <1>5 DEF Next, Steps

(* Whatever callers race, each awaits a call that its operation makes.     *)
THEOREM TypeInvariance == Spec => []TInv
<1> QED
  BY TypeInit, TypeStep, PTL DEF Spec

(* TypeOK: what the storages hold is what the operations put there.        *)
THEOREM TypeCorrect == Spec => []TypeOK
<1>1. TInv => TypeOK
  BY DEF TInv
<1> QED
  BY <1>1, TypeInvariance, PTL


-----------------------------------------------------------------------------
(***************************************************************************)
(* Racing callers.  What a caller has read may be out of date by the time  *)
(* it writes it back, but it was so once, and it was earned.               *)
(***************************************************************************)

(* A WebID is served if it has settings, or is about to have them, or is   *)
(* without since they were cut off or deleted; it stays so forever.        *)
Served(w) == settings[w] # None \/ w \in cut \/ Creating(w) # {}
AccountServed(e) == accounts[e] # None => Served(accounts[e].webId)
PayloadServed(c) ==
    pc[c] = "setAccount" =>
        IF request[c].op = "create" THEN payload[c] = NewAccount(request[c])
        ELSE Served(payload[c].webId)
ServedInv ==
    /\ \A e \in Email : AccountServed(e)
    /\ \A c \in Caller : PayloadServed(c)

(* An account is earned by what was asked for at its address.              *)
Earned(a, e) ==
    /\ {a.webId, a.password} \subseteq begun[e]
    /\ a.verified => "verify" \in begun[e]
EarnedInv ==
    /\ begun = [e \in Email |-> begun[e]]
    /\ \A e \in Email : accounts[e] # None => Earned(accounts[e], e)
    /\ \A c \in Caller : pc[c] # "idle" /\ request[c].op \in OfAddress =>
          BegunBy(request[c], request[c].email) \subseteq begun[request[c].email]
    /\ \A c \in Caller : pc[c] = "setAccount" => Earned(payload[c], request[c].email)

LEMMA NextSteps ==
  ASSUME Next
  PROVE  \/ \E c \in Caller : Steps(c) \/ \E r \in Asks[c] : Call(c, r)
         \/ Expire \/ Crash
BY DEF Next, Steps

LEMMA ServedStays ==
  ASSUME TInv, HNext, NEW w \in WebId, Served(w)
  PROVE  Served(w)'
<1>t. TypeOK /\ \A c \in Caller : CallerInv(c)
  BY DEF TInv
<1>c. w \in cut' <=> /\ settings'[w] = None
                     /\ \/ w \in cut \/ settings[w] # None
                        \/ \E c \in Caller : CutOff(c) /\ request[c].webId = w
  BY DEF HNext
<1>1. CASE w \in cut \/ settings[w] # None
  BY <1>1, <1>c DEF Served
<1>2. ASSUME NEW c \in Creating(w) PROVE Served(w)'
  <2>1. /\ c \in Caller /\ pc[c] = "setSettings" /\ request[c].op = "create"
        /\ request[c].webId = w
    BY <1>2 DEF Creating
  <2>2. CASE CutOff(c)
    BY <2>1, <2>2, <1>c DEF Served
  <2>3. CASE pc'[c] = pc[c] /\ request'[c] = request[c]
    BY <2>1, <2>3 DEF Served, Creating
  <2>4. CutOff(c) \/ (pc'[c] = pc[c] /\ request'[c] = request[c])
    <3>1. ASSUME NEW d \in Caller, d # c, Steps(d) \/ \E r \in Asks[d] : Call(d, r)
          PROVE  pc'[c] = pc[c] /\ request'[c] = request[c]
      BY <2>1, <3>1, <1>t, OthersUntouched
    <3>2. ASSUME Steps(c) \/ \E r \in Asks[c] : Call(c, r)
          PROVE  CutOff(c)
      <4>1. SetSettings(c) \/ Reject(c)
        BY <2>1, <3>2 DEF Steps, Call, GetAccount, GetSettings, SetAccount, DeleteKey,
                          DeleteWebId, SetRecord, GetRecord, DeleteRecord
      <4> QED
        BY <4>1, <2>1, <1>t DEF SetSettings, Reject, Return, TypeOK, CutOff
    <3>3. CASE Expire
      BY <3>3 DEF Expire
    <3>4. CASE Crash
      BY <3>4, <2>1 DEF Crash, CutOff
    <3>5. Next
      BY DEF HNext
    <3> QED
      BY <3>1, <3>2, <3>3, <3>4, <3>5, NextSteps
  <2> QED
    BY <2>2, <2>3, <2>4
<1> QED
  BY <1>1, <1>2 DEF Served

LEMMA HistoryInit == HInit => TInv /\ ServedInv /\ EarnedInv
BY TypeInit DEF HInit, Init, ServedInv, AccountServed, PayloadServed, EarnedInv

LEMMA ServedStep ==
  ASSUME TInv, ServedInv, [HNext]_hvars
  PROVE  ServedInv'
<1>t. /\ TypeOK /\ \A c \in Caller : CallerInv(c)
      /\ accounts \in [Email -> Account \cup {None}]
      /\ payload \in [Caller -> Account \cup {None}]
      /\ pc \in [Caller -> PC] /\ request = [c \in Caller |-> request[c]]
  BY DEF TInv, TypeOK
<1>w. \A a \in Account : a.webId \in WebId /\ a # None
  BY NoneAssumption DEF Account
<1>1. CASE UNCHANGED hvars
  BY <1>1 DEF hvars, vars, store, ServedInv, AccountServed, PayloadServed, Served, Creating
<1>2. CASE HNext
  <2>s. \A w \in WebId : Served(w) => Served(w)'
    BY <1>2, ServedStays
  <2>n. Next
    BY <1>2 DEF HNext
  <2>p. ASSUME NEW d \in Caller, pc'[d] = pc[d], request'[d] = request[d],
               payload'[d] = payload[d]
        PROVE  PayloadServed(d)'
    <3>1. pc[d] = "setAccount" => payload[d].webId \in WebId
      BY <1>t, <1>w DEF CallerInv
    <3>2. PayloadServed(d)
      BY DEF ServedInv
    <3>3. pc[d] = "setAccount" /\ Served(payload[d].webId) => Served(payload[d].webId)'
      <4> SUFFICES ASSUME pc[d] = "setAccount", Served(payload[d].webId)
                   PROVE  Served(payload[d].webId)'
        OBVIOUS
      <4>1. PICK w \in WebId : w = payload[d].webId
        BY <3>1
      <4>2. Served(w)'
        BY <4>1, <2>s
      <4> QED
        BY <4>1, <4>2, <2>p DEF Served
    <3> QED
      BY <2>p, <3>2, <3>3 DEF PayloadServed, NewAccount
  <2>a. ASSUME NEW e \in Email, accounts'[e] = accounts[e]
        PROVE  AccountServed(e)'
    <3> SUFFICES ASSUME accounts[e] # None PROVE Served(accounts[e].webId)'
      BY <2>a DEF AccountServed
    <3>1. PICK w \in WebId : w = accounts[e].webId
      BY <1>t, <1>w
    <3>2. Served(w)'
      BY <3>1, <2>s DEF ServedInv, AccountServed
    <3> QED
      BY <3>1, <3>2, <2>a DEF Served
  <2>1. ASSUME NEW c \in Caller, Steps(c) \/ \E r \in Asks[c] : Call(c, r)
        PROVE  ServedInv'
    <3>d. ASSUME NEW d \in Caller, d # c PROVE PayloadServed(d)'
      BY <2>1, <3>d, <2>p, <1>t, OthersUntouched
    <3>1. CASE GetAccount(c)
      <4>0. accounts' = accounts /\ request[c].email \in Email
            /\ request[c].op \in OfAddress
        BY <3>1, <1>t, RequestFields DEF GetAccount, store, CallerInv, OpsAt
      <4>1. ASSUME pc'[c] = "setAccount"
            PROVE  request'[c].op # "create" /\ Served(payload[c].webId)'
        <5>1. /\ request[c].op \in {"verify", "changePassword"}
              /\ accounts[request[c].email] # None /\ request' = request
              /\ payload'[c] = Changed(accounts[request[c].email], request[c])
          BY <3>1, <4>1, <1>t DEF GetAccount, Goto, Return
        <5>2. payload'[c].webId = accounts'[request[c].email].webId
          BY <5>1, <4>0, <1>t DEF Changed, Account
        <5>3. Served(accounts[request[c].email].webId)'
          <6>1. PICK e \in Email : e = request[c].email
            BY <4>0
          <6>2. AccountServed(e)'
            BY <4>0, <2>a
          <6> QED
            BY <6>1, <6>2, <5>1, <4>0 DEF AccountServed, Served
        <5> QED
          BY <5>1, <5>2, <5>3 DEF Served
      <4>2. PayloadServed(c)'
        BY <4>1 DEF PayloadServed
      <4> QED
        BY <4>0, <4>2, <2>a, <3>d DEF ServedInv
    <3>2. CASE GetSettings(c)
      <4>1. accounts' = accounts
        BY <3>2 DEF GetSettings, store
      <4>2. ASSUME pc'[c] = "setAccount"
            PROVE  request'[c].op = "create" /\ payload'[c] = NewAccount(request'[c])
        BY <3>2, <4>2, <1>t DEF GetSettings, Goto, Return
      <4>3. PayloadServed(c)'
        BY <4>2 DEF PayloadServed
      <4> QED
        BY <4>1, <4>3, <2>a, <3>d DEF ServedInv
    <3>3. CASE SetAccount(c)
      <4>0. /\ request[c].email \in Email /\ payload[c] \in Account
            /\ accounts' = [accounts EXCEPT ![request[c].email] = payload[c]]
            /\ pc[c] = "setAccount" /\ pc'[c] # "setAccount"
        <5>1. pc'[c] \in {"idle", "setSettings"}
          BY <3>3, <1>t DEF SetAccount, Goto, Return
        <5> QED
          BY <5>1, <3>3, <1>t, RequestFields DEF SetAccount, CallerInv, OpsAt, OfAddress
      <4>1. PICK w \in WebId : w = payload[c].webId
        BY <4>0, <1>w
      <4>3. Served(w)'
        <5>1. CASE request[c].op = "create"
          <6>1. pc'[c] = "setSettings" /\ request' = request
            BY <3>3, <5>1, <1>t DEF SetAccount, SettingsFollow, Goto
          <6>2. payload[c].webId = request[c].webId
            <7>1. PayloadServed(c)
              BY DEF ServedInv
            <7>2. payload[c] = NewAccount(request[c])
              BY <7>1, <4>0, <5>1 DEF PayloadServed
            <7> QED
              BY <7>2 DEF NewAccount
          <6> QED
            BY <6>1, <6>2, <5>1, <4>1 DEF Served, Creating
        <5>2. CASE request[c].op # "create"
          BY <5>2, <4>0, <4>1, <2>s DEF ServedInv, PayloadServed
        <5> QED
          BY <5>1, <5>2
      <4>2. ASSUME NEW e \in Email PROVE AccountServed(e)'
        <5>1. CASE e = request[c].email
          <6>1. accounts'[e].webId = w
            BY <5>1, <4>0, <4>1, <1>t
          <6> QED
            BY <6>1, <4>3 DEF AccountServed, Served
        <5>2. CASE e # request[c].email
          BY <5>2, <4>0, <2>a, <1>t
        <5> QED
          BY <5>1, <5>2
      <4> QED
        BY <4>0, <4>2, <3>d DEF ServedInv, PayloadServed
    <3>4. CASE DeleteKey(c)
      <4>1. \A e \in Email : accounts'[e] \in {accounts[e], None}
        BY <3>4, <1>t DEF DeleteKey
      <4>2. pc'[c] # "setAccount"
        BY <3>4, <1>t DEF DeleteKey, Goto
      <4>3. ASSUME NEW e \in Email PROVE AccountServed(e)'
        BY <4>1, <2>a DEF AccountServed
      <4> QED
        BY <4>2, <4>3, <3>d DEF ServedInv, PayloadServed
    <3>5. CASE SetSettings(c) \/ DeleteWebId(c) \/ SetRecord(c) \/ GetRecord(c)
               \/ DeleteRecord(c) \/ Reject(c) \/ \E r \in Asks[c] : Call(c, r)
      <4>1. accounts' = accounts
        BY <3>5 DEF SetSettings, DeleteWebId, SetRecord, GetRecord, DeleteRecord, Reject, Call,
                    store
      <4>2. pc'[c] # "setAccount"
        BY <3>5, <1>t DEF SetSettings, DeleteWebId, SetRecord, GetRecord, DeleteRecord, Reject, Call,
           Return, FirstCall
      <4> QED
        BY <4>1, <4>2, <2>a, <3>d DEF ServedInv, PayloadServed
    <3> QED
      BY <2>1, <3>1, <3>2, <3>3, <3>4, <3>5 DEF Steps
  <2>2. CASE Expire
    BY <2>2, <2>a, <2>p DEF Expire, ServedInv
  <2>3. CASE Crash
    <3>1. accounts' = accounts /\ \A c \in Caller : pc'[c] # "setAccount"
      BY <2>3 DEF Crash, store
    <3> QED
      BY <3>1, <2>a DEF ServedInv, PayloadServed
  <2> QED
    BY <2>1, <2>2, <2>3, <2>n, NextSteps
<1> QED
  BY <1>1, <1>2


LEMMA EarnedStep ==
  ASSUME TInv, TInv', ServedInv', EarnedInv, [HNext]_hvars
  PROVE  EarnedInv'
<1>t. /\ TypeOK /\ \A c \in Caller : CallerInv(c)
      /\ accounts \in [Email -> Account \cup {None}]
      /\ payload \in [Caller -> Account \cup {None}]
      /\ pc \in [Caller -> PC] /\ request = [c \in Caller |-> request[c]]
  BY DEF TInv, TypeOK
<1>1. CASE UNCHANGED hvars
  BY <1>1 DEF hvars, vars, store, EarnedInv, Earned
<1>2. CASE HNext
  <2>n. Next
    BY <1>2 DEF HNext
  <2>b. /\ \A e \in Email : ~Vacant(e)' => begun[e] \subseteq begun'[e]
        /\ \A c \in Caller, e \in Email : BegunBy(request'[c], e) \subseteq begun'[e]
        /\ begun' = [e \in Email |-> begun'[e]]
    BY <1>2 DEF HNext
  (* Nothing is forgotten where there is an account, or somebody is about  *)
  (* to write one that it has read.                                        *)
  <2>v. /\ \A e \in Email : accounts'[e] # None => ~Vacant(e)'
        /\ \A d \in Caller : pc'[d] = "setAccount" /\ request'[d].op # "create" =>
              ~Vacant(request[d].email)'
    BY DEF Vacant
  <2>m. ASSUME NEW a, NEW e \in Email, Earned(a, e), ~Vacant(e)'
        PROVE  {a.webId, a.password} \subseteq begun'[e] /\ (a.verified => "verify" \in begun'[e])
    BY <2>b, <2>m DEF Earned
  (* A new account is what its creator asks for.                           *)
  <2>w. ASSUME NEW d \in Caller, pc'[d] = "setAccount", request'[d].op = "create"
        PROVE  Earned(payload[d], request[d].email)'
    <3>1. payload'[d] = NewAccount(request'[d])
      BY <2>w DEF ServedInv, PayloadServed, NewAccount
    <3>2. request'[d] \in Asks[d]
      BY <2>w DEF TInv, CallerInv
    <3>3. request'[d].email \in Email /\ request'[d] # None
      BY <2>w, <3>2, RequestFields, NoneAssumption DEF OfAddress
    <3>4. {request'[d].webId, request'[d].password} \subseteq begun'[request'[d].email]
      <4>1. BegunBy(request'[d], request'[d].email) = {request'[d].webId, request'[d].password}
        BY <2>w, <3>3 DEF BegunBy
      <4> QED
        BY <4>1, <3>3, <2>b
    <3> QED
      BY <3>1, <3>4 DEF Earned, NewAccount
  (* Whoever is under way has begun what it was asked for.                 *)
  <2>r. ASSUME NEW c \in Caller, pc'[c] # "idle", request'[c].op \in OfAddress,
               request'[c].email \in Email
        PROVE  BegunBy(request'[c], request'[c].email) \subseteq begun'[request'[c].email]
    BY <2>r, <2>b
  <2>e. ASSUME NEW c \in Caller, pc[c] # "idle", request[c].op \in OfAddress
        PROVE  request[c].email \in Email
    BY <2>e, <1>t, RequestFields DEF CallerInv
  <2>a. ASSUME NEW e \in Email, accounts'[e] # None,
               accounts'[e] = accounts[e] \/ Earned(accounts'[e], e)
        PROVE  Earned(accounts[e], e)'
    BY <2>a, <2>m, <2>v DEF EarnedInv, Earned
  (* What a caller is about to write stays earned while others go on.      *)
  <2>p. ASSUME NEW d \in Caller, pc'[d] = "setAccount",
               pc'[d] = pc[d], request'[d] = request[d], payload'[d] = payload[d]
        PROVE  Earned(payload[d], request[d].email)'
    <3>1. CASE request'[d].op = "create"
      BY <3>1, <2>p, <2>w
    <3>2. CASE request'[d].op # "create"
      <4>1. /\ pc[d] = "setAccount" /\ request[d].email \in Email
            /\ Earned(payload[d], request[d].email)
        BY <2>p, <2>e, <1>t DEF EarnedInv, CallerInv, OpsAt, OfAddress
      <4>2. PICK e \in Email : e = request[d].email
        BY <4>1
      <4>3. ~Vacant(e)'
        BY <4>2, <3>2, <2>p, <2>v DEF Vacant
      <4> QED
        BY <4>1, <4>2, <4>3, <2>p, <2>m DEF Earned
    <3> QED
      BY <3>1, <3>2
  <2>1. ASSUME NEW c \in Caller, Steps(c) \/ \E r \in Asks[c] : Call(c, r)
        PROVE  EarnedInv'
    <3>d. ASSUME NEW d \in Caller, d # c
          PROVE  /\ pc'[d] = pc[d] /\ request'[d] = request[d] /\ payload'[d] = payload[d]
      BY <2>1, <3>d, <1>t, OthersUntouched
    <3>k. request'[c] = request[c] \/ pc'[c] = "idle" \/ \E r \in Asks[c] : request'[c] = r
      BY <2>1, <1>t DEF Steps, GetAccount, GetSettings, SetAccount, SetSettings, DeleteKey,
         DeleteWebId, SetRecord, GetRecord, DeleteRecord, Reject, Call, Goto, Return
    <3>i. pc'[c] # "idle" /\ request'[c] = request[c] => pc[c] # "idle" \/ request'[c] \in Asks[c]
      BY <2>1, <1>t DEF Steps, GetAccount, GetSettings, SetAccount, SetSettings, DeleteKey,
         DeleteWebId, SetRecord, GetRecord, DeleteRecord, Reject, Call
    <3>q. ASSUME NEW d \in Caller, pc'[d] # "idle", request'[d].op \in OfAddress
          PROVE  request'[d].email \in Email
      <4>1. request'[d] \in Asks[d]
        BY <3>q, <3>d, <3>k, <3>i, <1>t DEF CallerInv
      <4> QED
        BY <4>1, <3>q, RequestFields
    <3>b. \A d \in Caller : pc'[d] # "idle" /\ request'[d].op \in OfAddress =>
             BegunBy(request'[d], request'[d].email) \subseteq begun'[request'[d].email]
      BY <3>q, <2>r
    <3>c. ASSUME pc'[c] = "setAccount" PROVE Earned(payload[c], request[c].email)'
      <4>1. CASE GetAccount(c)
        <5> DEFINE r == request[c]
                   a == accounts[r.email]
        <5>1. /\ r.op \in {"verify", "changePassword"} /\ a # None /\ request' = request
              /\ payload'[c] = Changed(a, r) /\ pc[c] = "getAccount"
          BY <3>c, <4>1, <1>t DEF GetAccount, Goto, Return
        <5>2. r.email \in Email /\ a \in Account
          BY <5>1, <2>e, <1>t DEF OfAddress
        <5>3. Earned(a, r.email) /\ BegunBy(r, r.email) \subseteq begun[r.email]
          BY <5>1, <5>2 DEF EarnedInv, OfAddress
        <5>4. r # None
          BY <5>1, <1>t, RequestFields, NoneAssumption DEF CallerInv
        <5>5. Earned(Changed(a, r), r.email)
          <6>1. CASE r.op = "verify"
            <7>1. /\ Changed(a, r).webId = a.webId /\ Changed(a, r).password = a.password
              BY <6>1, <5>2 DEF Changed, Account
            <7>2. "verify" \in begun[r.email]
              BY <6>1, <5>3, <5>4 DEF BegunBy
            <7> QED
              BY <7>1, <7>2, <5>3 DEF Earned
          <6>2. CASE r.op = "changePassword"
            <7>1. /\ Changed(a, r).webId = a.webId /\ Changed(a, r).password = r.password
                  /\ Changed(a, r).verified = a.verified
              BY <6>2, <5>2 DEF Changed, Account
            <7>2. r.password \in begun[r.email]
              BY <6>2, <5>3, <5>4 DEF BegunBy
            <7> QED
              BY <7>1, <7>2, <5>3 DEF Earned
          <6> QED
            BY <6>1, <6>2, <5>1
        <5>6. request'[c] = r
          BY <5>1
        <5>7. ~Vacant(request[c].email)'
          BY <3>c, <5>1, <5>6, <2>v
        <5> HIDE DEF a
        <5>8. PICK e \in Email : e = r.email
          BY <5>2
        <5>9. ~Vacant(e)'
          BY <5>6, <5>7, <5>8 DEF Vacant
        <5> HIDE DEF r
        <5> QED
          BY <5>1, <5>5, <5>6, <5>8, <5>9, <2>m DEF Earned
      <4>2. CASE GetSettings(c)
        <5>1. request'[c].op = "create"
          BY <3>c, <4>2, <1>t DEF GetSettings, Goto, Return
        <5> QED
          BY <5>1, <3>c, <2>w
      <4>3. CASE ~GetAccount(c) /\ ~GetSettings(c)
        BY <3>c, <4>3, <2>1, <1>t DEF Steps, SetAccount, SetSettings, DeleteKey, DeleteWebId,
           SetRecord, GetRecord, DeleteRecord, Reject, Call, FirstCall, Goto, Return
      <4> QED
        BY <4>1, <4>2, <4>3
    <3>1. ASSUME NEW e \in Email, accounts'[e] # None PROVE Earned(accounts[e], e)'
      <4>1. CASE SetAccount(c) /\ e = request[c].email
        <5>1. accounts'[e] = payload[c] /\ Earned(payload[c], e)
          BY <4>1, <1>t DEF SetAccount, EarnedInv
        <5> QED
          BY <5>1, <3>1, <2>a
      <4>2. CASE ~(SetAccount(c) /\ e = request[c].email)
        <5>1. accounts'[e] \in {accounts[e], None}
          BY <4>2, <2>1, <1>t DEF Steps, GetAccount, GetSettings, SetAccount, SetSettings,
             DeleteKey, DeleteWebId, SetRecord, GetRecord, DeleteRecord, Reject, Call, store
        <5> QED
          BY <5>1, <3>1, <2>a
      <4> QED
        BY <4>1, <4>2
    <3>p. ASSUME NEW d \in Caller, pc'[d] = "setAccount"
          PROVE  Earned(payload[d], request[d].email)'
      BY <3>p, <3>c, <3>d, <2>p
    <3> QED
      BY <3>1, <3>b, <3>p, <2>b DEF EarnedInv
  <2>2. CASE Expire
    <3>1. UNCHANGED <<accounts, pc, request, payload>>
      BY <2>2 DEF Expire
    <3>2. \A e \in Email : accounts'[e] # None => Earned(accounts[e], e)'
      BY <3>1, <2>a
    <3>3. \A c \in Caller : pc'[c] = "setAccount" => Earned(payload[c], request[c].email)'
      BY <3>1, <2>p
    <3>4. \A c \in Caller : pc'[c] # "idle" /\ request'[c].op \in OfAddress =>
             BegunBy(request'[c], request'[c].email) \subseteq begun'[request'[c].email]
      BY <3>1, <2>e, <2>r
    <3> QED
      BY <3>2, <3>3, <3>4, <2>b DEF EarnedInv
  <2>3. CASE Crash
    <3>1. accounts' = accounts /\ \A c \in Caller : pc'[c] = "idle"
      BY <2>3 DEF Crash, store
    <3>2. \A e \in Email : accounts'[e] # None => Earned(accounts[e], e)'
      BY <3>1, <2>a
    <3> QED
      BY <3>1, <3>2, <2>b DEF EarnedInv
  <2> QED
    BY <2>1, <2>2, <2>3, <2>n, NextSteps
<1> QED
  BY <1>1, <1>2

LEMMA HistoryStep ==
  ASSUME TInv, ServedInv, EarnedInv, [HNext]_hvars
  PROVE  TInv' /\ ServedInv' /\ EarnedInv'
<1>1. [Next]_vars
  BY DEF HNext, hvars
<1> QED
  BY <1>1, TypeStep, ServedStep, EarnedStep

(* AccountsHaveSettings and LoginsAreEarned, of racing callers and crashes *)
(* at any moment.                                                          *)
THEOREM HistoryInvariance == HSpec => [](TInv /\ ServedInv /\ EarnedInv)
<1> QED
  BY HistoryInit, HistoryStep, PTL DEF HSpec

(* AccountsHaveSettings: create writes the account first, so the settings  *)
(* may be missing, but then they are about to be written or were cut off.  *)
THEOREM NoneWithoutSettings == HSpec => []AccountsHaveSettings
<1>1. ServedInv => AccountsHaveSettings
  BY DEF ServedInv, AccountServed, Served, AccountsHaveSettings
<1> QED
  BY <1>1, HistoryInvariance, PTL

(* LoginsAreEarned: updates may be lost between verify, changePassword and *)
(* deleteAccount, but no mixture of them lets in who was never let in.     *)
THEOREM NoLoginUnearned == HSpec => []LoginsAreEarned
<1>1. EarnedInv => LoginsAreEarned
  BY DEF EarnedInv, Earned, LoginsAreEarned
<1> QED
  BY <1>1, HistoryInvariance, PTL


-----------------------------------------------------------------------------
(***************************************************************************)
(* The lookup of the owner of a pod.                                       *)
(***************************************************************************)
Entry == [webId : WebId, settings : Setting]
Covers(v, w) ==
    \E i \in 1..Len(entries[v]) :
        entries[v][i].webId = w /\ entries[v][i].settings \in Covering

(* Who holds the pod all along is yet to be read, or has been found; who   *)
(* has been found has held it.                                             *)
LookupTypes ==
    /\ listed \in [Writer -> (SUBSET WebId) \cup {None}]
    /\ entries \in [Writer -> Seq(Entry)]
    /\ holding \in [Writer -> SUBSET WebId]
    /\ held \in [Writer -> SUBSET WebId]
WriterInv(v) ==
    listed[v] # None =>
        /\ holding[v] \subseteq Holders /\ Holders \subseteq held[v]
        /\ \A w \in holding[v] : w \in listed[v] \/ Covers(v, w)
        /\ \A w \in WebId : Covers(v, w) => w \in held[v]
LookupInv == LookupTypes /\ \A v \in Writer : WriterInv(v)

LEMMA LeastElement ==
  ASSUME NEW S \in SUBSET Nat, S # {}
  PROVE  \E i \in S : \A j \in S : i <= j
<1> DEFINE R == OpToRel(<, Nat)
<1>1. IsWellFoundedOn(R, Nat)
  BY NatLessThanWellFounded
<1>2. \A i, j \in Nat : i < j => <<i, j>> \in R
  BY DEF OpToRel
<1> HIDE DEF R
<1>3. PICK i \in S : \A j \in S : ~(<<j, i>> \in R)
  BY <1>1, WFMin
<1>4. ASSUME NEW j \in S PROVE i <= j
  <2>1. i \in Nat /\ j \in Nat
    OBVIOUS
  <2>2. ~(j < i)
    BY <1>2, <1>3, <2>1
  <2> QED
    BY <2>1, <2>2
<1> QED
  BY <1>4

(* The owner that is found is one whose entry covers the resource, and one *)
(* is found if there is any.                                               *)
LEMMA FirstCoveringLemma ==
  ASSUME LookupTypes, NEW v \in Writer
  PROVE  /\ FirstCovering(entries[v]) \in WebId => Covers(v, FirstCovering(entries[v]))
         /\ FirstCovering(entries[v]) = None => \A w : ~Covers(v, w)
<1> DEFINE map == entries[v]
           covers == {i \in DOMAIN map : map[i].settings \in Covering}
<1>1. map \in Seq(Entry) /\ DOMAIN map = 1..Len(map) /\ Len(map) \in Nat
  BY LenProperties DEF LookupTypes
<1>2. CASE covers = {}
  <2>1. FirstCovering(map) = None
    BY <1>2 DEF FirstCovering
  <2> QED
    BY <2>1, <1>1, <1>2, NoneAssumption DEF Covers
<1>3. CASE covers # {}
  <2> DEFINE i == CHOOSE i \in covers : \A j \in covers : i <= j
  <2>1. \E k \in covers : \A j \in covers : k <= j
    <3>1. covers \in SUBSET Nat
      BY <1>1
    <3> HIDE DEF covers
    <3> QED
      BY <3>1, <1>3, LeastElement
  <2>2. i \in covers
    <3> HIDE DEF covers
    <3> QED
      BY <2>1
  <2>3. FirstCovering(map) = map[i].webId
    BY <1>3 DEF FirstCovering
  <2> HIDE DEF i
  <2>4. map[i] \in Entry
    BY <1>1, <2>2, ElementOfSeq
  <2>5. map[i].webId \in WebId /\ Covers(v, map[i].webId)
    BY <2>2, <2>4, <1>1 DEF Covers, Entry
  <2> QED
    BY <2>3, <2>5, NoneAssumption
<1> QED
  BY <1>2, <1>3

LEMMA LookupInit == PInit => LookupInv
<1> SUFFICES ASSUME PInit PROVE LookupInv
  OBVIOUS
<1>1. <<>> \in Seq(Entry)
  BY EmptySeq
<1> QED
  BY <1>1 DEF PInit, LookupInv, LookupTypes, WriterInv

LEMMA LookupStep ==
  ASSUME TInv, LookupInv, [PNext]_pvars
  PROVE  LookupInv'
<1>t. /\ LookupTypes /\ \A v \in Writer : WriterInv(v)
      /\ settings \in [WebId -> Setting \cup {None}]
      /\ Holders \subseteq WebId
  BY DEF LookupInv, TInv, TypeOK, Holders
<1>w. \A W \in SUBSET WebId : W # None
  BY NoListAssumption
<1>1. CASE UNCHANGED pvars
  BY <1>1 DEF pvars, hvars, vars, store, lookups, LookupInv, LookupTypes, WriterInv, Covers,
              Holders
<1>2. ASSUME NEW v \in Writer, RetrievePodOwner(v)
      PROVE  LookupInv'
  <2>1. <<>> \in Seq(Entry) /\ Len(<<>>) = 0
    BY EmptySeq
  <2>2. LookupTypes'
    BY <1>2, <1>t, <2>1 DEF RetrievePodOwner, LookupTypes
  <2>3. Holders' = Holders
    BY <1>2 DEF RetrievePodOwner, hvars, vars, store, Holders
  <2>4. WriterInv(v)'
    <3>1. /\ listed'[v] = {w \in WebId : settings[w] # None}
          /\ entries'[v] = <<>> /\ holding'[v] = Holders /\ held'[v] = Holders
      BY <1>2, <1>t DEF RetrievePodOwner, LookupTypes
    <3>2. \A w \in Holders : w \in listed'[v]
      BY <3>1, CoveringAssumption, NoneAssumption DEF Holders
    <3>3. \A w : ~Covers(v, w)'
      BY <3>1, <2>1 DEF Covers
    <3> QED
      BY <3>1, <3>2, <3>3, <2>3 DEF WriterInv
  <2>5. ASSUME NEW u \in Writer, u # v PROVE WriterInv(u)'
    <3>1. /\ listed'[u] = listed[u] /\ entries'[u] = entries[u]
          /\ holding'[u] = holding[u] /\ held'[u] = held[u]
      BY <1>2, <1>t, <2>5 DEF RetrievePodOwner, LookupTypes
    <3> QED
      BY <3>1, <2>3, <1>t DEF WriterInv, Covers
  <2> QED
    BY <2>2, <2>4, <2>5 DEF LookupInv
<1>3. ASSUME NEW v \in Writer, NextEntry(v)
      PROVE  LookupInv'
  <2>0. PICK w \in listed[v] :
           /\ listed' = [listed EXCEPT ![v] = @ \ {w}]
           /\ entries' = [entries EXCEPT ![v] =
                IF settings[w] = None THEN @
                ELSE Append(@, [webId |-> w, settings |-> settings[w]])]
    BY <1>3 DEF NextEntry
  <2>1. /\ listed[v] \in SUBSET WebId /\ listed[v] # None /\ w \in WebId
        /\ holding' = holding /\ held' = held /\ Holders' = Holders
        /\ entries[v] \in Seq(Entry) /\ Len(entries[v]) \in Nat
    BY <1>3, <1>t, LenProperties
       DEF NextEntry, LookupTypes, hvars, vars, store, Holders
  <2> DEFINE x == [webId |-> w, settings |-> settings[w]]
  <2>2. CASE settings[w] = None
    <3>1. entries' = entries
      BY <2>0, <2>2, <1>t DEF LookupTypes
    <3>2. LookupTypes'
      BY <3>1, <2>0, <2>1, <1>t DEF LookupTypes
    <3>3. w \notin Holders
      BY <2>2, CoveringAssumption, NoneAssumption DEF Holders
    <3>4. ASSUME NEW u \in Writer PROVE WriterInv(u)'
      BY <3>1, <3>3, <2>0, <2>1, <1>t DEF WriterInv, Covers, LookupTypes
    <3> QED
      BY <3>2, <3>4 DEF LookupInv
  <2>3. CASE settings[w] # None
    <3>1. x \in Entry
      BY <2>1, <2>3, <1>t DEF Entry
    <3>2. /\ entries'[v] = Append(entries[v], x)
          /\ \A u \in Writer : u # v => entries'[u] = entries[u]
          /\ listed'[v] = listed[v] \ {w}
          /\ \A u \in Writer : u # v => listed'[u] = listed[u]
      BY <2>0, <2>3, <1>t DEF LookupTypes
    <3> HIDE DEF x
    <3>3. /\ Append(entries[v], x) \in Seq(Entry)
          /\ Len(Append(entries[v], x)) = Len(entries[v]) + 1
          /\ \A i \in 1..Len(entries[v]) : Append(entries[v], x)[i] = entries[v][i]
          /\ Append(entries[v], x)[Len(entries[v]) + 1] = x
      BY <2>1, <3>1, AppendProperties
    <3>4. LookupTypes'
      <4>1. entries' = [entries EXCEPT ![v] = Append(entries[v], x)]
        BY <2>0, <2>3, <1>t DEF x
      <4> QED
        BY <4>1, <3>3, <2>0, <2>1, <1>t DEF LookupTypes
    <3>5. \A y : Covers(v, y)' <=> Covers(v, y) \/ (y = x.webId /\ x.settings \in Covering)
      BY <3>2, <3>3, <2>1 DEF Covers
    <3>6. x.webId = w /\ (x.settings \in Covering <=> w \in Holders)
      BY <2>1 DEF x, Holders
    <3>7. WriterInv(v)'
      <4>1. WriterInv(v)
        BY <1>t
      <4> QED
        BY <4>1, <3>2, <3>5, <3>6, <2>1 DEF WriterInv
    <3>8. ASSUME NEW u \in Writer, u # v PROVE WriterInv(u)'
      BY <3>2, <3>8, <2>1, <1>t DEF WriterInv, Covers
    <3> QED
      BY <3>4, <3>7, <3>8 DEF LookupInv
  <2> QED
    BY <2>2, <2>3
<1>4. ASSUME NEW v \in Writer, NEW owner, ReturnOwner(v, owner)
      PROVE  LookupInv'
  <2>1. <<>> \in Seq(Entry)
    BY EmptySeq
  <2>2. LookupTypes'
    BY <1>4, <1>t, <2>1 DEF ReturnOwner, LookupTypes
  <2>3. Holders' = Holders
    BY <1>4 DEF ReturnOwner, hvars, vars, store, Holders
  <2>4. ASSUME NEW u \in Writer PROVE WriterInv(u)'
    BY <1>4, <1>t, <2>3 DEF ReturnOwner, LookupTypes, WriterInv, Covers
  <2> QED
    BY <2>2, <2>4 DEF LookupInv
<1>5. CASE AccountsChange
  <2>1. CASE Crash
    <3>1. <<>> \in Seq(Entry)
      BY EmptySeq
    <3>2. /\ listed' = [v \in Writer |-> None] /\ entries' = [v \in Writer |-> <<>>]
          /\ holding' = [v \in Writer |-> {}] /\ held' = [v \in Writer |-> {}]
      BY <1>5, <2>1 DEF AccountsChange
    <3> QED
      BY <3>1, <3>2 DEF LookupInv, LookupTypes, WriterInv
  <2>2. CASE ~Crash
    <3>1. /\ listed' = listed /\ entries' = entries
          /\ holding' = [v \in Writer |-> holding[v] \cap Holders']
          /\ held' = [v \in Writer |-> IF listed[v] = None THEN {} ELSE held[v] \cup Holders']
      BY <1>5, <2>2 DEF AccountsChange
    <3>2. Holders' \subseteq WebId
      BY DEF Holders
    <3>3. LookupTypes'
      BY <3>1, <3>2, <1>t DEF LookupTypes
    <3>4. ASSUME NEW v \in Writer PROVE WriterInv(v)'
      BY <3>1, <1>t DEF WriterInv, Covers
    <3> QED
      BY <3>3, <3>4 DEF LookupInv
  <2> QED
    BY <2>1, <2>2
<1> QED
  BY <1>1, <1>2, <1>3, <1>4, <1>5 DEF PNext

(* The lookup only reads: what holds of the accounts holds with it.        *)
LEMMA LookupsOnlyRead == PSpec => HSpec
<1>1. PInit => HInit
  BY DEF PInit
<1>2. [PNext]_pvars => [HNext]_hvars
  BY DEF PNext, pvars, AccountsChange, RetrievePodOwner, NextEntry, ReturnOwner
<1> QED
  BY <1>1, <1>2, PTL DEF PSpec, HSpec

(* What a lookup has listed and read, held against who has held the pod.   *)
THEOREM LookupInvariance == PSpec => [](TInv /\ LookupInv)
<1>1. TInv /\ LookupInv /\ [PNext]_pvars => LookupInv'
  BY LookupStep
<1> QED
  BY <1>1, LookupInit, LookupsOnlyRead, HistoryInvariance, PTL DEF PSpec

(* OwnerHeldThePod: a ticket is registered for somebody who held the pod   *)
(* at a moment of the lookup.                                              *)
THEOREM OwnersHeldThePod == PSpec => OwnerHeldThePod
<1>1. ASSUME LookupInv, NEW v \in Writer, NEW w \in WebId, ReturnOwner(v, w)
      PROVE  w \in held[v]
  <2>1. listed[v] # None /\ w = FirstCovering(entries[v]) /\ WriterInv(v) /\ LookupTypes
    BY <1>1, NoListAssumption DEF ReturnOwner, LookupInv
  <2> QED
    BY <2>1, FirstCoveringLemma DEF WriterInv
<1>2. LookupInv /\ [PNext]_pvars =>
        [\A v \in Writer, w \in WebId : ReturnOwner(v, w) => w \in held[v]]_pvars
  BY <1>1
<1> QED
  BY <1>2, LookupInvariance, PTL DEF PSpec, OwnerHeldThePod

(* SteadyOwnerIsFound: an owner who holds the pod all through the lookup   *)
(* is not overlooked.                                                      *)
THEOREM SteadyOwnersAreFound == PSpec => SteadyOwnerIsFound
<1>1. ASSUME LookupInv, NEW v \in Writer, ReturnOwner(v, None)
      PROVE  holding[v] = {}
  <2>1. listed[v] # None /\ listed[v] = {} /\ FirstCovering(entries[v]) = None
        /\ WriterInv(v) /\ LookupTypes
    BY <1>1, NoListAssumption DEF ReturnOwner, LookupInv
  <2> QED
    BY <2>1, FirstCoveringLemma DEF WriterInv
<1>2. LookupInv /\ [PNext]_pvars =>
        [\A v \in Writer : ReturnOwner(v, None) => holding[v] = {}]_pvars
  BY <1>1
<1> QED
  BY <1>2, LookupInvariance, PTL DEF PSpec, SteadyOwnerIsFound


-----------------------------------------------------------------------------
(***************************************************************************)
(* Callers that keep apart.  Nobody else asks about the addresses and the  *)
(* WebIDs that a caller asks about, so what it has read stays true while   *)
(* it awaits the next call of the storage.                                 *)
(***************************************************************************)
Addresses(c) == {r.email : r \in Asks[c]} \ {None}
WebIds(c) == {r.webId : r \in Asks[c]} \ {None}
KeepApart ==
    \A c, d \in Caller : c # d =>
        Addresses(c) \cap Addresses(d) = {} /\ WebIds(c) \cap WebIds(d) = {}

OwnWebIds(c) == \A e \in Addresses(c) : accounts[e] # None => accounts[e].webId \in WebIds(c)
(* What c knows of the account and of the settings it is about to write.   *)
AccountKnown(c, a) ==
    /\ pc[c] \in {"getSettings", "setAccount"} /\ request[c].op = "create" => a = None
    /\ pc[c] = "setAccount" /\ request[c].op = "create" => payload[c] = NewAccount(request[c])
    /\ pc[c] = "setAccount" /\ request[c].op # "create" =>
          a # None /\ payload[c] = Changed(a, request[c])
    /\ pc[c] = "setSettings" /\ request[c].op = "create" =>
          a = NewAccount(request[c])
    /\ pc[c] = "deleteKey" => a # None /\ payload[c] = a
    /\ pc[c] = "deleteWebId" => a = None
    /\ pc[c] = "setRecord" => a # None
SettingsKnown(c, s) ==
    /\ pc[c] \in {"setAccount", "setSettings"} /\ request[c].op = "create" => s = None
    /\ pc[c] = "setSettings" /\ request[c].op # "create" => s # None
Apart(c) ==
    /\ OwnWebIds(c)
    /\ AccountKnown(c, accounts[request[c].email])
    /\ SettingsKnown(c, settings[request[c].webId])
    /\ pc[c] = "deleteWebId" => payload[c].webId \in WebIds(c)
ApartInv == \A c \in Caller : Apart(c)

(* A request is about its caller's own.                                    *)
LEMMA OwnFields ==
  ASSUME TInv, NEW c \in Caller, pc[c] # "idle"
  PROVE  /\ request[c] \in Asks[c] /\ request[c].op \in OpsAt(pc[c])
         /\ request[c].op \in OfAddress =>
               request[c].email \in Addresses(c) /\ request[c].email \in Email
         /\ request[c].op \in {"create", "updateSettings", "getSettings"} =>
               request[c].webId \in WebIds(c) /\ request[c].webId \in WebId
<1>1. request[c] \in Asks[c] /\ request[c].op \in OpsAt(pc[c])
  BY DEF TInv, CallerInv
<1> QED
  BY <1>1, RequestFields, NoneAssumption DEF Addresses, WebIds

(* An operation writes to its caller's own.                                *)
LEMMA OwnWrites ==
  ASSUME TInv, ApartInv, NEW c \in Caller, Steps(c)
  PROVE  /\ \A e \in Email : e \notin Addresses(c) => accounts'[e] = accounts[e]
         /\ \A w \in WebId : w \notin WebIds(c) => settings'[w] = settings[w]
<1>t. TypeOK /\ Apart(c)
  BY DEF TInv, ApartInv
<1>p. pc[c] # "idle"
  BY DEF Steps, GetAccount, GetSettings, SetAccount, SetSettings, DeleteKey, DeleteWebId,
         SetRecord, GetRecord, DeleteRecord, Reject
<1>f. /\ request[c].op \in OpsAt(pc[c])
      /\ request[c].op \in OfAddress => request[c].email \in Addresses(c)
      /\ request[c].op \in {"create", "updateSettings", "getSettings"} =>
            request[c].webId \in WebIds(c)
  BY <1>p, OwnFields
<1>1. CASE SetAccount(c)
  BY <1>1, <1>f, <1>t DEF SetAccount, OpsAt, OfAddress, TypeOK
<1>2. CASE SetSettings(c)
  BY <1>2, <1>f, <1>t DEF SetSettings, OpsAt, TypeOK
<1>3. CASE DeleteKey(c)
  BY <1>3, <1>f, <1>t DEF DeleteKey, OpsAt, OfAddress, TypeOK
<1>4. CASE DeleteWebId(c)
  BY <1>4, <1>f, <1>t DEF DeleteWebId, Apart, TypeOK
<1>5. CASE \/ GetAccount(c) \/ GetSettings(c) \/ SetRecord(c) \/ GetRecord(c)
           \/ DeleteRecord(c) \/ Reject(c)
  BY <1>5 DEF GetAccount, GetSettings, SetRecord, GetRecord, DeleteRecord, Reject, store
<1> QED
  BY <1>1, <1>2, <1>3, <1>4, <1>5 DEF Steps

LEMMA StaysApart ==
  ASSUME TInv, NEW c \in Caller, Apart(c),
         pc'[c] = pc[c], request'[c] = request[c], payload'[c] = payload[c],
         \A e \in Addresses(c) : accounts'[e] = accounts[e],
         \A w \in WebIds(c) : settings'[w] = settings[w]
  PROVE  Apart(c)'
<1>1. OwnWebIds(c)'
  BY DEF Apart, OwnWebIds
<1>2. pc[c] \in {"setAccount", "deleteKey", "deleteWebId", "setRecord"}
        \/ (pc[c] \in {"getSettings", "setSettings"} /\ request[c].op = "create") =>
           accounts'[request[c].email] = accounts[request[c].email]
  BY OwnFields DEF OpsAt, OfAddress
<1>3. pc[c] = "setSettings" \/ (pc[c] = "setAccount" /\ request[c].op = "create") =>
           settings'[request[c].webId] = settings[request[c].webId]
  BY OwnFields DEF OpsAt
<1>4. AccountKnown(c, accounts[request[c].email])'
  <2>1. AccountKnown(c, accounts[request[c].email])
    BY DEF Apart
  <2>2. CASE pc[c] \in {"setAccount", "deleteKey", "deleteWebId", "setRecord"}
               \/ (pc[c] \in {"getSettings", "setSettings"} /\ request[c].op = "create")
    <3>1. accounts'[request[c].email] = accounts[request[c].email]
      BY <2>2, <1>2
    <3>2. accounts'[request'[c].email] = accounts[request[c].email]
      BY <3>1
    <3> QED
      BY <2>1, <3>2 DEF AccountKnown, Changed, NewAccount
  <2>3. CASE ~(pc[c] \in {"setAccount", "deleteKey", "deleteWebId", "setRecord"}
               \/ (pc[c] \in {"getSettings", "setSettings"} /\ request[c].op = "create"))
    <3>1. /\ pc'[c] # "setAccount" /\ pc'[c] # "deleteKey" /\ pc'[c] # "setRecord"
          /\ pc'[c] # "deleteWebId"
          /\ request'[c].op = "create" => pc'[c] # "getSettings" /\ pc'[c] # "setSettings"
      BY <2>3
    <3> QED
      BY <3>1 DEF AccountKnown
  <2> QED
    BY <2>2, <2>3
<1>5. SettingsKnown(c, settings[request[c].webId])'
  <2>1. SettingsKnown(c, settings[request[c].webId])
    BY DEF Apart
  <2>2. CASE pc[c] = "setSettings" \/ (pc[c] = "setAccount" /\ request[c].op = "create")
    <3>1. settings'[request'[c].webId] = settings[request[c].webId]
      BY <2>2, <1>3
    <3> QED
      BY <2>1, <3>1 DEF SettingsKnown
  <2>3. CASE ~(pc[c] = "setSettings" \/ (pc[c] = "setAccount" /\ request[c].op = "create"))
    <3>1. /\ pc'[c] # "setSettings"
          /\ request'[c].op = "create" => pc'[c] # "setAccount"
      BY <2>3
    <3> QED
      BY <3>1 DEF SettingsKnown
  <2> QED
    BY <2>2, <2>3
<1> QED
  BY <1>1, <1>4, <1>5 DEF Apart

LEMMA ApartInit == Init => ApartInv
<1> SUFFICES ASSUME Init, NEW c \in Caller PROVE Apart(c)
  BY DEF ApartInv
<1>1. Addresses(c) \subseteq Email
  BY AsksAssumption DEF Addresses, Request
<1>2. OwnWebIds(c) /\ pc[c] = "idle"
  BY <1>1 DEF Init, OwnWebIds
<1> QED
  BY <1>2 DEF Apart, AccountKnown, SettingsKnown

LEMMA ApartStep ==
  ASSUME KeepApart, TInv, TInv', ApartInv, [Next]_vars
  PROVE  ApartInv'
<1>t. /\ TypeOK /\ \A c \in Caller : Apart(c) /\ CallerInv(c)
      /\ accounts \in [Email -> Account \cup {None}]
      /\ settings \in [WebId -> Setting \cup {None}]
      /\ pc \in [Caller -> PC] /\ request \in [Caller -> Request \cup {None}]
      /\ payload \in [Caller -> Account \cup {None}]
  BY DEF TInv, TypeOK, ApartInv
<1>o. \A c \in Caller : Addresses(c) \subseteq Email /\ WebIds(c) \subseteq WebId
  BY AsksAssumption DEF Addresses, WebIds, Request
<1>1. ASSUME NEW c \in Caller, NEW r \in Asks[c], Call(c, r), NEW d \in Caller
      PROVE  Apart(d)'
  <2>1. accounts' = accounts /\ settings' = settings
    BY <1>1 DEF Call, store
  <2>2. CASE d = c
    <3>1. pc'[c] = FirstCall(r.op) /\ request'[c] = r
      BY <1>1, <1>t DEF Call
    <3>2. r.op \in Ops
      BY RequestFields
    <3>3. pc'[c] \in {"getAccount", "getSettings", "getRecord", "deleteRecord"}
          /\ (pc'[c] = "getSettings" => request'[c].op # "create")
      BY <3>1, <3>2 DEF FirstCall, Ops
    <3>4. OwnWebIds(c)'
      BY <2>1, <1>t DEF Apart, OwnWebIds
    <3> QED
      BY <2>2, <3>3, <3>4 DEF Apart, AccountKnown, SettingsKnown
  <2>3. CASE d # c
    BY <1>1, <1>t, <2>1, <2>3, OthersUntouched, StaysApart
  <2> QED
    BY <2>2, <2>3
<1>2. ASSUME NEW c \in Caller, Steps(c), NEW d \in Caller, d # c
      PROVE  Apart(d)'
  <2>1. /\ \A e \in Addresses(d) : accounts'[e] = accounts[e]
        /\ \A w \in WebIds(d) : settings'[w] = settings[w]
    BY <1>2, <1>o, OwnWrites DEF KeepApart
  <2> QED
    BY <1>2, <1>t, <2>1, OthersUntouched, StaysApart
<1>3. ASSUME NEW c \in Caller, Steps(c)
      PROVE  Apart(c)'
  <2> DEFINE r == request[c]
             a == accounts[r.email]
  <2>p. pc[c] # "idle"
    BY <1>3 DEF Steps, GetAccount, GetSettings, SetAccount, SetSettings, DeleteKey,
       DeleteWebId, SetRecord, GetRecord, DeleteRecord, Reject
  <2>f. /\ r.op \in OpsAt(pc[c])
        /\ r.op \in OfAddress => r.email \in Addresses(c) /\ r.email \in Email
        /\ r.op \in {"create", "updateSettings", "getSettings"} =>
              r.webId \in WebIds(c) /\ r.webId \in WebId
    BY <2>p, OwnFields
  <2>a. Apart(c) /\ OwnWebIds(c)
    BY <1>t DEF Apart
  <2>1. CASE pc'[c] = "idle" /\ accounts' = accounts
    <3>1. OwnWebIds(c)'
      BY <2>1, <2>a DEF OwnWebIds
    <3> QED
      BY <2>1, <3>1 DEF Apart, AccountKnown, SettingsKnown
  <2>2. CASE GetAccount(c) /\ pc'[c] # "idle"
    <3>1. /\ UNCHANGED store /\ pc[c] = "getAccount" /\ request' = request
          /\ \/ r.op = "create" /\ a = None /\ pc'[c] = "getSettings"
             \/ /\ r.op \in {"verify", "changePassword"} /\ a # None
                /\ pc'[c] = "setAccount" /\ payload'[c] = Changed(a, r)
             \/ /\ r.op = "deleteAccount" /\ a # None
                /\ pc'[c] = "deleteKey" /\ payload'[c] = a
             \/ /\ r.op = "generateForgotPasswordRecord" /\ a # None
                /\ pc'[c] = "setRecord"
      BY <2>2, <1>t DEF GetAccount, Goto, Return
    <3>2. OwnWebIds(c)'
      BY <3>1, <2>a DEF OwnWebIds, store
    <3>3. accounts' = accounts /\ request'[c] = r
      BY <3>1 DEF store
    <3> QED
      BY <3>1, <3>2, <3>3 DEF Apart, AccountKnown, SettingsKnown
  <2>3. CASE GetSettings(c) /\ pc'[c] # "idle"
    <3>1. /\ UNCHANGED store /\ pc[c] = "getSettings" /\ request' = request
          /\ \/ /\ r.op = "create" /\ settings[r.webId] = None
                /\ pc'[c] = "setAccount" /\ payload'[c] = NewAccount(r)
             \/ /\ r.op = "updateSettings" /\ settings[r.webId] # None
                /\ pc'[c] = "setSettings"
      BY <2>3, <1>t DEF GetSettings, Goto, Return, WebIdTaken
    <3>2. OwnWebIds(c)'
      BY <3>1, <2>a DEF OwnWebIds, store
    <3>3. accounts' = accounts /\ settings' = settings /\ request'[c] = r
      BY <3>1 DEF store
    <3>4. r.op = "create" => a = None
      BY <3>1, <2>a DEF Apart, AccountKnown
    <3> QED
      BY <3>1, <3>2, <3>3, <3>4 DEF Apart, AccountKnown, SettingsKnown
  <2>4. CASE SetAccount(c)
    <3>0. pc[c] = "setAccount" /\ r.email \in Addresses(c) /\ r.email \in Email
          /\ payload[c] \in Account
      BY <2>4, <2>f, <1>t DEF SetAccount, OpsAt, OfAddress, CallerInv
    <3>1. payload[c].webId \in WebIds(c)
      <4>1. CASE r.op = "create"
        BY <4>1, <3>0, <2>a, <2>f DEF Apart, AccountKnown, NewAccount
      <4>2. CASE r.op # "create"
        <5>1. a # None /\ payload[c] = Changed(a, r) /\ a.webId \in WebIds(c) /\ a \in Account
          BY <4>2, <3>0, <2>a, <1>t DEF Apart, AccountKnown, OwnWebIds
        <5>2. Changed(a, r).webId = a.webId
          BY <5>1 DEF Changed, Account
        <5> QED
          BY <5>1, <5>2
      <4> QED
        BY <4>1, <4>2
    <3>2. /\ accounts'[r.email] = payload[c] /\ settings' = settings
          /\ \A e \in Email : e # r.email => accounts'[e] = accounts[e]
      BY <2>4, <3>0, <1>t DEF SetAccount
    <3>3. OwnWebIds(c)'
      BY <3>0, <3>1, <3>2, <2>a, <1>o DEF OwnWebIds
    <3>4. CASE r.op = "create"
      <4>1. pc'[c] = "setSettings" /\ request'[c] = r
        BY <2>4, <3>4, <1>t DEF SetAccount, SettingsFollow, Goto
      <4>2. payload[c] = NewAccount(r) /\ settings[r.webId] = None
        BY <3>0, <3>4, <2>a DEF Apart, AccountKnown, SettingsKnown
      <4>3. accounts'[request'[c].email] = NewAccount(request'[c])
        BY <3>2, <4>1, <4>2
      <4> QED
        BY <3>2, <3>3, <3>4, <4>1, <4>2, <4>3
           DEF Apart, AccountKnown, SettingsKnown, NewAccount
    <3>5. CASE r.op # "create"
      <4>1. pc'[c] = "idle"
        BY <2>4, <3>5, <1>t DEF SetAccount, SettingsFollow, Return
      <4> QED
        BY <3>3, <4>1 DEF Apart, AccountKnown, SettingsKnown
    <3> QED
      BY <3>4, <3>5
  <2>5. CASE DeleteKey(c)
    <3>0. pc[c] = "deleteKey" /\ r.email \in Addresses(c) /\ r.email \in Email
      BY <2>5, <2>f DEF DeleteKey, OpsAt, OfAddress
    <3>1. /\ \A e \in Email : accounts'[e] # None => accounts'[e] = accounts[e]
          /\ pc'[c] = "deleteWebId" /\ payload'[c] = payload[c]
      BY <2>5, <3>0, <1>t DEF DeleteKey, Goto
    <3>2. OwnWebIds(c)'
      BY <3>1, <2>a, <1>o DEF OwnWebIds
    <3>3. payload[c].webId \in WebIds(c)
      BY <3>0, <2>a DEF Apart, AccountKnown, OwnWebIds
    <3>4. accounts'[request'[c].email] = None
      BY <2>5, <3>0, <1>t DEF DeleteKey, Goto
    <3> QED
      BY <3>1, <3>2, <3>3, <3>4 DEF Apart, AccountKnown, SettingsKnown
  <2>6. CASE \/ SetSettings(c) \/ DeleteWebId(c) \/ SetRecord(c) \/ GetRecord(c)
             \/ DeleteRecord(c) \/ Reject(c)
    <3>1. pc'[c] = "idle" /\ accounts' = accounts
      BY <2>6, <1>t DEF SetSettings, DeleteWebId, SetRecord, GetRecord, DeleteRecord, Reject, Return,
         store
    <3> QED
      BY <3>1, <2>1
  <2>7. GetAccount(c) \/ GetSettings(c) => accounts' = accounts
    BY DEF GetAccount, GetSettings, store
  <2> QED
    BY <1>3, <2>1, <2>2, <2>3, <2>4, <2>5, <2>6, <2>7 DEF Steps
<1>4. CASE Expire \/ UNCHANGED vars
  <2>1. UNCHANGED <<accounts, settings, pc, request, payload>>
    BY <1>4 DEF Expire, vars, store
  <2> QED
    BY <2>1, <1>t, StaysApart DEF ApartInv
<1>5. CASE Crash
  <2>1. accounts' = accounts /\ \A c \in Caller : pc'[c] = "idle"
    BY <1>5 DEF Crash, store
  <2>2. ASSUME NEW c \in Caller PROVE OwnWebIds(c)'
    BY <2>1, <1>t DEF Apart, OwnWebIds
  <2> QED
    BY <2>1, <2>2 DEF ApartInv, Apart, AccountKnown, SettingsKnown
<1>6. ASSUME NEW c \in Caller, Steps(c) \/ \E r \in Asks[c] : Call(c, r)
      PROVE  ApartInv'
  BY <1>1, <1>2, <1>3, <1>6 DEF ApartInv
<1> QED
  BY <1>4, <1>5, <1>6, NextSteps

(* Callers that keep apart only ever find what they wrote themselves.      *)
THEOREM KeptApart ==
  ASSUME KeepApart
  PROVE  Spec => [](TInv /\ ApartInv)
<1>1. TInv /\ ApartInv /\ [Next]_vars => TInv' /\ ApartInv'
  BY TypeStep, ApartStep
<1> QED
  BY <1>1, TypeInit, ApartInit, PTL DEF Spec

-----------------------------------------------------------------------------
(***************************************************************************)
(* The refinement.  What a caller is half done with is about its own       *)
(* addresses, so it alone says what the accounts there count as.           *)
(***************************************************************************)
BarInv == KeepApart /\ TInv /\ ApartInv

CreatingOwn(c, e) == pc[c] = "setSettings" /\ request[c].op = "create" /\ request[c].email = e
DeletingOwn(c, e) == pc[c] = "deleteWebId" /\ request[c].email = e
HalfDone(c) ==
    \/ pc[c] = "setSettings" /\ request[c].op = "create"
    \/ pc[c] = "deleteWebId"
OwnAccount(c, e) ==
    IF CreatingOwn(c, e) THEN None
    ELSE IF DeletingOwn(c, e) THEN payload[c] ELSE accounts[e]
HalfDoneOwn == \A c \in Caller : HalfDone(c) => request[c].email \in Addresses(c)
BarsOwn == \A c \in Caller : \A e \in Addresses(c) : AccountsBar[e] = OwnAccount(c, e)

LEMMA OwnOnly == BarInv => HalfDoneOwn
<1> SUFFICES ASSUME BarInv, NEW c \in Caller, HalfDone(c)
             PROVE  request[c].email \in Addresses(c)
  BY DEF HalfDoneOwn
<1>1. TInv /\ pc[c] \in {"setSettings", "deleteWebId"}
  BY DEF BarInv, HalfDone
<1>2. request[c].op \in OfAddress
  BY <1>1, OwnFields DEF HalfDone, OpsAt, OfAddress
<1> QED
  BY <1>1, <1>2, OwnFields

LEMMA OwnBars == BarInv => BarsOwn
<1> SUFFICES ASSUME BarInv, NEW c \in Caller, NEW e \in Addresses(c)
             PROVE  AccountsBar[e] = OwnAccount(c, e)
  BY DEF BarsOwn
<1>1. e \in Email
  BY AsksAssumption DEF Addresses, Request
<1>2. ASSUME NEW d \in Caller, CreatingOwn(d, e) \/ DeletingOwn(d, e)
      PROVE  d = c
  <2>1. e \in Addresses(d)
    BY <1>2, OwnOnly DEF HalfDoneOwn, HalfDone, CreatingOwn, DeletingOwn
  <2> QED
    BY <2>1 DEF BarInv, KeepApart
<1>3. /\ \A d : d \in CreatingAt(e) <=> d = c /\ CreatingOwn(c, e)
      /\ \A d : d \in DeletingAt(e) <=> d = c /\ DeletingOwn(c, e)
  BY <1>2 DEF CreatingAt, DeletingAt, CreatingOwn, DeletingOwn
<1>4. CreatingAt(e) # {} <=> CreatingOwn(c, e)
  BY <1>3
<1>5. CASE ~CreatingOwn(c, e) /\ DeletingOwn(c, e)
  <2>1. DeletingAt(e) = {c}
    BY <1>3, <1>5
  <2>2. (CHOOSE d \in DeletingAt(e) : TRUE) = c
    BY <2>1
  <2> QED
    BY <1>1, <1>4, <1>5, <2>1, <2>2 DEF AccountsBar, OwnAccount
<1>6. CASE CreatingOwn(c, e) \/ ~DeletingOwn(c, e)
  <2>1. ~DeletingOwn(c, e) => DeletingAt(e) = {}
    BY <1>3
  <2> QED
    BY <1>1, <1>4, <1>6, <2>1 DEF AccountsBar, OwnAccount
<1> QED
  BY <1>5, <1>6

(* A caller's step leaves what others are half done with alone.            *)
LEMMA ForeignBars ==
  ASSUME BarInv, BarInv', NEW c \in Caller, Steps(c) \/ \E r \in Asks[c] : Call(c, r),
         NEW e \in Email, e \notin Addresses(c)
  PROVE  AccountsBar'[e] = AccountsBar[e]
<1>t. TInv /\ TypeOK /\ ApartInv
  BY DEF BarInv, TInv
<1>1. accounts'[e] = accounts[e]
  <2>1. CASE Steps(c)
    BY <2>1, <1>t, OwnWrites
  <2>2. CASE \E r \in Asks[c] : Call(c, r)
    BY <2>2 DEF Call, store
  <2> QED
    BY <2>1, <2>2
<1>2. HalfDoneOwn /\ HalfDoneOwn'
  BY OwnOnly, PTL
<1>3. ~CreatingOwn(c, e) /\ ~DeletingOwn(c, e) /\ ~CreatingOwn(c, e)' /\ ~DeletingOwn(c, e)'
  BY <1>2 DEF HalfDoneOwn, HalfDone, CreatingOwn, DeletingOwn
<1>4. \A d \in Caller : d # c => pc'[d] = pc[d] /\ request'[d] = request[d]
                                 /\ payload'[d] = payload[d]
  BY <1>t, OthersUntouched
<1>5. CreatingAt(e)' = CreatingAt(e)
  BY <1>3, <1>4 DEF CreatingAt, CreatingOwn
<1>6. DeletingAt(e)' = DeletingAt(e)
  BY <1>3, <1>4 DEF DeletingAt, DeletingOwn
<1>7. CASE DeletingAt(e) # {}
  <2> DEFINE d == CHOOSE x \in DeletingAt(e) : TRUE
  <2>1. d \in DeletingAt(e)
    BY <1>7
  <2>2. d \in Caller /\ d # c
    BY <2>1, <1>3 DEF DeletingAt, DeletingOwn
  <2>3. payload'[d] = payload[d]
    BY <2>2, <1>4
  <2>4. AccountsBar[e] = IF CreatingAt(e) # {} THEN None ELSE payload[d]
    BY <1>7 DEF AccountsBar
  <2>5. AccountsBar'[e] = IF CreatingAt(e)' # {} THEN None
                          ELSE payload'[CHOOSE x \in DeletingAt(e)' : TRUE]
    BY <1>7, <1>6 DEF AccountsBar
  <2>6. AccountsBar'[e] = IF CreatingAt(e) # {} THEN None ELSE payload'[d]
    BY <2>5, <1>5, <1>6
  <2> QED
    BY <2>3, <2>4, <2>6
<1>8. CASE DeletingAt(e) = {}
  BY <1>1, <1>5, <1>6, <1>8 DEF AccountsBar
<1> QED
  BY <1>7, <1>8

LEMMA BarsStay ==
  ASSUME BarInv, BarInv', NEW c \in Caller, Steps(c) \/ \E r \in Asks[c] : Call(c, r),
         \A e \in Addresses(c) : OwnAccount(c, e)' = OwnAccount(c, e)
  PROVE  AccountsBar' = AccountsBar
<1>1. BarsOwn /\ BarsOwn'
  BY OwnBars, PTL
<1>2. ASSUME NEW e \in Email PROVE AccountsBar'[e] = AccountsBar[e]
  BY <1>1, ForeignBars DEF BarsOwn
<1> QED
  BY <1>2 DEF AccountsBar

LEMMA BarsChange ==
  ASSUME BarInv, BarInv', NEW c \in Caller, Steps(c),
         NEW x \in Addresses(c), NEW a,
         \A e \in Addresses(c) : OwnAccount(c, e)' = IF e = x THEN a ELSE OwnAccount(c, e)
  PROVE  AccountsBar' = [AccountsBar EXCEPT ![x] = a]
<1>1. BarsOwn /\ BarsOwn'
  BY OwnBars, PTL
<1>2. ASSUME NEW e \in Email PROVE AccountsBar'[e] = IF e = x THEN a ELSE AccountsBar[e]
  BY <1>1, ForeignBars DEF BarsOwn
<1> QED
  BY <1>2 DEF AccountsBar

(* Once a caller is answered, what it was half done with is what there is. *)
LEMMA BarAnswered ==
  ASSUME TInv, NEW c \in Caller, NEW x, Return(c, x)
  PROVE  D!Settle(c, x) /\ \A e : OwnAccount(c, e)' = accounts'[e]
<1>1. pc'[c] = "idle"
  BY DEF TInv, TypeOK, Return
<1> QED
  BY <1>1 DEF Return, D!Settle, OwnAccount, CreatingOwn, DeletingOwn

(* The step of the directory that an operation of c amounts to.            *)
DirectoryStep(c) ==
    /\ request[c] # None
    /\ \/ D!Create(c, request[c]) \/ D!Verify(c, request[c])
       \/ D!ChangePassword(c, request[c]) \/ D!UpdateSettings(c, request[c])
       \/ D!DeleteAccount(c, request[c]) \/ D!Look(c, request[c])
       \/ D!GenerateRecord(c, request[c]) \/ D!DeleteRecord(c, request[c])
       \/ D!Fail(c, request[c]) \/ D!Reject(c) \/ D!Tear(c, request[c])
Stutters == UNCHANGED <<AccountsBar, settings, records, request, answer>>

(* Where c is in an operation, and what it is half done with, if it is.    *)
LEMMA Underway ==
  ASSUME BarInv, NEW c \in Caller, pc[c] # "idle"
  PROVE  /\ request[c] # None
         /\ request[c].op \in OfAddress =>
               AccountsBar[request[c].email] = OwnAccount(c, request[c].email)
         /\ ~HalfDone(c) => \A e : OwnAccount(c, e) = accounts[e]
<1>1. /\ request[c] \in Asks[c]
      /\ request[c].op \in OfAddress => request[c].email \in Addresses(c)
  BY OwnFields DEF BarInv
<1>2. request[c] # None
  BY <1>1, RequestFields, NoneAssumption
<1>3. ~HalfDone(c) => \A e : OwnAccount(c, e) = accounts[e]
  BY DEF HalfDone, OwnAccount, CreatingOwn, DeletingOwn
<1> QED
  BY <1>1, <1>2, <1>3, OwnBars DEF BarsOwn

LEMMA HalfDoneAccounts ==
  ASSUME BarInv, NEW c \in Caller, HalfDone(c)
  PROVE  LET r == request[c]
         IN /\ pc[c] # "idle" /\ r.email \in Addresses(c) /\ r.email \in Email
            /\ r.op = "create" \/ r.op = "deleteAccount"
            /\ \A e : OwnAccount(c, e) = IF e = r.email THEN AccountsBar[e] ELSE accounts[e]
            /\ r.op = "create" =>
                  /\ pc[c] = "setSettings" /\ accounts[r.email] = NewAccount(r)
                  /\ AccountsBar[r.email] = None /\ settings[r.webId] = None
            /\ r.op = "deleteAccount" =>
                  /\ pc[c] = "deleteWebId" /\ accounts[r.email] = None
                  /\ AccountsBar[r.email] = payload[c] /\ payload[c] \in Account
<1> DEFINE r == request[c]
<1>1. /\ TInv /\ Apart(c) /\ pc[c] \in {"setSettings", "deleteWebId"}
      /\ r.op \in OpsAt(pc[c])
  BY OwnFields DEF BarInv, ApartInv, HalfDone
<1>2. \/ pc[c] = "setSettings" /\ r.op = "create"
      \/ pc[c] = "deleteWebId" /\ r.op = "deleteAccount"
  BY <1>1 DEF HalfDone, OpsAt
<1>3. r.email \in Addresses(c) /\ r.email \in Email
  BY <1>1, <1>2, OwnFields DEF OfAddress
<1>4. AccountsBar[r.email] = OwnAccount(c, r.email)
  BY <1>3, OwnBars DEF BarsOwn
<1>5. \A e : e # r.email => OwnAccount(c, e) = accounts[e]
  BY DEF OwnAccount, CreatingOwn, DeletingOwn
<1>6. CASE pc[c] = "setSettings" /\ r.op = "create"
  <2>1. accounts[r.email] = NewAccount(r) /\ settings[r.webId] = None
    BY <1>1, <1>6 DEF Apart, AccountKnown, SettingsKnown
  <2>2. OwnAccount(c, r.email) = None
    BY <1>6 DEF OwnAccount, CreatingOwn
  <2> QED
    BY <1>3, <1>4, <1>5, <1>6, <2>1, <2>2
<1>7. CASE pc[c] = "deleteWebId" /\ r.op = "deleteAccount"
  <2>1. accounts[r.email] = None
    BY <1>1, <1>7 DEF Apart, AccountKnown
  <2>2. OwnAccount(c, r.email) = payload[c]
    BY <1>7 DEF OwnAccount, CreatingOwn, DeletingOwn
  <2>3. payload[c] \in Account
    BY <1>1, <1>7 DEF TInv, CallerInv
  <2> QED
    BY <1>3, <1>4, <1>5, <1>7, <2>1, <2>2, <2>3
<1> QED
  BY <1>2, <1>6, <1>7

(* Going on to the next call, before anything is written, is no step.      *)
LEMMA GoingOn ==
  ASSUME BarInv, BarInv', NEW c \in Caller, Steps(c), ~HalfDone(c), ~HalfDone(c)',
         NEW l, Goto(c, l), UNCHANGED store
  PROVE  Stutters
<1>1. \A e : OwnAccount(c, e)' = OwnAccount(c, e)
  BY DEF HalfDone, OwnAccount, CreatingOwn, DeletingOwn, store
<1>2. AccountsBar' = AccountsBar
  BY <1>1, BarsStay
<1> QED
  BY <1>2 DEF Stutters, store, Goto

(* So is answering without having written any account.                     *)
LEMMA Answering ==
  ASSUME BarInv, BarInv', NEW c \in Caller, Steps(c), ~HalfDone(c), pc[c] # "idle",
         NEW x, Return(c, x), accounts' = accounts
  PROVE  D!Settle(c, x) /\ AccountsBar' = AccountsBar
<1>1. D!Settle(c, x) /\ \A e : OwnAccount(c, e)' = accounts'[e]
  BY BarAnswered DEF BarInv
<1>2. \A e : OwnAccount(c, e)' = OwnAccount(c, e)
  BY <1>1, Underway
<1> QED
  BY <1>1, <1>2, BarsStay

LEMMA DirectoryGetAccount ==
  ASSUME BarInv, BarInv', NEW c \in Caller, GetAccount(c)
  PROVE  DirectoryStep(c) \/ Stutters
<1> DEFINE r == request[c]
           a == accounts[r.email]
<1>0. /\ Steps(c) /\ pc[c] = "getAccount" /\ ~HalfDone(c) /\ UNCHANGED store
      /\ pc \in [Caller -> PC]
  BY DEF Steps, GetAccount, HalfDone, BarInv, TInv, TypeOK
<1>1. r # None /\ AccountsBar[r.email] = a
  <2>1. r.op \in OfAddress
    BY <1>0, OwnFields DEF BarInv, OpsAt
  <2> QED
    BY <1>0, <2>1, Underway
<1>2. ASSUME NEW l \in {"getSettings", "setAccount", "deleteKey", "setRecord"}, Goto(c, l)
      PROVE  Stutters
  <2>1. ~HalfDone(c)'
    BY <1>0, <1>2 DEF Goto, HalfDone
  <2> QED
    BY <1>0, <1>2, <2>1, GoingOn
<1>3. ASSUME NEW x, Return(c, x)
      PROVE  D!Settle(c, x) /\ UNCHANGED <<AccountsBar, settings, records>>
  BY <1>0, <1>3, Answering DEF store
<1>4. CASE Refused(a, r) /\ Return(c, "failed")
  <2>1. D!Fail(c, r)
    BY <1>1, <1>3, <1>4 DEF D!Fail, D!LogsIn, D!directory, Refused, LogsIn
  <2> QED
    BY <1>1, <2>1 DEF DirectoryStep
<1>5. CASE r.op = "authenticate" /\ ~Refused(a, r) /\ Return(c, a.webId)
  <2>1. D!Look(c, r)
    BY <1>1, <1>3, <1>5 DEF D!Look, D!LogsIn, D!directory, Refused, LogsIn
  <2> QED
    BY <1>1, <2>1 DEF DirectoryStep
<1>6. CASE r.op = "deleteAccount" /\ a = None /\ Return(c, "ok")
  <2>1. D!Look(c, r)
    BY <1>1, <1>3, <1>6 DEF D!Look, D!directory
  <2> QED
    BY <1>1, <2>1 DEF DirectoryStep
<1> QED
  BY <1>2, <1>4, <1>5, <1>6 DEF GetAccount

LEMMA DirectoryGetSettings ==
  ASSUME BarInv, BarInv', NEW c \in Caller, GetSettings(c)
  PROVE  DirectoryStep(c) \/ Stutters
<1> DEFINE r == request[c]
<1>0. /\ Steps(c) /\ pc[c] = "getSettings" /\ ~HalfDone(c) /\ UNCHANGED store
      /\ pc \in [Caller -> PC]
  BY DEF Steps, GetSettings, HalfDone, BarInv, TInv, TypeOK
<1>1. r # None /\ r.op \in {"create", "updateSettings", "getSettings"}
  BY <1>0, OwnFields, Underway DEF BarInv, OpsAt
<1>2. CASE \/ Goto(c, "setAccount")
           \/ r.op = "updateSettings" /\ Goto(c, "setSettings")
  <2>1. ~HalfDone(c)'
    BY <1>0, <1>2 DEF Goto, HalfDone
  <2> QED
    BY <1>0, <1>2, <2>1, GoingOn
<1>3. ASSUME NEW x, Return(c, x)
      PROVE  D!Settle(c, x) /\ UNCHANGED <<AccountsBar, settings, records>>
  BY <1>0, <1>3, Answering DEF store
<1>4. CASE Return(c, "failed")
           /\ ((r.op = "create" /\ settings[r.webId] # None)
               \/ (r.op # "create" /\ settings[r.webId] = None))
  <2>1. D!Fail(c, r)
    BY <1>1, <1>3, <1>4 DEF D!Fail, D!directory
  <2> QED
    BY <1>1, <2>1 DEF DirectoryStep
<1>5. CASE r.op = "getSettings" /\ settings[r.webId] # None /\ Return(c, settings[r.webId])
  <2>1. D!Look(c, r)
    BY <1>3, <1>5 DEF D!Look, D!directory
  <2> QED
    BY <1>1, <2>1 DEF DirectoryStep
<1> QED
  BY <1>2, <1>4, <1>5 DEF GetSettings, WebIdTaken

(* The account of a create does not count yet.                             *)
LEMMA DirectorySetAccount ==
  ASSUME BarInv, BarInv', NEW c \in Caller, SetAccount(c)
  PROVE  DirectoryStep(c) \/ Stutters
<1> DEFINE r == request[c]
           a == accounts[r.email]
<1>0. /\ Steps(c) /\ pc[c] = "setAccount" /\ ~HalfDone(c) /\ Apart(c) /\ TInv
      /\ pc \in [Caller -> PC] /\ accounts \in [Email -> Account \cup {None}]
      /\ accounts' = [accounts EXCEPT ![r.email] = payload[c]]
      /\ settings' = settings /\ records' = records
  BY DEF Steps, SetAccount, HalfDone, BarInv, TInv, TypeOK, ApartInv
<1>1. /\ r.op \in {"create", "verify", "changePassword"}
      /\ r.email \in Addresses(c) /\ r.email \in Email
  BY <1>0, OwnFields DEF OpsAt, OfAddress
<1>2. /\ r # None /\ AccountsBar[r.email] = a
      /\ \A e : OwnAccount(c, e) = accounts[e]
  BY <1>0, <1>1, Underway DEF OfAddress
<1>3. CASE r.op = "create"
  <2>1. pc'[c] = "setSettings" /\ request' = request /\ answer' = answer
    BY <1>0, <1>3 DEF SetAccount, SettingsFollow, Goto
  <2>2. a = None
    BY <1>0, <1>3 DEF Apart, AccountKnown
  <2>3. ASSUME NEW e \in Addresses(c) PROVE OwnAccount(c, e)' = OwnAccount(c, e)
    <3>1. e \in Email
      BY AsksAssumption DEF Addresses, Request
    <3>2. CASE e = r.email
      BY <3>2, <2>1, <2>2, <1>2, <1>3 DEF OwnAccount, CreatingOwn
    <3>3. CASE e # r.email
      <4>1. accounts'[e] = accounts[e]
        BY <3>1, <3>3, <1>0
      <4> QED
        BY <4>1, <3>3, <2>1, <1>2 DEF OwnAccount, CreatingOwn, DeletingOwn
    <3> QED
      BY <3>2, <3>3
  <2>4. AccountsBar' = AccountsBar
    BY <2>3, <1>0, BarsStay
  <2> QED
    BY <2>1, <2>4, <1>0 DEF Stutters
<1>4. CASE r.op # "create"
  <2>1. Return(c, "ok")
    BY <1>0, <1>4 DEF SetAccount, SettingsFollow
  <2>2. a # None /\ payload[c] = Changed(a, r)
    BY <1>0, <1>4 DEF Apart, AccountKnown
  <2>3. D!Settle(c, "ok") /\ \A e : OwnAccount(c, e)' = accounts'[e]
    BY <2>1, <1>0, BarAnswered
  <2>4. AccountsBar' = [AccountsBar EXCEPT ![r.email] = Changed(a, r)]
    <3>1. \A e \in Addresses(c) :
             OwnAccount(c, e)' = IF e = r.email THEN Changed(a, r) ELSE OwnAccount(c, e)
      <4>1. \A e \in Addresses(c) : e \in Email
        BY AsksAssumption DEF Addresses, Request
      <4> QED
        BY <4>1, <2>2, <2>3, <1>0, <1>2
    <3> QED
      BY <3>1, <1>0, <1>1, BarsChange
  <2>5. CASE r.op = "verify"
    <3>1. AccountsBar' = [AccountsBar EXCEPT ![r.email].verified = TRUE]
      <4>1. Changed(a, r) = [a EXCEPT !.verified = TRUE]
        BY <2>5 DEF Changed
      <4> QED
        BY <4>1, <2>4, <1>2
    <3>2. D!Verify(c, r)
      BY <3>1, <2>2, <2>3, <2>5, <1>0, <1>2 DEF D!Verify
    <3> QED
      BY <3>2, <1>2 DEF DirectoryStep
  <2>6. CASE r.op = "changePassword"
    <3>1. AccountsBar' = [AccountsBar EXCEPT ![r.email].password = r.password]
      <4>1. Changed(a, r) = [a EXCEPT !.password = r.password]
        BY <2>6 DEF Changed
      <4> QED
        BY <4>1, <2>4, <1>2
    <3>2. D!ChangePassword(c, r)
      BY <3>1, <2>2, <2>3, <2>6, <1>0, <1>2 DEF D!ChangePassword
    <3> QED
      BY <3>2, <1>2 DEF DirectoryStep
  <2> QED
    BY <2>5, <2>6, <1>1, <1>4
<1> QED
  BY <1>3, <1>4

(* The account of a create is there with its settings.                     *)
LEMMA DirectorySetSettings ==
  ASSUME BarInv, BarInv', NEW c \in Caller, SetSettings(c)
  PROVE  DirectoryStep(c)
<1> DEFINE r == request[c]
<1>0. /\ Steps(c) /\ pc[c] = "setSettings" /\ Return(c, "ok") /\ TInv /\ Apart(c)
      /\ settings' = [settings EXCEPT ![r.webId] = r.settings]
      /\ accounts' = accounts /\ records' = records
  BY DEF Steps, SetSettings, BarInv, TInv, ApartInv
<1>1. r.op \in {"create", "updateSettings"} /\ r # None
  BY <1>0, OwnFields, Underway DEF OpsAt
<1>2. D!Settle(c, "ok") /\ \A e : OwnAccount(c, e)' = accounts'[e]
  BY <1>0, BarAnswered
<1>3. CASE r.op = "create"
  <2>1. /\ r.email \in Addresses(c) /\ accounts[r.email] = NewAccount(r)
        /\ AccountsBar[r.email] = None /\ settings[r.webId] = None
        /\ \A e : OwnAccount(c, e) = IF e = r.email THEN AccountsBar[e] ELSE accounts[e]
    <3>1. HalfDone(c)
      BY <1>0, <1>3 DEF HalfDone
    <3> QED
      BY <3>1, <1>3, HalfDoneAccounts
  <2>2. AccountsBar' = [AccountsBar EXCEPT ![r.email] = NewAccount(r)]
    <3>1. \A e \in Addresses(c) :
             OwnAccount(c, e)' = IF e = r.email THEN NewAccount(r) ELSE OwnAccount(c, e)
      BY <2>1, <1>0, <1>2
    <3> QED
      BY <3>1, <2>1, <1>0, BarsChange
  <2>3. D!Create(c, r)
    BY <2>1, <2>2, <1>0, <1>2, <1>3 DEF D!Create, NewAccount
  <2> QED
    BY <2>3, <1>1 DEF DirectoryStep
<1>4. CASE r.op # "create"
  <2>1. ~HalfDone(c)
    BY <1>0, <1>4 DEF HalfDone
  <2>2. settings[r.webId] # None
    BY <1>0, <1>4 DEF Apart, SettingsKnown
  <2>3. AccountsBar' = AccountsBar
    BY <2>1, <1>0, Answering
  <2>4. D!UpdateSettings(c, r)
    BY <2>2, <2>3, <1>0, <1>1, <1>2, <1>4 DEF D!UpdateSettings
  <2> QED
    BY <2>4, <1>1 DEF DirectoryStep
<1> QED
  BY <1>3, <1>4

(* The account that is being deleted still counts.                         *)
LEMMA DirectoryDeleteKey ==
  ASSUME BarInv, BarInv', NEW c \in Caller, DeleteKey(c)
  PROVE  Stutters
<1> DEFINE r == request[c]
<1>0. /\ Steps(c) /\ pc[c] = "deleteKey" /\ ~HalfDone(c) /\ Apart(c) /\ TInv
      /\ Goto(c, "deleteWebId") /\ pc \in [Caller -> PC]
      /\ accounts \in [Email -> Account \cup {None}]
      /\ accounts' = [accounts EXCEPT ![r.email] = None]
      /\ settings' = settings /\ records' = records /\ payload' = payload
  BY DEF Steps, DeleteKey, HalfDone, BarInv, TInv, TypeOK, ApartInv
<1>1. r.op = "deleteAccount"
  BY <1>0, OwnFields DEF OpsAt
<1>2. pc'[c] = "deleteWebId" /\ request' = request /\ answer' = answer
  BY <1>0 DEF Goto
<1>3. payload[c] = accounts[r.email] /\ \A e : OwnAccount(c, e) = accounts[e]
  BY <1>0, Underway DEF Apart, AccountKnown
<1>4. ASSUME NEW e \in Addresses(c) PROVE OwnAccount(c, e)' = OwnAccount(c, e)
  <2>1. e \in Email
    BY AsksAssumption DEF Addresses, Request
  <2>2. CASE e = r.email
    BY <2>2, <1>0, <1>1, <1>2, <1>3 DEF OwnAccount, CreatingOwn, DeletingOwn
  <2>3. CASE e # r.email
    <3>1. accounts'[e] = accounts[e]
      BY <2>1, <2>3, <1>0
    <3> QED
      BY <3>1, <2>3, <1>2, <1>3 DEF OwnAccount, CreatingOwn, DeletingOwn
  <2> QED
    BY <2>2, <2>3
<1>5. AccountsBar' = AccountsBar
  BY <1>4, <1>0, BarsStay
<1> QED
  BY <1>0, <1>2, <1>5 DEF Stutters

(* It is gone with its settings.                                           *)
LEMMA DirectoryDeleteWebId ==
  ASSUME BarInv, BarInv', NEW c \in Caller, DeleteWebId(c)
  PROVE  DirectoryStep(c)
<1> DEFINE r == request[c]
<1>0. /\ Steps(c) /\ pc[c] = "deleteWebId" /\ Return(c, "ok") /\ TInv /\ HalfDone(c)
      /\ settings' = [settings EXCEPT ![payload[c].webId] = None]
      /\ accounts' = accounts /\ records' = records
  BY DEF Steps, DeleteWebId, BarInv, TInv, HalfDone
<1>1. r.op = "deleteAccount" /\ r # None
  BY <1>0, OwnFields, Underway DEF OpsAt
<1>2. /\ r.email \in Addresses(c) /\ accounts[r.email] = None
      /\ AccountsBar[r.email] = payload[c] /\ payload[c] \in Account
      /\ \A e : OwnAccount(c, e) = IF e = r.email THEN AccountsBar[e] ELSE accounts[e]
  BY <1>0, <1>1, HalfDoneAccounts
<1>3. D!Settle(c, "ok") /\ \A e : OwnAccount(c, e)' = accounts'[e]
  BY <1>0, BarAnswered
<1>4. AccountsBar' = [AccountsBar EXCEPT ![r.email] = None]
  <2>1. \A e \in Addresses(c) :
           OwnAccount(c, e)' = IF e = r.email THEN None ELSE OwnAccount(c, e)
    BY <1>0, <1>2, <1>3
  <2> QED
    BY <2>1, <1>0, <1>2, BarsChange
<1>5. AccountsBar[r.email] # None
  BY <1>2, NoneAssumption
<1>6. D!DeleteAccount(c, r)
  BY <1>0, <1>1, <1>2, <1>3, <1>4, <1>5 DEF D!DeleteAccount
<1> QED
  BY <1>1, <1>6 DEF DirectoryStep

LEMMA DirectoryRecords ==
  ASSUME BarInv, BarInv', NEW c \in Caller, SetRecord(c) \/ GetRecord(c) \/ DeleteRecord(c)
  PROVE  DirectoryStep(c)
<1> DEFINE r == request[c]
<1>0. /\ Steps(c) /\ pc[c] \in {"setRecord", "getRecord", "deleteRecord"} /\ ~HalfDone(c)
      /\ TInv /\ Apart(c) /\ accounts' = accounts /\ settings' = settings
  BY DEF Steps, SetRecord, GetRecord, DeleteRecord, HalfDone, BarInv, TInv, ApartInv, store
<1>1. r # None
  BY <1>0, Underway
<1>2. ASSUME NEW x, Return(c, x)
      PROVE  D!Settle(c, x) /\ AccountsBar' = AccountsBar
  BY <1>0, <1>2, Answering
<1>3. CASE SetRecord(c)
  <2>1. r.op = "generateForgotPasswordRecord" /\ AccountsBar[r.email] # None
    <3>1. pc[c] = "setRecord"
      BY <1>3 DEF SetRecord
    <3>2. r.op = "generateForgotPasswordRecord" /\ accounts[r.email] # None
      BY <3>1, <1>0, OwnFields DEF OpsAt, Apart, AccountKnown
    <3>3. AccountsBar[r.email] = accounts[r.email]
      BY <3>1, <3>2, <1>0, Underway DEF OfAddress
    <3> QED
      BY <3>2, <3>3
  <2>2. PICK id \in Record : /\ records[id] = None
                             /\ records' = [records EXCEPT ![id] = r.email]
                             /\ Return(c, id)
    BY <1>3 DEF SetRecord, Unused
  <2>3. D!GenerateRecord(c, r)
    BY <2>1, <2>2, <1>0, <1>2 DEF D!GenerateRecord
  <2> QED
    BY <2>3, <1>1 DEF DirectoryStep
<1>4. CASE GetRecord(c)
  <2>1. r.op = "getForgotPasswordRecord"
    <3>1. pc[c] = "getRecord"
      BY <1>4 DEF GetRecord
    <3> QED
      BY <3>1, <1>0, OwnFields DEF OpsAt
  <2>2. D!Look(c, r)
    BY <2>1, <1>2, <1>4 DEF D!Look, D!directory, GetRecord, store
  <2> QED
    BY <2>2, <1>1 DEF DirectoryStep
<1>5. CASE DeleteRecord(c)
  <2>1. r.op = "deleteForgotPasswordRecord"
    <3>1. pc[c] = "deleteRecord"
      BY <1>5 DEF DeleteRecord
    <3> QED
      BY <3>1, <1>0, OwnFields DEF OpsAt
  <2>2. D!DeleteRecord(c, r)
    BY <2>1, <1>0, <1>2, <1>5 DEF D!DeleteRecord, DeleteRecord
  <2> QED
    BY <2>2, <1>1 DEF DirectoryStep
<1> QED
  BY <1>3, <1>4, <1>5

(* A rejected call tears an account from its settings if it was the second *)
(* write, and is without effect otherwise.                                 *)
LEMMA DirectoryReject ==
  ASSUME BarInv, BarInv', NEW c \in Caller, Reject(c)
  PROVE  DirectoryStep(c)
<1> DEFINE r == request[c]
<1>0. /\ Steps(c) /\ pc[c] # "idle" /\ Return(c, "rejected") /\ TInv
      /\ accounts' = accounts /\ settings' = settings /\ records' = records
  BY DEF Steps, Reject, BarInv, store
<1>1. r # None
  BY <1>0, Underway
<1>2. D!Settle(c, "rejected") /\ \A e : OwnAccount(c, e)' = accounts[e]
  BY <1>0, BarAnswered
<1>3. CASE ~HalfDone(c)
  <2>1. D!Reject(c)
    BY <1>0, <1>3, Answering DEF D!Reject, D!directory
  <2> QED
    BY <2>1, <1>1 DEF DirectoryStep
<1>4. CASE HalfDone(c)
  <2>1. /\ r.email \in Addresses(c) /\ r.op \in {"create", "deleteAccount"}
        /\ \A e : OwnAccount(c, e) = IF e = r.email THEN AccountsBar[e] ELSE accounts[e]
    BY <1>4, HalfDoneAccounts
  <2>2. D!MayTear(r) /\ accounts[r.email] = D!Half(r)
    BY <1>4, <2>1, HalfDoneAccounts, NoneAssumption DEF D!MayTear, D!Half, NewAccount
  <2>3. AccountsBar' = [AccountsBar EXCEPT ![r.email] = D!Half(r)]
    <3>1. \A e \in Addresses(c) :
             OwnAccount(c, e)' = IF e = r.email THEN D!Half(r) ELSE OwnAccount(c, e)
      BY <1>2, <2>1, <2>2
    <3> QED
      BY <3>1, <2>1, <1>0, BarsChange
  <2>4. D!Tear(c, r)
    BY <2>2, <2>3, <1>0, <1>2 DEF D!Tear
  <2> QED
    BY <2>4, <1>1 DEF DirectoryStep
<1> QED
  BY <1>3, <1>4

LEMMA DirectoryAsk ==
  ASSUME BarInv, BarInv', NEW c \in Caller, NEW r \in Asks[c], Call(c, r)
  PROVE  D!Ask(c, r)
<1>1. UNCHANGED store /\ pc[c] = "idle" /\ request[c] = None
  BY DEF Call, BarInv, TInv, CallerInv
<1>2. pc'[c] = FirstCall(r.op) /\ r.op \in Ops
  BY RequestFields DEF Call, BarInv, TInv, TypeOK
<1>3. pc'[c] \notin {"setSettings", "deleteWebId"}
  BY <1>2 DEF FirstCall, Ops
<1>4. AccountsBar' = AccountsBar
  <2>1. \A e \in Addresses(c) : OwnAccount(c, e)' = OwnAccount(c, e)
    BY <1>1, <1>3 DEF OwnAccount, CreatingOwn, DeletingOwn, store
  <2> QED
    BY <2>1, BarsStay
<1> QED
  BY <1>1, <1>4 DEF D!Ask, D!directory, store, Call

(* After a crash the accounts count as what is stored: each that was half  *)
(* created or half deleted is torn from its settings.                      *)
LEMMA DirectoryCrash ==
  ASSUME BarInv, Crash
  PROVE  D!Crash
<1> DEFINE torn == {c \in Caller : HalfDone(c)}
           At(e) == {c \in torn : request[c].email = e}
<1>t. accounts \in [Email -> Account \cup {None}]
  BY DEF BarInv, TInv, TypeOK
<1>1. /\ accounts' = accounts /\ settings' = settings /\ records' = records
      /\ pc' = [c \in Caller |-> "idle"] /\ request' = [c \in Caller |-> None]
      /\ answer' = [c \in Caller |-> None]
  BY DEF Crash, store
<1>2. AccountsBar' = accounts
  <2>1. \A e : CreatingAt(e)' = {} /\ DeletingAt(e)' = {}
    BY <1>1 DEF CreatingAt, DeletingAt
  <2>2. AccountsBar' = [e \in Email |-> accounts'[e]]
    BY <2>1 DEF AccountsBar
  <2> QED
    BY <2>2, <1>1, <1>t
<1>3. ASSUME NEW c \in torn
      PROVE  /\ request[c] # None /\ D!MayTear(request[c])
             /\ request[c].email \in Addresses(c)
             /\ accounts[request[c].email] = D!Half(request[c])
  <2>1. request[c] # None
    BY Underway DEF HalfDone
  <2> QED
    BY <2>1, HalfDoneAccounts, NoneAssumption DEF D!MayTear, D!Half, NewAccount
<1>4. torn \in SUBSET {c \in Caller : request[c] # None /\ D!MayTear(request[c])}
  BY <1>3
<1>5. ASSUME NEW e \in Email
      PROVE  accounts[e] = IF At(e) = {} THEN AccountsBar[e]
                           ELSE D!Half(request[CHOOSE c \in At(e) : TRUE])
  <2>1. CASE At(e) = {}
    <3>1. CreatingAt(e) = {} /\ DeletingAt(e) = {}
      BY <2>1 DEF CreatingAt, DeletingAt, HalfDone
    <3> QED
      BY <2>1, <3>1 DEF AccountsBar
  <2>2. CASE At(e) # {}
    <3> DEFINE c == CHOOSE c \in At(e) : TRUE
    <3>1. c \in At(e)
      BY <2>2
    <3>2. c \in torn /\ request[c].email = e
      BY <3>1
    <3> QED
      BY <2>2, <3>2, <1>3
  <2> QED
    BY <2>1, <2>2
<1>6. accounts = [e \in Email |->
         LET at == {c \in torn : request[c].email = e}
         IN IF at = {} THEN AccountsBar[e] ELSE D!Half(request[CHOOSE c \in at : TRUE])]
  BY <1>5, <1>t
<1> HIDE DEF torn
<1> QED
  BY <1>1, <1>2, <1>4, <1>6 DEF D!Crash

LEMMA DirectoryInit == Init => D!Init
<1> SUFFICES ASSUME Init PROVE D!Init
  OBVIOUS
<1>1. \A e : CreatingAt(e) = {} /\ DeletingAt(e) = {}
  BY DEF Init, CreatingAt, DeletingAt
<1>2. AccountsBar = [e \in Email |-> None]
  BY <1>1 DEF AccountsBar, Init
<1> QED
  BY <1>2 DEF D!Init, Init

LEMMA DirectoryNext ==
  ASSUME BarInv, BarInv', [Next]_vars
  PROVE  [D!Next]_(D!vars)
<1>1. ASSUME NEW c \in Caller, NEW r \in Asks[c], Call(c, r)
      PROVE  D!Next
  <2>1. D!Ask(c, r) /\ r \in UNION {Asks[d] : d \in Caller}
    BY <1>1, DirectoryAsk
  <2> QED
    BY <2>1 DEF D!Next
<1>2. ASSUME NEW c \in Caller, Steps(c)
      PROVE  [D!Next]_(D!vars)
  <2>1. DirectoryStep(c) \/ Stutters
    BY <1>2, DirectoryGetAccount, DirectoryGetSettings, DirectorySetAccount,
       DirectorySetSettings, DirectoryDeleteKey, DirectoryDeleteWebId, DirectoryRecords,
       DirectoryReject DEF Steps
  <2>2. DirectoryStep(c) => D!Next
    BY DEF DirectoryStep, D!Next
  <2>3. Stutters => UNCHANGED D!vars
    BY DEF Stutters, D!vars, D!directory
  <2> QED
    BY <2>1, <2>2, <2>3
<1>3. CASE Expire \/ UNCHANGED vars
  <2>1. UNCHANGED <<accounts, settings, pc, request, payload, answer>>
    BY <1>3 DEF Expire, vars, store
  <2>2. AccountsBar' = AccountsBar
    <3>1. \A e : CreatingAt(e)' = CreatingAt(e) /\ DeletingAt(e)' = DeletingAt(e)
      BY <2>1 DEF CreatingAt, DeletingAt
    <3>2. ASSUME NEW e \in Email PROVE AccountsBar'[e] = AccountsBar[e]
      <4>1. CreatingAt(e)' = CreatingAt(e) /\ DeletingAt(e)' = DeletingAt(e)
        BY <3>1
      <4> QED
        BY <2>1, <4>1 DEF AccountsBar
    <3> QED
      BY <3>2 DEF AccountsBar
  <2>3. CASE Expire
    <3>1. D!Expire
      BY <2>1, <2>2, <2>3 DEF Expire, D!Expire
    <3> QED
      BY <3>1 DEF D!Next
  <2>4. CASE UNCHANGED vars
    BY <2>2, <2>4 DEF vars, store, D!vars, D!directory
  <2> QED
    BY <1>3, <2>3, <2>4
<1>4. CASE Crash
  BY <1>4, DirectoryCrash DEF D!Next
<1> QED
  BY <1>1, <1>2, <1>3, <1>4, NextSteps

(* BehavesAtomically: to callers that keep apart the store is the          *)
(* directory of AccountDirectory, whose every operation happens at once,   *)
(* for any number of them and through rejected calls and crashes at any    *)
(* moment.                                                                 *)
THEOREM ImplementsDirectory ==
  ASSUME KeepApart
  PROVE  Spec => BehavesAtomically
<1>1. TInv /\ ApartInv => BarInv
  BY DEF BarInv
<1>2. BarInv /\ BarInv' /\ [Next]_vars => [D!Next]_(D!vars)
  BY DirectoryNext
<1> QED
  BY <1>1, <1>2, DirectoryInit, KeptApart, PTL DEF Spec, BehavesAtomically, D!Spec

=============================================================================
