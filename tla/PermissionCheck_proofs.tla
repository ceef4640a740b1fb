----------------------- MODULE PermissionCheck_proofs -----------------------
(***************************************************************************)
(* Proofs about PermissionCheck, for any credential groups, modes, readers *)
(* and answers.                                                            *)
(***************************************************************************)
EXTENDS PermissionCheck, SequenceTheorems, TLAPS

(* What a permission says about a mode.                                    *)
Yes(p, m) == m \in DOMAIN p /\ p[m] = TRUE
No(p, m) == m \in DOMAIN p /\ p[m] = FALSE

LEMMA EmptyType == Empty \in Permission /\ Empty \in PermissionSet
<1>1. Empty \in [{} -> BOOLEAN] /\ Empty \in [{} -> Permission]
  BY DEF Empty
<1> QED
  BY <1>1 DEF Permission, PermissionSet

LEMMA PermissionDomain ==
  ASSUME NEW p
  PROVE  /\ p \in Permission <=> DOMAIN p \in SUBSET Mode /\ p \in [DOMAIN p -> BOOLEAN]
         /\ p \in PermissionSet <=> DOMAIN p \in SUBSET Group /\ p \in [DOMAIN p -> Permission]
BY DEF Permission, PermissionSet

(* applyPermissions_ of two permissions: a no of either is a no, a yes of  *)
(* either is a yes unless the other says no.                               *)
LEMMA ApplyRule ==
  ASSUME NEW value \in Permission, NEW result \in Permission
  PROVE  /\ ApplyPermissions(value, result) \in Permission
         /\ \A m \in Mode :
              /\ No(ApplyPermissions(value, result), m) <=> No(value, m) \/ No(result, m)
              /\ Yes(ApplyPermissions(value, result), m) <=>
                    /\ Yes(value, m) \/ Yes(result, m)
                    /\ ~No(value, m) /\ ~No(result, m)
<1> DEFINE p == ApplyPermissions(value, result)
<1>1. /\ DOMAIN value \in SUBSET Mode /\ value \in [DOMAIN value -> BOOLEAN]
      /\ DOMAIN result \in SUBSET Mode /\ result \in [DOMAIN result -> BOOLEAN]
  BY PermissionDomain
<1>2. DOMAIN p = DOMAIN value \cup DOMAIN result
  BY DEF ApplyPermissions
<1>3. ASSUME NEW m \in DOMAIN p
      PROVE  p[m] = IF m \in DOMAIN value /\ ~Kept(result, m) THEN value[m] ELSE result[m]
  BY <1>3 DEF ApplyPermissions
<1>4. ASSUME NEW m \in DOMAIN p PROVE p[m] \in BOOLEAN
  BY <1>1, <1>2, <1>3, <1>4 DEF Kept
<1>5. p \in Permission
  <2>1. p \in [DOMAIN p -> BOOLEAN]
    BY <1>4 DEF ApplyPermissions
  <2> QED
    BY <1>1, <1>2, <2>1, PermissionDomain
<1> HIDE DEF p
<1>6. ASSUME NEW m \in Mode
      PROVE  /\ No(p, m) <=> No(value, m) \/ No(result, m)
             /\ Yes(p, m) <=> /\ Yes(value, m) \/ Yes(result, m)
                              /\ ~No(value, m) /\ ~No(result, m)
  BY <1>1, <1>2, <1>3 DEF Yes, No, Kept
<1> QED
  BY <1>5, <1>6 DEF p

(* combine of one more answer: the same rule, group by group.              *)
LEMMA CombineRule ==
  ASSUME NEW a \in PermissionSet, permissions \in PermissionSet
  PROVE  /\ CombinedWith(a) \in PermissionSet
         /\ \A g \in Group, m \in Mode :
              /\ Says(CombinedWith(a), g, m, FALSE) <=>
                    Says(a, g, m, FALSE) \/ Says(permissions, g, m, FALSE)
              /\ Says(CombinedWith(a), g, m, TRUE) <=>
                    /\ Says(a, g, m, TRUE) \/ Says(permissions, g, m, TRUE)
                    /\ ~Says(a, g, m, FALSE) /\ ~Says(permissions, g, m, FALSE)
<1> DEFINE c == CombinedWith(a)
<1>1. /\ DOMAIN a \in SUBSET Group /\ a \in [DOMAIN a -> Permission]
      /\ DOMAIN permissions \in SUBSET Group
      /\ permissions \in [DOMAIN permissions -> Permission]
  BY PermissionDomain
<1>2. DOMAIN c = DOMAIN a \cup DOMAIN permissions
  BY DEF CombinedWith
<1>3. ASSUME NEW g \in DOMAIN c
      PROVE  c[g] = IF g \in DOMAIN a THEN ApplyPermissions(a[g], ResultOf(permissions, g))
                    ELSE permissions[g]
  BY <1>3 DEF CombinedWith
<1>4. ASSUME NEW g \in Group PROVE ResultOf(permissions, g) \in Permission
  BY <1>1, EmptyType DEF ResultOf
<1>5. c \in PermissionSet
  <2>1. ASSUME NEW g \in DOMAIN c PROVE c[g] \in Permission
    <3>1. CASE g \in DOMAIN a
      BY <1>1, <1>3, <1>4, <3>1, ApplyRule
    <3>2. CASE g \notin DOMAIN a
      BY <1>1, <1>2, <1>3, <3>2
    <3> QED
      BY <3>1, <3>2
  <2>2. c \in [DOMAIN c -> Permission]
    BY <2>1 DEF CombinedWith
  <2> QED
    BY <1>1, <1>2, <2>2, PermissionDomain
<1> HIDE DEF c
<1>6. ASSUME NEW g \in Group, NEW m \in Mode
      PROVE  /\ Says(c, g, m, FALSE) <=>
                    Says(a, g, m, FALSE) \/ Says(permissions, g, m, FALSE)
             /\ Says(c, g, m, TRUE) <=>
                    /\ Says(a, g, m, TRUE) \/ Says(permissions, g, m, TRUE)
                    /\ ~Says(a, g, m, FALSE) /\ ~Says(permissions, g, m, FALSE)
  <2>1. CASE g \in DOMAIN a
    <3>1. /\ c[g] = ApplyPermissions(a[g], ResultOf(permissions, g)) /\ g \in DOMAIN c
          /\ a[g] \in Permission /\ ResultOf(permissions, g) \in Permission
      BY <1>1, <1>2, <1>3, <1>4, <2>1
    <3>2. /\ Yes(ResultOf(permissions, g), m) <=> Says(permissions, g, m, TRUE)
          /\ No(ResultOf(permissions, g), m) <=> Says(permissions, g, m, FALSE)
      BY DEF ResultOf, Empty, Yes, No, Says
    <3>3. /\ Yes(a[g], m) <=> Says(a, g, m, TRUE)
          /\ No(a[g], m) <=> Says(a, g, m, FALSE)
          /\ Yes(c[g], m) <=> Says(c, g, m, TRUE)
          /\ No(c[g], m) <=> Says(c, g, m, FALSE)
      BY <2>1, <3>1 DEF Yes, No, Says
    <3>4. /\ No(c[g], m) <=> No(a[g], m) \/ No(ResultOf(permissions, g), m)
          /\ Yes(c[g], m) <=> /\ Yes(a[g], m) \/ Yes(ResultOf(permissions, g), m)
                              /\ ~No(a[g], m) /\ ~No(ResultOf(permissions, g), m)
      BY <3>1, ApplyRule
    <3> HIDE DEF Yes, No, Says
    <3> QED
      BY <3>2, <3>3, <3>4
  <2>2. CASE g \notin DOMAIN a
    <3>1. Says(c, g, m, TRUE) <=> Says(permissions, g, m, TRUE)
      BY <1>2, <1>3, <2>2 DEF Says
    <3>2. Says(c, g, m, FALSE) <=> Says(permissions, g, m, FALSE)
      BY <1>2, <1>3, <2>2 DEF Says
    <3>3. Says(permissions, g, m, TRUE) => ~Says(permissions, g, m, FALSE)
      BY DEF Says
    <3> QED
      BY <2>2, <3>1, <3>2, <3>3 DEF Says
  <2> QED
    BY <2>1, <2>2
<1> QED
  BY <1>5, <1>6 DEF c

(* What holds between the stages of a decision.                            *)
StageInv ==
    /\ pc = "read" => combined = 0 /\ permissions = Empty
    /\ pc = "authorize" => combined = Len(answers)
    /\ outcome = "none" <=> pc # "done"
    /\ pc \in {"read", "combine"} => checked = 0
    /\ \A i \in 1..checked : HasModePermission(request.modes[i])

IInv == TypeOK /\ StageInv /\ CombinedByRule /\ OutcomeFollowsAnswers

LEMMA TokenPermissionsType == TypeOK => TokenPermissions \in PermissionSet
<1> SUFFICES ASSUME TypeOK PROVE TokenPermissions \in PermissionSet
    OBVIOUS
<1>1. TicketModesToPermissions(ticket.modes) \in Permission
  BY DEF TicketModesToPermissions, Permission
<1>2. [g \in {"ticket"} |-> TicketModesToPermissions(ticket.modes)] \in [{"ticket"} -> Permission]
  BY <1>1
<1>3. [{"ticket"} -> Permission] \subseteq PermissionSet
  BY GroupAssumption DEF PermissionSet
<1> QED
  BY <1>2, <1>3, EmptyType DEF TokenPermissions

LEMMA InitInv == Init => IInv
<1> SUFFICES ASSUME Init PROVE IInv
    OBVIOUS
<1>1. request.modes \in Seq(Mode) /\ Len(request.modes) \in Nat
  BY OrderAssumption DEF Init
<1>2. TypeOK
  <2>1. answers \in Seq(PermissionSet) /\ Len(answers) = 0 /\ 0 \in 0..0
    BY DEF Init
  <2>2. 0 \in 0..Len(request.modes)
    BY <1>1
  <2>3. ticket \in [resource : Path \cup {NoPath}, modes : SUBSET Mode] /\ loggedIn \in BOOLEAN
    BY DEF Init
  <2> QED
    BY <2>1, <2>2, <2>3, EmptyType DEF Init, TypeOK
<1>3. StageInv
  BY DEF Init, StageInv
<1>4. CombinedByRule
  BY DEF Init, CombinedByRule, Says, Empty, Permitted, Forbidden
<1>5. OutcomeFollowsAnswers
  BY DEF Init, OutcomeFollowsAnswers
<1> QED
  BY <1>2, <1>3, <1>4, <1>5 DEF IInv

LEMMA InvStep == IInv /\ [Next]_vars => IInv'
<1> SUFFICES ASSUME IInv, [Next]_vars PROVE IInv'
    OBVIOUS
<1>0. TypeOK /\ StageInv /\ CombinedByRule /\ OutcomeFollowsAnswers
  BY DEF IInv
<1>t. /\ request.modes \in Seq(Mode) /\ Len(request.modes) \in Nat
      /\ answers \in Seq(PermissionSet) /\ Len(answers) \in Nat
      /\ combined \in Nat /\ checked \in Nat
  BY <1>0, OrderAssumption DEF TypeOK
<1>1. ASSUME NEW a \in Answer, Read(a) PROVE IInv'
  <2>1. answers' \in Seq(PermissionSet) /\ Len(answers') \in Nat
    BY <1>1, <1>t, AnswerAssumption DEF Read
  <2>2. TypeOK'
    BY <1>0, <1>1, <1>t, <2>1 DEF Read, TypeOK, StageInv
  <2>3. StageInv'
    BY <1>0, <1>1 DEF Read, StageInv, HasModePermission
  <2>4. CombinedByRule'
    BY <1>0, <1>1 DEF Read, StageInv, CombinedByRule, Says, Empty, Permitted, Forbidden
  <2> QED
    BY <1>0, <1>1, <2>2, <2>3, <2>4 DEF Read, IInv, OutcomeFollowsAnswers
<1>2. CASE ReaderFails
  <2>1. TypeOK' /\ StageInv' /\ CombinedByRule'
    BY <1>0, <1>2 DEF ReaderFails, TypeOK, StageInv, CombinedByRule, Permitted, Forbidden,
                      HasModePermission
  <2> QED
    BY <1>2, <2>1 DEF ReaderFails, IInv, OutcomeFollowsAnswers
<1>3. CASE AllRead
  <2>1. PICK n \in 0..Len(answers) :
           answers' = SubSeq(answers, 1, n) \o <<TokenPermissions>>
                          \o SubSeq(answers, n + 1, Len(answers))
    BY <1>3 DEF AllRead
  <2>2. SubSeq(answers, 1, n) \in Seq(PermissionSet)
    BY <1>t, <2>1
  <2>3. SubSeq(answers, n + 1, Len(answers)) \in Seq(PermissionSet)
    BY <1>t, <2>1
  <2>4. answers' \in Seq(PermissionSet) /\ Len(answers') \in Nat
    <3>1. TokenPermissions \in PermissionSet
      BY <1>0, TokenPermissionsType
    <3>2. <<TokenPermissions>> \in Seq(PermissionSet)
      BY <3>1
    <3> HIDE DEF PermissionSet
    <3>3. SubSeq(answers, 1, n) \o <<TokenPermissions>> \in Seq(PermissionSet)
      BY <2>2, <3>2
    <3>4. answers' \in Seq(PermissionSet)
      BY <2>1, <2>3, <3>3
    <3> QED
      BY <3>4
  <2>5. combined = 0 /\ combined' = 0 /\ permissions' = Empty /\ checked' = 0
    BY <1>0, <1>3 DEF AllRead, StageInv
  <2>6. TypeOK'
    <3>1. combined' \in 0..Len(answers')
      BY <2>4, <2>5
    <3> QED
      BY <1>0, <1>3, <2>4, <3>1 DEF AllRead, TypeOK
  <2>7. StageInv'
    BY <1>0, <1>3, <2>5 DEF AllRead, StageInv
  <2>8. CombinedByRule'
    BY <2>5 DEF CombinedByRule, Says, Empty, Permitted, Forbidden
  <2> QED
    BY <1>3, <2>6, <2>7, <2>8 DEF AllRead, IInv, OutcomeFollowsAnswers
<1>4. CASE Combine
  <2> DEFINE a == answers[combined + 1]
  <2>1. /\ combined + 1 \in 1..Len(answers) /\ a \in PermissionSet
        /\ permissions \in PermissionSet /\ permissions' = CombinedWith(a)
        /\ combined' = combined + 1 /\ answers' = answers
        /\ 1..combined' = 1..combined \cup {combined + 1}
    BY <1>0, <1>4, <1>t DEF Combine, TypeOK
  <2>2. TypeOK'
    <3>1. permissions' \in PermissionSet
      BY <2>1, CombineRule
    <3>2. combined' \in 0..Len(answers')
      BY <1>t, <2>1
    <3> HIDE DEF a
    <3> QED
      BY <1>0, <1>4, <3>1, <3>2 DEF Combine, TypeOK
  <2>3. StageInv'
    BY <1>0, <1>4 DEF Combine, StageInv
  <2>4. CombinedByRule'
    <3> SUFFICES ASSUME NEW g \in Group, NEW m \in Mode
                 PROVE  /\ Says(permissions, g, m, TRUE)' <=> Permitted(g, m)'
                        /\ Says(permissions, g, m, FALSE)' <=> Forbidden(g, m)'
      BY DEF CombinedByRule
    <3>1. Forbidden(g, m)' <=> Forbidden(g, m) \/ Says(a, g, m, FALSE)
      BY <2>1 DEF Forbidden
    <3> QED
      BY <1>0, <2>1, <3>1, CombineRule DEF CombinedByRule, Permitted
  <2> QED
    BY <1>0, <1>4, <2>2, <2>3, <2>4 DEF Combine, IInv, OutcomeFollowsAnswers, StageInv
<1>5. CASE AllCombined
  <2>1. TypeOK' /\ CombinedByRule'
    BY <1>0, <1>5 DEF AllCombined, TypeOK, CombinedByRule, Permitted, Forbidden
  <2>2. StageInv'
    BY <1>0, <1>5 DEF AllCombined, StageInv
  <2> QED
    BY <1>5, <2>1, <2>2 DEF AllCombined, IInv, OutcomeFollowsAnswers
<1>6. CASE RequireModePermission
  <2>1. checked' = checked + 1 /\ checked' \in 0..Len(request'.modes)
        /\ 1..checked' = 1..checked \cup {checked + 1}
    BY <1>6, <1>t DEF RequireModePermission
  <2>2. TypeOK' /\ CombinedByRule'
    BY <1>0, <1>6, <2>1
       DEF RequireModePermission, TypeOK, CombinedByRule, Permitted, Forbidden
  <2>3. ASSUME NEW i \in 1..checked' PROVE HasModePermission(request.modes[i])
    BY <1>0, <1>6, <2>1 DEF RequireModePermission, StageInv
  <2>4. StageInv'
    BY <1>0, <1>6, <2>3 DEF RequireModePermission, StageInv, HasModePermission
  <2> QED
    BY <1>0, <1>6, <2>2, <2>4 DEF RequireModePermission, IInv, OutcomeFollowsAnswers
<1>h. ASSUME NEW m \in Mode, pc = "authorize"
      PROVE  HasModePermission(m) <=> Granted(m)
  BY <1>0 DEF HasModePermission, Granted, CombinedByRule
<1>7. CASE Refuse
  <2>1. TypeOK' /\ CombinedByRule' /\ StageInv'
    BY <1>0, <1>7 DEF Refuse, Refusal, TypeOK, CombinedByRule, Permitted, Forbidden,
                      StageInv, HasModePermission
  <2>2. /\ request.modes[checked + 1] \in Mode /\ Asked(request.modes[checked + 1])
        /\ ~Granted(request.modes[checked + 1])
    BY <1>7, <1>t, <1>h DEF Refuse, Asked
  <2>3. ExposesExistence <=> Granted("read")
    BY <1>7, <1>h, ModeAssumption DEF ExposesExistence, Refuse
  <2>4. OutcomeFollowsAnswers
    BY <1>0
  <2>5. OutcomeFollowsAnswers'
    BY <1>7, <2>2, <2>3 DEF Refuse, Refusal, OutcomeFollowsAnswers, Asked, Granted,
                            Permitted, Forbidden
  <2> QED
    BY <2>1, <2>5 DEF IInv
<1>8. CASE LetThrough
  <2>1. TypeOK' /\ CombinedByRule' /\ StageInv'
    BY <1>0, <1>8 DEF LetThrough, TypeOK, CombinedByRule, Permitted, Forbidden,
                      StageInv, HasModePermission
  <2>2. ASSUME NEW m \in Mode, Asked(m) PROVE Granted(m)
    BY <1>0, <1>8, <1>h, <2>2 DEF LetThrough, Asked, StageInv
  <2>3. OutcomeFollowsAnswers'
    BY <1>8, <2>2 DEF LetThrough, OutcomeFollowsAnswers, Asked, Granted, Permitted, Forbidden
  <2> QED
    BY <2>1, <2>3 DEF IInv
<1>9. CASE UNCHANGED vars
  BY <1>0, <1>9 DEF vars, IInv, TypeOK, StageInv, CombinedByRule, OutcomeFollowsAnswers,
                    HasModePermission, Permitted, Forbidden, Granted, Asked
<1> QED
  BY <1>1, <1>2, <1>3, <1>4, <1>5, <1>6, <1>7, <1>8, <1>9 DEF Next

(* What holds at each stage of the check of a request.                     *)
THEOREM Invariance == Spec => []IInv
<1> QED
  BY InitInv, InvStep, PTL DEF Spec

(* The variables of a decision keep their types.                           *)
THEOREM TypeCorrect == Spec => []TypeOK
<1>1. IInv => TypeOK
  BY DEF IInv
<1> QED
  BY <1>1, Invariance, PTL

(* The union of any number of readers obeys "false > true > undefined" at  *)
(* every step, in whatever order they answer.                              *)
THEOREM UnionByRule == Spec => []CombinedByRule
<1>1. IInv => CombinedByRule
  BY DEF IInv
<1> QED
  BY <1>1, Invariance, PTL

(* The status of the response is a function of what the readers said.      *)
THEOREM OutcomeCorrect == Spec => []OutcomeFollowsAnswers
<1>1. IInv => OutcomeFollowsAnswers
  BY DEF IInv
<1> QED
  BY <1>1, Invariance, PTL

-----------------------------------------------------------------------------
(* Where the answers come from: the other readers' are the only ones until *)
(* all are read, and a token for another resource adds nothing to them.    *)
AnswersInv ==
    /\ pc = "read" => answers \in Seq(Answer)
    /\ ticket.resource # request.identifier => answers \in Seq(Answer \cup {Empty})

LEMMA AnswersStep == AnswersInv /\ TypeOK /\ [Next]_vars => AnswersInv'
<1> SUFFICES ASSUME AnswersInv, TypeOK, [Next]_vars PROVE AnswersInv'
    OBVIOUS
<1>1. ASSUME NEW a \in Answer, Read(a) PROVE AnswersInv'
  <2>1. answers' \in Seq(Answer)
    BY <1>1 DEF Read, AnswersInv
  <2>2. answers' \in Seq(Answer \cup {Empty})
    BY <2>1
  <2> QED
    BY <2>1, <2>2 DEF AnswersInv
<1>2. CASE AllRead
  <2>1. PICK n \in 0..Len(answers) :
           answers' = SubSeq(answers, 1, n) \o <<TokenPermissions>>
                          \o SubSeq(answers, n + 1, Len(answers))
    BY <1>2 DEF AllRead
  <2>2. ASSUME ticket.resource # request.identifier
        PROVE  answers' \in Seq(Answer \cup {Empty})
    <3> DEFINE S == Answer \cup {Empty}
    <3>1. answers \in Seq(S)
      BY <2>2 DEF AnswersInv
    <3>2. TokenPermissions \in S
      BY <2>2 DEF TokenPermissions, TokenApplies
    <3> HIDE DEF S
    <3>3. <<TokenPermissions>> \in Seq(S)
      BY <3>2
    <3>4. SubSeq(answers, 1, n) \in Seq(S) /\ SubSeq(answers, n + 1, Len(answers)) \in Seq(S)
      BY <3>1, <2>1
    <3>5. SubSeq(answers, 1, n) \o <<TokenPermissions>> \in Seq(S)
      BY <3>3, <3>4
    <3>6. answers' \in Seq(S)
      BY <2>1, <3>4, <3>5
    <3> QED
      BY <3>6 DEF S
  <2> QED
    BY <1>2, <2>2 DEF AllRead, AnswersInv
<1>3. CASE ReaderFails \/ Combine \/ AllCombined \/ RequireModePermission \/ Refuse \/ LetThrough
  BY <1>3 DEF ReaderFails, Combine, AllCombined, RequireModePermission, Refuse, LetThrough,
              AnswersInv
<1>4. CASE UNCHANGED vars
  BY <1>4 DEF vars, AnswersInv
<1> QED
  BY <1>1, <1>2, <1>3, <1>4 DEF Next

(* A ticket for another resource lets nobody through: each mode asked for  *)
(* is permitted by one of the other readers.                               *)
THEOREM ForeignTicketsAreWorthless == Spec => []ForeignTicketIsWorthless
<1>1. Init => AnswersInv
  BY DEF Init, AnswersInv
<1>2. IInv /\ AnswersInv => ForeignTicketIsWorthless
  <2> SUFFICES ASSUME IInv, AnswersInv, outcome = "200", ticket.resource # request.identifier,
                      NEW m \in Mode, Asked(m)
               PROVE  \E i \in 1..Len(answers), g \in Group :
                         Says(answers[i], g, m, TRUE) /\ answers[i] \in Answer
    BY DEF ForeignTicketIsWorthless
  <2>1. pc = "done" /\ OutcomeFollowsAnswers
    BY DEF IInv, StageInv, TypeOK
  <2>2. Granted(m)
    BY <2>1 DEF OutcomeFollowsAnswers
  <2>3. PICK g \in Group, i \in 1..combined : Says(answers[i], g, m, TRUE)
    BY <2>2 DEF Granted, Permitted
  <2>4. answers \in Seq(Answer \cup {Empty}) /\ combined \in 0..Len(answers)
    BY DEF AnswersInv, IInv, TypeOK
  <2>5. i \in 1..Len(answers) /\ answers[i] \in Answer \cup {Empty}
    BY <2>4
  <2>6. answers[i] # Empty
    BY <2>3 DEF Says, Empty
  <2> QED
    BY <2>3, <2>5, <2>6
<1>3. IInv => TypeOK
  BY DEF IInv
<1> QED
  BY <1>1, <1>2, <1>3, AnswersStep, Invariance, PTL DEF Spec

=============================================================================
