------------------------ MODULE RemoteStationsProofs ------------------------
(***************************************************************************)
(* What holds of calls between any number of stations, for any number of   *)
(* rules and of calls, whatever gets lost on the way.                      *)
(***************************************************************************)
EXTENDS RemoteStations, SequenceTheorems, TLAPS

-----------------------------------------------------------------------------
(* Types *)

\* The types of one step's new values, apart from the queues.
LEMMA RequestGrows == ASSUME TypeOK, calls' \in Nat, calls <= calls'
                      PROVE  /\ Seq(Request) \subseteq Seq(Request')
                             /\ Request \subseteq Request'
<1>1. Request \subseteq Request'
  BY DEF Request, TypeOK
<1>2. QED
  BY <1>1

\* A call adds its request to a backlog, or adds nothing.
LEMMA SentType ==
    ASSUME TypeOK, NEW u \in Units, NEW h \in Hosts,
           calls' = calls + 1, calls < MaxCalls,
           Sent([id |-> calls + 1, host |-> h], u) \/ UNCHANGED backlog
    PROVE  backlog' \in [Hosts -> Seq(Request')]
<1>1. calls \in Nat /\ calls' \in Nat /\ calls <= calls'
  BY DEF TypeOK
<1>2. Seq(Request) \subseteq Seq(Request')
  BY <1>1, RequestGrows
<1>3. [id |-> calls + 1, from |-> u] \in Request'
  BY <1>1 DEF Request
<1>4. backlog \in [Hosts -> Seq(Request')]
  BY <1>2 DEF TypeOK
<1>5. Append(backlog[h], [id |-> calls + 1, from |-> u]) \in Seq(Request')
  BY <1>3, <1>4, AppendProperties
<1>6. QED
  BY <1>4, <1>5 DEF Sent

\* Taking a request and running it, or dropping it.
LEMMA LookType ==
    ASSUME TypeOK, NEW h \in Hosts, NEW forms \in SUBSET Forms, Look(h, forms)
    PROVE  /\ backlog' \in [Hosts -> Seq(Request)]
           /\ ran' \in [Hosts -> Seq(Request)]
           /\ answers' \subseteq [to : Units, id : 1..calls, form : Forms]
<1> USE DEF TypeOK
<1>1. PICK k \in DOMAIN backlog[h] :
          /\ Taken(h, backlog[h][k])
          /\ \/ /\ ran' = [ran EXCEPT ![h] = Append(@, backlog[h][k])]
                /\ \E form \in forms : Answered(backlog[h][k], form)
             \/ UNCHANGED <<ran, answers>>
  BY DEF Look
<1>2. backlog[h] \in Seq(Request) /\ ran[h] \in Seq(Request) /\ backlog[h] # <<>>
  BY DEF Look
<1>3. backlog[h][k] \in Request
  BY <1>2
<1>4. Tail(backlog[h]) \in Seq(Request)
  BY <1>2, HeadTailProperties
<1>5. Append(ran[h], backlog[h][k]) \in Seq(Request)
  BY <1>2, <1>3, AppendProperties
<1>6. answers' \subseteq [to : Units, id : 1..calls, form : Forms]
  BY <1>1, <1>3 DEF Answered, Request
<1>7. QED
  BY <1>1, <1>4, <1>5, <1>6 DEF Taken

CallType == [id : 0..calls, host : Hosts \cup {0}]

\* A call that is over leaves the unit in its rules, with or without a success
\* to report.
LEMMA ReturnType ==
    ASSUME TypeOK, NEW u \in Units, NEW answer, pc[u] \in InCall,
           Return(u, answer), UNCHANGED todo
    PROVE  /\ pc' \in [Units -> {"off", "pass", "rule", "connect", "wait", "serve"}]
           /\ todo' \in [Units -> 0..NRules]
           /\ \A v \in Units : todo'[v] > 0 <=> pc'[v] \in InRules
           /\ \A v \in Units : pc'[v] \in InCall => call'[v].host \in Hosts
           /\ call' \in [Units -> CallType]
           /\ report' \in [Units -> CallType]
<1>1. NoCall \in CallType /\ call \in [Units -> CallType] /\ report \in [Units -> CallType]
  BY DEF NoCall, CallType, TypeOK
<1>2. call' \in [Units -> CallType] /\ report' \in [Units -> CallType]
  BY <1>1 DEF Return
<1>3. pc' \in [Units -> {"off", "pass", "rule", "connect", "wait", "serve"}]
  BY DEF TypeOK, Return
<1>4. ASSUME NEW v \in Units PROVE todo'[v] > 0 <=> pc'[v] \in InRules
  BY DEF TypeOK, Return, InRules, InCall
<1>5. todo' \in [Units -> 0..NRules]
  BY DEF TypeOK
<1>6. ASSUME NEW v \in Units, pc'[v] \in InCall PROVE call'[v].host \in Hosts
  BY <1>6 DEF TypeOK, Return, InCall
<1>7. QED
  BY <1>2, <1>3, <1>4, <1>5, <1>6

\* Requests, calls and reports only name calls that were made, and the pass of
\* a unit counts its rules down to the last.
THEOREM TypeCorrect == Spec => []TypeOK
<1> USE BoundAssumption, StationAssumption
<1>1. Init => TypeOK
  BY DEF Init, TypeOK, NoCall, Request, InRules, InCall
<1>2. TypeOK /\ [Next]_vars => TypeOK'
  <2> SUFFICES ASSUME TypeOK, [Next]_vars PROVE TypeOK'
    OBVIOUS
  <2> USE DEF TypeOK
  <2>1. ASSUME NEW u \in Units, Rule_Apply(u) PROVE TypeOK'
    <3>1. PICK n \in {0, NRules} :
              /\ todo' = [todo EXCEPT ![u] = n]
              /\ pc' = [pc EXCEPT ![u] = IF n = 0 THEN "serve" ELSE "rule"]
      BY <2>1 DEF Rule_Apply
    <3>2. todo' \in [Units -> 0..NRules]
      BY <3>1
    <3>3. ASSUME NEW v \in Units PROVE todo'[v] > 0 <=> pc'[v] \in InRules
      BY <2>1, <3>1 DEF Rule_Apply, InRules, InCall
    <3>4. ASSUME NEW v \in Units, pc'[v] \in InCall PROVE call'[v].host \in Hosts
      BY <2>1, <3>1, <3>4 DEF Rule_Apply, InCall
    <3>5. pc' \in [Units -> {"off", "pass", "rule", "connect", "wait", "serve"}]
      BY <3>1
    <3>6. QED
      BY <2>1, <3>2, <3>3, <3>4, <3>5 DEF Rule_Apply, Request
  <2>2. ASSUME NEW u \in Units, RuleEnds(u) PROVE TypeOK'
    <3>1. todo[u] \in 1..NRules
      BY <2>2 DEF RuleEnds, InRules, InCall
    <3>2. todo' \in [Units -> 0..NRules]
      <4>1. todo[u] - 1 \in 0..NRules
        BY <3>1
      <4>2. QED
        BY <2>2, <4>1 DEF RuleEnds
    <3>3. ASSUME NEW v \in Units PROVE todo'[v] > 0 <=> pc'[v] \in InRules
      BY <2>2, <3>1 DEF RuleEnds, InRules, InCall
    <3>4. pc' \in [Units -> {"off", "pass", "rule", "connect", "wait", "serve"}]
      BY <2>2 DEF RuleEnds
    <3>5. ASSUME NEW v \in Units, pc'[v] \in InCall PROVE call'[v].host \in Hosts
      BY <2>2, <3>5 DEF RuleEnds, InCall
    <3>6. QED
      BY <2>2, <3>2, <3>3, <3>4, <3>5, ZenonT(60) DEF RuleEnds, Request
  <2>3. ASSUME NEW u \in Units, ReadAnswer(u) PROVE TypeOK'
    <3>1. PICK answer : Return(u, answer)
      BY <2>3 DEF ReadAnswer
    <3>2. pc[u] \in InCall /\ UNCHANGED todo
      BY <2>3 DEF ReadAnswer, InCall
    <3>3. answers' \subseteq answers
      BY <2>3 DEF ReadAnswer
    <3>4. QED
      BY <2>3, <3>1, <3>2, <3>3, ReturnType, ZenonT(60) DEF ReadAnswer, Request, CallType
  <2>4. ASSUME NEW u \in Units, GiveUp(u) \/ Refused(u) PROVE TypeOK'
    <3>1. Return(u, "no") /\ pc[u] \in InCall /\ UNCHANGED todo
      BY <2>4 DEF GiveUp, Refused, InCall
    <3>2. UNCHANGED <<backlog, answers, ran, calls>>
      BY <2>4 DEF GiveUp, Refused
    <3>3. QED
      BY <3>1, <3>2, ReturnType, ZenonT(60) DEF Request, CallType
  <2>5. ASSUME NEW u \in Units, handleClient(u) PROVE TypeOK'
    <3>1. /\ backlog' \in [Hosts -> Seq(Request)]
          /\ ran' \in [Hosts -> Seq(Request)]
          /\ answers' \subseteq [to : Units, id : 1..calls, form : Forms]
      <4>1. UnitForms \in SUBSET Forms /\ u \in Hosts
        BY DEF UnitForms, Forms, Hosts
      <4>2. QED
        BY <2>5, <4>1, LookType DEF handleClient
    <3>2. Request' = Request
      BY <2>5 DEF handleClient, Request
    <3>3. pc' \in [Units -> {"off", "pass", "rule", "connect", "wait", "serve"}]
      BY <2>5 DEF handleClient
    <3>4. ASSUME NEW v \in Units
          PROVE  /\ todo'[v] > 0 <=> pc'[v] \in InRules
                 /\ pc'[v] \in InCall => call'[v].host \in Hosts
      BY <2>5 DEF handleClient, InRules, InCall
    <3>5. report' \in [Units -> CallType]
      <4>1. NoCall \in CallType /\ report \in [Units -> CallType]
        BY DEF NoCall, CallType
      <4>2. QED
        BY <2>5, <4>1 DEF handleClient
    <3>6. todo' = todo /\ call' = call /\ calls' = calls
      BY <2>5 DEF handleClient
    <3>7. QED
      BY <3>1, <3>2, <3>3, <3>4, <3>5, <3>6 DEF CallType
  <2>6. ASSUME NEW u \in Units, Connected(u) PROVE TypeOK'
    <3> DEFINE h == call[u].host
    <3>0. h \in Hosts
      BY <2>6 DEF Connected, InCall
    <3>1. calls' = calls + 1 /\ calls < MaxCalls /\ calls \in Nat
      BY <2>6 DEF Connected
    <3>2. backlog' \in [Hosts -> Seq(Request')]
      <4>1. Sent([id |-> calls + 1, host |-> h], u) \/ UNCHANGED backlog
        BY <2>6 DEF Connected
      <4>2. QED
        BY <3>0, <3>1, <4>1, SentType
    <3>3. ran' \in [Hosts -> Seq(Request')]
      <4>1. Seq(Request) \subseteq Seq(Request')
        BY <3>1, RequestGrows
      <4>2. ran' = ran
        BY <2>6 DEF Connected
      <4>3. QED
        BY <4>1, <4>2
    <3>4. answers' \subseteq [to : Units, id : 1..calls', form : Forms]
      BY <2>6, <3>1 DEF Connected
    <3>5. calls' \in 0..MaxCalls
      BY <3>1
    <3>6. /\ pc' = [pc EXCEPT ![u] = "wait"] /\ pc[u] = "connect"
          /\ call' = [call EXCEPT ![u] = [id |-> calls + 1, host |-> h]]
          /\ report' = report /\ todo' = todo
      BY <2>6 DEF Connected
    <3>7. \A v \in Units : todo'[v] > 0 <=> pc'[v] \in InRules
      BY <3>6 DEF InRules, InCall
    <3>8. call' \in [Units -> CallType'] /\ report' \in [Units -> CallType']
      BY <3>0, <3>1, <3>6 DEF CallType
    <3>9. \A v \in Units : pc'[v] \in InCall => call'[v].host \in Hosts
      BY <3>0, <3>6 DEF InCall
    <3>10. QED
      BY <3>2, <3>3, <3>4, <3>5, <3>6, <3>7, <3>8, <3>9 DEF CallType
  <2>12. ASSUME NEW u \in Units, NEW h \in Hosts, Call(u, h) PROVE TypeOK'
    <3>1. \A v \in Units : todo'[v] > 0 <=> pc'[v] \in InRules
      BY <2>12 DEF Call, InRules, InCall
    <3>2. call' \in [Units -> CallType] /\ report' \in [Units -> CallType]
      BY <2>12 DEF Call, NoCall, CallType
    <3>3. \A v \in Units : pc'[v] \in InCall => call'[v].host \in Hosts
      BY <2>12 DEF Call, InCall
    <3>4. QED
      BY <2>12, <3>1, <3>2, <3>3 DEF Call, CallType, Request
  <2>7. ASSUME NEW u \in Units, PowerLoss(u) PROVE TypeOK'
    <3>1. \A v \in Units : todo'[v] > 0 <=> pc'[v] \in InRules
      BY <2>7 DEF PowerLoss, InRules, InCall
    <3>2. call' \in [Units -> CallType] /\ report' \in [Units -> CallType]
      BY <2>7 DEF PowerLoss, NoCall, CallType
    <3>3. backlog' \in [Hosts -> Seq(Request)]
      BY <2>7 DEF PowerLoss, Hosts
    <3>4. pc' \in [Units -> {"off", "pass", "rule", "connect", "wait", "serve"}]
      BY <2>7 DEF PowerLoss
    <3>5. todo' \in [Units -> 0..NRules]
      BY <2>7 DEF PowerLoss
    <3>6. answers' \subseteq answers /\ ran' = ran /\ calls' = calls
      BY <2>7 DEF PowerLoss
    <3>8. ASSUME NEW v \in Units, pc'[v] \in InCall PROVE call'[v].host \in Hosts
      BY <2>7, <3>8 DEF PowerLoss, InCall
    <3>7. QED
      BY <3>1, <3>2, <3>3, <3>4, <3>5, <3>6, <3>8 DEF Request, CallType
  <2>8. ASSUME NEW u \in Units, Boot(u) PROVE TypeOK'
    BY <2>8 DEF Boot, Request, InRules, InCall
  <2>9. ASSUME NEW h \in Others, OtherAnswers(h) PROVE TypeOK'
    <3>1. /\ backlog' \in [Hosts -> Seq(Request)]
          /\ ran' \in [Hosts -> Seq(Request)]
          /\ answers' \subseteq [to : Units, id : 1..calls, form : Forms]
      BY <2>9, LookType DEF OtherAnswers, Hosts
    <3>2. QED
      BY <2>9, <3>1 DEF OtherAnswers, Request
  <2>10. CASE UNCHANGED vars
    BY <2>10 DEF vars, Request
  <2>11. QED
    BY <2>1, <2>2, <2>3, <2>4, <2>5, <2>6, <2>7, <2>8, <2>9, <2>10, <2>12
       DEF Next, Pass
<1>3. QED
  BY <1>1, <1>2, PTL DEF Spec

-----------------------------------------------------------------------------
(* Order *)

\* What a station has run and what it holds is in the order of the calls.
InOrder(h) ==
    /\ \A i, j \in DOMAIN ran[h] : i < j => ran[h][i].id < ran[h][j].id
    /\ \A i, j \in DOMAIN backlog[h] : i < j => backlog[h][i].id < backlog[h][j].id
    /\ \A i \in DOMAIN ran[h], j \in DOMAIN backlog[h] : ran[h][i].id < backlog[h][j].id
AllInOrder == \A h \in Hosts : InOrder(h)

\* The elements of the two queues are requests of calls that were made.
LEMMA QueueTypes ==
    ASSUME TypeOK, NEW h \in Hosts
    PROVE  /\ ran[h] \in Seq(Request) /\ backlog[h] \in Seq(Request)
           /\ \A i \in DOMAIN ran[h] : ran[h][i].id \in 1..calls
           /\ \A i \in DOMAIN backlog[h] : backlog[h][i].id \in 1..calls
<1>1. ran[h] \in Seq(Request) /\ backlog[h] \in Seq(Request)
  BY DEF TypeOK
<1>2. ASSUME NEW q \in Seq(Request), NEW i \in DOMAIN q PROVE q[i].id \in 1..calls
  <2>1. q[i] \in Request
    OBVIOUS
  <2>2. QED
    BY <2>1 DEF Request
<1>3. QED
  BY <1>1, <1>2

\* A new call has a greater number than all that were made before.
LEMMA SentInOrder ==
    ASSUME TypeOK, AllInOrder, NEW u \in Units, NEW h \in Hosts,
           Sent([id |-> calls + 1, host |-> h], u) \/ UNCHANGED backlog, UNCHANGED ran
    PROVE  AllInOrder'
<1> SUFFICES ASSUME NEW g \in Hosts PROVE InOrder(g)'
  BY DEF AllInOrder
<1>1. CASE backlog'[g] = backlog[g]
  BY <1>1 DEF AllInOrder, InOrder
<1>2. CASE backlog'[g] # backlog[g]
  <2> DEFINE r == [id |-> calls + 1, from |-> u]
             n == Len(backlog[g])
  <2>1. backlog'[g] = Append(backlog[g], r)
    BY <1>2 DEF Sent, TypeOK
  <2>2. backlog[g] \in Seq(Request) /\ calls \in Nat
    BY DEF TypeOK
  <2>3. /\ DOMAIN backlog'[g] = 1..(n + 1)
        /\ \A i \in 1..n : backlog'[g][i] = backlog[g][i]
        /\ backlog'[g][n + 1] = r
    BY <2>1, <2>2
  <2>4. DOMAIN backlog[g] = 1..n /\ n \in Nat
    BY <2>2
  <2>5. /\ \A i \in DOMAIN ran[g] : ran[g][i].id \in 1..calls
        /\ \A i \in 1..n : backlog[g][i].id \in 1..calls
    BY <2>4, QueueTypes
  <2>6. InOrder(g)
    BY DEF AllInOrder
  <2> HIDE DEF n
  <2>7. ASSUME NEW i \in 1..(n + 1), NEW j \in 1..(n + 1), i < j
        PROVE  backlog'[g][i].id < backlog'[g][j].id
    <3>1. i \in 1..n /\ backlog[g][i].id \in 1..calls
      BY <2>4, <2>5, <2>7
    <3>2. CASE j = n + 1
      BY <2>2, <2>3, <3>1, <3>2
    <3>3. CASE j \in 1..n
      BY <2>3, <2>4, <2>6, <2>7, <3>1, <3>3 DEF InOrder
    <3>4. QED
      BY <2>4, <3>2, <3>3
  <2>8. ASSUME NEW i \in DOMAIN ran[g], NEW j \in 1..(n + 1)
        PROVE  ran[g][i].id < backlog'[g][j].id
    <3>1. ran[g][i].id \in 1..calls
      BY <2>5
    <3>2. CASE j = n + 1
      BY <2>2, <2>3, <3>1, <3>2
    <3>3. CASE j \in 1..n
      BY <2>3, <2>4, <2>6, <3>3 DEF InOrder
    <3>4. QED
      BY <2>4, <3>2, <3>3
  <2>9. DOMAIN ran'[g] = DOMAIN ran[g] /\ \A i \in DOMAIN ran[g] : ran'[g][i] = ran[g][i]
    OBVIOUS
  <2>10. QED
    BY <2>3, <2>6, <2>7, <2>8, <2>9 DEF InOrder
<1>3. QED
  BY <1>1, <1>2

\* The first of the backlog is greater than all that were run and smaller than
\* the rest.
LEMMA LookInOrder ==
    ASSUME TypeOK, AllInOrder, NEW h \in Hosts, NEW forms, Look(h, forms)
    PROVE  AllInOrder'
<1> SUFFICES ASSUME NEW g \in Hosts PROVE InOrder(g)'
  BY DEF AllInOrder
<1>1. PICK k \in DOMAIN backlog[h] :
          /\ Taken(h, backlog[h][k])
          /\ ran' = [ran EXCEPT ![h] = Append(@, backlog[h][k])] \/ UNCHANGED ran
  BY DEF Look
<1>2. CASE g # h
  BY <1>1, <1>2 DEF AllInOrder, InOrder, Taken, TypeOK
<1>3. CASE g = h
  <2> DEFINE r == backlog[h][k]
             n == Len(backlog[h])
             m == Len(ran[h])
  <2>1. ran[h] \in Seq(Request) /\ backlog[h] \in Seq(Request) /\ backlog[h] # <<>>
    BY QueueTypes DEF Look
  <2>2. r = backlog[h][1] /\ backlog'[h] = Tail(backlog[h])
    BY <1>1, <2>1 DEF Taken, TypeOK
  <2>3. n \in Nat \ {0} /\ m \in Nat /\ DOMAIN backlog[h] = 1..n /\ DOMAIN ran[h] = 1..m
    BY <2>1
  <2>4. /\ DOMAIN backlog'[h] = 1..(n - 1)
        /\ \A i \in 1..(n - 1) : backlog'[h][i] = backlog[h][i + 1]
    BY <2>1, <2>2, HeadTailProperties
  <2>5. /\ \A i \in 1..m : ran[h][i].id \in Int
        /\ \A i \in 1..n : backlog[h][i].id \in Int
    <3>1. \A q \in Request : q.id \in Int
      BY DEF Request, TypeOK
    <3>2. ASSUME NEW i \in 1..m PROVE ran[h][i] \in Request
      BY <2>1, <2>3
    <3>3. ASSUME NEW i \in 1..n PROVE backlog[h][i] \in Request
      BY <2>1, <2>3
    <3>4. QED
      BY <3>1, <3>2, <3>3
  <2>6. InOrder(h)
    BY DEF AllInOrder
  <2>7. \/ ran'[h] = ran[h]
        \/ /\ DOMAIN ran'[h] = 1..(m + 1)
           /\ \A i \in 1..m : ran'[h][i] = ran[h][i]
           /\ ran'[h][m + 1] = r
    <3>1. CASE ran' = [ran EXCEPT ![h] = Append(@, r)]
      <4>1. ran'[h] = Append(ran[h], r)
        BY <3>1 DEF TypeOK
      <4>2. r \in Request
        BY <2>1
      <4>3. QED
        BY <2>1, <4>1, <4>2, AppendProperties
    <3>2. QED
      BY <1>1, <3>1
  <2> HIDE DEF n, m
  <2>8. ASSUME NEW i \in 1..(n - 1), NEW j \in 1..(n - 1), i < j
        PROVE  backlog'[h][i].id < backlog'[h][j].id
    <3>1. i + 1 \in 1..n /\ j + 1 \in 1..n /\ i + 1 < j + 1
      BY <2>3, <2>8
    <3>2. backlog'[h][i] = backlog[h][i + 1] /\ backlog'[h][j] = backlog[h][j + 1]
      BY <2>4
    <3>3. QED
      BY <2>3, <2>6, <3>1, <3>2 DEF InOrder
  <2>9. ASSUME NEW i \in 1..m, NEW j \in 1..(n - 1)
         PROVE  ran[h][i].id < backlog'[h][j].id
    <3>1. j + 1 \in 1..n
      BY <2>3
    <3>2. QED
      BY <2>3, <2>4, <2>6, <3>1 DEF InOrder
  <2>10. CASE ran'[h] = ran[h]
    <3>1. \A i, j \in DOMAIN ran'[h] : i < j => ran'[h][i].id < ran'[h][j].id
      BY <2>6, <2>10 DEF InOrder
    <3>2. \A i, j \in DOMAIN backlog'[h] : i < j => backlog'[h][i].id < backlog'[h][j].id
      BY <2>4, <2>8
    <3>3. \A i \in DOMAIN ran'[h], j \in DOMAIN backlog'[h] : ran'[h][i].id < backlog'[h][j].id
      BY <2>3, <2>4, <2>9, <2>10
    <3>4. QED
      BY <1>3, <3>1, <3>2, <3>3 DEF InOrder
  <2>11. CASE /\ DOMAIN ran'[h] = 1..(m + 1)
              /\ \A i \in 1..m : ran'[h][i] = ran[h][i]
              /\ ran'[h][m + 1] = r
    <3>1. ASSUME NEW i \in 1..(m + 1), NEW j \in 1..(m + 1), i < j
          PROVE  ran'[h][i].id < ran'[h][j].id
      <4>1. i \in 1..m
        BY <2>3, <3>1
      <4>2. CASE j = m + 1
        <5>1. 1 \in 1..n
          BY <2>3
        <5>2. ran[h][i].id < backlog[h][1].id
          BY <2>3, <2>6, <4>1, <5>1 DEF InOrder
        <5>3. QED
          BY <2>2, <2>11, <4>1, <4>2, <5>2
      <4>3. CASE j \in 1..m
        BY <2>3, <2>6, <2>11, <3>1, <4>1, <4>3 DEF InOrder
      <4>4. QED
        BY <2>3, <4>2, <4>3
    <3>2. ASSUME NEW i \in 1..(m + 1), NEW j \in 1..(n - 1)
          PROVE  ran'[h][i].id < backlog'[h][j].id
      <4>1. CASE i = m + 1
        <5>1. 1 \in 1..n /\ j + 1 \in 1..n /\ 1 < j + 1
          BY <2>3
        <5>2. backlog[h][1].id < backlog[h][j + 1].id
          BY <2>3, <2>6, <5>1 DEF InOrder
        <5>3. QED
          BY <2>2, <2>4, <2>11, <4>1, <5>2
      <4>2. CASE i \in 1..m
        BY <2>11, <2>9, <4>2
      <4>3. QED
        BY <2>3, <4>1, <4>2
    <3>3. QED
      BY <1>3, <2>4, <2>8, <2>11, <3>1, <3>2 DEF InOrder
  <2>12. QED
    BY <2>7, <2>10, <2>11
<1>4. QED
  BY <1>2, <1>3

\* Every station runs what it is sent at most once and in the order of the calls.
THEOREM RunsInOrder == Spec => []RunOnceInOrder
<1>1. Init => AllInOrder
  BY DEF Init, AllInOrder, InOrder
<1>2. TypeOK /\ AllInOrder /\ [Next]_vars => AllInOrder'
  <2> SUFFICES ASSUME TypeOK, AllInOrder, [Next]_vars PROVE AllInOrder'
    OBVIOUS
  <2>1. ASSUME UNCHANGED <<backlog, ran>> PROVE AllInOrder'
    BY <2>1 DEF AllInOrder, InOrder
  <2>2. ASSUME NEW u \in Units,
               \/ Rule_Apply(u) \/ RuleEnds(u) \/ \E h \in Hosts : Call(u, h)
               \/ Refused(u) \/ ReadAnswer(u) \/ GiveUp(u) \/ Boot(u)
        PROVE  AllInOrder'
    BY <2>1, <2>2 DEF Rule_Apply, RuleEnds, Call, Refused, ReadAnswer, GiveUp, Boot
  <2>3. ASSUME NEW u \in Units, handleClient(u) PROVE AllInOrder'
    BY <2>1, <2>3, LookInOrder DEF handleClient, Hosts
  <2>4. ASSUME NEW u \in Units, Connected(u) PROVE AllInOrder'
    <3>1. call[u].host \in Hosts
      BY <2>4 DEF Connected, TypeOK, InCall
    <3>2. QED
      BY <2>4, <3>1, SentInOrder DEF Connected
  <2>5. ASSUME NEW u \in Units, PowerLoss(u) PROVE AllInOrder'
    BY <2>5 DEF PowerLoss, AllInOrder, InOrder, TypeOK
  <2>6. ASSUME NEW h \in Others, OtherAnswers(h) PROVE AllInOrder'
    BY <2>6, LookInOrder DEF OtherAnswers, Hosts
  <2>7. QED
    BY <2>1, <2>2, <2>3, <2>4, <2>5, <2>6 DEF Next, Pass, vars
<1>3. AllInOrder => RunOnceInOrder
  BY DEF AllInOrder, InOrder, RunOnceInOrder
<1>4. QED
  BY <1>1, <1>2, <1>3, TypeCorrect, PTL DEF Spec

-----------------------------------------------------------------------------
(* Success *)

\* The numbers of the calls that a station has run or holds.
Ids(q) == {q[i].id : i \in DOMAIN q}
Seen(h) == Ids(ran[h]) \cup Ids(backlog[h])

\* No station but the one called has seen the call that a unit waits for.
Addressed ==
    \A u \in Units, h \in Hosts :
        pc[u] = "wait" /\ h # call[u].host => call[u].id \notin Seen(h)

\* What stands in an answer, and in a report of success, was run.
WasRun(u, n, h) == \E k \in DOMAIN ran[h] : ran[h][k] = [id |-> n, from |-> u]
AnswersRan == \A a \in answers : \E h \in Hosts : WasRun(a.to, a.id, h)
ReportsRan ==
    \A u \in Units : report[u] # NoCall =>
        report[u].host \in Hosts /\ WasRun(u, report[u].id, report[u].host)

\* To look at a request moves it, at most, from one queue to the other, and
\* adds to what was run; an answer is to a request that was run.
LEMMA LookMoves ==
    ASSUME TypeOK, NEW h \in Hosts, NEW forms, Look(h, forms)
    PROVE  /\ \A g \in Hosts : Seen(g)' \subseteq Seen(g)
           /\ \A g \in Hosts, u \in Units : \A n : WasRun(u, n, g) => WasRun(u, n, g)'
           /\ AnswersRan => AnswersRan'
<1>0. PICK k \in DOMAIN backlog[h] :
          /\ Taken(h, backlog[h][k])
          /\ \/ /\ ran' = [ran EXCEPT ![h] = Append(@, backlog[h][k])]
                /\ \E form \in forms : Answered(backlog[h][k], form)
             \/ UNCHANGED <<ran, answers>>
  BY DEF Look
<1>1. PICK r : /\ r = backlog[h][k]
               /\ Taken(h, r)
               /\ \/ /\ ran' = [ran EXCEPT ![h] = Append(@, r)]
                     /\ \E form \in forms : Answered(r, form)
                  \/ UNCHANGED <<ran, answers>>
  BY <1>0
<1> DEFINE n == Len(backlog[h])
           m == Len(ran[h])
<1>2. ran[h] \in Seq(Request) /\ backlog[h] \in Seq(Request) /\ backlog[h] # <<>>
  BY QueueTypes DEF Look
<1>3. r \in Request /\ r = [id |-> r.id, from |-> r.from]
  <2>1. r \in Request
    BY <1>1, <1>2
  <2>2. QED
    BY <2>1 DEF Request
<1>4. Ids(backlog'[h]) \subseteq Ids(backlog[h])
  <2>1. backlog'[h] = Tail(backlog[h])
    BY <1>1 DEF Taken, TypeOK
  <2>2. n \in Nat \ {0} /\ DOMAIN backlog[h] = 1..n
    BY <1>2
  <2>3. /\ DOMAIN backlog'[h] = 1..(n - 1)
        /\ \A i \in 1..(n - 1) : backlog'[h][i] = backlog[h][i + 1]
    BY <1>2, <2>1, HeadTailProperties
  <2> HIDE DEF n
  <2>4. ASSUME NEW i \in 1..(n - 1) PROVE backlog'[h][i].id \in Ids(backlog[h])
    <3>1. i + 1 \in DOMAIN backlog[h]
      BY <2>2
    <3>2. QED
      BY <2>3, <3>1 DEF Ids
  <2>5. QED
    BY <2>3, <2>4 DEF Ids
<1>5. \A g \in Hosts : g # h => backlog'[g] = backlog[g]
  BY <1>1 DEF Taken, TypeOK
<1>6. CASE UNCHANGED <<ran, answers>>
  <2>1. ASSUME NEW g \in Hosts PROVE Seen(g)' \subseteq Seen(g)
    <3>1. CASE g = h
      <4>1. Seen(h)' = Ids(ran[h]) \cup Ids(backlog'[h])
        BY <1>6 DEF Seen, Ids
      <4>2. QED
        BY <1>4, <3>1, <4>1 DEF Seen
    <3>2. CASE g # h
      BY <1>5, <1>6, <3>2 DEF Seen, Ids
    <3>3. QED
      BY <3>1, <3>2
  <2>2. QED
    BY <1>6, <2>1 DEF WasRun, AnswersRan
<1>7. CASE /\ ran' = [ran EXCEPT ![h] = Append(@, r)]
           /\ \E form \in forms : Answered(r, form)
  <2>1. \A g \in Hosts : g # h => ran'[g] = ran[g]
    BY <1>7 DEF TypeOK
  <2>2. /\ DOMAIN ran[h] = 1..m /\ DOMAIN ran'[h] = 1..(m + 1) /\ m \in Nat
        /\ \A i \in 1..m : ran'[h][i] = ran[h][i]
        /\ ran'[h][m + 1] = r
    <3>1. ran'[h] = Append(ran[h], r)
      BY <1>7 DEF TypeOK
    <3>2. QED
      BY <1>2, <1>3, <3>1, AppendProperties
  <2> HIDE DEF m
  <2>3. Ids(ran'[h]) \subseteq Ids(ran[h]) \cup {r.id} /\ r.id \in Ids(backlog[h])
    <3>1. ASSUME NEW i \in 1..(m + 1) PROVE ran'[h][i].id \in Ids(ran[h]) \cup {r.id}
      <4>1. CASE i = m + 1
        BY <2>2, <4>1
      <4>2. CASE i \in 1..m
        <5>1. i \in DOMAIN ran[h] /\ ran'[h][i] = ran[h][i]
          BY <2>2, <4>2
        <5>2. QED
          BY <5>1 DEF Ids
      <4>3. QED
        BY <2>2, <3>1, <4>1, <4>2
    <3>2. Ids(ran'[h]) \subseteq Ids(ran[h]) \cup {r.id}
      BY <2>2, <3>1 DEF Ids
    <3>3. QED
      BY <1>1, <3>2 DEF Ids
  <2>4. ASSUME NEW g \in Hosts PROVE Seen(g)' \subseteq Seen(g)
    <3>1. CASE g # h
      BY <1>5, <2>1, <3>1 DEF Seen, Ids
    <3>2. CASE g = h
      <4>1. Seen(h)' = Ids(ran'[h]) \cup Ids(backlog'[h])
        BY DEF Seen, Ids
      <4>2. QED
        BY <1>4, <2>3, <3>2, <4>1 DEF Seen
    <3>3. QED
      BY <3>1, <3>2
  <2>5. ASSUME NEW g \in Hosts, NEW u \in Units, NEW i, WasRun(u, i, g)
        PROVE  WasRun(u, i, g)'
    BY <2>1, <2>2, <2>5 DEF WasRun
  <2>6. WasRun(r.from, r.id, h)'
    <3>1. m + 1 \in DOMAIN ran'[h] /\ ran'[h][m + 1] = [id |-> r.id, from |-> r.from]
      BY <1>3, <2>2
    <3>2. QED
      BY <3>1 DEF WasRun
  <2>7. ASSUME AnswersRan, NEW a \in answers' PROVE \E g \in Hosts : WasRun(a.to, a.id, g)'
    <3>1. CASE a \in answers
      <4>1. a.to \in Units
        BY <3>1 DEF TypeOK
      <4>2. QED
        BY <2>5, <2>7, <3>1, <4>1 DEF AnswersRan
    <3>2. CASE a \notin answers
      <4>1. a.to = r.from /\ a.id = r.id
        BY <1>7, <2>7, <3>2 DEF Answered
      <4>2. QED
        BY <2>6, <4>1
    <3>3. QED
      BY <3>1, <3>2
  <2>8. QED
    BY <2>4, <2>5, <2>7 DEF AnswersRan
<1>8. QED
  BY <1>1, <1>6, <1>7

\* A new call is seen by the station it names, and is later than all seen.
LEMMA SentIsNew ==
    ASSUME TypeOK, NEW u \in Units, NEW h \in Hosts,
           Sent([id |-> calls + 1, host |-> h], u) \/ UNCHANGED backlog, UNCHANGED ran
    PROVE  /\ \A g \in Hosts : calls + 1 \notin Seen(g)
           /\ \A g \in Hosts : Seen(g)' \subseteq Seen(g) \cup {calls + 1}
           /\ \A g \in Hosts : g # h => Seen(g)' = Seen(g)
<1>1. ASSUME NEW g \in Hosts PROVE calls + 1 \notin Seen(g)
  <2>1. Ids(ran[g]) \subseteq 1..calls /\ Ids(backlog[g]) \subseteq 1..calls
    BY QueueTypes DEF Ids
  <2>2. QED
    BY <2>1 DEF Seen, TypeOK
<1>2. ASSUME NEW g \in Hosts, g # h PROVE Seen(g)' = Seen(g)
  BY <1>2 DEF Sent, TypeOK, Seen, Ids
<1>3. Seen(h)' \subseteq Seen(h) \cup {calls + 1}
  <2> DEFINE r == [id |-> calls + 1, from |-> u]
             n == Len(backlog[h])
  <2>1. CASE UNCHANGED backlog
    BY <2>1 DEF Seen, Ids
  <2>2. CASE backlog' = [backlog EXCEPT ![h] = Append(@, r)]
    <3>1. backlog'[h] = Append(backlog[h], r) /\ backlog[h] \in Seq(Request)
      BY <2>2 DEF TypeOK
    <3>2. /\ n \in Nat /\ DOMAIN backlog[h] = 1..n /\ DOMAIN backlog'[h] = 1..(n + 1)
          /\ \A i \in 1..n : backlog'[h][i] = backlog[h][i]
          /\ backlog'[h][n + 1] = r
      BY <3>1
    <3> HIDE DEF n
    <3>3. ASSUME NEW i \in 1..(n + 1)
          PROVE  backlog'[h][i].id \in Ids(backlog[h]) \cup {calls + 1}
      BY <3>2 DEF Ids
    <3>4. QED
      BY <3>2, <3>3 DEF Seen, Ids
  <2>3. QED
    BY <2>1, <2>2 DEF Sent
<1>4. QED
  BY <1>1, <1>2, <1>3

\* A rule is told of success only when the station it named has run this call.
THEOREM SuccessIsTrue == Spec => []SuccessWasRun
<1> DEFINE Inv == Addressed /\ AnswersRan /\ ReportsRan
<1>1. Init => Inv
  BY DEF Init, Addressed, AnswersRan, ReportsRan, NoCall
<1>2. TypeOK /\ Inv /\ [Next]_vars => Inv'
  <2> SUFFICES ASSUME TypeOK, Inv, [Next]_vars PROVE Inv'
    OBVIOUS
  <2>1. ASSUME NEW u \in Units, \/ Rule_Apply(u) \/ RuleEnds(u) \/ \E h \in Hosts : Call(u, h)
                                \/ Refused(u) \/ GiveUp(u) \/ Boot(u)
        PROVE  Inv'
    <3>1. UNCHANGED <<backlog, answers, ran>>
      BY <2>1 DEF Rule_Apply, RuleEnds, Call, Refused, GiveUp, Boot
    <3>2. \A v \in Units : pc'[v] = "wait" => pc[v] = "wait" /\ call'[v] = call[v]
      BY <2>1 DEF Rule_Apply, RuleEnds, Call, Refused, GiveUp, Boot, Return, TypeOK
    <3>3. \A v \in Units : report'[v] # NoCall => report'[v] = report[v]
      BY <2>1 DEF Rule_Apply, RuleEnds, Call, Refused, GiveUp, Boot, Return, TypeOK
    <3>4. QED
      BY <3>1, <3>2, <3>3 DEF Addressed, AnswersRan, ReportsRan, WasRun, Seen, Ids
  <2>2. ASSUME NEW u \in Units, ReadAnswer(u) PROVE Inv'
    <3>1. PICK a \in Readable(u) :
              /\ \E answer \in Understood(a.form) : Return(u, answer)
              /\ answers' = answers \ {a}
      BY <2>2 DEF ReadAnswer
    <3>2. UNCHANGED <<backlog, ran>> /\ pc[u] = "wait"
      BY <2>2 DEF ReadAnswer
    <3>3. \A v \in Units : pc'[v] = "wait" => pc[v] = "wait" /\ call'[v] = call[v]
      BY <2>2 DEF ReadAnswer, Return, TypeOK
    <3>4. call[u].host \in Hosts /\ WasRun(u, call[u].id, call[u].host)
      <4>1. a \in answers /\ a.to = u /\ a.id = call[u].id
        BY DEF Readable
      <4>2. PICK h \in Hosts : WasRun(u, call[u].id, h)
        BY <4>1 DEF AnswersRan
      <4>3. call[u].id \in Seen(h)
        BY <4>2 DEF WasRun, Seen, Ids
      <4>4. h = call[u].host
        BY <3>2, <4>3 DEF Addressed
      <4>5. QED
        BY <4>2, <4>4
    <3>5. ASSUME NEW v \in Units, report'[v] # NoCall
          PROVE  report'[v].host \in Hosts /\ WasRun(v, report'[v].id, report'[v].host)
      <4>1. CASE v = u
        <5>1. report'[u] = call[u]
          BY <3>1, <3>5, <4>1 DEF Return, TypeOK
        <5>2. QED
          BY <3>4, <4>1, <5>1
      <4>2. CASE v # u
        <5>1. report'[v] = report[v]
          BY <3>1, <4>2 DEF Return, TypeOK
        <5>2. QED
          BY <3>5, <5>1 DEF ReportsRan
      <4>3. QED
        BY <4>1, <4>2
    <3>6. Addressed' /\ AnswersRan'
      BY <3>1, <3>2, <3>3 DEF Addressed, AnswersRan, WasRun, Seen, Ids
    <3>7. QED
      BY <3>2, <3>5, <3>6 DEF ReportsRan, WasRun
  <2>3. ASSUME NEW h \in Hosts, NEW forms, Look(h, forms), UNCHANGED call,
               \A v \in Units : pc'[v] = "wait" => pc[v] = "wait",
               \A v \in Units : report'[v] # NoCall => report'[v] = report[v]
        PROVE  Inv'
    <3>1. Addressed'
      BY <2>3, LookMoves DEF Addressed
    <3>2. AnswersRan'
      BY <2>3, LookMoves
    <3>3. ASSUME NEW v \in Units, report'[v] # NoCall
          PROVE  \E g \in Hosts : \E n :
                    /\ n = report'[v].id /\ g = report'[v].host
                    /\ \E k \in DOMAIN ran'[g] : ran'[g][k] = [id |-> n, from |-> v]
      <4>1. report'[v] = report[v]
        BY <2>3, <3>3
      <4>2. PICK n, g : /\ n = report[v].id /\ g = report[v].host
                        /\ g \in Hosts /\ WasRun(v, n, g)
        BY <3>3, <4>1 DEF ReportsRan
      <4>3. WasRun(v, n, g)'
        BY <2>3, <4>2, LookMoves
      <4>4. report'[v].id = n /\ report'[v].host = g
        BY <4>1, <4>2
      <4>5. \E k \in DOMAIN ran'[g] : ran'[g][k] = [id |-> n, from |-> v]
        BY <4>3 DEF WasRun
      <4>6. QED
        BY <4>2, <4>4, <4>5
    <3>4. ReportsRan'
      BY <3>3 DEF ReportsRan, WasRun
    <3>5. QED
      BY <3>1, <3>2, <3>4
  <2>4. ASSUME NEW u \in Units, handleClient(u) PROVE Inv'
    <3>1. /\ \A v \in Units : pc'[v] = "wait" => pc[v] = "wait"
          /\ \A v \in Units : report'[v] # NoCall => report'[v] = report[v]
          /\ UNCHANGED call
      BY <2>4 DEF handleClient, NoCall, TypeOK
    <3>2. CASE Look(u, UnitForms)
      BY <2>3, <3>1, <3>2 DEF Hosts
    <3>3. CASE UNCHANGED <<backlog, ran, answers>>
      BY <3>1, <3>3 DEF Addressed, AnswersRan, ReportsRan, WasRun, Seen, Ids
    <3>4. QED
      BY <2>4, <3>2, <3>3 DEF handleClient
  <2>5. ASSUME NEW u \in Units, Connected(u) PROVE Inv'
    <3> DEFINE h == call[u].host
    <3>1. /\ UNCHANGED <<answers, ran, report>>
          /\ call' = [call EXCEPT ![u] = [id |-> calls + 1, host |-> h]]
          /\ pc' = [pc EXCEPT ![u] = "wait"]
      BY <2>5 DEF Connected
    <3>2. h \in Hosts /\ (Sent([id |-> calls + 1, host |-> h], u) \/ UNCHANGED backlog)
      BY <2>5 DEF Connected, TypeOK, InCall
    <3> HIDE DEF h
    <3>3. ASSUME NEW v \in Units, NEW g \in Hosts, pc'[v] = "wait", g # call'[v].host
          PROVE  call'[v].id \notin Seen(g)'
      <4>1. calls \in Nat /\ call[v].id \in 0..calls
        BY DEF TypeOK
      <4>2. CASE v # u
        <5>1. pc[v] = "wait" /\ call'[v] = call[v]
          BY <3>1, <3>3, <4>2 DEF TypeOK
        <5>2. call[v].id \notin Seen(g) /\ call[v].id # calls + 1
          BY <3>3, <4>1, <5>1 DEF Addressed
        <5>3. QED
          BY <3>1, <3>2, <5>1, <5>2, SentIsNew
      <4>3. CASE v = u
        <5>1. call'[u] = [id |-> calls + 1, host |-> h]
          BY <3>1 DEF TypeOK
        <5>2. QED
          BY <3>1, <3>2, <3>3, <4>3, <5>1, SentIsNew
      <4>4. QED
        BY <4>2, <4>3
    <3>4. Addressed'
      BY <3>3 DEF Addressed
    <3>5. QED
      BY <3>1, <3>2, <3>4 DEF AnswersRan, ReportsRan, WasRun
  <2>6. ASSUME NEW u \in Units, PowerLoss(u) PROVE Inv'
    <3>1. UNCHANGED ran /\ answers' \subseteq answers
      BY <2>6 DEF PowerLoss
    <3>2. \A v \in Units : pc'[v] = "wait" => pc[v] = "wait" /\ call'[v] = call[v]
      BY <2>6 DEF PowerLoss, TypeOK
    <3>3. \A v \in Units : report'[v] # NoCall => report'[v] = report[v]
      BY <2>6 DEF PowerLoss, TypeOK
    <3>4. \A h \in Hosts : Seen(h)' \subseteq Seen(h)
      BY <2>6 DEF PowerLoss, TypeOK, Seen, Ids
    <3>5. QED
      BY <3>1, <3>2, <3>3, <3>4 DEF Addressed, AnswersRan, ReportsRan, WasRun
  <2>7. ASSUME NEW h \in Others, OtherAnswers(h) PROVE Inv'
    BY <2>3, <2>7 DEF OtherAnswers, Hosts
  <2>8. CASE UNCHANGED vars
    BY <2>8 DEF vars, Addressed, AnswersRan, ReportsRan, WasRun, Seen, Ids
  <2>9. QED
    BY <2>1, <2>2, <2>4, <2>5, <2>6, <2>7, <2>8 DEF Next, Pass
<1>3. Inv => SuccessWasRun
  BY DEF ReportsRan, WasRun, SuccessWasRun
<1>4. QED
  BY <1>1, <1>2, <1>3, TypeCorrect, PTL DEF Spec
=============================================================================
