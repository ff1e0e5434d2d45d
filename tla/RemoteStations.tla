--------------------------- MODULE RemoteStations ---------------------------
(***************************************************************************)
(* Units that command each other.  A rule of a unit may call another       *)
(* station of the network, with apicom (API_command) to have a command     *)
(* run or with apiget (API_get) to be told a value.  The call is made      *)
(* from within Rule_Apply and waits for the answer, so that the caller     *)
(* itself answers nobody for as long; a unit answers one request in each   *)
(* pass of loop(), after its rules.  A rule is a program: it may call as   *)
(* often as it likes before it ends, and need not end.                     *)
(*                                                                         *)
(* Requests and answers may be lost, a caller that has waited long enough  *)
(* gives up while its request may still lie with the other station, and    *)
(* units lose their power.  Each call has a connection of its own: calls   *)
(* that get one are numbered here in the order in which they connect.      *)
(***************************************************************************)
EXTENDS Integers, Sequences

CONSTANTS
    Units,          \* stations with this firmware
    Others,         \* other stations of the network, e.g. an OpenSprinkler
    NRules,         \* rules of a unit
    MaxCalls        \* bound: connections in all; attempts are not bounded

ASSUME StationAssumption == Units \cap Others = {} /\ 0 \notin Units \cup Others
ASSUME BoundAssumption == NRules \in Nat /\ MaxCalls \in Nat

Hosts == Units \cup Others

VARIABLES
    pc,             \* where the loop of each unit is
    todo,           \* rules that this pass has still to run
    call,           \* the call a unit makes and waits for, or NoCall
    backlog,        \* requests a station has received and not looked at
    answers,        \* answers that arrived on a connection and were not read
    report,         \* the call whose success a rule was told last, or NoCall
    ran,            \* history: the requests a station has run, in order
    calls           \* number of connections so far

vars == <<pc, todo, call, backlog, answers, report, ran, calls>>

NoCall == [id |-> 0, host |-> 0]

Init ==
    /\ pc = [u \in Units |-> "pass"]
    /\ todo = [u \in Units |-> 0]
    /\ call = [u \in Units |-> NoCall]
    /\ backlog = [h \in Hosts |-> <<>>]
    /\ answers = {}
    /\ report = [u \in Units |-> NoCall]
    /\ ran = [h \in Hosts |-> <<>>]
    /\ calls = 0

-----------------------------------------------------------------------------
(* The loop of a unit: rules, then the web server. *)

\* Rule_Apply: when a minute has passed, all rules.
Rule_Apply(u) ==
    /\ pc[u] = "pass"
    /\ \E n \in {0, NRules} :
          /\ todo' = [todo EXCEPT ![u] = n]
          /\ pc' = [pc EXCEPT ![u] = IF n = 0 THEN "serve" ELSE "rule"]
    /\ UNCHANGED <<call, backlog, answers, report, ran, calls>>

\* Mutants: the pass ends after the rules; one rule more is run.
RuleEnds_ends(u) ==
    /\ pc[u] = "rule"
    /\ todo' = [todo EXCEPT ![u] = @ - 1]
    /\ pc' = [pc EXCEPT ![u] = IF todo[u] = 1 THEN "pass" ELSE "rule"]
    /\ UNCHANGED <<call, backlog, answers, report, ran, calls>>

RuleEnds_one_more(u) ==
    /\ pc[u] = "rule"
    /\ todo' = [todo EXCEPT ![u] = @ - 1]
    /\ pc' = [pc EXCEPT ![u] = IF todo[u] = 0 THEN "serve" ELSE "rule"]
    /\ UNCHANGED <<call, backlog, answers, report, ran, calls>>

\* The rule that runs is over: on to the next, or past the last of them.
RuleEnds(u) ==
    /\ pc[u] = "rule"
    /\ todo' = [todo EXCEPT ![u] = @ - 1]
    /\ pc' = [pc EXCEPT ![u] = IF todo[u] = 1 THEN "serve" ELSE "rule"]
    /\ UNCHANGED <<call, backlog, answers, report, ran, calls>>

\* The rule that runs calls station h: API_command and API_get connect first.
Call(u, h) ==
    /\ pc[u] = "rule"
    /\ h # u
    /\ pc' = [pc EXCEPT ![u] = "connect"]
    /\ call' = [call EXCEPT ![u] = [id |-> 0, host |-> h]]
    /\ report' = [report EXCEPT ![u] = NoCall]
    /\ UNCHANGED <<todo, backlog, answers, ran, calls>>

\* The call is over, and the rule goes on.
Return(u, answer) ==
    /\ pc' = [pc EXCEPT ![u] = "rule"]
    /\ call' = [call EXCEPT ![u] = NoCall]
    /\ report' = [report EXCEPT ![u] = IF answer = "yes" THEN call[u] ELSE NoCall]

\* "connection failed", which ends the call with 0.
Refused(u) ==
    /\ pc[u] = "connect"
    /\ Return(u, "no")
    /\ UNCHANGED <<todo, backlog, answers, ran, calls>>

Sent(c, u) == backlog' = [backlog EXCEPT ![c.host] = Append(@, [id |-> c.id, from |-> u])]

\* The connection holds and the request is sent; it may be lost all the same.
Connected(u) ==
    LET c == [id |-> calls + 1, host |-> call[u].host] IN
    /\ pc[u] = "connect"
    /\ calls < MaxCalls
    /\ c.host \in Units => pc[c.host] # "off"
    /\ calls' = c.id
    /\ Sent(c, u) \/ UNCHANGED backlog
    /\ pc' = [pc EXCEPT ![u] = "wait"]
    /\ call' = [call EXCEPT ![u] = c]
    /\ UNCHANGED <<todo, answers, report, ran>>

\* Mutant: one connection for all calls of the unit.
Readable_shared(u) == {a \in answers : a.to = u}

\* What client.available() sees: what has arrived on this call's connection.
Readable(u) == {a \in answers : a.to = u /\ a.id = call[u].id}

(* Of an answer it matters only whether it has what the caller looks for:  *)
(* for apicom a ':' with a '1' behind it, for apiget the value of a name,  *)
(* "yes".  All else is "no", also what apiget returns when the name is not *)
(* there, which is whatever its variable held.  The answer is read as far  *)
(* as it has arrived by now, so a "yes" may be missed.                     *)
Forms == {"found", "other"}
Understood(form) == IF form = "found" THEN {"yes", "no"} ELSE {"no"}

ReadAnswer(u) ==
    /\ pc[u] = "wait"
    /\ \E a \in Readable(u) :
          /\ \E answer \in Understood(a.form) : Return(u, answer)
          /\ answers' = answers \ {a}
    /\ UNCHANGED <<todo, backlog, ran, calls>>

\* Mutant: the loop waits for as long as nothing arrives.
GiveUp_never(u) == FALSE /\ UNCHANGED vars

\* 240 times 100 ms, or 60 times 500 ms, and nothing has arrived.  An answer
\* that arrives during the last of them is not read any more.
GiveUp(u) ==
    /\ pc[u] = "wait"
    /\ Return(u, "no")
    /\ UNCHANGED <<todo, backlog, answers, ran, calls>>

-----------------------------------------------------------------------------
(* Requests *)

Waiting(u, id) == pc[u] = "wait" /\ call[u].id = id

\* The answer goes to the connection of the request, even when the caller has
\* given up, which API_command does without closing it; or it is lost.
Answered(r, form) ==
    \/ answers' = answers \cup {[to |-> r.from, id |-> r.id, form |-> form]}
    \/ UNCHANGED answers

\* Mutant: what came last is looked at first.
Taken_last(h, r) ==
    LET n == Len(backlog[h]) IN
    /\ r = backlog[h][n]
    /\ backlog' = [backlog EXCEPT ![h] = SubSeq(@, 1, n - 1)]

\* WiFiServer hands out its clients in the order in which they connected.
Taken(h, r) == r = Head(backlog[h]) /\ backlog' = [backlog EXCEPT ![h] = Tail(@)]

\* A station looks at a request: it runs it and answers or, when the caller
\* has given up and closed, may have dropped it.
Look(h, forms) ==
    /\ backlog[h] # <<>>
    /\ \E k \in DOMAIN backlog[h] : LET r == backlog[h][k] IN
          /\ Taken(h, r)
          /\ \/ /\ ran' = [ran EXCEPT ![h] = Append(@, r)]
                /\ \E form \in forms : Answered(r, form)
             \/ /\ ~Waiting(r.from, r.id)
                /\ UNCHANGED <<ran, answers>>

\* handleRunOnce answers "{result=0}", with the byte 1 for the 0: no ':' and no
\* pair of name and value.
UnitForms == {"other"}

\* server.handleClient() at the end of the pass: one request, if there is one.
handleClient(u) ==
    /\ pc[u] = "serve"
    /\ pc' = [pc EXCEPT ![u] = "pass"]
    /\ report' = [report EXCEPT ![u] = NoCall]
    /\ \/ Look(u, UnitForms)
       \/ backlog[u] = <<>> /\ UNCHANGED <<backlog, ran, answers>>
    /\ UNCHANGED <<todo, call, calls>>

\* Another station, at any time, with any answer.
OtherAnswers(h) == Look(h, Forms) /\ UNCHANGED <<pc, todo, call, report, calls>>

\* Power fails: what others have sent to the unit is gone, and so are its
\* connections; what it has sent may still be run.
PowerLoss(u) ==
    /\ pc[u] # "off"
    /\ pc' = [pc EXCEPT ![u] = "off"]
    /\ todo' = [todo EXCEPT ![u] = 0]
    /\ call' = [call EXCEPT ![u] = NoCall]
    /\ backlog' = [backlog EXCEPT ![u] = <<>>]
    /\ answers' = {a \in answers : a.to # u}
    /\ report' = [report EXCEPT ![u] = NoCall]
    /\ UNCHANGED <<ran, calls>>

Boot(u) ==
    /\ pc[u] = "off"
    /\ pc' = [pc EXCEPT ![u] = "pass"]
    /\ UNCHANGED <<todo, call, backlog, answers, report, ran, calls>>

\* The steps of a unit's own loop.
Pass(u) ==
    \/ Rule_Apply(u)
    \/ RuleEnds(u)
    \/ \E h \in Hosts : Call(u, h)
    \/ Refused(u) \/ Connected(u)
    \/ ReadAnswer(u) \/ GiveUp(u)
    \/ handleClient(u)

Next ==
    \/ \E u \in Units :
          \/ Pass(u)
          \/ PowerLoss(u)
          \/ Boot(u)
    \/ \E h \in Others : OtherAnswers(h)

Spec == Init /\ [][Next]_vars

\* The loop of a unit goes on, in whatever way its rules have it go; nothing is
\* assumed of the rules, of the network, of other stations or of power.
Fairness == \A u \in Units : WF_vars(Pass(u))
FairSpec == Spec /\ Fairness

-----------------------------------------------------------------------------
InCall == {"connect", "wait"}
InRules == {"rule"} \cup InCall
Request == [id : 1..calls, from : Units]

\* Types of the variables; rules are counted down to the last of the pass, and
\* a unit in a call calls somebody.
TypeOK ==
    /\ pc \in [Units -> {"off", "pass", "rule", "connect", "wait", "serve"}]
    /\ todo \in [Units -> 0..NRules]
    /\ \A u \in Units : todo[u] > 0 <=> pc[u] \in InRules
    /\ \A u \in Units : pc[u] \in InCall => call[u].host \in Hosts
    /\ call \in [Units -> [id : 0..calls, host : Hosts \cup {0}]]
    /\ backlog \in [Hosts -> Seq(Request)]
    /\ answers \subseteq [to : Units, id : 1..calls, form : Forms]
    /\ report \in [Units -> [id : 0..calls, host : Hosts \cup {0}]]
    /\ ran \in [Hosts -> Seq(Request)]
    /\ calls \in 0..MaxCalls

\* A rule is told of success, or given a value, only when the station that it
\* named has run this very call: never by an answer to an earlier call that
\* the unit had given up, to another station or to another unit.
SuccessWasRun ==
    \A u \in Units : report[u] # NoCall =>
        \E k \in DOMAIN ran[report[u].host] :
            ran[report[u].host][k] = [id |-> report[u].id, from |-> u]

\* Every station runs what it is sent at most once and in the order in which
\* the calls were made, those included that their callers have given up: an
\* early command that is run late does not undo a later one.
RunOnceInOrder ==
    \A h \in Hosts : \A i, j \in DOMAIN ran[h] : i < j => ran[h][i].id < ran[h][j].id

\* Every call comes to an end, when the units call each other in a ring too.
CallsReturn == \A u \in Units : (pc[u] \in InCall) ~> (pc[u] \notin InCall)

\* Every request that a unit has received is looked at, or lost with its power,
\* if the unit's rules always come to an end, whatever calls they make before.
\* A rule that does not, such as one that calls until it succeeds, keeps loop()
\* from handleClient for good.
Holds(u, n) == \E k \in DOMAIN backlog[u] : backlog[u][k].id = n
RequestsAreServed ==
    \A u \in Units : []<>(pc[u] \notin InRules) =>
        \A n \in 1..MaxCalls : Holds(u, n) ~> ~Holds(u, n)
=============================================================================
