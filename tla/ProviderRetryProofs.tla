------------------------ MODULE ProviderRetryProofs -------------------------
(***************************************************************************)
(* For any credentials, any number of calls and any budget: every attempt  *)
(* of a call is traced once and their number is bounded; a token rejected  *)
(* for the first time costs no credential a failure; an account that was   *)
(* asked for its profiles has its ARN; and who is blamed for an answer.    *)
(***************************************************************************)
EXTENDS MCProviderRetry, FiniteSetTheorems, TLAPS

(* The first rule that applies decides.                                     *)
LEMMA VerdictRule ==
    ASSUME NEW path, NEW a
    PROVE  \E i \in 1..16 : /\ Rules(path, a)[i][1]
                            /\ \A j \in 1..(i - 1) : ~Rules(path, a)[j][1]
                            /\ Verdict(path, a) = Rules(path, a)[i][2]
<1> DEFINE rules == Rules(path, a)
           First(i) == rules[i][1] /\ \A j \in 1..(i - 1) : ~rules[j][1]
<1>1. DOMAIN rules = 1..16 BY DEF Rules
<1>2. rules[16][1] BY DEF Rules
<1>3. \E i \in 1..16 : First(i)
  <2> HIDE DEF rules
  <2> SUFFICES ASSUME \A i \in 1..16 : ~First(i) PROVE FALSE OBVIOUS
  <2>1. ~rules[1][1] OBVIOUS
  <2>2. \A j \in 1..2 : ~rules[j][1] BY <2>1
  <2>3. \A j \in 1..3 : ~rules[j][1] BY <2>2
  <2>4. \A j \in 1..4 : ~rules[j][1] BY <2>3
  <2>5. \A j \in 1..5 : ~rules[j][1] BY <2>4
  <2>6. \A j \in 1..6 : ~rules[j][1] BY <2>5
  <2>7. \A j \in 1..7 : ~rules[j][1] BY <2>6
  <2>8. \A j \in 1..8 : ~rules[j][1] BY <2>7
  <2>9. \A j \in 1..9 : ~rules[j][1] BY <2>8
  <2>10. \A j \in 1..10 : ~rules[j][1] BY <2>9
  <2>11. \A j \in 1..11 : ~rules[j][1] BY <2>10
  <2>12. \A j \in 1..12 : ~rules[j][1] BY <2>11
  <2>13. \A j \in 1..13 : ~rules[j][1] BY <2>12
  <2>14. \A j \in 1..14 : ~rules[j][1] BY <2>13
  <2>15. \A j \in 1..15 : ~rules[j][1] BY <2>14
  <2>16. QED BY <1>2, <2>15
<1>4. QED
  <2> DEFINE first == CHOOSE i \in 1..16 : First(i)
  <2>1. first \in 1..16 /\ First(first) BY <1>3
  <2>2. Verdict(path, a) = rules[first][2] BY <1>1 DEF Verdict
  <2>3. QED BY <2>1, <2>2

(* Which verdict each rule gives.                                           *)
LEMMA RuleNames ==
    ASSUME NEW path, NEW a
    PROVE  /\ \A i \in {1, 4, 5, 7, 12, 15} : Rules(path, a)[i][2] = "reject"
           /\ Rules(path, a)[2][2] = "network" /\ Rules(path, a)[3][2] = "success"
           /\ \A i \in {6, 8} : Rules(path, a)[i][2] = "terminal"
           /\ Rules(path, a)[9][2] = "auth" /\ Rules(path, a)[10][2] = "throttled"
           /\ \A i \in {11, 13} : Rules(path, a)[i][2] = "limited"
           /\ \A i \in {14, 16} : Rules(path, a)[i][2] = "transient"
BY DEF Rules

(* What makes the rules apply.                                             *)
LEMMA RuleConditions ==
    ASSUME NEW path, NEW a
    PROVE  /\ Rules(path, a)[1][1] => a.status = 0
           /\ Rules(path, a)[2][1] => a.status = 0
           /\ Rules(path, a)[3][1] => a.status \in 200..299
           /\ Rules(path, a)[4][1] => "unread" \in a.marks
           /\ Rules(path, a)[5][1] => a.status >= 500
           /\ Rules(path, a)[6][1] => a.status = 402
           /\ Rules(path, a)[7][1] <=> a.status = 400
           /\ Rules(path, a)[8][1] <=> DetectSuspended /\ "suspended" \in a.marks
           /\ Rules(path, a)[9][1] => a.status \in {401, 403}
           /\ Rules(path, a)[10][1] => a.status = 429
           /\ Rules(path, a)[12][1] =>
                "invalid" \in a.marks \/ "gateway" \in a.marks \/ a.status = 524
           /\ a.status = 429 => Rules(path, a)[14][1]
BY DEF Rules

(* What each verdict says of the answer.                                    *)
LEMMA VerdictMeans ==
    ASSUME NEW path, NEW a \in Answer
    PROVE  /\ Verdict(path, a) \in {"success", "terminal", "auth", "throttled", "network",
                                    "transient", "limited", "reject"}
           /\ Verdict(path, a) = "success" => a.status \in 200..299
           /\ Verdict(path, a) = "terminal" =>
                a.status # 400 /\ (a.status = 402 \/ "suspended" \in a.marks)
           /\ Verdict(path, a) = "auth" =>
                a.status \in {401, 403} /\ ~(DetectSuspended /\ "suspended" \in a.marks)
           /\ Verdict(path, a) = "throttled" => a.status = 429
           /\ Verdict(path, a) = "network" => a.status = 0
           /\ Verdict(path, a) = "reject" /\ a.status = 429 =>
                a.marks \cap {"unread", "invalid", "gateway"} # {}
<1> DEFINE rules == Rules(path, a)
           v == Verdict(path, a)
<1>1. PICK i \in 1..16 : rules[i][1] /\ v = rules[i][2] /\ \A j \in 1..(i - 1) : ~rules[j][1]
  BY VerdictRule
<1>2. a.status \in 0..599 BY DEF Answer
<1>3. i \in {1, 4, 5, 7, 12, 15} => v = "reject" BY <1>1, RuleNames
<1>4. (i = 2 => v = "network") /\ (i = 3 => v = "success") BY <1>1, RuleNames
<1>5. i \in {6, 8} => v = "terminal" BY <1>1, RuleNames
<1>6. (i = 9 => v = "auth") /\ (i = 10 => v = "throttled") BY <1>1, RuleNames
<1>7. i \in {11, 13} => v = "limited" BY <1>1, RuleNames
<1>8. i \in {14, 16} => v = "transient" BY <1>1, RuleNames
<1>9. i = 8 => ~rules[7][1] BY <1>1
<1>9a. i = 9 => ~rules[8][1] BY <1>1
<1>10. i = 15 => ~rules[14][1] BY <1>1
<1>11. i \in 1..16 OBVIOUS
<1>12. i \in 1..16 => i = 1 \/ i = 2 \/ i = 3 \/ i = 4 \/ i = 5 \/ i = 6 \/ i = 7 \/ i = 8 \/ i = 9
                   \/ i = 10 \/ i = 11 \/ i = 12 \/ i = 13 \/ i = 14 \/ i = 15 \/ i = 16
  OBVIOUS
<1>13. /\ rules[1][1] => a.status = 0
       /\ rules[2][1] => a.status = 0
       /\ rules[3][1] => a.status \in 200..299
       /\ rules[4][1] => "unread" \in a.marks
       /\ rules[5][1] => a.status >= 500
       /\ rules[6][1] => a.status = 402
       /\ rules[7][1] <=> a.status = 400
       /\ rules[8][1] <=> DetectSuspended /\ "suspended" \in a.marks
       /\ rules[9][1] => a.status \in {401, 403}
       /\ rules[10][1] => a.status = 429
       /\ rules[12][1] => "invalid" \in a.marks \/ "gateway" \in a.marks \/ a.status = 524
       /\ a.status = 429 => rules[14][1]
  BY RuleConditions
<1> HIDE DEF rules, v
<1>14. v \in {"success", "terminal", "auth", "throttled", "network", "transient", "limited",
              "reject"}
  BY <1>3, <1>4, <1>5, <1>6, <1>7, <1>8, <1>11, <1>12
<1>15. v = "success" => i = 3 BY <1>3, <1>4, <1>5, <1>6, <1>7, <1>8, <1>12
<1>16. v = "terminal" => i \in {6, 8} BY <1>3, <1>4, <1>5, <1>6, <1>7, <1>8, <1>12
<1>17. v = "auth" => i = 9 BY <1>3, <1>4, <1>5, <1>6, <1>7, <1>8, <1>12
<1>18. v = "throttled" => i = 10 BY <1>3, <1>4, <1>5, <1>6, <1>7, <1>8, <1>12
<1>19. v = "network" => i = 2 BY <1>3, <1>4, <1>5, <1>6, <1>7, <1>8, <1>12
<1>20. v = "reject" => i \in {1, 4, 5, 7, 12, 15} BY <1>3, <1>4, <1>5, <1>6, <1>7, <1>8, <1>12
<1>21. v = "success" => a.status \in 200..299 BY <1>1, <1>13, <1>15
<1>22. v = "terminal" => a.status # 400 /\ (a.status = 402 \/ "suspended" \in a.marks)
  BY <1>1, <1>9, <1>13, <1>16
<1>23. v = "auth" => a.status \in {401, 403} /\ ~(DetectSuspended /\ "suspended" \in a.marks)
  BY <1>1, <1>13, <1>17, <1>9a
<1>24. (v = "throttled" => a.status = 429) /\ (v = "network" => a.status = 0)
  BY <1>1, <1>13, <1>18, <1>19
<1>25. v = "reject" /\ a.status = 429 => a.marks \cap {"unread", "invalid", "gateway"} # {}
  <2> SUFFICES ASSUME v = "reject", a.status = 429
               PROVE  a.marks \cap {"unread", "invalid", "gateway"} # {}
    OBVIOUS
  <2>1. i # 1 /\ i # 5 /\ i # 7 /\ i # 15 BY <1>1, <1>10, <1>13
  <2>2. i \in {4, 12} BY <2>1, <1>20
  <2>3. "unread" \in a.marks \/ "invalid" \in a.marks \/ "gateway" \in a.marks
    BY <1>1, <1>13, <2>2
  <2>4. QED BY <2>3
<1>26. QED BY <1>14, <1>21, <1>22, <1>23, <1>24, <1>25 DEF v

-----------------------------------------------------------------------------
(* What the record of a call may hold.                                      *)
Results == {"none", "no client", "served", "limited", "failed", "exhausted"}

CallRecord ==
    [pc : PCs, path : {"api", "mcp", "traced"}, attempt : Nat, cred : Creds \cup {NoCred},
     arn : BOOLEAN, stale : BOOLEAN, refreshed : SUBSET Creds,
     last : {"none", "429", "other"}, traced : Nat, result : Results,
     saw : SUBSET {"429", "other"}]

Attempts(k) ==
    IF \/ k.pc = "refresh"
       \/ k.pc = "done" /\ k.result \notin {"none", "no client"}
    THEN k.attempt + 1 ELSE k.attempt

CallOK(k) ==
    /\ k \in CallRecord /\ k.attempt < Budget /\ k.traced = Attempts(k)
    /\ k.pc \in {"arn", "send", "sent", "refresh", "body"} => k.cred \in Creds
    /\ k.pc \in {"refresh", "body"} => "other" \in k.saw

(* An enabled credential is below the limit of failures.                    *)
EntryOK(e) == e \in Entry /\ (e.state = "enabled" => e.fails < MaxFailures)

CallsOK(calls) == calls \in [Calls -> CallRecord] /\ \A r \in Calls : CallOK(calls[r])
EntriesOK(e) == e \in [Creds -> Entry] /\ \A c \in Creds : EntryOK(e[c])

BaseInv ==
    /\ EntriesOK(entry) /\ CallsOK(call)
    /\ resolved \subseteq Creds /\ profile \subseteq Creds
    /\ staled \in [Creds -> Nat] /\ blamed \subseteq Creds

LEMMA BudgetIsPositive == Budget \in Nat \ {0}
<1>1. Cardinality(Creds) \in Nat \ {0}
  BY CallAssumption, FS_CardinalityType, FS_EmptySet
<1>2. RetriesPerCredential \in Nat \ {0} /\ TotalRetries \in Nat \ {0} BY CallAssumption
<1>3. Cardinality(Creds) * RetriesPerCredential \in Nat \ {0} BY <1>1, <1>2
<1>4. QED BY <1>2, <1>3 DEF Budget

LEMMA IdleOK == Idle \in CallRecord /\ CallOK(Idle)
<1>1. Idle \in CallRecord BY DEF Idle, CallRecord, PCs, Results
<1>2. /\ Idle.pc = "idle" /\ Idle.attempt = 0 /\ Idle.traced = 0
  BY DEF Idle
<1>3. QED BY <1>1, <1>2, BudgetIsPositive DEF CallOK, Attempts

LEMMA EndedFields ==
    ASSUME NEW k, NEW result
    PROVE  /\ Ended(k, result).pc = "done" /\ Ended(k, result).attempt = k.attempt
           /\ Ended(k, result).cred = NoCred /\ Ended(k, result).refreshed = {}
           /\ Ended(k, result).traced = k.traced /\ Ended(k, result).result = result
           /\ Ended(k, result).saw = k.saw
BY DEF Ended, Idle

LEMMA EndedOK ==
    ASSUME NEW k \in CallRecord, k.attempt < Budget, NEW result \in Results,
           result \in {"none", "no client"} => k.traced = k.attempt,
           result \notin {"none", "no client"} => k.traced = k.attempt + 1
    PROVE  CallOK(Ended(k, result))
<1> DEFINE e == Ended(k, result)
<1>1. /\ e.pc = "done" /\ e.attempt = k.attempt /\ e.traced = k.traced /\ e.result = result
  BY ONLY EndedFields
<1>2. e \in CallRecord
  <2>1. "done" \in PCs /\ k.path \in {"api", "mcp", "traced"} /\ k.attempt \in Nat
        /\ k.traced \in Nat /\ k.saw \in SUBSET {"429", "other"}
    BY DEF CallRecord, PCs
  <2>2. QED BY <2>1, IdleOK DEF Ended, CallRecord
<1> HIDE DEF e
<1>3. CallOK(e) BY <1>1, <1>2 DEF CallOK, Attempts
<1>4. QED BY <1>3 DEF e

LEMMA TurnOK ==
    ASSUME NEW k \in CallRecord, k.attempt < Budget, k.traced = k.attempt + 1,
           NEW last \in {"none", "429", "other"}
    PROVE  CallOK(NextTurn(k, last))
<1>1. CASE k.attempt + 1 < Budget
  <2> DEFINE n == [k EXCEPT !.pc = "acquire", !.attempt = @ + 1, !.last = last, !.cred = NoCred]
  <2>1. n = NextTurn(k, last) BY <1>1 DEF NextTurn
  <2>2. /\ n.pc = "acquire" /\ n.attempt = k.attempt + 1 /\ n.traced = k.traced
        /\ n \in CallRecord
    BY DEF CallRecord, PCs
  <2> HIDE DEF n
  <2>3. CallOK(n) BY <1>1, <2>2 DEF CallOK, Attempts
  <2>4. QED BY <2>1, <2>3
<1>2. CASE ~(k.attempt + 1 < Budget)
  <2> DEFINE m == [k EXCEPT !.last = last]
             result == IF last = "429" THEN "limited" ELSE "failed"
  <2>1. NextTurn(k, last) = Ended(m, result) BY <1>2 DEF NextTurn
  <2>2. m \in CallRecord /\ m.attempt < Budget /\ m.traced = m.attempt + 1 BY DEF CallRecord
  <2>3. result \in Results /\ result \notin {"none", "no client"} BY DEF Results
  <2> HIDE DEF m, result
  <2>4. QED BY <2>1, <2>2, <2>3, EndedOK
<1>3. QED BY <1>1, <1>2

LEMMA OnOrOutOK ==
    ASSUME NEW k \in CallRecord, k.attempt < Budget, k.traced = k.attempt + 1,
           NEW e, NEW c
    PROVE  CallOK(OnOrOut(e, c, k))
BY TurnOK, EndedOK DEF OnOrOut, Results

LEMMA CallChanged ==
    ASSUME CallsOK(call), NEW r \in Calls, NEW n, CallOK(n)
    PROVE  CallsOK([call EXCEPT ![r] = n])
<1>1. n \in CallRecord BY DEF CallOK
<1>2. QED BY <1>1 DEF CallsOK

LEMMA EntryChanged ==
    ASSUME EntriesOK(entry), NEW c \in Creds, NEW e, EntryOK(e)
    PROVE  EntriesOK([entry EXCEPT ![c] = e])
<1>1. e \in Entry BY DEF EntryOK
<1>2. QED BY <1>1 DEF EntriesOK

LEMMA ReportsOK ==
    ASSUME NEW e, EntryOK(e)
    PROVE  /\ EntryOK(Failed(e)) /\ EntryOK(Terminal(e)) /\ EntryOK(Succeeded(e))
           /\ EntryOK([e EXCEPT !.throttled = TRUE]) /\ EntryOK([e EXCEPT !.throttled = FALSE])
           /\ EntryOK([e EXCEPT !.stale = TRUE]) /\ EntryOK([e EXCEPT !.stale = FALSE])
           /\ EntryOK([e EXCEPT !.arn = TRUE]) /\ EntryOK([e EXCEPT !.arn = FALSE])
           /\ EntryOK([e EXCEPT !.state = "enabled", !.fails = 0])
<1>1. MaxFailures \in Nat \ {0} BY CallAssumption
<1>2. e \in Entry /\ e.fails \in 0..MaxFailures BY DEF EntryOK, Entry
<1>0. 0 \in 0..MaxFailures /\ MaxFailures \in 0..MaxFailures /\ 0 < MaxFailures BY <1>1
<1>3. EntryOK(Failed(e))
  <2>1. CASE e.state # "enabled" BY <2>1 DEF Failed, EntryOK
  <2>2. CASE e.state = "enabled"
    <3> DEFINE state == IF e.fails + 1 >= MaxFailures THEN "failures" ELSE e.state
    <3>1. e.fails < MaxFailures BY <2>2 DEF EntryOK
    <3>2. state \in {"enabled", "failures"}
          /\ (state = "enabled" => e.fails + 1 < MaxFailures)
      BY <1>1, <1>2, <2>2
    <3>3. e.fails + 1 \in 0..MaxFailures BY <1>1, <1>2, <3>1
    <3>4. Failed(e) = [e EXCEPT !.fails = @ + 1, !.state = state] BY <2>2 DEF Failed
    <3> HIDE DEF state
    <3>5. QED BY <1>2, <3>2, <3>3, <3>4 DEF EntryOK, Entry
  <2>3. QED BY <2>1, <2>2
<1>4. EntryOK(Terminal(e))
  <2>1. CASE e.state # "enabled" BY <2>1 DEF Terminal
  <2>2. CASE e.state = "enabled"
    <3> DEFINE n == [e EXCEPT !.state = "terminal", !.fails = MaxFailures]
    <3>1. n \in Entry /\ n.state = "terminal" BY <1>0, <1>2 DEF Entry
    <3>2. n = Terminal(e) BY <2>2 DEF Terminal
    <3> HIDE DEF n
    <3>3. QED BY <3>1, <3>2 DEF EntryOK
  <2>3. QED BY <2>1, <2>2
<1>5. EntryOK(Succeeded(e))
  <2> DEFINE n == [e EXCEPT !.fails = 0, !.throttled = FALSE]
  <2>1. n \in Entry /\ n.fails = 0 BY <1>0, <1>2 DEF Entry
  <2>2. n = Succeeded(e) BY DEF Succeeded
  <2> HIDE DEF n
  <2>3. QED BY <1>0, <2>1, <2>2 DEF EntryOK
<1>6. /\ EntryOK([e EXCEPT !.throttled = TRUE]) /\ EntryOK([e EXCEPT !.throttled = FALSE])
      /\ EntryOK([e EXCEPT !.stale = TRUE]) /\ EntryOK([e EXCEPT !.stale = FALSE])
      /\ EntryOK([e EXCEPT !.arn = TRUE]) /\ EntryOK([e EXCEPT !.arn = FALSE])
  BY <1>2 DEF EntryOK, Entry
<1>7. EntryOK([e EXCEPT !.state = "enabled", !.fails = 0])
  <2> DEFINE n == [e EXCEPT !.state = "enabled", !.fails = 0]
  <2>1. n \in Entry /\ n.fails = 0 BY <1>0, <1>2 DEF Entry
  <2> HIDE DEF n
  <2>2. EntryOK(n) BY <1>0, <2>1 DEF EntryOK
  <2>3. QED BY <2>2 DEF n
<1>8. QED BY <1>3, <1>4, <1>5, <1>6, <1>7

LEMMA InitBase == Init => BaseInv
<1> SUFFICES ASSUME Init PROVE BaseInv OBVIOUS
<1>1. MaxFailures \in Nat \ {0} /\ Profiled \subseteq Creds BY CallAssumption
<1>2. \A c \in Creds : EntryOK([state |-> "enabled", fails |-> 0, throttled |-> FALSE,
                                arn |-> c \notin Profiled, stale |-> FALSE])
  <2> TAKE c \in Creds
  <2>1. PICK b \in BOOLEAN : b = (c \notin Profiled) BY Zenon
  <2> DEFINE e == [state |-> "enabled", fails |-> 0, throttled |-> FALSE, arn |-> b,
                   stale |-> FALSE]
  <2>2. EntryOK(e) BY <1>1 DEF EntryOK, Entry
  <2>3. QED BY <2>1, <2>2, Zenon
<1>3. EntriesOK(entry)
  <2>1. \A c \in Creds : EntryOK(entry[c]) BY <1>2, Zenon DEF Init
  <2>2. QED BY <2>1 DEF Init, EntriesOK, EntryOK
<1>4. CallsOK(call) BY IdleOK DEF Init, CallsOK
<1>5. QED BY <1>1, <1>3, <1>4 DEF Init, BaseInv

\* What a step that reads an answer does to its call and to the entry.
LEMMA TracedOK ==
    ASSUME NEW k, CallOK(k), k.pc \in {"acquire", "arn", "send", "sent", "body"}
    PROVE  /\ Traced(k) \in CallRecord /\ Traced(k).attempt < Budget
           /\ Traced(k).traced = Traced(k).attempt + 1
           /\ Traced(k).saw = k.saw /\ Traced(k).refreshed = k.refreshed
           /\ Traced(k).cred = k.cred /\ Traced(k).path = k.path
<1>1. k.traced = k.attempt BY DEF CallOK, Attempts
<1>2. QED BY <1>1 DEF Traced, CallOK, CallRecord

LEMMA BeginBase ==
    ASSUME BaseInv, NEW r \in Calls, NEW path \in Paths, Begin(r, path) PROVE BaseInv'
<1> DEFINE n == [Idle EXCEPT !.pc = "acquire", !.path = path]
<1>1. n \in CallRecord /\ n.pc = "acquire" /\ n.attempt = 0 /\ n.traced = 0
  <2>1. path \in {"api", "mcp", "traced"} BY CallAssumption
  <2>2. Idle.attempt = 0 /\ Idle.traced = 0 BY DEF Idle
  <2>3. QED BY <2>1, <2>2, IdleOK DEF CallRecord, PCs
<1>2. call' = [call EXCEPT ![r] = n] BY DEF Begin
<1> HIDE DEF n
<1>3. CallOK(n) BY <1>1, BudgetIsPositive DEF CallOK, Attempts
<1>4. CallsOK(call') BY <1>2, <1>3, CallChanged DEF BaseInv
<1>5. QED BY <1>4 DEF Begin, BaseInv

LEMMA AcquireBase ==
    ASSUME BaseInv, NEW r \in Calls, Acquire(r) PROVE BaseInv'
<1>1. PICK c \in Available :
         call' = [call EXCEPT ![r].pc = "arn", ![r].cred = c, ![r].arn = entry[c].arn,
                              ![r].stale = entry[c].stale]
  BY DEF Acquire
<1>2. c \in Creds /\ entry[c] \in Entry BY DEF Available, BaseInv, EntriesOK
<1>3. PICK arn \in BOOLEAN : arn = entry[c].arn BY <1>2 DEF Entry
<1>4. PICK stale \in BOOLEAN : stale = entry[c].stale BY <1>2 DEF Entry
<1> DEFINE n == [call[r] EXCEPT !.pc = "arn", !.cred = c, !.arn = arn, !.stale = stale]
<1>5. CallOK(call[r]) /\ call[r].pc = "acquire" BY DEF Acquire, BaseInv, CallsOK
<1>6. n \in CallRecord /\ n.pc = "arn" /\ n.cred = c
      /\ n.attempt = call[r].attempt /\ n.traced = call[r].traced
  BY <1>2, <1>5 DEF CallOK, CallRecord, PCs
<1>7. call' = [call EXCEPT ![r] = n] BY <1>1, <1>3, <1>4, <1>5 DEF BaseInv, CallsOK
<1> HIDE DEF n
<1>8. CallOK(n) BY <1>2, <1>5, <1>6 DEF CallOK, Attempts
<1>9. CallsOK(call') BY <1>7, <1>8, CallChanged DEF BaseInv
<1>10. QED BY <1>9 DEF Acquire, BaseInv

LEMMA AcquireFailsBase ==
    ASSUME BaseInv, NEW r \in Calls, AcquireFails(r) PROVE BaseInv'
<1> DEFINE k == call[r]
           n == IF \E c \in Creds : entry[c].state = "enabled"
                THEN Ended(Traced(k), "limited") ELSE Ended(k, "none")
<1>1. CallOK(k) /\ k.pc = "acquire" BY DEF AcquireFails, BaseInv, CallsOK
<1>2. CallOK(Ended(Traced(k), "limited")) BY <1>1, TracedOK, EndedOK DEF Results
<1>3. CallOK(Ended(k, "none"))
  <2>1. k \in CallRecord /\ k.attempt < Budget /\ k.traced = k.attempt
    BY <1>1 DEF CallOK, Attempts
  <2>2. QED BY <2>1, EndedOK DEF Results
<1>4. CallOK(n) BY <1>2, <1>3
<1>5. call' = [call EXCEPT ![r] = n] BY DEF AcquireFails
<1> HIDE DEF n
<1>6. CallsOK(call') BY <1>4, <1>5, CallChanged DEF BaseInv
<1>7. QED BY <1>6 DEF AcquireFails, BaseInv

LEMMA HealBase ==
    ASSUME BaseInv, NEW r \in Calls, Heal(r) PROVE BaseInv'
<1> DEFINE Healed(c) == IF entry[c].state = "failures"
                        THEN [entry[c] EXCEPT !.state = "enabled", !.fails = 0] ELSE entry[c]
<1>1. \A c \in Creds : EntryOK(Healed(c)) BY ReportsOK DEF BaseInv, EntriesOK
<1>2. entry' = [c \in Creds |-> Healed(c)] BY DEF Heal
<1> HIDE DEF Healed
<1>3. EntriesOK(entry') BY <1>1, <1>2 DEF EntriesOK, EntryOK
<1>4. QED BY <1>3 DEF Heal, BaseInv

LEMMA ResolveBase ==
    ASSUME BaseInv, NEW r \in Calls, Resolve(r) PROVE BaseInv'
<1> DEFINE k == call[r]
           c == call[r].cred
<1>1. CallOK(k) /\ k.pc = "arn" /\ c \in Creds BY DEF Resolve, BaseInv, CallsOK, CallOK
<1>2. CASE k.arn \/ c \in resolved
  <2> DEFINE n == [k EXCEPT !.pc = "send"]
  <2>1. n \in CallRecord /\ n.pc = "send" /\ n.cred = c
        /\ n.attempt = k.attempt /\ n.traced = k.traced
    BY <1>1 DEF CallOK, CallRecord, PCs
  <2>2. call' = [call EXCEPT ![r] = n] /\ UNCHANGED <<entry, resolved>>
    BY <1>2 DEF Resolve, BaseInv, CallsOK
  <2> HIDE DEF n
  <2>3. CallOK(n) BY <1>1, <2>1 DEF CallOK, Attempts
  <2>4. CallsOK(call') BY <2>2, <2>3, CallChanged DEF BaseInv
  <2>5. QED BY <2>2, <2>4 DEF Resolve, BaseInv
<1>3. CASE ~(k.arn \/ c \in resolved)
  <2>1. PICK outcome \in IF entry[c].arn THEN {"answered"} ELSE ResolveOutcomes :
          /\ call' = [call EXCEPT ![r] =
                         IF outcome = "limited" THEN Ended(Traced(@), "limited")
                         ELSE [@ EXCEPT !.pc = "send",
                                 !.arn = entry[c].arn \/ (outcome = "answered" /\ c \in profile)]]
          /\ entry' = [entry EXCEPT ![c].arn =
                          entry[c].arn \/ (outcome = "answered" /\ c \in profile)]
          /\ resolved' = IF outcome = "answered" THEN resolved \cup {c} ELSE resolved
    BY <1>3, Zenon DEF Resolve
  <2>2. PICK found \in BOOLEAN :
          found = (entry[c].arn \/ (outcome = "answered" /\ c \in profile))
    BY Zenon
  <2> DEFINE n == IF outcome = "limited" THEN Ended(Traced(k), "limited")
                  ELSE [k EXCEPT !.pc = "send", !.arn = found]
  <2>3. CallOK(Ended(Traced(k), "limited")) BY <1>1, TracedOK, EndedOK DEF Results
  <2>4. CallOK([k EXCEPT !.pc = "send", !.arn = found])
    <3> DEFINE m == [k EXCEPT !.pc = "send", !.arn = found]
    <3>1. m \in CallRecord /\ m.pc = "send" /\ m.cred = c
          /\ m.attempt = k.attempt /\ m.traced = k.traced
      BY <1>1 DEF CallOK, CallRecord, PCs
    <3> HIDE DEF m
    <3>2. CallOK(m) BY <1>1, <3>1 DEF CallOK, Attempts
    <3>3. QED BY <3>2 DEF m
  <2>5. CallOK(n) BY <2>3, <2>4
  <2>6. call' = [call EXCEPT ![r] = n] BY <2>1, <2>2, Zenon
  <2> HIDE DEF n
  <2>7. CallsOK(call') BY <2>5, <2>6, CallChanged DEF BaseInv
  <2>8. entry' = [entry EXCEPT ![c] = [entry[c] EXCEPT !.arn = found]] BY <2>1, <2>2, Zenon
  <2>9. EntryOK([entry[c] EXCEPT !.arn = found])
    <3>1. EntryOK(entry[c]) BY <1>1 DEF BaseInv, EntriesOK
    <3>2. CASE found = TRUE BY <3>1, <3>2, ReportsOK
    <3>3. CASE found = FALSE BY <3>1, <3>3, ReportsOK
    <3>4. QED BY <3>2, <3>3
  <2>10. EntriesOK(entry') BY <1>1, <2>8, <2>9, EntryChanged DEF BaseInv
  <2>11. resolved' \subseteq Creds BY <1>1, <2>1 DEF BaseInv
  <2>12. QED BY <2>7, <2>10, <2>11 DEF Resolve, BaseInv
<1>4. QED BY <1>2, <1>3

LEMMA SendBase ==
    ASSUME BaseInv, NEW r \in Calls, Send(r) PROVE BaseInv'
<1> DEFINE k == call[r]
           c == call[r].cred
<1>1. CallOK(k) /\ k.pc = "send" /\ c \in Creds BY DEF Send, BaseInv, CallsOK, CallOK
<1>2. CASE c \in BadEndpoint
  <2>1. CallOK(NextTurn(Traced(k), "other")) BY <1>1, TracedOK, TurnOK
  <2>2. call' = [call EXCEPT ![r] = NextTurn(Traced(k), "other")] BY <1>2 DEF Send
  <2>3. CallsOK(call') BY <2>1, <2>2, CallChanged DEF BaseInv
  <2>4. EntryOK(Failed(entry[c])) BY <1>1, ReportsOK DEF BaseInv, EntriesOK
  <2>5. entry' = [entry EXCEPT ![c] = Failed(entry[c])] BY <1>2 DEF Send
  <2>6. EntriesOK(entry') BY <1>1, <2>4, <2>5, EntryChanged DEF BaseInv
  <2>7. blamed' \subseteq Creds BY <1>1, <1>2 DEF Send, Blame, BaseInv
  <2>8. QED BY <2>3, <2>6, <2>7 DEF Send, BaseInv
<1>3. CASE c \notin BadEndpoint
  <2> DEFINE n == [k EXCEPT !.pc = "sent"]
  <2>1. n \in CallRecord /\ n.pc = "sent" /\ n.cred = c
        /\ n.attempt = k.attempt /\ n.traced = k.traced
    BY <1>1 DEF CallOK, CallRecord, PCs
  <2>2. call' = [call EXCEPT ![r] = n] BY <1>3 DEF Send, BaseInv, CallsOK
  <2> HIDE DEF n
  <2>3. CallOK(n) BY <1>1, <2>1 DEF CallOK, Attempts
  <2>4. CallsOK(call') BY <2>2, <2>3, CallChanged DEF BaseInv
  <2>5. QED BY <1>3, <2>4 DEF Send, BaseInv
<1>4. QED BY <1>2, <1>3

LEMMA NoClientBase ==
    ASSUME BaseInv, NEW r \in Calls, NoClient(r) PROVE BaseInv'
<1> DEFINE k == call[r]
           n == IF k.path = "api" THEN Ended(k, "no client") ELSE Ended(Traced(k), "failed")
<1>1. CallOK(k) /\ k.pc = "send" BY DEF NoClient, BaseInv, CallsOK
<1>2. CallOK(Ended(Traced(k), "failed")) BY <1>1, TracedOK, EndedOK DEF Results
<1>3. CallOK(Ended(k, "no client"))
  <2>1. k \in CallRecord /\ k.attempt < Budget /\ k.traced = k.attempt
    BY <1>1 DEF CallOK, Attempts
  <2>2. QED BY <2>1, EndedOK DEF Results
<1>4. CallOK(n) BY <1>2, <1>3
<1>5. call' = [call EXCEPT ![r] = n] BY DEF NoClient
<1> HIDE DEF n
<1>6. CallsOK(call') BY <1>4, <1>5, CallChanged DEF BaseInv
<1>7. QED BY <1>6 DEF NoClient, BaseInv

StaleAnswer == [status |-> 401, marks |-> {"bearer"}, delay |-> FALSE]

LEMMA AnswerIsTyped == \A a \in Answers \cup {StaleAnswer} : a \in Answer
<1>1. \A a \in Answers : a \in Answer BY CallAssumption
<1>2. StaleAnswer \in Answer
  <2>1. PICK no \in BOOLEAN : no = FALSE OBVIOUS
  <2>2. [status |-> 401, marks |-> {"bearer"}, delay |-> no] \in Answer
    BY <2>1 DEF Answer, Marks
  <2>3. QED BY <2>1, <2>2, Zenon DEF StaleAnswer
<1>3. QED BY <1>1, <1>2

\* The call once the answer has been seen.
Seen(k, a) == [k EXCEPT !.saw = @ \cup {IF a.status = 429 THEN "429" ELSE "other"}]

LEMMA SeenOK ==
    ASSUME NEW k, CallOK(k), k.pc = "sent", NEW a \in Answer
    PROVE  /\ CallOK(Seen(k, a)) /\ Seen(k, a).pc = "sent"
           /\ Seen(k, a).cred = k.cred /\ Seen(k, a).refreshed = k.refreshed
           /\ Seen(k, a).path = k.path
           /\ Seen(k, a).attempt = k.attempt /\ Seen(k, a).traced = k.traced
           /\ Seen(k, a).saw = k.saw \cup {IF a.status = 429 THEN "429" ELSE "other"}
<1> DEFINE mark == IF a.status = 429 THEN "429" ELSE "other"
           n == [k EXCEPT !.saw = @ \cup {mark}]
<1>1. mark \in {"429", "other"} OBVIOUS
<1>2. n = Seen(k, a) BY DEF Seen
<1>3. k.traced = k.attempt /\ k \in CallRecord BY DEF CallOK, Attempts
<1> HIDE DEF mark
<1>4. /\ n \in CallRecord /\ n.pc = "sent" /\ n.attempt = k.attempt /\ n.traced = k.traced
      /\ n.cred = k.cred /\ n.refreshed = k.refreshed /\ n.path = k.path
      /\ n.saw = k.saw \cup {mark}
  BY <1>1, <1>3 DEF CallRecord
<1> HIDE DEF n
<1>5. CallOK(n) BY <1>3, <1>4 DEF CallOK, Attempts
<1>6. QED BY <1>2, <1>4, <1>5 DEF mark

\* What Receive does, by verdict.
Outcome(r, a, verdict) ==
    LET c == call[r].cred
        seen == Seen(call[r], a)
        k == Traced(seen)
        Becomes(next) == call' = [call EXCEPT ![r] = next]
        Reported(e) == entry' = [entry EXCEPT ![c] = e]
    IN \/ /\ verdict = "success"
          /\ IF k.path = "traced"
             THEN Becomes([seen EXCEPT !.pc = "body"]) /\ UNCHANGED <<entry, blamed>>
             ELSE Becomes(Ended(k, "served")) /\ Reported(Succeeded(entry[c]))
                                              /\ UNCHANGED blamed
       \/ /\ verdict = "terminal"
          /\ Becomes(OnOrOut(Terminal(entry[c]), c, k)) /\ Reported(Terminal(entry[c]))
          /\ UNCHANGED blamed
       \/ /\ verdict = "auth" /\ Refreshes(k, a)
          /\ Becomes([k EXCEPT !.pc = "refresh", !.refreshed = @ \cup {c}])
          /\ UNCHANGED <<entry, blamed>>
       \/ /\ verdict = "auth" /\ ~Refreshes(k, a)
          /\ Becomes(OnOrOut(Failed(entry[c]), c, k)) /\ Reported(Failed(entry[c]))
          /\ Blame(c)
       \/ /\ verdict = "throttled"
          /\ Becomes(IF Available \subseteq {c} THEN Ended(k, "limited")
                     ELSE NextTurn(k, "429"))
          /\ Reported([entry[c] EXCEPT !.throttled = TRUE]) /\ UNCHANGED blamed
       \/ /\ verdict = "network"
          /\ Becomes(NextTurn(k, "other"))
          /\ IF c \in OwnProxy THEN Reported(Failed(entry[c])) /\ Blame(c)
             ELSE UNCHANGED <<entry, blamed>>
       \/ /\ verdict = "transient"
          /\ Becomes(NextTurn(k, IF a.status = 429 THEN "429" ELSE "other"))
          /\ UNCHANGED <<entry, blamed>>
       \/ /\ verdict \in {"limited", "reject"}
          /\ Becomes(Ended(k, IF verdict = "limited" THEN "limited" ELSE "failed"))
          /\ UNCHANGED <<entry, blamed>>

LEMMA ReceiveFacts ==
    ASSUME NEW r, NEW a, Receive(r, a)
    PROVE  /\ call[r].pc = "sent" /\ a \in Possible(call[r])
           /\ Outcome(r, a, Verdict(call[r].path, a))
           /\ UNCHANGED <<resolved, profile, staled>>
BY Zenon DEF Receive, Outcome, Seen

LEMMA ReceiveBase ==
    ASSUME BaseInv, NEW r \in Calls, NEW a \in Answers \cup {StaleAnswer}, Receive(r, a)
    PROVE  BaseInv'
<1> DEFINE c == call[r].cred
           v == Verdict(call[r].path, a)
           seen == Seen(call[r], a)
           k == Traced(seen)
<1>1. a \in Answer BY AnswerIsTyped
<1>2. /\ CallOK(call[r]) /\ call[r].pc = "sent" /\ c \in Creds
      /\ UNCHANGED <<resolved, profile, staled>>
  BY ReceiveFacts DEF BaseInv, CallsOK, CallOK
<1>3. CallOK(seen) /\ seen.pc = "sent" /\ seen.cred = c
      /\ seen.saw = call[r].saw \cup {IF a.status = 429 THEN "429" ELSE "other"}
  BY <1>1, <1>2, SeenOK
<1>4. k \in CallRecord /\ k.attempt < Budget /\ k.traced = k.attempt + 1 /\ k.saw = seen.saw
      /\ k.cred = c
  BY <1>3, TracedOK
<1>5. EntryOK(entry[c]) /\ EntriesOK(entry) /\ CallsOK(call) /\ blamed \subseteq Creds
  BY <1>2 DEF BaseInv, EntriesOK
<1>6. SUFFICES ASSUME NEW next, CallOK(next), NEW e, EntryOK(e), blamed' \subseteq Creds,
                      call' = [call EXCEPT ![r] = next],
                      entry' = entry \/ entry' = [entry EXCEPT ![c] = e]
               PROVE  BaseInv'
  <2> HIDE DEF k, seen, v
  <2>1. Outcome(r, a, v) BY ReceiveFacts DEF v
  <2>2. /\ EntryOK(Succeeded(entry[c])) /\ EntryOK(Terminal(entry[c]))
        /\ EntryOK(Failed(entry[c])) /\ EntryOK([entry[c] EXCEPT !.throttled = TRUE])
    BY <1>5, ReportsOK
  <2>3. /\ CallOK(Ended(k, "served")) /\ CallOK(Ended(k, "limited")) /\ CallOK(Ended(k, "failed"))
        /\ CallOK(NextTurn(k, "429")) /\ CallOK(NextTurn(k, "other"))
        /\ \A e : CallOK(OnOrOut(e, c, k))
    BY <1>4, EndedOK, TurnOK, OnOrOutOK DEF Results
  <2>4. CASE v = "success"
    <3>1. CASE k.path = "traced"
      <4>1. a.status # 429 BY <1>1, <2>4, VerdictMeans DEF v
      <4> DEFINE n == [seen EXCEPT !.pc = "body"]
      <4>2. n \in CallRecord /\ n.pc = "body" /\ n.cred = c /\ n.attempt = seen.attempt
            /\ n.traced = seen.traced /\ n.saw = seen.saw
        BY <1>3 DEF CallOK, CallRecord, PCs
      <4>3. call' = [call EXCEPT ![r] = n] /\ UNCHANGED <<entry, blamed>>
        BY <2>1, <2>4, <3>1 DEF Outcome, k, seen
      <4> HIDE DEF n
      <4>4. CallOK(n) BY <1>2, <1>3, <4>1, <4>2 DEF CallOK, Attempts
      <4>5. QED BY <1>5, <1>6, <4>3, <4>4
    <3>2. CASE k.path # "traced"
      <4>1. /\ call' = [call EXCEPT ![r] = Ended(k, "served")]
            /\ entry' = [entry EXCEPT ![c] = Succeeded(entry[c])] /\ UNCHANGED blamed
        BY <2>1, <2>4, <3>2 DEF Outcome, k, seen
      <4>2. QED BY <1>5, <1>6, <2>2, <2>3, <4>1
    <3>3. QED BY <3>1, <3>2
  <2>5. CASE v = "terminal"
    <3>1. /\ call' = [call EXCEPT ![r] = OnOrOut(Terminal(entry[c]), c, k)]
          /\ entry' = [entry EXCEPT ![c] = Terminal(entry[c])] /\ UNCHANGED blamed
      BY <2>1, <2>5 DEF Outcome, k, seen
    <3>2. QED BY <1>5, <1>6, <2>2, <2>3, <3>1
  <2>6. CASE v = "auth"
    <3>1. CASE Refreshes(k, a)
      <4>1. a.status # 429 BY <1>1, <2>6, VerdictMeans DEF v
      <4> DEFINE n == [k EXCEPT !.pc = "refresh", !.refreshed = @ \cup {c}]
      <4>2. n \in CallRecord /\ n.pc = "refresh" /\ n.cred = c /\ n.attempt = k.attempt
            /\ n.traced = k.traced /\ n.saw = k.saw
        BY <1>2, <1>4 DEF CallRecord, PCs
      <4>3. call' = [call EXCEPT ![r] = n] /\ UNCHANGED <<entry, blamed>>
        BY <2>1, <2>6, <3>1 DEF Outcome, k, seen
      <4> HIDE DEF n
      <4>4. CallOK(n) BY <1>2, <1>3, <1>4, <4>1, <4>2 DEF CallOK, Attempts
      <4>5. QED BY <1>5, <1>6, <4>3, <4>4
    <3>2. CASE ~Refreshes(k, a)
      <4>1. /\ call' = [call EXCEPT ![r] = OnOrOut(Failed(entry[c]), c, k)]
            /\ entry' = [entry EXCEPT ![c] = Failed(entry[c])] /\ Blame(c)
        BY <2>1, <2>6, <3>2 DEF Outcome, k, seen
      <4>2. blamed' \subseteq Creds BY <1>2, <1>5, <4>1 DEF Blame
      <4>3. QED BY <1>5, <1>6, <2>2, <2>3, <4>1, <4>2
    <3>3. QED BY <3>1, <3>2
  <2>7. CASE v = "throttled"
    <3>1. /\ call' = [call EXCEPT ![r] = IF Available \subseteq {c} THEN Ended(k, "limited")
                                         ELSE NextTurn(k, "429")]
          /\ entry' = [entry EXCEPT ![c] = [entry[c] EXCEPT !.throttled = TRUE]]
          /\ UNCHANGED blamed
      BY <2>1, <2>7 DEF Outcome, k, seen
    <3>2. QED BY <1>5, <1>6, <2>2, <2>3, <3>1
  <2>8. CASE v = "network"
    <3>1. CASE c \in OwnProxy
      <4>1. /\ call' = [call EXCEPT ![r] = NextTurn(k, "other")]
            /\ entry' = [entry EXCEPT ![c] = Failed(entry[c])] /\ Blame(c)
        BY <2>1, <2>8, <3>1 DEF Outcome, k, seen
      <4>2. blamed' \subseteq Creds BY <1>2, <1>5, <4>1 DEF Blame
      <4>3. QED BY <1>5, <1>6, <2>2, <2>3, <4>1, <4>2
    <3>2. CASE c \notin OwnProxy
      <4>1. call' = [call EXCEPT ![r] = NextTurn(k, "other")] /\ UNCHANGED <<entry, blamed>>
        BY <2>1, <2>8, <3>2 DEF Outcome, k, seen
      <4>2. QED BY <1>5, <1>6, <2>3, <4>1
    <3>3. QED BY <3>1, <3>2
  <2>9. CASE v = "transient"
    <3>1. call' = [call EXCEPT ![r] = NextTurn(k, IF a.status = 429 THEN "429" ELSE "other")]
          /\ UNCHANGED <<entry, blamed>>
      BY <2>1, <2>9 DEF Outcome, k, seen
    <3> DEFINE next == NextTurn(k, IF a.status = 429 THEN "429" ELSE "other")
    <3>2. CallOK(next) BY <2>3
    <3> HIDE DEF next
    <3>3. call' = [call EXCEPT ![r] = next] BY <3>1 DEF next
    <3>4. QED BY <1>5, <1>6, <3>1, <3>2, <3>3
  <2>10. CASE v \in {"limited", "reject"}
    <3>1. call' = [call EXCEPT ![r] = Ended(k, IF v = "limited" THEN "limited" ELSE "failed")]
          /\ UNCHANGED <<entry, blamed>>
      BY <2>1, <2>10 DEF Outcome, k, seen
    <3>2. QED BY <1>5, <1>6, <2>3, <3>1
  <2>11. v \in {"success", "terminal", "auth", "throttled", "network", "transient", "limited",
                "reject"}
    BY <1>1, VerdictMeans DEF v
  <2>12. QED BY <2>4, <2>5, <2>6, <2>7, <2>8, <2>9, <2>10, <2>11
<1>7. CallsOK(call') BY <1>5, <1>6, CallChanged
<1>8. EntriesOK(entry') BY <1>2, <1>5, <1>6, EntryChanged
<1>9. QED BY <1>2, <1>6, <1>7, <1>8 DEF BaseInv

LEMMA RefreshedBase ==
    ASSUME BaseInv, NEW r \in Calls, NEW outcome \in RefreshOutcomes, Refreshed(r, outcome)
    PROVE  BaseInv'
<1> DEFINE k == call[r]
           c == call[r].cred
<1>1. CallOK(k) /\ k.pc = "refresh" /\ c \in Creds BY DEF Refreshed, BaseInv, CallsOK, CallOK
<1>2. k \in CallRecord /\ k.attempt < Budget /\ k.traced = k.attempt + 1
      /\ k.last \in {"none", "429", "other"}
  BY <1>1 DEF CallOK, Attempts, CallRecord
<1>3. EntryOK(entry[c]) BY <1>1 DEF BaseInv, EntriesOK
<1>4. CASE outcome = "ok"
  <2>1. CallOK(NextTurn(k, k.last)) BY <1>2, TurnOK
  <2>2. call' = [call EXCEPT ![r] = NextTurn(k, k.last)] BY <1>4 DEF Refreshed
  <2>3. CallsOK(call') BY <2>1, <2>2, CallChanged DEF BaseInv
  <2>4. EntryOK([entry[c] EXCEPT !.stale = FALSE]) BY <1>3, ReportsOK
  <2>5. entry' = [entry EXCEPT ![c] = [entry[c] EXCEPT !.stale = FALSE]]
    BY <1>4, Zenon DEF Refreshed
  <2>6. EntriesOK(entry') BY <1>1, <2>4, <2>5, EntryChanged DEF BaseInv
  <2>7. QED BY <1>4, <2>3, <2>6 DEF Refreshed, BaseInv
<1>5. CASE outcome = "limited"
  <2>1. CallOK(Ended(k, "limited")) BY <1>2, EndedOK DEF Results
  <2>2. call' = [call EXCEPT ![r] = Ended(k, "limited")] BY <1>5 DEF Refreshed
  <2>3. CallsOK(call') BY <2>1, <2>2, CallChanged DEF BaseInv
  <2>4. QED BY <1>5, <2>3 DEF Refreshed, BaseInv
<1>6. CASE outcome = "failed"
  <2>1. CallOK(OnOrOut(Failed(entry[c]), c, k)) BY <1>2, OnOrOutOK
  <2>2. call' = [call EXCEPT ![r] = OnOrOut(Failed(entry[c]), c, k)] BY <1>6 DEF Refreshed
  <2>3. CallsOK(call') BY <2>1, <2>2, CallChanged DEF BaseInv
  <2>4. entry' = [entry EXCEPT ![c] = Failed(entry[c])] BY <1>6 DEF Refreshed
  <2>5. EntriesOK(entry') BY <1>1, <1>3, <2>4, EntryChanged, ReportsOK DEF BaseInv
  <2>6. blamed' \subseteq Creds BY <1>1, <1>6 DEF Refreshed, Blame, BaseInv
  <2>7. QED BY <2>3, <2>5, <2>6 DEF Refreshed, BaseInv
<1>7. QED BY <1>4, <1>5, <1>6, CallAssumption

LEMMA ReadBodyBase ==
    ASSUME BaseInv, NEW r \in Calls, NEW accepted \in BOOLEAN, ReadBody(r, accepted)
    PROVE  BaseInv'
<1> DEFINE k == call[r]
           c == call[r].cred
           result == IF accepted THEN "served" ELSE "failed"
<1>1. CallOK(k) /\ k.pc = "body" /\ c \in Creds BY DEF ReadBody, BaseInv, CallsOK, CallOK
<1>2. CallOK(Ended(Traced(k), result)) BY <1>1, TracedOK, EndedOK DEF Results
<1>3. call' = [call EXCEPT ![r] = Ended(Traced(k), result)] BY DEF ReadBody
<1>4. CallsOK(call') BY <1>2, <1>3, CallChanged DEF BaseInv
<1>5. EntriesOK(entry')
  <2>1. EntryOK(Succeeded(entry[c])) BY <1>1, ReportsOK DEF BaseInv, EntriesOK
  <2>2. QED BY <1>1, <2>1, EntryChanged DEF ReadBody, BaseInv
<1>6. QED BY <1>4, <1>5 DEF ReadBody, BaseInv

LEMMA MeanwhileBase ==
    ASSUME BaseInv, NEW c \in Creds, CoolsDown(c) \/ GoesStale(c) \/ LookUp(c) \/ Relogin(c)
    PROVE  BaseInv'
<1>1. EntryOK(entry[c]) BY DEF BaseInv, EntriesOK
<1>2. CASE CoolsDown(c)
  <2>1. entry' = [entry EXCEPT ![c] = [entry[c] EXCEPT !.throttled = FALSE]]
    BY <1>2, Zenon DEF CoolsDown
  <2>2. EntryOK([entry[c] EXCEPT !.throttled = FALSE]) BY <1>1, ReportsOK
  <2>3. EntriesOK(entry') BY <2>1, <2>2, EntryChanged DEF BaseInv
  <2>4. QED BY <1>2, <2>3 DEF CoolsDown, BaseInv
<1>3. CASE GoesStale(c)
  <2>1. entry' = [entry EXCEPT ![c] = [entry[c] EXCEPT !.stale = TRUE]]
    BY <1>3, Zenon DEF GoesStale
  <2>2. EntryOK([entry[c] EXCEPT !.stale = TRUE]) BY <1>1, ReportsOK
  <2>3. EntriesOK(entry') BY <2>1, <2>2, EntryChanged DEF BaseInv
  <2>4. staled' \in [Creds -> Nat] BY <1>3 DEF GoesStale, BaseInv
  <2> DEFINE Told(r) == IF call[r].cred = c THEN [call[r] EXCEPT !.stale = TRUE] ELSE call[r]
  <2>5. \A r \in Calls : CallOK(Told(r))
    <3> TAKE r \in Calls
    <3>1. CallOK(call[r]) BY DEF BaseInv, CallsOK
    <3> DEFINE n == [call[r] EXCEPT !.stale = TRUE]
    <3>2. n \in CallRecord /\ n.pc = call[r].pc /\ n.cred = call[r].cred
          /\ n.attempt = call[r].attempt /\ n.traced = call[r].traced /\ n.saw = call[r].saw
          /\ n.result = call[r].result
      BY <3>1 DEF CallOK, CallRecord
    <3> HIDE DEF n
    <3>3. CallOK(n) BY <3>1, <3>2 DEF CallOK, Attempts
    <3>4. QED BY <3>1, <3>3 DEF n
  <2>6. call' = [r \in Calls |-> Told(r)] BY <1>3 DEF GoesStale
  <2> HIDE DEF Told
  <2>7. CallsOK(call') BY <2>5, <2>6 DEF CallsOK, CallOK
  <2>8. QED BY <1>3, <2>3, <2>4, <2>7 DEF GoesStale, BaseInv
<1>4. CASE LookUp(c)
  <2>1. entry' = [entry EXCEPT ![c] = [entry[c] EXCEPT !.arn = TRUE]] BY <1>4, Zenon DEF LookUp
  <2>2. EntryOK([entry[c] EXCEPT !.arn = TRUE]) BY <1>1, ReportsOK
  <2>3. EntriesOK(entry') BY <2>1, <2>2, EntryChanged DEF BaseInv
  <2>4. QED BY <1>4, <2>3 DEF LookUp, BaseInv
<1>5. CASE Relogin(c)
  <2>1. PICK no \in BOOLEAN : no = FALSE OBVIOUS
  <2> DEFINE e == [state |-> "enabled", fails |-> 0, throttled |-> no, arn |-> no, stale |-> no]
  <2>2. entry' = [entry EXCEPT ![c] = e] BY <1>5, <2>1, Zenon DEF Relogin
  <2>3. EntryOK(e)
    <3>1. MaxFailures \in Nat \ {0} BY CallAssumption
    <3>2. QED BY <2>1, <3>1 DEF EntryOK, Entry
  <2> HIDE DEF e
  <2>4. EntriesOK(entry') BY <2>2, <2>3, EntryChanged DEF BaseInv
  <2>5. profile' \subseteq Creds BY <1>5 DEF Relogin, BaseInv
  <2>6. QED BY <1>5, <2>4, <2>5 DEF Relogin, BaseInv
<1>6. QED BY <1>2, <1>3, <1>4, <1>5

LEMMA StutterBase == ASSUME BaseInv, UNCHANGED vars PROVE BaseInv'
BY DEF BaseInv, vars, EntriesOK, EntryOK, CallsOK, CallOK, Attempts

LEMMA NextBase == BaseInv /\ [Next]_vars => BaseInv'
<1> SUFFICES ASSUME BaseInv, [Next]_vars PROVE BaseInv' OBVIOUS
<1>1. ASSUME NEW r \in Calls, Step(r) PROVE BaseInv'
  <2>1. CASE Acquire(r) BY <2>1, AcquireBase
  <2>2. CASE AcquireFails(r) BY <2>2, AcquireFailsBase
  <2>3. CASE Heal(r) BY <2>3, HealBase
  <2>4. CASE Resolve(r) BY <2>4, ResolveBase
  <2>5. CASE Send(r) BY <2>5, SendBase
  <2>6. CASE NoClient(r) BY <2>6, NoClientBase
  <2>7. CASE \E a \in Answers \cup {StaleAnswer} : Receive(r, a) BY <2>7, ReceiveBase
  <2>8. CASE \E outcome \in RefreshOutcomes : Refreshed(r, outcome) BY <2>8, RefreshedBase
  <2>9. CASE \E accepted \in BOOLEAN : ReadBody(r, accepted) BY <2>9, ReadBodyBase
  <2>10. QED
    BY <1>1, <2>1, <2>2, <2>3, <2>4, <2>5, <2>6, <2>7, <2>8, <2>9 DEF Step, StaleAnswer
<1>2. ASSUME NEW r \in Calls, NEW path \in Paths, Begin(r, path) PROVE BaseInv'
  BY <1>2, BeginBase
<1>3. ASSUME NEW c \in Creds, CoolsDown(c) \/ GoesStale(c) \/ LookUp(c) \/ Relogin(c)
      PROVE  BaseInv'
  BY <1>3, MeanwhileBase
<1>4. CASE UNCHANGED vars BY <1>4, StutterBase
<1>5. QED BY <1>1, <1>2, <1>3, <1>4 DEF Next

(* Every variable stays in its type, the attempts of a call never exceed    *)
(* its budget, and each of them is in the trace once.                       *)
THEOREM CallsTraced == Spec => []TypeOK
<1>1. Init => BaseInv BY InitBase
<1>2. BaseInv /\ [Next]_vars => BaseInv' BY NextBase
<1>3. BaseInv => TypeOK
  <2> SUFFICES ASSUME BaseInv PROVE TypeOK OBVIOUS
  <2>1. entry \in [Creds -> Entry] /\ resolved \subseteq Creds /\ profile \subseteq Creds
    BY DEF BaseInv, EntriesOK
  <2>2. \A r \in Calls : CallOK(call[r]) BY DEF BaseInv, CallsOK
  <2>3. \A r \in Calls : call[r].pc \in PCs BY <2>2 DEF CallOK, CallRecord
  <2>4. QED BY <2>1, <2>2, <2>3, Zenon DEF TypeOK, CallOK, Attempts
<1>4. QED BY <1>1, <1>2, <1>3, PTL DEF Spec

-----------------------------------------------------------------------------
(* What the steps do to tokens, to ARNs and to the credential of a call.    *)

LEMMA ReportsKeep ==
    ASSUME NEW e, EntryOK(e)
    PROVE  /\ Failed(e).arn = e.arn /\ Terminal(e).arn = e.arn /\ Succeeded(e).arn = e.arn
           /\ Failed(e).stale = e.stale /\ Terminal(e).stale = e.stale
           /\ Succeeded(e).stale = e.stale
<1>1. e \in Entry BY DEF EntryOK
<1>2. Failed(e).arn = e.arn /\ Failed(e).stale = e.stale BY <1>1 DEF Failed, Entry
<1>3. Terminal(e).arn = e.arn /\ Terminal(e).stale = e.stale BY <1>1 DEF Terminal, Entry
<1>4. Succeeded(e).arn = e.arn /\ Succeeded(e).stale = e.stale BY <1>1 DEF Succeeded, Entry
<1>5. QED BY <1>2, <1>3, <1>4

\* No token goes stale and no ARN is lost.
EntriesKept ==
    \A d \in Creds : /\ entry'[d].stale => entry[d].stale
                     /\ entry[d].arn => entry'[d].arn

LEMMA OneEntry ==
    ASSUME BaseInv, NEW c \in Creds, NEW e, entry' = [entry EXCEPT ![c] = e],
           e.stale => entry[c].stale, entry[c].arn => e.arn
    PROVE  EntriesKept
<1>1. entry \in [Creds -> Entry] BY DEF BaseInv, EntriesOK
<1>2. SUFFICES ASSUME NEW d \in Creds
               PROVE  (entry'[d].stale => entry[d].stale) /\ (entry[d].arn => entry'[d].arn)
  BY Zenon DEF EntriesKept
<1>3. d # c => entry'[d] = entry[d] BY <1>1
<1>4. entry'[c] = e BY <1>1
<1>5. CASE d = c BY <1>4, <1>5, Zenon
<1>6. CASE d # c BY <1>3, <1>6, Zenon
<1>7. QED BY <1>5, <1>6

LEMMA SameEntries == ASSUME UNCHANGED entry PROVE EntriesKept
BY Zenon DEF EntriesKept

LEMMA ReportedEntry ==
    ASSUME BaseInv, NEW c \in Creds,
           \/ UNCHANGED entry
           \/ entry' = [entry EXCEPT ![c] = Failed(entry[c])]
           \/ entry' = [entry EXCEPT ![c] = Terminal(entry[c])]
           \/ entry' = [entry EXCEPT ![c] = Succeeded(entry[c])]
           \/ entry' = [entry EXCEPT ![c] = [entry[c] EXCEPT !.throttled = TRUE]]
    PROVE  EntriesKept
<1>1. EntryOK(entry[c]) /\ entry[c] \in Entry BY DEF BaseInv, EntriesOK
<1> DEFINE t == [entry[c] EXCEPT !.throttled = TRUE]
<1>2. t.arn = entry[c].arn /\ t.stale = entry[c].stale BY <1>1 DEF Entry
<1> HIDE DEF t
<1>3. CASE UNCHANGED entry BY <1>3, SameEntries
<1>4. CASE entry' = [entry EXCEPT ![c] = Failed(entry[c])]
  <2>1. Failed(entry[c]).arn = entry[c].arn /\ Failed(entry[c]).stale = entry[c].stale
    BY <1>1, ReportsKeep
  <2>2. QED BY <1>4, <2>1, OneEntry, Zenon
<1>5. CASE entry' = [entry EXCEPT ![c] = Terminal(entry[c])]
  <2>1. Terminal(entry[c]).arn = entry[c].arn /\ Terminal(entry[c]).stale = entry[c].stale
    BY <1>1, ReportsKeep
  <2>2. QED BY <1>5, <2>1, OneEntry, Zenon
<1>6. CASE entry' = [entry EXCEPT ![c] = Succeeded(entry[c])]
  <2>1. Succeeded(entry[c]).arn = entry[c].arn /\ Succeeded(entry[c]).stale = entry[c].stale
    BY <1>1, ReportsKeep
  <2>2. QED BY <1>6, <2>1, OneEntry, Zenon
<1>7. CASE entry' = [entry EXCEPT ![c] = t] BY <1>2, <1>7, OneEntry, Zenon
<1>8. QED BY <1>3, <1>4, <1>5, <1>6, <1>7 DEF t

LEMMA ReceiveReports ==
    ASSUME BaseInv, NEW r \in Calls, NEW a \in Answers \cup {StaleAnswer}, Receive(r, a)
    PROVE  EntriesKept
<1> DEFINE c == call[r].cred
           v == Verdict(call[r].path, a)
<1>1. a \in Answer BY AnswerIsTyped
<1>2. call[r].pc = "sent" /\ c \in Creds BY ReceiveFacts DEF BaseInv, CallsOK, CallOK
<1>3. \/ UNCHANGED entry
      \/ entry' = [entry EXCEPT ![c] = Failed(entry[c])]
      \/ entry' = [entry EXCEPT ![c] = Terminal(entry[c])]
      \/ entry' = [entry EXCEPT ![c] = Succeeded(entry[c])]
      \/ entry' = [entry EXCEPT ![c] = [entry[c] EXCEPT !.throttled = TRUE]]
  <2>1. Outcome(r, a, v) BY ReceiveFacts
  <2>2. QED BY <2>1, Zenon DEF Outcome
<1>4. QED BY <1>2, <1>3, ReportedEntry

LEMMA StepKeeps ==
    ASSUME BaseInv, NEW r \in Calls, Step(r) PROVE EntriesKept
<1>1. CallOK(call[r]) /\ (call[r].pc \in {"arn", "send", "sent", "refresh", "body"}
                            => call[r].cred \in Creds)
  BY DEF BaseInv, CallsOK, CallOK
<1>2. CASE Acquire(r) \/ AcquireFails(r) \/ NoClient(r)
  BY <1>2, SameEntries DEF Acquire, AcquireFails, NoClient
<1>3. CASE Heal(r)
  <2> DEFINE Healed(c) == IF entry[c].state = "failures"
                          THEN [entry[c] EXCEPT !.state = "enabled", !.fails = 0] ELSE entry[c]
  <2>1. \A c \in Creds : Healed(c).stale = entry[c].stale /\ Healed(c).arn = entry[c].arn
    BY DEF BaseInv, EntriesOK, Entry
  <2>2. entry' = [c \in Creds |-> Healed(c)] BY <1>3 DEF Heal
  <2> HIDE DEF Healed
  <2>3. \A c \in Creds : entry'[c] = Healed(c) BY <2>2
  <2>4. QED BY <2>1, <2>3, Zenon DEF EntriesKept
<1>4. CASE Resolve(r)
  <2> DEFINE c == call[r].cred
  <2>1. c \in Creds BY <1>1, <1>4 DEF Resolve
  <2>2. \/ UNCHANGED entry
        \/ \E found : entry' = [entry EXCEPT ![c].arn = found] /\ (entry[c].arn => found)
    BY <1>4, Zenon DEF Resolve
  <2>3. ASSUME NEW found, entry' = [entry EXCEPT ![c].arn = found], entry[c].arn => found
        PROVE  EntriesKept
    <3> DEFINE e == [entry[c] EXCEPT !.arn = found]
    <3>1. e.stale = entry[c].stale /\ e.arn = found BY <2>1 DEF BaseInv, EntriesOK, Entry
    <3>2. entry' = [entry EXCEPT ![c] = e] BY <2>3
    <3> HIDE DEF e
    <3>3. QED BY <2>1, <2>3, <3>1, <3>2, OneEntry, Zenon
  <2>4. QED BY <2>2, <2>3, SameEntries
<1>5. CASE Send(r)
  <2>1. call[r].cred \in Creds BY <1>1, <1>5 DEF Send
  <2>2. UNCHANGED entry
        \/ entry' = [entry EXCEPT ![call[r].cred] = Failed(entry[call[r].cred])]
    BY <1>5, Zenon DEF Send
  <2>3. QED BY <2>1, <2>2, ReportedEntry
<1>6. CASE \E a \in Answers \cup {StaleAnswer} : Receive(r, a) BY <1>6, ReceiveReports
<1>7. ASSUME NEW outcome \in RefreshOutcomes, Refreshed(r, outcome) PROVE EntriesKept
  <2> DEFINE c == call[r].cred
             e == [entry[c] EXCEPT !.stale = FALSE]
  <2>1. c \in Creds BY <1>1, <1>7 DEF Refreshed
  <2>2. e.arn = entry[c].arn /\ e.stale = FALSE BY <2>1 DEF BaseInv, EntriesOK, Entry
  <2>3. \/ UNCHANGED entry
        \/ entry' = [entry EXCEPT ![c] = Failed(entry[c])]
        \/ entry' = [entry EXCEPT ![c] = e]
    BY <1>7, Zenon DEF Refreshed
  <2> HIDE DEF e
  <2>4. CASE entry' = [entry EXCEPT ![c] = e] BY <2>1, <2>2, <2>4, OneEntry, Zenon
  <2>5. CASE UNCHANGED entry \/ entry' = [entry EXCEPT ![c] = Failed(entry[c])]
    BY <2>1, <2>5, ReportedEntry
  <2>6. QED BY <2>3, <2>4, <2>5
<1>8. ASSUME NEW accepted \in BOOLEAN, ReadBody(r, accepted) PROVE EntriesKept
  <2>1. call[r].cred \in Creds BY <1>1, <1>8 DEF ReadBody
  <2>2. UNCHANGED entry
        \/ entry' = [entry EXCEPT ![call[r].cred] = Succeeded(entry[call[r].cred])]
    BY <1>8, Zenon DEF ReadBody
  <2>3. QED BY <2>1, <2>2, ReportedEntry
<1>9. QED BY <1>2, <1>3, <1>4, <1>5, <1>6, <1>7, <1>8 DEF Step, StaleAnswer

(* Once asked, the ARN is there; nothing but a new login takes it away.     *)
LEMMA ArnStep ==
    ASSUME BaseInv, ResolvedHasArn, [Next]_vars, ~Relogins PROVE ResolvedHasArn'
<1>1. ASSUME EntriesKept, UNCHANGED <<resolved, profile>> PROVE ResolvedHasArn'
  BY <1>1 DEF EntriesKept, ResolvedHasArn, BaseInv
<1>2. ASSUME NEW r \in Calls, Step(r), ~Resolve(r) PROVE ResolvedHasArn'
  <2>1. UNCHANGED <<resolved, profile>>
    BY <1>2, Zenon DEF Step, Acquire, AcquireFails, Heal, Send, NoClient, Receive, Refreshed,
                       ReadBody
  <2>2. QED BY <1>1, <1>2, <2>1, StepKeeps
<1>3. ASSUME NEW r \in Calls, Resolve(r) PROVE ResolvedHasArn'
  <2> DEFINE c == call[r].cred
  <2>1. EntriesKept BY <1>3, StepKeeps DEF Step
  <2>2. UNCHANGED profile /\ c \in Creds BY <1>3 DEF Resolve, BaseInv, CallsOK, CallOK
  <2>3. \/ UNCHANGED resolved
        \/ resolved' = resolved \cup {c} /\ (c \in profile => entry'[c].arn)
    <3>1. CASE call[r].arn \/ c \in resolved BY <1>3, <3>1 DEF Resolve
    <3>2. CASE ~(call[r].arn \/ c \in resolved)
      <4>1. PICK outcome : /\ resolved' = IF outcome = "answered" THEN resolved \cup {c}
                                          ELSE resolved
                           /\ entry' = [entry EXCEPT ![c].arn =
                                 entry[c].arn \/ (outcome = "answered" /\ c \in profile)]
        BY <1>3, <3>2, Zenon DEF Resolve
      <4>2. PICK found : found = (entry[c].arn \/ (outcome = "answered" /\ c \in profile))
        OBVIOUS
      <4>3. entry' = [entry EXCEPT ![c].arn = found] BY <4>1, <4>2, Zenon
      <4>4. entry'[c].arn = found BY <2>2, <4>3 DEF BaseInv, EntriesOK, Entry
      <4>5. outcome = "answered" /\ c \in profile => entry'[c].arn BY <4>2, <4>4, Zenon
      <4>6. QED BY <4>1, <4>5
    <3>3. QED BY <3>1, <3>2
  <2>4. QED BY <2>1, <2>2, <2>3 DEF EntriesKept, ResolvedHasArn, BaseInv
<1>4. ASSUME NEW r \in Calls, NEW path \in Paths, Begin(r, path) PROVE ResolvedHasArn'
  BY <1>4 DEF Begin, ResolvedHasArn
<1>5. ASSUME NEW c \in Creds, CoolsDown(c) \/ GoesStale(c) \/ LookUp(c) PROVE ResolvedHasArn'
  <2>1. \A d \in Creds : entry[d].arn => entry'[d].arn
    BY <1>5 DEF CoolsDown, GoesStale, LookUp, BaseInv, EntriesOK, Entry
  <2>2. UNCHANGED <<resolved, profile>> BY <1>5 DEF CoolsDown, GoesStale, LookUp
  <2>3. QED BY <2>1, <2>2 DEF ResolvedHasArn, BaseInv
<1>6. ~\E c \in Creds : Relogin(c) BY DEF Relogin
<1>7. CASE UNCHANGED vars BY <1>7 DEF vars, ResolvedHasArn
<1>8. QED BY <1>2, <1>3, <1>4, <1>5, <1>6, <1>7 DEF Next

(* Where no account is logged in anew, an account that was asked for its    *)
(* profiles keeps the real ARN if it has one, whatever lookups failed.      *)
THEOREM AskedAccountsHaveArn == ~Relogins => (MCSpec => []CallHasArn)
<1> DEFINE I == part = "several" => BaseInv /\ ResolvedHasArn
<1> SUFFICES ASSUME ~Relogins PROVE MCSpec => []CallHasArn OBVIOUS
<1>1. MCInit => I
  <2>1. Init => ResolvedHasArn BY DEF Init, ResolvedHasArn
  <2>2. QED BY <2>1, InitBase DEF MCInit
<1>2. I /\ [MCNext]_<<part, vars>> => I'
  <2> SUFFICES ASSUME I, [MCNext]_<<part, vars>>, part' = "several"
               PROVE  (BaseInv /\ ResolvedHasArn)'
    OBVIOUS
  <2>1. part = "several" /\ [Next]_vars BY DEF MCNext
  <2>2. QED BY <2>1, NextBase, ArnStep
<1>3. I => CallHasArn BY DEF CallHasArn
<1>4. QED BY <1>1, <1>2, <1>3, PTL DEF MCSpec

-----------------------------------------------------------------------------
(* Tokens that the upstream stops accepting.                                *)

(* Where no credential has an endpoint or a proxy of its own to fail with,  *)
(* refreshes work or are put off, and the upstream turns away none but      *)
(* stale tokens and suspended accounts.                                     *)
RejectsOnlyStale ==
    /\ BadEndpoint = {} /\ OwnProxy = {} /\ RefreshOutcomes \subseteq {"ok", "limited"}
    /\ \A a \in Answers : a.status \in {401, 403} => DetectSuspended /\ "suspended" \in a.marks

(* Until a token of c went stale none is used; and once one did, a call     *)
(* that refreshed it has a fresh one, or is about to.                       *)
CallForgiven(k, c) ==
    /\ staled[c] = 0 => c \notin k.refreshed /\ (k.cred = c => ~k.stale)
    /\ staled[c] = 1 /\ c \in k.refreshed =>
         \/ k.pc = "refresh" /\ k.cred = c
         \/ ~entry[c].stale /\ (k.cred = c => ~k.stale)
Forgiven(c) ==
    /\ staled[c] = 0 => ~entry[c].stale
    /\ staled[c] <= 1 => c \notin blamed
    /\ \A r \in Calls : CallForgiven(call[r], c)
StaleInv == \A c \in Creds : Forgiven(c)

\* What the steps of a call make of its record: it lets go of the credential, goes
\* on with it, takes one, or begins to refresh its token.
LetsGo(k, n) ==
    /\ n.cred = NoCred /\ n.refreshed \subseteq k.refreshed
    /\ \/ k.pc # "refresh" \/ n.refreshed = {} \/ ~entry'[k.cred].stale
GoesOn(k, n) ==
    n.cred = k.cred /\ n.refreshed = k.refreshed /\ n.stale = k.stale /\ k.pc # "refresh"
Takes(k, n) ==
    /\ k.pc = "acquire" /\ n.cred \in Creds
    /\ n.refreshed = k.refreshed /\ n.stale = entry[n.cred].stale
BeginsRefresh(k, n) ==
    /\ k.pc = "sent" /\ k.stale /\ k.cred \in Creds
    /\ n.pc = "refresh" /\ n.cred = k.cred /\ n.refreshed = k.refreshed \cup {k.cred}
    /\ n.stale = k.stale

LEMMA CallMoves ==
    ASSUME BaseInv, StaleInv, NEW r \in Calls, NEW n, NEW c \in Creds,
           call' = [call EXCEPT ![r] = n], UNCHANGED staled, EntriesKept,
           \/ LetsGo(call[r], n) \/ GoesOn(call[r], n)
           \/ Takes(call[r], n) \/ BeginsRefresh(call[r], n),
           c \in blamed' => c \in blamed \/ staled[c] > 1
    PROVE  Forgiven(c)'
<1> DEFINE k == call[r]
<1>1. Forgiven(c) BY DEF StaleInv
<1>2. (entry'[c].stale => entry[c].stale) /\ staled[c] \in Nat /\ c # NoCred
  BY CallAssumption DEF EntriesKept, BaseInv
<1>3. ASSUME NEW q \in Calls, q # r PROVE CallForgiven(call[q], c)'
  <2>1. call'[q] = call[q] BY <1>3 DEF BaseInv, CallsOK
  <2>2. CallForgiven(call[q], c) BY <1>1 DEF Forgiven
  <2>3. QED BY <1>2, <2>1, <2>2 DEF CallForgiven
<1>4. CallForgiven(call[r], c)'
  <2>1. call'[r] = n BY DEF BaseInv, CallsOK
  <2>2. CallForgiven(k, c) BY <1>1 DEF Forgiven
  <2>3. CASE LetsGo(k, n)
    <3>1. k.pc = "refresh" /\ k.cred = c /\ n.refreshed # {} => ~entry'[c].stale
      BY <2>3 DEF LetsGo
    <3>2. n.cred # c /\ n.refreshed \subseteq k.refreshed BY <1>2, <2>3 DEF LetsGo
    <3>3. QED BY <1>2, <2>1, <2>2, <3>1, <3>2 DEF CallForgiven
  <2>4. CASE GoesOn(k, n) BY <1>2, <2>1, <2>2, <2>4 DEF CallForgiven, GoesOn
  <2>5. CASE Takes(k, n)
    <3>1. staled[c] = 0 => ~entry[c].stale BY <1>1 DEF Forgiven
    <3>2. QED BY <1>2, <2>1, <2>2, <2>5, <3>1 DEF CallForgiven, Takes
  <2>6. CASE BeginsRefresh(k, n)
    BY <1>2, <2>1, <2>2, <2>6 DEF CallForgiven, BeginsRefresh
  <2>7. QED BY <2>3, <2>4, <2>5, <2>6
<1>5. (staled[c] = 0 => ~entry[c].stale)' BY <1>1, <1>2 DEF Forgiven
<1>6. (staled[c] <= 1 => c \notin blamed)' BY <1>1, <1>2 DEF Forgiven
<1>7. QED BY <1>3, <1>4, <1>5, <1>6 DEF Forgiven

LEMMA EndLetsGo == ASSUME NEW k, NEW m, NEW result PROVE LetsGo(k, Ended(m, result))
BY ONLY EndedFields DEF LetsGo

LEMMA TurnLetsGo ==
    ASSUME NEW k, NEW m \in CallRecord, m.refreshed \subseteq k.refreshed, NEW last,
           k.pc # "refresh" \/ ~entry'[k.cred].stale
    PROVE  LetsGo(k, NextTurn(m, last))
<1>1. CASE m.attempt + 1 < Budget
  <2> DEFINE n == [m EXCEPT !.pc = "acquire", !.attempt = @ + 1, !.last = last, !.cred = NoCred]
  <2>1. n.cred = NoCred /\ n.refreshed = m.refreshed BY DEF CallRecord
  <2>2. NextTurn(m, last) = n BY <1>1 DEF NextTurn
  <2> HIDE DEF n
  <2>3. QED BY <2>1, <2>2 DEF LetsGo
<1>2. CASE ~(m.attempt + 1 < Budget)
  <2>1. NextTurn(m, last) = Ended([m EXCEPT !.last = last],
                                  IF last = "429" THEN "limited" ELSE "failed")
    BY <1>2 DEF NextTurn
  <2>2. QED BY <2>1, EndLetsGo
<1>3. QED BY <1>1, <1>2

LEMMA OnLetsGo ==
    ASSUME NEW k, NEW m \in CallRecord, m.refreshed \subseteq k.refreshed, NEW e, NEW c,
           k.pc # "refresh" \/ ~entry'[k.cred].stale
    PROVE  LetsGo(k, OnOrOut(e, c, m))
BY TurnLetsGo, EndLetsGo DEF OnOrOut

\* A step of a call, as CallMoves takes it.
Moves(r) ==
    /\ \E n : /\ call' = [call EXCEPT ![r] = n]
              /\ \/ LetsGo(call[r], n) \/ GoesOn(call[r], n)
                 \/ Takes(call[r], n) \/ BeginsRefresh(call[r], n)
    /\ \A c \in Creds : c \in blamed' => c \in blamed \/ staled[c] > 1

LEMMA MovesTo ==
    ASSUME NEW r, NEW n, call' = [call EXCEPT ![r] = n],
           LetsGo(call[r], n) \/ GoesOn(call[r], n) \/ BeginsRefresh(call[r], n), UNCHANGED blamed
    PROVE  Moves(r)
BY Zenon DEF Moves

LEMMA MovesBlaming ==
    ASSUME NEW r, NEW n, call' = [call EXCEPT ![r] = n], LetsGo(call[r], n),
           \A d \in Creds : d \in blamed' => d \in blamed \/ staled[d] > 1
    PROVE  Moves(r)
BY Zenon DEF Moves

LEMMA ReceiveMoves ==
    ASSUME BaseInv, StaleInv, RejectsOnlyStale, NEW r \in Calls,
           NEW a \in Answers \cup {StaleAnswer}, Receive(r, a)
    PROVE  Moves(r)
<1> DEFINE c == call[r].cred
           v == Verdict(call[r].path, a)
           seen == Seen(call[r], a)
           k == Traced(seen)
<1>1. a \in Answer BY AnswerIsTyped
<1>2. /\ CallOK(call[r]) /\ call[r].pc = "sent" /\ c \in Creds /\ a \in Possible(call[r])
      /\ call[r] \in CallRecord
  BY ReceiveFacts DEF BaseInv, CallsOK, CallOK
<1>3. /\ CallOK(seen) /\ seen.pc = "sent" /\ seen.cred = c /\ seen \in CallRecord
      /\ seen.refreshed = call[r].refreshed
  BY <1>1, <1>2, SeenOK DEF CallOK
<1>4. k \in CallRecord /\ k.refreshed = call[r].refreshed /\ k.cred = c BY <1>3, TracedOK
<1>5. v = "auth" => call[r].stale /\ "bearer" \in a.marks
  <2> SUFFICES ASSUME v = "auth" PROVE call[r].stale /\ "bearer" \in a.marks OBVIOUS
  <2>1. a.status \in {401, 403} /\ ~(DetectSuspended /\ "suspended" \in a.marks)
    BY <1>1, VerdictMeans
  <2>2. a \notin Answers BY <2>1 DEF RejectsOnlyStale
  <2>3. a.marks = {"bearer"} BY <2>2 DEF StaleAnswer
  <2>4. call[r].stale BY <1>2, <2>2, Zenon DEF Possible
  <2>5. QED BY <2>3, <2>4
<1>6. seen.stale = call[r].stale /\ k.stale = call[r].stale
  BY <1>2, <1>3 DEF Seen, Traced, CallRecord
<1>7. Outcome(r, a, v) BY ReceiveFacts
<1>8. Moves(r)
  <2> HIDE DEF k, seen, v
  <2>1. \A result : LetsGo(call[r], Ended(k, result)) BY EndLetsGo
  <2>2. \A last : LetsGo(call[r], NextTurn(k, last)) BY <1>2, <1>4, TurnLetsGo
  <2>3. \A e : LetsGo(call[r], OnOrOut(e, c, k)) BY <1>2, <1>4, OnLetsGo
  <2>4. CASE v = "success"
    <3>1. UNCHANGED blamed BY <1>7, <2>4 DEF Outcome
    <3>2. CASE k.path = "traced"
      <4> DEFINE n == [seen EXCEPT !.pc = "body"]
      <4>1. n.cred = seen.cred /\ n.refreshed = seen.refreshed /\ n.stale = seen.stale
        BY <1>3 DEF CallRecord
      <4>2. call' = [call EXCEPT ![r] = n] BY <1>7, <2>4, <3>2 DEF Outcome, k, seen
      <4> HIDE DEF n
      <4>3. GoesOn(call[r], n) BY <1>2, <1>3, <1>6, <4>1 DEF GoesOn
      <4>4. QED BY MovesTo, <3>1, <4>2, <4>3
    <3>3. CASE k.path # "traced"
      <4>1. call' = [call EXCEPT ![r] = Ended(k, "served")]
        BY <1>7, <2>4, <3>3 DEF Outcome, k, seen
      <4>2. QED BY MovesTo, <2>1, <3>1, <4>1
    <3>4. QED BY <3>2, <3>3
  <2>5. CASE v = "terminal"
    <3>1. call' = [call EXCEPT ![r] = OnOrOut(Terminal(entry[c]), c, k)] /\ UNCHANGED blamed
      BY <1>7, <2>5 DEF Outcome, k, seen
    <3>2. QED BY MovesTo, <2>3, <3>1
  <2>6. CASE v = "auth" /\ Refreshes(k, a)
    <3> DEFINE n == [k EXCEPT !.pc = "refresh", !.refreshed = @ \cup {c}]
    <3>1. n.pc = "refresh" /\ n.cred = c /\ n.refreshed = k.refreshed \cup {c}
          /\ n.stale = k.stale
      BY <1>4 DEF CallRecord
    <3>2. call' = [call EXCEPT ![r] = n] /\ UNCHANGED blamed
      BY <1>7, <2>6 DEF Outcome, k, seen
    <3> HIDE DEF n
    <3>3. BeginsRefresh(call[r], n)
      BY <1>2, <1>4, <1>5, <1>6, <2>6, <3>1 DEF BeginsRefresh
    <3>4. QED BY MovesTo, <3>2, <3>3
  <2>7. CASE v = "auth" /\ ~Refreshes(k, a)
    <3>1. call' = [call EXCEPT ![r] = OnOrOut(Failed(entry[c]), c, k)] /\ Blame(c)
      BY <1>7, <2>7 DEF Outcome, k, seen
    <3>2. c \in call[r].refreshed /\ call[r].stale BY <1>4, <1>5, <2>7 DEF Refreshes
    <3>3. staled[c] > 1
      <4>1. CallForgiven(call[r], c) /\ staled[c] \in Nat
        BY <1>2 DEF StaleInv, Forgiven, BaseInv
      <4>2. QED BY <1>2, <3>2, <4>1 DEF CallForgiven
    <3>4. \A d \in Creds : d \in blamed' => d \in blamed \/ staled[d] > 1
      BY <3>1, <3>3 DEF Blame
    <3>5. PICK n : call' = [call EXCEPT ![r] = n] /\ LetsGo(call[r], n) BY <2>3, <3>1
    <3>6. QED BY <3>4, <3>5, MovesBlaming
  <2>8. CASE v = "throttled"
    <3>1. UNCHANGED blamed BY <1>7, <2>8 DEF Outcome
    <3>2. call' = [call EXCEPT ![r] = Ended(k, "limited")]
          \/ call' = [call EXCEPT ![r] = NextTurn(k, "429")]
      BY <1>7, <2>8 DEF Outcome, k, seen
    <3>3. QED BY MovesTo, <2>1, <2>2, <3>1, <3>2
  <2>9. CASE v = "network"
    <3>1. call' = [call EXCEPT ![r] = NextTurn(k, "other")] /\ UNCHANGED blamed
      BY <1>7, <2>9 DEF Outcome, k, seen, RejectsOnlyStale
    <3>2. QED BY MovesTo, <2>2, <3>1
  <2>10. CASE v = "transient"
    <3>1. \E last : call' = [call EXCEPT ![r] = NextTurn(k, last)]
      BY <1>7, <2>10, Zenon DEF Outcome, k, seen
    <3>2. UNCHANGED blamed BY <1>7, <2>10 DEF Outcome
    <3>3. QED BY MovesTo, <2>2, <3>1, <3>2
  <2>11. CASE v \in {"limited", "reject"}
    <3>1. \E result : call' = [call EXCEPT ![r] = Ended(k, result)]
      <4> DEFINE result == IF v = "limited" THEN "limited" ELSE "failed"
      <4>1. call' = [call EXCEPT ![r] = Ended(k, result)]
        BY <1>7, <2>11 DEF Outcome, k, seen
      <4> HIDE DEF result
      <4>2. QED BY <4>1
    <3>2. UNCHANGED blamed BY <1>7, <2>11 DEF Outcome
    <3>3. QED BY MovesTo, <2>1, <3>1, <3>2
  <2>12. v \in {"success", "terminal", "auth", "throttled", "network", "transient", "limited",
                "reject"}
    BY <1>1, VerdictMeans DEF v
  <2>13. QED BY <2>4, <2>5, <2>6, <2>7, <2>8, <2>9, <2>10, <2>11, <2>12
<1>9. QED BY <1>8

LEMMA StepMoves ==
    ASSUME BaseInv, StaleInv, RejectsOnlyStale, NEW r \in Calls, Step(r)
    PROVE  Moves(r)
<1> DEFINE k == call[r]
<1>1. k \in CallRecord /\ (k.pc \in {"arn", "send", "sent", "refresh", "body"} => k.cred \in Creds)
      /\ CallOK(k)
  BY DEF BaseInv, CallsOK, CallOK
<1>2. CASE Acquire(r)
  <2>1. PICK c \in Available :
           call' = [call EXCEPT ![r].pc = "arn", ![r].cred = c, ![r].arn = entry[c].arn,
                                ![r].stale = entry[c].stale]
    BY <1>2 DEF Acquire
  <2>2. PICK arn, stale : arn = entry[c].arn /\ stale = entry[c].stale OBVIOUS
  <2> DEFINE n == [k EXCEPT !.pc = "arn", !.cred = c, !.arn = arn, !.stale = stale]
  <2>3. n.cred = c /\ n.refreshed = k.refreshed /\ n.stale = stale BY <1>1 DEF CallRecord
  <2>4. call' = [call EXCEPT ![r] = n] BY <1>1, <2>1, <2>2 DEF BaseInv, CallsOK
  <2> HIDE DEF n
  <2>5. Takes(k, n) BY <1>2, <2>2, <2>3 DEF Takes, Acquire, Available
  <2>6. UNCHANGED blamed BY <1>2 DEF Acquire
  <2>7. QED BY <2>4, <2>5, <2>6, Zenon DEF Moves
<1>3. CASE AcquireFails(r)
  <2>1. \E m, result : call' = [call EXCEPT ![r] = Ended(m, result)]
    BY <1>3, Zenon DEF AcquireFails
  <2>2. UNCHANGED blamed BY <1>3 DEF AcquireFails
  <2>3. QED BY <2>1, <2>2, EndLetsGo, MovesTo
<1>4. CASE Heal(r)
  <2>1. k.pc # "refresh" BY <1>4 DEF Heal
  <2>2. GoesOn(k, k) BY <2>1 DEF GoesOn
  <2>3. call' = [call EXCEPT ![r] = k] /\ UNCHANGED blamed BY <1>4 DEF Heal, BaseInv, CallsOK
  <2>4. QED BY <2>2, <2>3, MovesTo
<1>5. CASE Resolve(r)
  <2>1. UNCHANGED blamed BY <1>5 DEF Resolve
  <2>2. CASE \E m, result : call' = [call EXCEPT ![r] = Ended(m, result)]
    BY <2>1, <2>2, EndLetsGo, MovesTo
  <2>3. ASSUME NEW found, call' = [call EXCEPT ![r] = [k EXCEPT !.pc = "send", !.arn = found]]
        PROVE  Moves(r)
    <3> DEFINE n == [k EXCEPT !.pc = "send", !.arn = found]
    <3>1. n.cred = k.cred /\ n.refreshed = k.refreshed /\ n.stale = k.stale
      BY <1>1 DEF CallRecord
    <3>2. k.pc # "refresh" BY <1>5 DEF Resolve
    <3> HIDE DEF n
    <3>3. GoesOn(k, n) BY <3>1, <3>2 DEF GoesOn
    <3>4. QED BY <2>1, <2>3, <3>3, MovesTo DEF n
  <2>4. CASE call' = [call EXCEPT ![r].pc = "send"]
    <3> DEFINE n == [k EXCEPT !.pc = "send"]
    <3>1. n.cred = k.cred /\ n.refreshed = k.refreshed /\ n.stale = k.stale
      BY <1>1 DEF CallRecord
    <3>2. k.pc # "refresh" BY <1>5 DEF Resolve
    <3>3. call' = [call EXCEPT ![r] = n] BY <2>4 DEF BaseInv, CallsOK
    <3> HIDE DEF n
    <3>4. GoesOn(k, n) BY <3>1, <3>2 DEF GoesOn
    <3>5. QED BY <2>1, <3>3, <3>4, MovesTo
  <2>5. \/ \E m, result : call' = [call EXCEPT ![r] = Ended(m, result)]
        \/ \E found : call' = [call EXCEPT ![r] = [k EXCEPT !.pc = "send", !.arn = found]]
        \/ call' = [call EXCEPT ![r].pc = "send"]
    BY <1>5, Zenon DEF Resolve
  <2>6. QED BY <2>2, <2>3, <2>4, <2>5
<1>6. CASE Send(r)
  <2>1. call' = [call EXCEPT ![r].pc = "sent"] /\ UNCHANGED blamed
    BY <1>6 DEF Send, RejectsOnlyStale
  <2> DEFINE n == [k EXCEPT !.pc = "sent"]
  <2>2. n.cred = k.cred /\ n.refreshed = k.refreshed /\ n.stale = k.stale BY <1>1 DEF CallRecord
  <2>3. k.pc # "refresh" BY <1>6 DEF Send
  <2>4. call' = [call EXCEPT ![r] = n] BY <2>1 DEF BaseInv, CallsOK
  <2> HIDE DEF n
  <2>5. GoesOn(k, n) BY <2>2, <2>3 DEF GoesOn
  <2>6. QED BY <2>1, <2>4, <2>5, MovesTo
<1>7. CASE NoClient(r) BY <1>7 DEF NoClient, RejectsOnlyStale
<1>8. CASE \E a \in Answers \cup {StaleAnswer} : Receive(r, a) BY <1>8, ReceiveMoves
<1>9. ASSUME NEW outcome \in RefreshOutcomes, Refreshed(r, outcome) PROVE Moves(r)
  <2>1. outcome \in {"ok", "limited"} /\ k.pc = "refresh" /\ k.cred \in Creds
    BY <1>1, <1>9 DEF RejectsOnlyStale, Refreshed
  <2>2. UNCHANGED blamed BY <1>9, <2>1 DEF Refreshed
  <2>3. CASE outcome = "ok"
    <3>1. entry' = [entry EXCEPT ![k.cred].stale = FALSE]
          /\ call' = [call EXCEPT ![r] = NextTurn(k, k.last)]
      BY <1>9, <2>3 DEF Refreshed
    <3>2. ~entry'[k.cred].stale BY <2>1, <3>1 DEF BaseInv, EntriesOK, Entry
    <3>3. LetsGo(k, NextTurn(k, k.last)) BY <1>1, <3>2, TurnLetsGo
    <3>4. QED BY <2>2, <3>1, <3>3, MovesTo
  <2>4. CASE outcome = "limited"
    <3>1. call' = [call EXCEPT ![r] = Ended(k, "limited")] BY <1>9, <2>4 DEF Refreshed
    <3>2. QED BY <2>2, <3>1, EndLetsGo, MovesTo
  <2>5. QED BY <2>1, <2>3, <2>4
<1>10. ASSUME NEW accepted \in BOOLEAN, ReadBody(r, accepted) PROVE Moves(r)
  <2>1. \E m, result : call' = [call EXCEPT ![r] = Ended(m, result)]
    BY <1>10, Zenon DEF ReadBody
  <2>2. UNCHANGED blamed BY <1>10 DEF ReadBody
  <2>3. QED BY <2>1, <2>2, EndLetsGo, MovesTo
<1>11. QED
  BY <1>2, <1>3, <1>4, <1>5, <1>6, <1>7, <1>8, <1>9, <1>10 DEF Step, StaleAnswer

LEMMA StaleStep ==
    ASSUME BaseInv, StaleInv, RejectsOnlyStale, [Next]_vars PROVE StaleInv'
<1>1. ASSUME NEW r \in Calls, Moves(r), EntriesKept, UNCHANGED staled PROVE StaleInv'
  <2>1. PICK n : /\ call' = [call EXCEPT ![r] = n]
                 /\ \/ LetsGo(call[r], n) \/ GoesOn(call[r], n)
                    \/ Takes(call[r], n) \/ BeginsRefresh(call[r], n)
    BY <1>1, Zenon DEF Moves
  <2>2. \A c \in Creds : c \in blamed' => c \in blamed \/ staled[c] > 1 BY <1>1 DEF Moves
  <2>3. ASSUME NEW c \in Creds PROVE Forgiven(c)' BY <1>1, <2>1, <2>2, CallMoves
  <2>4. QED BY <2>3, Zenon DEF StaleInv
<1>2. ASSUME NEW r \in Calls, Step(r) PROVE StaleInv'
  <2>1. UNCHANGED staled
    BY <1>2, Zenon DEF Step, Acquire, AcquireFails, Heal, Resolve, Send, NoClient, Receive,
                       Refreshed, ReadBody
  <2>2. QED BY <1>1, <1>2, <2>1, StepKeeps, StepMoves
<1>3. ASSUME NEW r \in Calls, NEW path \in Paths, Begin(r, path) PROVE StaleInv'
  <2> DEFINE n == [Idle EXCEPT !.pc = "acquire", !.path = path]
  <2>1. n.cred = NoCred /\ n.refreshed = {} BY DEF Idle
  <2>2. call' = [call EXCEPT ![r] = n] BY <1>3 DEF Begin
  <2> HIDE DEF n
  <2>3. LetsGo(call[r], n) BY <2>1 DEF LetsGo
  <2>4. UNCHANGED <<entry, staled, blamed>> BY <1>3 DEF Begin
  <2>5. QED BY <1>1, <2>2, <2>3, <2>4, MovesTo, SameEntries
<1>4. ASSUME NEW c \in Creds, CoolsDown(c) \/ LookUp(c) \/ Relogin(c) PROVE StaleInv'
  <2>1. UNCHANGED <<call, staled, blamed>> BY <1>4 DEF CoolsDown, LookUp, Relogin
  <2>2. \A d \in Creds : entry'[d].stale => entry[d].stale
    BY <1>4 DEF CoolsDown, LookUp, Relogin, BaseInv, EntriesOK, Entry
  <2>3. ASSUME NEW d \in Creds PROVE Forgiven(d)'
    BY <2>1, <2>2 DEF StaleInv, Forgiven, CallForgiven
  <2>4. QED BY <2>3, Zenon DEF StaleInv
<1>5. ASSUME NEW c \in Creds, GoesStale(c) PROVE StaleInv'
  <2> SUFFICES ASSUME NEW d \in Creds PROVE Forgiven(d)' BY Zenon DEF StaleInv
  <2>1. Forgiven(d) BY DEF StaleInv
  <2>2. /\ staled' = [staled EXCEPT ![c] = @ + 1] /\ entry' = [entry EXCEPT ![c].stale = TRUE]
        /\ UNCHANGED blamed
        /\ call' = [r \in Calls |-> IF call[r].cred = c THEN [call[r] EXCEPT !.stale = TRUE]
                                    ELSE call[r]]
    BY <1>5 DEF GoesStale
  <2>3. staled \in [Creds -> Nat] /\ entry \in [Creds -> Entry] BY DEF BaseInv, EntriesOK
  <2>4. \A r \in Calls : /\ call'[r].pc = call[r].pc /\ call'[r].cred = call[r].cred
                         /\ call'[r].refreshed = call[r].refreshed
                         /\ call[r].cred # c => call'[r].stale = call[r].stale
    BY <2>2 DEF BaseInv, CallsOK, CallRecord
  <2>5. CASE d # c
    <3>1. staled'[d] = staled[d] /\ entry'[d] = entry[d] BY <2>2, <2>3, <2>5
    <3>2. \A r \in Calls : CallForgiven(call[r], d)'
      BY <2>1, <2>4, <2>5, <3>1 DEF Forgiven, CallForgiven
    <3>3. QED BY <2>1, <2>2, <3>1, <3>2 DEF Forgiven
  <2>6. CASE d = c
    <3>1. staled'[c] = staled[c] + 1 /\ staled[c] \in Nat BY <2>2, <2>3
    <3>2. \A r \in Calls : CallForgiven(call[r], c)'
      BY <2>1, <2>4, <2>6, <3>1 DEF Forgiven, CallForgiven
    <3>3. (staled[c] <= 1 => c \notin blamed)' BY <2>1, <2>2, <2>6, <3>1 DEF Forgiven
    <3>4. (staled[c] = 0 => ~entry[c].stale)' BY <3>1
    <3>5. Forgiven(c)' BY <3>2, <3>3, <3>4, Zenon DEF Forgiven
    <3>6. QED BY <2>6, <3>5
  <2>7. QED BY <2>5, <2>6
<1>6. CASE UNCHANGED vars BY <1>6 DEF vars, StaleInv, Forgiven, CallForgiven
<1>7. QED BY <1>2, <1>3, <1>4, <1>5, <1>6 DEF Next

(* Where only stale tokens are rejected, the first time a token goes stale  *)
(* costs its credential no failure, however many calls were using it.       *)
THEOREM StaleTokensForgiven == RejectsOnlyStale => (MCSpec => []CallStaleForgiven)
<1> DEFINE I == part = "several" => BaseInv /\ StaleInv
<1> SUFFICES ASSUME RejectsOnlyStale PROVE MCSpec => []CallStaleForgiven OBVIOUS
<1>1. MCInit => I
  <2>1. Init => StaleInv BY DEF Init, StaleInv, Forgiven, CallForgiven, Idle
  <2>2. QED BY <2>1, InitBase DEF MCInit
<1>2. I /\ [MCNext]_<<part, vars>> => I'
  <2> SUFFICES ASSUME I, [MCNext]_<<part, vars>>, part' = "several"
               PROVE  (BaseInv /\ StaleInv)'
    OBVIOUS
  <2>1. part = "several" /\ [Next]_vars BY DEF MCNext
  <2>2. QED BY <2>1, NextBase, StaleStep
<1>3. I => CallStaleForgiven BY DEF CallStaleForgiven, StaleTokenForgiven, StaleInv, Forgiven
<1>4. QED BY <1>1, <1>2, <1>3, PTL DEF MCSpec

-----------------------------------------------------------------------------
(* Who is blamed for an answer.                                             *)

BlamingVerdicts == {"success", "terminal", "auth", "throttled", "network"}

LEMMA BlamingAnswers ==
    ASSUME NEW path, NEW a \in Answer, Verdict(path, a) \in BlamingVerdicts
    PROVE  \/ a.status \notin {400, 408, 500, 503, 524}
           \/ "suspended" \in a.marks /\ a.status # 400
<1>1. a.status \in 0..599 BY DEF Answer
<1>2. Verdict(path, a) = "success" => a.status \in 200..299 BY VerdictMeans
<1>3. Verdict(path, a) = "terminal" => a.status # 400 /\ (a.status = 402 \/ "suspended" \in a.marks)
  BY VerdictMeans
<1>4. Verdict(path, a) = "auth" => a.status \in {401, 403} BY VerdictMeans
<1>5. Verdict(path, a) = "throttled" => a.status = 429 BY VerdictMeans
<1>6. Verdict(path, a) = "network" => a.status = 0 BY VerdictMeans
<1>7. QED BY <1>1, <1>2, <1>3, <1>4, <1>5, <1>6 DEF BlamingVerdicts

LEMMA OwnFaultOnly == BlamesOwnFault
<1> SUFFICES ASSUME NEW r \in Calls, NEW a \in Answers, Receive(r, a), entry' # entry
             PROVE  \/ a.status \notin {400, 408, 500, 503, 524}
                    \/ "suspended" \in a.marks /\ a.status # 400
  BY DEF BlamesOwnFault
<1>1. Verdict(call[r].path, a) \in BlamingVerdicts
  <2>1. Outcome(r, a, Verdict(call[r].path, a)) BY ReceiveFacts
  <2>2. QED BY <2>1, Zenon DEF Outcome, BlamingVerdicts
<1>2. QED BY <1>1, BlamingAnswers, AnswerIsTyped

LEMMA SaidIsAnswer ==
    ASSUME NEW status \in 0..599, NEW marks \in SUBSET Marks
    PROVE  Says(status, marks) \in Answer /\ Delayed(status, marks) \in Answer
<1>1. \A b \in BOOLEAN : [status |-> status, marks |-> marks, delay |-> b] \in Answer
  BY DEF Answer
<1>2. TRUE \in BOOLEAN /\ FALSE \in BOOLEAN OBVIOUS
<1>3. QED BY <1>1, <1>2, Zenon DEF Says, Delayed

LEMMA EverythingIsAnswer == \A a \in MCEverything : a \in Answer
BY SaidIsAnswer DEF MCEverything, Marks

LEMMA SoloBlames == Solo!BlamesOwnFault
<1>1. \A path, a : Solo!Verdict(path, a) = Verdict(path, a)
  BY DEF Solo!Verdict, Verdict, Solo!Rules, Rules
<1> SUFFICES ASSUME NEW r \in {r1}, NEW a \in MCEverything, Solo!Receive(r, a), entry' # entry
             PROVE  \/ a.status \notin {400, 408, 500, 503, 524}
                    \/ "suspended" \in a.marks /\ a.status # 400
  BY DEF Solo!BlamesOwnFault
<1>2. Solo!Verdict(call[r].path, a) \in BlamingVerdicts
  BY Zenon DEF Solo!Receive, BlamingVerdicts
<1>3. QED BY <1>1, <1>2, BlamingAnswers, EverythingIsAnswer

-----------------------------------------------------------------------------
(* What a client that was only ever rate-limited is told.                   *)

(* Where no credential has an endpoint or a proxy of its own to fail with   *)
(* and a 429 says nothing else than that it is one.                         *)
PlainRateLimits ==
    /\ BadEndpoint = {} /\ OwnProxy = {}
    /\ \A a \in Answers : a.status = 429 =>
          a.marks \cap {"suspended", "unread", "invalid", "gateway"} = {}

EndsWell(n) ==
    n.pc = "done" /\ n.saw = {"429"} =>
        n.result = "limited" \/ Available' = {} \/ n.result = "no client"

LEMMA LimitedEndsWell == ASSUME NEW k PROVE EndsWell(Ended(k, "limited"))
<1>1. Ended(k, "limited").result = "limited" BY EndedFields
<1>2. QED BY <1>1 DEF EndsWell

LEMMA OtherEndsWell == ASSUME NEW k, "other" \in k.saw, NEW result PROVE EndsWell(Ended(k, result))
<1>1. Ended(k, result).saw = k.saw BY EndedFields
<1>2. Ended(k, result).saw # {"429"} BY <1>1
<1>3. QED BY <1>2 DEF EndsWell

LEMMA TurnEndsWell ==
    ASSUME NEW k \in CallRecord, NEW last, last = "429" \/ "other" \in k.saw
    PROVE  EndsWell(NextTurn(k, last))
<1>1. CASE k.attempt + 1 < Budget
  <2> DEFINE n == [k EXCEPT !.pc = "acquire", !.attempt = @ + 1, !.last = last, !.cred = NoCred]
  <2>1. n.pc = "acquire" BY DEF CallRecord
  <2>2. NextTurn(k, last) = n BY <1>1 DEF NextTurn
  <2> HIDE DEF n
  <2>3. QED BY <2>1, <2>2 DEF EndsWell
<1>2. CASE ~(k.attempt + 1 < Budget)
  <2> DEFINE m == [k EXCEPT !.last = last]
  <2>1. m.saw = k.saw BY DEF CallRecord
  <2>2. NextTurn(k, last) = Ended(m, IF last = "429" THEN "limited" ELSE "failed")
    BY <1>2 DEF NextTurn
  <2> HIDE DEF m
  <2>3. CASE last = "429" BY <2>2, <2>3, LimitedEndsWell
  <2>4. CASE last # "429" BY <2>1, <2>2, <2>4, OtherEndsWell
  <2>5. QED BY <2>3, <2>4
<1>3. QED BY <1>1, <1>2

LEMMA OnEndsWell ==
    ASSUME NEW k \in CallRecord, "other" \in k.saw, NEW e, NEW c
    PROVE  EndsWell(OnOrOut(e, c, k))
BY TurnEndsWell, OtherEndsWell DEF OnOrOut

LEMMA ReceiveEndsWell ==
    ASSUME BaseInv, PlainRateLimits, NEW r \in Calls, NEW a \in Answers \cup {StaleAnswer},
           Receive(r, a)
    PROVE  EndsWell(call'[r])
<1> DEFINE c == call[r].cred
           v == Verdict(call[r].path, a)
           seen == Seen(call[r], a)
           k == Traced(seen)
<1>1. a \in Answer BY AnswerIsTyped
<1>2. CallOK(call[r]) /\ call[r].pc = "sent" BY ReceiveFacts DEF BaseInv, CallsOK
<1>3. /\ CallOK(seen) /\ seen.pc = "sent" /\ seen \in CallRecord
      /\ seen.saw = call[r].saw \cup {IF a.status = 429 THEN "429" ELSE "other"}
  BY <1>1, <1>2, SeenOK DEF CallOK
<1>4. k \in CallRecord /\ k.saw = seen.saw BY <1>3, TracedOK
<1>5. a.status # 429 => "other" \in k.saw BY <1>3, <1>4
<1>6. a.status = 429 => a.marks \cap {"suspended", "unread", "invalid", "gateway"} = {}
  BY DEF PlainRateLimits, StaleAnswer
<1>7. Outcome(r, a, v) BY ReceiveFacts
<1> HIDE DEF k, seen, v
<1>8. ASSUME NEW n, call' = [call EXCEPT ![r] = n] PROVE call'[r] = n
  BY <1>8 DEF BaseInv, CallsOK
<1>9. CASE v = "success"
  <2>1. "other" \in k.saw BY <1>1, <1>5, <1>9, VerdictMeans DEF v
  <2>2. CASE k.path = "traced"
    <3>1. call'[r] = [seen EXCEPT !.pc = "body"] BY <1>7, <1>8, <1>9, <2>2 DEF Outcome, k, seen
    <3>2. call'[r].pc = "body" BY <1>3, <3>1 DEF CallRecord
    <3>3. QED BY <3>2 DEF EndsWell
  <2>3. CASE k.path # "traced"
    <3>1. call'[r] = Ended(k, "served") BY <1>7, <1>8, <1>9, <2>3 DEF Outcome, k, seen
    <3>2. QED BY <2>1, <3>1, OtherEndsWell
  <2>4. QED BY <2>2, <2>3
<1>10. CASE v = "terminal"
  <2>1. "other" \in k.saw
    <3>1. a.status = 402 \/ "suspended" \in a.marks BY <1>1, <1>10, VerdictMeans DEF v
    <3>2. QED BY <1>5, <1>6, <3>1
  <2>2. call'[r] = OnOrOut(Terminal(entry[c]), c, k) BY <1>7, <1>8, <1>10 DEF Outcome, k, seen
  <2>3. QED BY <1>4, <2>1, <2>2, OnEndsWell
<1>11. CASE v = "auth"
  <2>1. "other" \in k.saw BY <1>1, <1>5, <1>11, VerdictMeans DEF v
  <2>2. CASE Refreshes(k, a)
    <3>1. call'[r] = [k EXCEPT !.pc = "refresh", !.refreshed = @ \cup {c}]
      BY <1>7, <1>8, <1>11, <2>2 DEF Outcome, k, seen
    <3>2. call'[r].pc = "refresh" BY <1>4, <3>1 DEF CallRecord
    <3>3. QED BY <3>2 DEF EndsWell
  <2>3. CASE ~Refreshes(k, a)
    <3>1. call'[r] = OnOrOut(Failed(entry[c]), c, k)
      BY <1>7, <1>8, <1>11, <2>3 DEF Outcome, k, seen
    <3>2. QED BY <1>4, <2>1, <3>1, OnEndsWell
  <2>4. QED BY <2>2, <2>3
<1>12. CASE v = "throttled"
  <2>1. call'[r] = Ended(k, "limited") \/ call'[r] = NextTurn(k, "429")
    BY <1>7, <1>8, <1>12 DEF Outcome, k, seen
  <2>2. QED BY <1>4, <2>1, LimitedEndsWell, TurnEndsWell
<1>13. CASE v = "network"
  <2>1. "other" \in k.saw BY <1>1, <1>5, <1>13, VerdictMeans DEF v
  <2>2. call'[r] = NextTurn(k, "other") BY <1>7, <1>8, <1>13 DEF Outcome, k, seen
  <2>3. QED BY <1>4, <2>1, <2>2, TurnEndsWell
<1>14. CASE v = "transient"
  <2> DEFINE last == IF a.status = 429 THEN "429" ELSE "other"
  <2>1. last = "429" \/ "other" \in k.saw BY <1>5
  <2>2. call' = [call EXCEPT ![r] = NextTurn(k, last)] BY <1>7, <1>14 DEF Outcome, k, seen
  <2> HIDE DEF last
  <2>3. call'[r] = NextTurn(k, last) BY <1>8, <2>2
  <2>4. QED BY <1>4, <2>1, <2>3, TurnEndsWell
<1>15. CASE v = "limited"
  <2>1. call'[r] = Ended(k, "limited") BY <1>7, <1>8, <1>15 DEF Outcome, k, seen
  <2>2. QED BY <2>1, LimitedEndsWell
<1>16. CASE v = "reject"
  <2>1. "other" \in k.saw
    <3>1. a.status = 429 => a.marks \cap {"unread", "invalid", "gateway"} # {}
      BY <1>1, <1>16, VerdictMeans DEF v
    <3>2. QED BY <1>5, <1>6, <3>1
  <2>2. call'[r] = Ended(k, "failed") BY <1>7, <1>8, <1>16 DEF Outcome, k, seen
  <2>3. QED BY <2>1, <2>2, OtherEndsWell
<1>17. v \in {"success", "terminal", "auth", "throttled", "network", "transient", "limited",
              "reject"}
  BY <1>1, VerdictMeans DEF v
<1>18. QED BY <1>9, <1>10, <1>11, <1>12, <1>13, <1>14, <1>15, <1>16, <1>17

LEMMA OthersUnmoved ==
    ASSUME BaseInv, NEW r \in Calls, Step(r), NEW q \in Calls, q # r
    PROVE  call'[q] = call[q]
<1>1. DOMAIN call = Calls /\ call = [d \in Calls |-> call[d]] BY DEF BaseInv, CallsOK
<1>2. ASSUME NEW n, call' = [call EXCEPT ![r] = n] PROVE call'[q] = call[q]
  BY <1>1, <1>2
<1>3. CASE Acquire(r) BY <1>1, <1>3 DEF Acquire
<1>4. CASE AcquireFails(r) BY <1>2, <1>4, Zenon DEF AcquireFails
<1>5. CASE Heal(r) BY <1>5 DEF Heal
<1>6. CASE Resolve(r)
  <2>1. call' = [call EXCEPT ![r].pc = "send"] \/ \E n : call' = [call EXCEPT ![r] = n]
    BY <1>6, Zenon DEF Resolve
  <2>2. CASE call' = [call EXCEPT ![r].pc = "send"] BY <1>1, <2>2
  <2>3. QED BY <1>2, <2>1, <2>2
<1>7. CASE Send(r)
  <2>1. call' = [call EXCEPT ![r].pc = "sent"] \/ \E n : call' = [call EXCEPT ![r] = n]
    BY <1>7, Zenon DEF Send
  <2>2. CASE call' = [call EXCEPT ![r].pc = "sent"] BY <1>1, <2>2
  <2>3. QED BY <1>2, <2>1, <2>2
<1>8. CASE NoClient(r) BY <1>2, <1>8, Zenon DEF NoClient
<1>9. ASSUME NEW a, Receive(r, a) PROVE call'[q] = call[q]
  <2>1. Outcome(r, a, Verdict(call[r].path, a)) BY <1>9, ReceiveFacts
  <2>2. \E n : call' = [call EXCEPT ![r] = n] BY <2>1, Zenon DEF Outcome
  <2>3. QED BY <1>2, <2>2
<1>10. ASSUME NEW outcome, Refreshed(r, outcome) PROVE call'[q] = call[q]
  BY <1>2, <1>10, Zenon DEF Refreshed
<1>11. ASSUME NEW accepted, ReadBody(r, accepted) PROVE call'[q] = call[q]
  BY <1>2, <1>11, Zenon DEF ReadBody
<1>12. QED BY <1>3, <1>4, <1>5, <1>6, <1>7, <1>8, <1>9, <1>10, <1>11 DEF Step

LEMMA StepEndsWell ==
    ASSUME BaseInv, PlainRateLimits, NEW r \in Calls, Step(r)
    PROVE  EndsWell(call'[r])
<1> DEFINE k == call[r]
<1>1. CallOK(k) /\ k \in CallRecord BY DEF BaseInv, CallsOK, CallOK
<1>2. ASSUME NEW n, call' = [call EXCEPT ![r] = n] PROVE call'[r] = n
  BY <1>2 DEF BaseInv, CallsOK
<1>3. call'[r].pc # "done" => EndsWell(call'[r]) BY DEF EndsWell
<1>4. CASE Acquire(r)
  <2>1. call'[r].pc = "arn" BY <1>4 DEF Acquire, BaseInv, CallsOK, CallRecord
  <2>2. QED BY <1>3, <2>1
<1>5. CASE AcquireFails(r)
  <2>1. CASE \E c \in Creds : entry[c].state = "enabled"
    <3>1. call' = [call EXCEPT ![r] = Ended(Traced(k), "limited")]
      BY <1>5, <2>1, Zenon DEF AcquireFails
    <3>2. QED BY <1>2, <3>1, LimitedEndsWell
  <2>2. CASE ~\E c \in Creds : entry[c].state = "enabled"
    <3>1. Available' = {} BY <1>5 DEF AcquireFails, Available
    <3>2. QED BY <3>1 DEF EndsWell
  <2>3. QED BY <2>1, <2>2
<1>6. CASE Heal(r)
  <2>1. call'[r].pc = "acquire" BY <1>6 DEF Heal
  <2>2. QED BY <1>3, <2>1
<1>7. CASE Resolve(r)
  <2>1. \/ call' = [call EXCEPT ![r].pc = "send"]
        \/ call' = [call EXCEPT ![r] = Ended(Traced(k), "limited")]
        \/ \E found : call' = [call EXCEPT ![r] = [k EXCEPT !.pc = "send", !.arn = found]]
    BY <1>7, Zenon DEF Resolve
  <2>2. CASE call' = [call EXCEPT ![r].pc = "send"]
    <3>1. call'[r].pc = "send" BY <2>2 DEF BaseInv, CallsOK, CallRecord
    <3>2. QED BY <1>3, <3>1
  <2>3. CASE call' = [call EXCEPT ![r] = Ended(Traced(k), "limited")]
    BY <1>2, <2>3, LimitedEndsWell
  <2>4. ASSUME NEW found, call' = [call EXCEPT ![r] = [k EXCEPT !.pc = "send", !.arn = found]]
        PROVE  EndsWell(call'[r])
    <3>1. call'[r].pc = "send" BY <1>1, <2>4 DEF BaseInv, CallsOK, CallRecord
    <3>2. QED BY <1>3, <3>1
  <2>5. QED BY <2>1, <2>2, <2>3, <2>4
<1>8. CASE Send(r)
  <2>1. call' = [call EXCEPT ![r].pc = "sent"] BY <1>8 DEF Send, PlainRateLimits
  <2>2. call'[r].pc = "sent" BY <2>1 DEF BaseInv, CallsOK, CallRecord
  <2>3. QED BY <1>3, <2>2
<1>9. CASE NoClient(r) BY <1>9 DEF NoClient, PlainRateLimits
<1>10. CASE \E a \in Answers \cup {StaleAnswer} : Receive(r, a) BY <1>10, ReceiveEndsWell
<1>11. ASSUME NEW outcome \in RefreshOutcomes, Refreshed(r, outcome) PROVE EndsWell(call'[r])
  <2>1. "other" \in k.saw BY <1>1, <1>11 DEF Refreshed, CallOK
  <2>2. \/ call' = [call EXCEPT ![r] = NextTurn(k, k.last)]
        \/ call' = [call EXCEPT ![r] = Ended(k, "limited")]
        \/ call' = [call EXCEPT ![r] = OnOrOut(Failed(entry[k.cred]), k.cred, k)]
    BY <1>11, Zenon DEF Refreshed
  <2>3. QED BY <1>1, <1>2, <2>1, <2>2, TurnEndsWell, LimitedEndsWell, OnEndsWell
<1>12. ASSUME NEW accepted \in BOOLEAN, ReadBody(r, accepted) PROVE EndsWell(call'[r])
  <2>1. "other" \in k.saw /\ k.pc = "body" BY <1>1, <1>12 DEF ReadBody, CallOK
  <2>2. "other" \in Traced(k).saw BY <1>1, <2>1, TracedOK
  <2>3. PICK result : call' = [call EXCEPT ![r] = Ended(Traced(k), result)]
    BY <1>12, Zenon DEF ReadBody
  <2>4. call'[r] = Ended(Traced(k), result) BY <1>2, <2>3
  <2>5. QED BY <2>2, <2>4, OtherEndsWell
<1>13. QED
  BY <1>4, <1>5, <1>6, <1>7, <1>8, <1>9, <1>10, <1>11, <1>12 DEF Step, StaleAnswer

LEMMA BackOffStep == ASSUME BaseInv, PlainRateLimits, [Next]_vars PROVE TellsBackOff
<1> SUFFICES ASSUME NEW r \in Calls, call[r].pc # "done", call'[r].pc = "done",
                    call'[r].saw = {"429"}
             PROVE  call'[r].result = "limited" \/ Available' = {}
                      \/ call'[r].result = "no client"
  BY DEF TellsBackOff
<1>1. CASE Step(r) BY <1>1, StepEndsWell DEF EndsWell
<1>2. ASSUME NEW q \in Calls, q # r, Step(q) PROVE FALSE BY <1>2, OthersUnmoved
<1>3. ASSUME NEW q \in Calls, NEW path \in Paths, Begin(q, path) PROVE FALSE
  <2> DEFINE n == [Idle EXCEPT !.pc = "acquire", !.path = path]
  <2>1. n.pc = "acquire" BY DEF Idle
  <2>2. call' = [call EXCEPT ![q] = n] BY <1>3 DEF Begin
  <2> HIDE DEF n
  <2>3. call'[r] = n \/ call'[r] = call[r] BY <2>2 DEF BaseInv, CallsOK
  <2>4. QED BY <2>1, <2>3
<1>4. ASSUME NEW c \in Creds, CoolsDown(c) \/ LookUp(c) \/ Relogin(c) PROVE FALSE
  BY <1>4 DEF CoolsDown, LookUp, Relogin
<1>5. ASSUME NEW c \in Creds, GoesStale(c) PROVE FALSE
  BY <1>5 DEF GoesStale, BaseInv, CallsOK, CallRecord
<1>6. CASE UNCHANGED vars BY <1>6 DEF vars
<1>7. QED BY <1>1, <1>2, <1>3, <1>4, <1>5, <1>6 DEF Next

(* A single call, whatever it is answered on whatever path, marks its       *)
(* credential only for what is the credential's fault; and where a 429 says *)
(* nothing but that it is one, a client that got nothing else is told to    *)
(* back off.                                                                *)
THEOREM AnswersJudged == PlainRateLimits => (MCSpec => CallVerdict)
<1> DEFINE I == part = "several" => BaseInv
           A == IF part = "solo" THEN Solo!BlamesOwnFault ELSE TellsBackOff
<1> SUFFICES ASSUME PlainRateLimits PROVE MCSpec => CallVerdict OBVIOUS
<1>1. MCInit => I BY InitBase DEF MCInit
<1>2. I /\ [MCNext]_<<part, vars>> => I'
  <2> SUFFICES ASSUME I, [MCNext]_<<part, vars>>, part' = "several" PROVE BaseInv' OBVIOUS
  <2>1. part = "several" /\ [Next]_vars BY DEF MCNext
  <2>2. QED BY <2>1, NextBase
<1>3. I /\ [MCNext]_<<part, vars>> => [A]_<<part, vars>>
  <2> SUFFICES ASSUME I, MCNext PROVE A OBVIOUS
  <2>1. CASE part = "solo" BY <2>1, SoloBlames
  <2>2. CASE part = "several"
    <3>1. [Next]_vars BY <2>2 DEF MCNext
    <3>2. QED BY <2>2, <3>1, BackOffStep
  <2>3. QED BY <2>1, <2>2 DEF MCNext
<1>4. QED BY <1>1, <1>2, <1>3, PTL DEF MCSpec, CallVerdict

=============================================================================
