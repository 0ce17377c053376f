--------------------------- MODULE RepliesProofs ----------------------------
(***************************************************************************)
(* For every bound of the run: what becomes of a reply is one message and is *)
(* settled once, in each layer around it (MCReplies), and the thinking of a *)
(* live reply is signed (LiveReplyProofs).                                 *)
(***************************************************************************)
EXTENDS MCReplies, LiveReplyProofs

-----------------------------------------------------------------------------
(* The identity guard: every call it makes is settled, whatever it answers. *)

GuardEvents ==
    {[e |-> "message_start"], [e |-> "start", i |-> 1, what |-> "text"], [e |-> "stop", i |-> 1],
     [e |-> "message_delta"], [e |-> "message_stop"], [e |-> "error"]}

GuardCalls == {"classify", "answer", "review"}

GuardRecord ==
    [stream : BOOLEAN, at : {"classify", "pass", "flow", "answer", "review", "deliver", "done"},
     class : {"none", "pass", "local", "review"},
     inner : {"none", "begun", "open", "ending", "ended", "dropped"},
     doubt : {"none", "open", "settled"}, capture : Seq(GuardCalls), queue : Seq(GuardEvents),
     log : Seq(GuardEvents), shown : Seq(GuardCalls),
     settled : Seq([of : Seq(GuardCalls), ok : BOOLEAN]), listens : BOOLEAN,
     reply : {"none", "ok", "error"}]

(* The one block of an answer of the guard is text. *)
OneText == [b \in 1 .. 1 |-> "text"]

(* The calls of a request are made in this order. *)
GuardCalled(captured, n) ==
    /\ Len(captured) = n
    /\ \A k \in 1 .. n : captured[k] = IF k = 1 THEN "classify" ELSE IF k = 2 THEN "answer" ELSE "review"

(* What a log may say when the guard is done with it. *)
GuardEnding(log) == \E front \in Seq(GuardEvents), n \in {0, 1} :
    Running(front, n, OneText, {}) /\ log = Append(front, [e |-> "message_delta"])
GuardEnded(log) == InProtocol(log) /\ log # <<>> /\ log[Len(log)].e = "message_stop"
GuardFailed(log) ==
    /\ log # <<>> /\ log[Len(log)].e = "error" /\ At(log, "message_stop") = {}
    /\ At(log, "message_delta") = {} => InProtocol(log)
GuardSays(log) == (At(log, "message_delta") = {} \/ At(log, "message_stop") # {}) => InProtocol(log)

GuardAsked(g, n) ==
    /\ GuardCalled(g.capture, n) /\ g.shown = <<>> /\ g.queue = <<>> /\ g.inner = "none" /\ g.reply = "none"
    /\ g.stream => Running(g.log, 0, OneText, {})

GuardFlows(g) ==
    /\ g.stream /\ g.queue = <<>> /\ g.inner \in {"begun", "open", "ending", "ended"}
    /\ g.inner = "begun" => Running(g.log, 0, OneText, {})
    /\ g.inner = "open" => Running(g.log, 0, OneText, {}) \/ Running(g.log, 1, OneText, {})
    /\ g.inner = "ending" => GuardEnding(g.log)
    /\ g.inner = "ended" => GuardEnded(g.log)
    /\ GuardCalled(g.capture, IF g.inner \in {"begun", "open"} THEN 1 ELSE 2)
    /\ g.shown = IF g.inner \in {"begun", "open"} THEN <<>> ELSE g.capture

GuardDelivers(g) ==
    /\ g.stream /\ g.reply = "ok" /\ g.inner = "none" /\ Len(g.queue) \in 0 .. 4
    /\ Len(g.queue) = 4 => /\ Running(g.log, 0, OneText, {})
                           /\ g.queue[1] = [e |-> "start", i |-> 1, what |-> "text"]
                           /\ g.queue[2] = [e |-> "stop", i |-> 1]
                           /\ g.queue[3] = [e |-> "message_delta"] /\ g.queue[4] = [e |-> "message_stop"]
    /\ Len(g.queue) = 3 => /\ Running(g.log, 1, OneText, {1})
                           /\ g.queue[1] = [e |-> "stop", i |-> 1]
                           /\ g.queue[2] = [e |-> "message_delta"] /\ g.queue[3] = [e |-> "message_stop"]
    /\ Len(g.queue) = 2 => /\ Running(g.log, 1, OneText, {})
                           /\ g.queue[1] = [e |-> "message_delta"] /\ g.queue[2] = [e |-> "message_stop"]
    /\ Len(g.queue) = 1 => GuardEnding(g.log) /\ g.queue[1] = [e |-> "message_stop"]
    /\ Len(g.queue) = 0 => GuardEnded(g.log)
    /\ g.shown = IF Len(g.queue) > 1 THEN <<>> ELSE g.capture

GuardFinished(g) ==
    /\ Len(g.settled) = 1 /\ g.settled[1].of = g.capture
    /\ g.shown # <<>> => g.shown = g.capture
    /\ g.stream => /\ GuardSays(g.log)
                   /\ g.settled[1].ok => GuardEnded(g.log)
                   /\ g.listens => IF g.reply = "ok" THEN GuardEnded(g.log) ELSE GuardFailed(g.log)

InDoubt(g) ==
    /\ g.doubt = "open" => At(g.log, "start") = {} /\ g.shown = <<>>
    /\ g.at \notin {"review", "done"} => g.doubt # "open"

GuardIs(g) ==
    /\ g \in GuardRecord
    /\ \E n \in 0 .. 3 : GuardCalled(g.capture, n)
    /\ g.at # "done" => g.settled = <<>>
    /\ ~g.stream => g.log = <<>> /\ g.queue = <<>> /\ g.at \notin {"flow", "deliver"}
    /\ InDoubt(g)
    /\ g.at = "classify" => GuardAsked(g, 0)
    /\ g.at \in {"pass", "answer"} => GuardAsked(g, 1)
    /\ g.at = "review" => GuardAsked(g, 2)
    /\ g.at = "flow" => GuardFlows(g)
    /\ g.at = "deliver" => GuardDelivers(g)
    /\ g.at = "done" => GuardFinished(g)

GuardInv == GuardIs(guard)

LEMMA GuardLogs ==
    ASSUME NEW log \in Seq(GuardEvents)
    PROVE  /\ \A n \in Nat : \A open : Running(log, n, OneText, open) => GuardSays(log)
           /\ GuardEnding(log) => GuardSays(log)
           /\ GuardEnded(log) => GuardSays(log)
           /\ GuardFailed(log) => GuardSays(log)
  <1>1. ASSUME NEW n \in Nat, NEW open, Running(log, n, OneText, open) PROVE GuardSays(log)
    BY <1>1, RunningInProtocol DEF GuardSays
  <1>2. ASSUME GuardEnding(log) PROVE GuardSays(log)
    <2> DEFINE x == [e |-> "message_delta"]
    <2>1. PICK front \in Seq(GuardEvents), n \in {0, 1} :
             Running(front, n, OneText, {}) /\ log = Append(front, x)
      BY <1>2 DEF GuardEnding
    <2>2. x \in GuardEvents /\ x.e = "message_delta" BY DEF GuardEvents
    <2> HIDE DEF x
    <2>3. At(log, "message_delta") = At(front, "message_delta") \cup {Len(front) + 1}
          /\ At(log, "message_stop") = At(front, "message_stop")
      BY <2>1, <2>2, AtAppend
    <2>4. At(front, "message_stop") = {} BY <2>1 DEF Running, Unfinished
    <2> QED BY <2>3, <2>4 DEF GuardSays
  <1>3. GuardEnded(log) => GuardSays(log) BY DEF GuardEnded, GuardSays
  <1>4. GuardFailed(log) => GuardSays(log) BY DEF GuardFailed, GuardSays
  <1> QED BY <1>1, <1>2, <1>3, <1>4

LEMMA GuardErrors ==
    ASSUME NEW log \in Seq(GuardEvents),
           Running(log, 0, OneText, {}) \/ Running(log, 1, OneText, {}) \/ GuardEnding(log)
    PROVE  Append(log, [e |-> "error"]) \in Seq(GuardEvents) /\ GuardFailed(Append(log, [e |-> "error"]))
           /\ At(Append(log, [e |-> "error"]), "start") = At(log, "start")
  <1> DEFINE x == [e |-> "error"]
             more == Append(log, x)
  <1>1. x \in GuardEvents /\ x.e = "error" BY DEF GuardEvents
  <1> HIDE DEF x
  <1>2. /\ more \in Seq(GuardEvents) /\ Len(more) = Len(log) + 1 /\ Len(log) \in Nat /\ more[Len(log) + 1] = x
        /\ \A e : At(more, e) = IF x.e = e THEN At(log, e) \cup {Len(log) + 1} ELSE At(log, e)
    BY <1>1, AtAppend
  <1>3. more # <<>> /\ more[Len(more)].e = "error" /\ At(more, "start") = At(log, "start") BY <1>1, <1>2
  <1>4. ASSUME NEW n \in Nat, Running(log, n, OneText, {}) PROVE GuardFailed(more)
    <2>1. InProtocol(more) /\ At(more, "message_stop") = {} BY <1>1, <1>4, RunningFails
    <2> QED BY <1>3, <2>1 DEF GuardFailed
  <1>5. ASSUME GuardEnding(log) PROVE GuardFailed(more)
    <2> DEFINE y == [e |-> "message_delta"]
    <2>1. PICK front \in Seq(GuardEvents), n \in {0, 1} :
             Running(front, n, OneText, {}) /\ log = Append(front, y)
      BY <1>5 DEF GuardEnding
    <2>2. y \in GuardEvents /\ y.e = "message_delta" BY DEF GuardEvents
    <2> HIDE DEF y
    <2>3. At(log, "message_delta") = At(front, "message_delta") \cup {Len(front) + 1}
          /\ At(log, "message_stop") = At(front, "message_stop")
      BY <2>1, <2>2, AtAppend
    <2>4. At(front, "message_stop") = {} BY <2>1 DEF Running, Unfinished
    <2>5. At(more, "message_delta") # {} /\ At(more, "message_stop") = {} BY <1>1, <1>2, <2>3, <2>4
    <2> QED BY <1>3, <2>5 DEF GuardFailed
  <1>6. GuardFailed(more) BY <1>4, <1>5
  <1> QED BY <1>2, <1>3, <1>6 DEF x

LEMMA CapturedIs ==
    ASSUME NEW g \in GuardRecord, NEW n \in 0 .. 2, GuardCalled(g.capture, n), NEW call \in GuardCalls,
           call = IF n = 0 THEN "classify" ELSE IF n = 1 THEN "answer" ELSE "review"
    PROVE  /\ Captured(g, call) \in GuardRecord /\ GuardCalled(Captured(g, call).capture, n + 1)
           /\ Captured(g, call) = [g EXCEPT !.capture = Captured(g, call).capture]
  <1> DEFINE more == Append(g.capture, call)
  <1>1. more \in Seq(GuardCalls) /\ Len(more) = Len(g.capture) + 1 /\ more[Len(g.capture) + 1] = call
        /\ \A k \in 1 .. Len(g.capture) : more[k] = g.capture[k]
    BY AppendProperties DEF GuardRecord
  <1>2. Captured(g, call) = [g EXCEPT !.capture = more] BY DEF Captured
  <1> HIDE DEF more
  <1>3. Captured(g, call) \in GuardRecord /\ Captured(g, call).capture = more BY <1>1, <1>2 DEF GuardRecord
  <1>4. GuardCalled(more, n + 1)
    <2>1. 1 .. n + 1 = (1 .. n) \cup {n + 1} /\ (n + 1 = 1 <=> n = 0) /\ (n + 1 = 2 <=> n = 1) OBVIOUS
    <2> QED BY <1>1, <2>1 DEF GuardCalled
  <1> QED BY <1>2, <1>3, <1>4

LEMMA SettlesIs ==
    ASSUME NEW g \in GuardRecord, g.settled = <<>>, NEW ok \in BOOLEAN
    PROVE  LET h == Settles(g, ok)
           IN  /\ h \in GuardRecord /\ h.at = "done" /\ Len(h.settled) = 1
               /\ h.settled[1].of = g.capture /\ h.settled[1].ok = ok
               /\ h.stream = g.stream /\ h.inner = g.inner /\ h.doubt = g.doubt /\ h.capture = g.capture
               /\ h.queue = g.queue /\ h.log = g.log /\ h.shown = g.shown /\ h.listens = g.listens
               /\ h.reply = g.reply
  <1> DEFINE rec == [of |-> g.capture, ok |-> ok]
             more == <<rec>>
  <1>1. rec \in [of : Seq(GuardCalls), ok : BOOLEAN] BY DEF GuardRecord
  <1>2. more \in Seq([of : Seq(GuardCalls), ok : BOOLEAN]) /\ Len(more) = 1 /\ more[1] = rec BY <1>1
  <1>3. Settles(g, ok) = [g EXCEPT !.settled = more, !.at = "done"] BY DEF Settles
  <1>4. rec.of = g.capture /\ rec.ok = ok OBVIOUS
  <1> HIDE DEF more, rec
  <1> QED BY <1>2, <1>3, <1>4 DEF GuardRecord

LEMMA RefusesIs ==
    ASSUME NEW g \in GuardRecord, g.settled = <<>>, NEW n \in 0 .. 3, GuardCalled(g.capture, n),
           g.queue = <<>>, ~g.stream => g.log = <<>>,
           g.stream => Running(g.log, 0, OneText, {}) \/ Running(g.log, 1, OneText, {}) \/ GuardEnding(g.log),
           g.shown = <<>> \/ g.shown = g.capture,
           g.doubt = "open" => At(g.log, "start") = {} /\ g.shown = <<>>
    PROVE  GuardIs(Refuses(g))
  <1> DEFINE log == IF g.stream THEN Append(g.log, [e |-> "error"]) ELSE g.log
             d == [g EXCEPT !.reply = "error", !.log = log]
             h == Settles(d, FALSE)
  <1>1. Refuses(g) = h BY DEF Refuses
  <1>2. /\ log \in Seq(GuardEvents) /\ At(log, "start") = At(g.log, "start")
        /\ g.stream => GuardFailed(log)
    BY GuardErrors DEF GuardRecord
  <1>3. ~g.stream => log = <<>> OBVIOUS
  <1> HIDE DEF log
  <1>4. /\ d \in GuardRecord /\ d.settled = <<>> /\ d.reply = "error" /\ d.log = log
        /\ d.stream = g.stream /\ d.doubt = g.doubt /\ d.capture = g.capture /\ d.queue = g.queue
        /\ d.shown = g.shown
    BY <1>2 DEF GuardRecord
  <1> HIDE DEF d
  <1>5. /\ h \in GuardRecord /\ h.at = "done" /\ Len(h.settled) = 1
        /\ h.settled[1].of = g.capture /\ h.settled[1].ok = FALSE
        /\ h.stream = g.stream /\ h.doubt = g.doubt /\ h.capture = g.capture
        /\ h.queue = g.queue /\ h.log = log /\ h.shown = g.shown /\ h.reply = "error"
    BY <1>4, SettlesIs
  <1> HIDE DEF h
  <1>6. g.stream => GuardSays(log) BY <1>2, GuardLogs
  <1>7. GuardFinished(h) BY <1>2, <1>5, <1>6 DEF GuardFinished
  <1>8. InDoubt(h) BY <1>2, <1>5 DEF InDoubt
  <1>9. GuardIs(h) BY <1>3, <1>5, <1>7, <1>8 DEF GuardIs
  <1> QED BY <1>1, <1>9

LEMMA RepliesWholeIs ==
    ASSUME NEW g \in GuardRecord, g.settled = <<>>, NEW n \in 0 .. 3, GuardCalled(g.capture, n),
           g.queue = <<>>, ~g.stream => g.log = <<>>, g.stream => Running(g.log, 0, OneText, {}),
           g.shown = <<>>, g.inner = "none", g.doubt # "open"
    PROVE  GuardIs(RepliesWhole(g))
  <1>1. CASE g.stream
    <2> DEFINE q == <<[e |-> "start", i |-> 1, what |-> "text"], [e |-> "stop", i |-> 1],
                      [e |-> "message_delta"], [e |-> "message_stop"]>>
               h == [g EXCEPT !.at = "deliver", !.reply = "ok", !.queue = q]
    <2>1. RepliesWhole(g) = h BY <1>1 DEF RepliesWhole
    <2>2. q \in Seq(GuardEvents) /\ Len(q) = 4 /\ q[1] = [e |-> "start", i |-> 1, what |-> "text"]
          /\ q[2] = [e |-> "stop", i |-> 1] /\ q[3] = [e |-> "message_delta"] /\ q[4] = [e |-> "message_stop"]
      BY DEF GuardEvents
    <2> HIDE DEF q
    <2>3. /\ h \in GuardRecord /\ h.settled = <<>> /\ h.reply = "ok" /\ h.log = g.log
          /\ h.stream = g.stream /\ h.doubt = g.doubt /\ h.capture = g.capture /\ h.queue = q
          /\ h.shown = g.shown /\ h.inner = g.inner /\ h.at = "deliver"
      BY <2>2 DEF GuardRecord
    <2> HIDE DEF h
    <2>4. GuardDelivers(h)
      <3>1. Len(h.queue) = 4 /\ h.queue[1] = [e |-> "start", i |-> 1, what |-> "text"]
            /\ h.queue[2] = [e |-> "stop", i |-> 1] /\ h.queue[3] = [e |-> "message_delta"]
            /\ h.queue[4] = [e |-> "message_stop"]
        BY <2>2, <2>3
      <3>2. h.stream /\ h.shown = <<>> /\ Running(h.log, 0, OneText, {}) BY <1>1, <2>3
      <3> QED BY <2>3, <3>1, <3>2 DEF GuardDelivers
    <2>5. InDoubt(h) BY <2>3 DEF InDoubt
    <2>6. GuardIs(h) BY <1>1, <2>3, <2>4, <2>5 DEF GuardIs
    <2> QED BY <2>1, <2>6
  <1>2. CASE ~g.stream
    <2> DEFINE d == [g EXCEPT !.reply = "ok", !.shown = g.capture]
               h == Settles(d, TRUE)
    <2>1. RepliesWhole(g) = h BY <1>2 DEF RepliesWhole
    <2>2. /\ d \in GuardRecord /\ d.settled = <<>> /\ d.reply = "ok" /\ d.log = g.log
          /\ d.stream = g.stream /\ d.doubt = g.doubt /\ d.capture = g.capture /\ d.queue = g.queue
          /\ d.shown = g.capture
      BY DEF GuardRecord
    <2> HIDE DEF d
    <2>3. /\ h \in GuardRecord /\ h.at = "done" /\ Len(h.settled) = 1
          /\ h.settled[1].of = g.capture
          /\ h.stream = g.stream /\ h.doubt = g.doubt /\ h.capture = g.capture
          /\ h.queue = g.queue /\ h.log = g.log /\ h.shown = g.capture
      BY <2>2, SettlesIs
    <2> HIDE DEF h
    <2>4. GuardFinished(h) BY <1>2, <2>3 DEF GuardFinished
    <2>5. InDoubt(h) BY <2>3 DEF InDoubt
    <2>6. GuardIs(h) BY <1>2, <2>3, <2>4, <2>5 DEF GuardIs
    <2> QED BY <2>1, <2>6
  <1> QED BY <1>1, <1>2

LEMMA GuardInitially == GuardInit => GuardInv
  <1> SUFFICES ASSUME GuardInit PROVE GuardInv OBVIOUS
  <1>1. PICK stream \in BOOLEAN :
          guard = [stream |-> stream, at |-> "classify", class |-> "none", inner |-> "none",
                   doubt |-> "none", capture |-> <<>>, queue |-> <<>>,
                   log |-> IF stream THEN <<[e |-> "message_start"]>> ELSE <<>>,
                   shown |-> <<>>, settled |-> <<>>, listens |-> TRUE, reply |-> "none"]
    BY DEF GuardInit
  <1> DEFINE x == [e |-> "message_start"]
             log == IF stream THEN <<x>> ELSE <<>>
  <1>2. x \in GuardEvents /\ x.e = "message_start" BY DEF GuardEvents
  <1> HIDE DEF x
  <1>3. log \in Seq(GuardEvents) /\ (stream => Running(log, 0, OneText, {})) /\ (~stream => log = <<>>)
    BY <1>2, RunningBegins, EmptySeq
  <1>4. guard.log = log BY <1>1 DEF x
  <1> HIDE DEF log
  <1>5. /\ guard.stream = stream /\ guard.at = "classify" /\ guard.inner = "none" /\ guard.doubt = "none"
        /\ guard.capture = <<>> /\ guard.queue = <<>> /\ guard.shown = <<>> /\ guard.settled = <<>>
        /\ guard.reply = "none"
    BY <1>1
  <1>6. guard \in GuardRecord BY <1>1, <1>3, <1>4, EmptySeq DEF GuardRecord
  <1>7. Len(<<>>) = 0 /\ GuardCalled(<<>>, 0) BY DEF GuardCalled
  <1>8. GuardAsked(guard, 0) BY <1>3, <1>4, <1>5, <1>7 DEF GuardAsked
  <1>9. InDoubt(guard) BY <1>5 DEF InDoubt
  <1> QED BY <1>3, <1>4, <1>5, <1>6, <1>7, <1>8, <1>9 DEF GuardInv, GuardIs

LEMMA GuardSound == GuardInv => GuardTypeOK /\ GuardWellFormed /\ GuardSettledOnce
  <1> SUFFICES ASSUME GuardInv PROVE GuardTypeOK /\ GuardWellFormed /\ GuardSettledOnce OBVIOUS
  <1>0. GuardIs(guard) BY DEF GuardInv
  <1>1. guard \in GuardRecord BY <1>0 DEF GuardIs
  <1>2. PICK n \in 0 .. 3 : GuardCalled(guard.capture, n) BY <1>0 DEF GuardIs
  <1>3. guard.at = "done" => GuardFinished(guard) BY <1>0 DEF GuardIs
  <1>4. guard.at # "done" => guard.settled = <<>> BY <1>0 DEF GuardIs
  <1>5. GuardTypeOK
    <2>1. Len(guard.capture) <= 3 BY <1>2 DEF GuardCalled
    <2>2. Len(guard.settled) <= 1
      <3>1. Len(<<>>) = 0 OBVIOUS
      <3>2. Len(guard.settled) = 0 \/ Len(guard.settled) = 1 BY <1>3, <1>4, <3>1 DEF GuardFinished
      <3>3. PICK len \in {0, 1} : len = Len(guard.settled) BY <3>2
      <3>4. len <= 1 OBVIOUS
      <3> QED BY <3>3, <3>4
    <2> QED BY <1>1, <2>1, <2>2 DEF GuardTypeOK, GuardRecord
  <1>6. guard.log \in Seq(GuardEvents) /\ guard.capture \in Seq(GuardCalls) BY <1>1 DEF GuardRecord
  <1>7. guard.stream => GuardSays(guard.log)
    <2> SUFFICES ASSUME guard.stream PROVE GuardSays(guard.log) OBVIOUS
    <2>1. CASE guard.at \in {"classify", "pass", "answer", "review"}
      BY <1>0, <1>6, <2>1, GuardLogs DEF GuardIs, GuardAsked
    <2>2. CASE guard.at = "flow"
      <3>1. GuardFlows(guard) BY <1>0, <2>2 DEF GuardIs
      <3> QED BY <1>6, <3>1, GuardLogs DEF GuardFlows
    <2>3. CASE guard.at = "deliver"
      <3>1. GuardDelivers(guard) BY <1>0, <2>3 DEF GuardIs
      <3>2. Len(guard.queue) \in {0, 1, 2, 3, 4} BY <3>1 DEF GuardDelivers
      <3> QED BY <1>6, <3>1, <3>2, GuardLogs DEF GuardDelivers
    <2>4. CASE guard.at = "done" BY <1>3, <2>4 DEF GuardFinished
    <2> QED BY <1>1, <2>1, <2>2, <2>3, <2>4 DEF GuardRecord
  <1>8. GuardWellFormed
    <2>1. guard.at = "done" /\ guard.listens /\ guard.stream =>
            Last(guard.log).e = (IF guard.reply = "ok" THEN "message_stop" ELSE "error")
      BY <1>3 DEF GuardFinished, GuardEnded, GuardFailed, Last
    <2>2. At(guard.log, "start") # {} \/ guard.shown # <<>> => guard.doubt # "open" BY <1>0 DEF GuardIs, InDoubt
    <2> QED BY <1>7, <2>1, <2>2 DEF GuardWellFormed, GuardSays
  <1>9. GuardSettledOnce
    <2>1. guard.at = "done" <=> guard.settled # <<>>
      <3>1. Len(<<>>) = 0 OBVIOUS
      <3> QED BY <1>3, <1>4, <3>1 DEF GuardFinished
    <2>2. \A k, m \in DOMAIN guard.capture : guard.capture[k] = guard.capture[m] => k = m
      <3>1. DOMAIN guard.capture = 1 .. n BY <1>2, <1>6 DEF GuardCalled
      <3> SUFFICES ASSUME NEW k \in 1 .. n, NEW m \in 1 .. n, guard.capture[k] = guard.capture[m] PROVE k = m
        BY <3>1
      <3>2. k \in {1, 2, 3} /\ m \in {1, 2, 3} OBVIOUS
      <3> QED BY <1>2, <3>2 DEF GuardCalled
    <2>3. guard.settled # <<>> =>
            /\ guard.settled[1].of = guard.capture
            /\ guard.shown # <<>> => guard.shown = guard.capture
            /\ guard.settled[1].ok /\ guard.stream => Last(guard.log).e = "message_stop"
      BY <1>3, <2>1 DEF GuardFinished, GuardEnded, Last
    <2> QED BY <2>1, <2>2, <2>3 DEF GuardSettledOnce
  <1> QED BY <1>5, <1>8, <1>9

(* The calls of a request so far, or with one more. *)
LEMMA MaybeCapturedIs ==
    ASSUME NEW g \in GuardRecord, NEW n \in 0 .. 2, GuardCalled(g.capture, n), NEW call \in GuardCalls,
           call = IF n = 0 THEN "classify" ELSE IF n = 1 THEN "answer" ELSE "review",
           NEW h \in MaybeCaptured(g, call)
    PROVE  /\ h \in GuardRecord /\ \E m \in 0 .. 3 : GuardCalled(h.capture, m)
           /\ h.stream = g.stream /\ h.at = g.at /\ h.inner = g.inner /\ h.doubt = g.doubt /\ h.queue = g.queue
           /\ h.log = g.log /\ h.shown = g.shown /\ h.settled = g.settled /\ h.listens = g.listens
           /\ h.reply = g.reply
  <1>1. CASE h = g BY <1>1
  <1>2. CASE h = Captured(g, call)
    <2>1. PICK more : more = Captured(g, call).capture OBVIOUS
    <2>2. h \in GuardRecord /\ GuardCalled(more, n + 1) /\ h = [g EXCEPT !.capture = more] /\ h.capture = more
      BY <1>2, <2>1, CapturedIs
    <2>3. n + 1 \in 0 .. 3 OBVIOUS
    <2> QED BY <2>2, <2>3 DEF GuardRecord
  <1> QED BY <1>1, <1>2 DEF MaybeCaptured

(* What an ask may become if it fails. *)
LEMMA AskRefused ==
    ASSUME NEW g, GuardIs(g), NEW n \in 0 .. 2, GuardAsked(g, n), g.at \in {"classify", "pass", "answer", "review"},
           NEW call \in GuardCalls,
           call = IF n = 0 THEN "classify" ELSE IF n = 1 THEN "answer" ELSE "review",
           NEW h \in MaybeCaptured(g, call)
    PROVE  GuardIs(Refuses(h))
  <1>1. /\ g \in GuardRecord /\ GuardCalled(g.capture, n) /\ g.settled = <<>> /\ (~g.stream => g.log = <<>>)
        /\ g.doubt = "open" => At(g.log, "start") = {} /\ g.shown = <<>>
    BY DEF GuardIs, GuardAsked, InDoubt
  <1>2. /\ h \in GuardRecord /\ \E m \in 0 .. 3 : GuardCalled(h.capture, m)
        /\ h.stream = g.stream /\ h.doubt = g.doubt /\ h.queue = g.queue
        /\ h.log = g.log /\ h.shown = g.shown /\ h.settled = g.settled
    BY <1>1, MaybeCapturedIs
  <1>3. PICK m \in 0 .. 3 : GuardCalled(h.capture, m) BY <1>2
  <1>4. g.shown = <<>> /\ g.queue = <<>> /\ (g.stream => Running(g.log, 0, OneText, {})) BY DEF GuardAsked
  <1> QED BY <1>1, <1>2, <1>3, <1>4, RefusesIs

LEMMA AskMoves ==
    ASSUME NEW g, GuardIs(g), NEW n \in 0 .. 2, GuardAsked(g, n), g.at \in {"classify", "pass", "answer", "review"},
           NEW call \in GuardCalls,
           call = IF n = 0 THEN "classify" ELSE IF n = 1 THEN "answer" ELSE "review"
    PROVE  LET h == Captured(g, call)
           IN  /\ h \in GuardRecord /\ GuardCalled(h.capture, n + 1) /\ n + 1 \in 0 .. 3
               /\ h.stream = g.stream /\ h.at = g.at /\ h.inner = "none" /\ h.doubt = g.doubt /\ h.queue = <<>>
               /\ h.log = g.log /\ h.shown = <<>> /\ h.settled = <<>> /\ h.listens = g.listens
               /\ h.reply = "none" /\ (~h.stream => h.log = <<>>)
               /\ h.stream => Running(h.log, 0, OneText, {})
  <1>1. /\ g \in GuardRecord /\ GuardCalled(g.capture, n) /\ g.settled = <<>> /\ (~g.stream => g.log = <<>>)
    BY DEF GuardIs, GuardAsked
  <1>2. PICK more : more = Captured(g, call).capture OBVIOUS
  <1>3. Captured(g, call) \in GuardRecord /\ GuardCalled(more, n + 1) /\ Captured(g, call) = [g EXCEPT !.capture = more]
    BY <1>1, <1>2, CapturedIs
  <1>4. g.shown = <<>> /\ g.queue = <<>> /\ g.reply = "none" /\ g.inner = "none"
        /\ (g.stream => Running(g.log, 0, OneText, {}))
    BY DEF GuardAsked
  <1> QED BY <1>1, <1>2, <1>3, <1>4 DEF GuardRecord

LEMMA EmptyLogHasNoStart ==
    ASSUME NEW log, NEW K, Running(log, 0, K, {}) PROVE At(log, "start") = {}
  <1>1. \A j \in At(log, "start") : log[j].i \in 1 .. 0 BY DEF Running, Numbered
  <1>2. 1 .. 0 = {} OBVIOUS
  <1> QED BY <1>1, <1>2

LEMMA ClassifiedKeeps == ASSUME GuardInv, Classified PROVE GuardInv'
  <1>0. GuardIs(guard) /\ guard.at = "classify" BY DEF GuardInv, Classified
  <1>1. GuardAsked(guard, 0) /\ guard.doubt # "open" BY <1>0 DEF GuardIs, InDoubt
  <1> DEFINE h == Captured(guard, "classify")
  <1>2. "classify" \in GuardCalls BY DEF GuardCalls
  <1>3. /\ h \in GuardRecord /\ GuardCalled(h.capture, 1)
        /\ h.stream = guard.stream /\ h.inner = "none" /\ h.doubt = guard.doubt /\ h.queue = <<>>
        /\ h.log = guard.log /\ h.shown = <<>> /\ h.settled = <<>>
        /\ h.reply = "none" /\ (~h.stream => h.log = <<>>)
        /\ h.stream => Running(h.log, 0, OneText, {})
    <2>1. 0 + 1 = 1 /\ 0 \in 0 .. 2 OBVIOUS
    <2> QED BY <1>0, <1>1, <1>2, <2>1, AskMoves
  <1>4. PICK class \in {"pass", "local", "review"} :
          guard' = CASE class = "pass"  -> [[h EXCEPT !.class = class] EXCEPT !.at = "pass"]
                     [] class = "local" -> RepliesWhole([h EXCEPT !.class = class])
                     [] OTHER           -> [[h EXCEPT !.class = class] EXCEPT !.at = "answer"]
    BY DEF Classified
  <1> HIDE DEF h
  <1> DEFINE g == [h EXCEPT !.class = class]
  <1>5. /\ g \in GuardRecord /\ GuardCalled(g.capture, 1)
        /\ g.stream = guard.stream /\ g.inner = "none" /\ g.doubt = guard.doubt /\ g.queue = <<>>
        /\ g.log = guard.log /\ g.shown = <<>> /\ g.settled = <<>>
        /\ g.reply = "none" /\ (~g.stream => g.log = <<>>)
        /\ g.stream => Running(g.log, 0, OneText, {})
    BY <1>3 DEF GuardRecord
  <1>6. guard' = CASE class = "pass"  -> [g EXCEPT !.at = "pass"]
                   [] class = "local" -> RepliesWhole(g)
                   [] OTHER           -> [g EXCEPT !.at = "answer"]
    BY <1>4
  <1> HIDE DEF g
  <1>7. CASE class = "local"
    <2>1. 1 \in 0 .. 3 OBVIOUS
    <2>2. GuardIs(RepliesWhole(g)) BY <1>1, <1>5, <2>1, RepliesWholeIs
    <2> QED BY <1>6, <1>7, <2>2 DEF GuardInv
  <1>8. CASE class # "local"
    <2>1. PICK to \in {"pass", "answer"} : guard' = [g EXCEPT !.at = to] BY <1>6, <1>8
    <2>2. /\ guard' \in GuardRecord /\ guard'.at = to /\ guard'.capture = g.capture
          /\ guard'.stream = g.stream /\ guard'.inner = "none" /\ guard'.doubt = guard.doubt /\ guard'.queue = <<>>
          /\ guard'.log = g.log /\ guard'.shown = <<>> /\ guard'.settled = <<>> /\ guard'.reply = "none"
      BY <1>5, <2>1 DEF GuardRecord
    <2>3. GuardAsked(guard', 1) BY <1>5, <2>2 DEF GuardAsked
    <2>4. InDoubt(guard') BY <1>1, <2>2 DEF InDoubt
    <2>5. 1 \in 0 .. 3 OBVIOUS
    <2> QED BY <1>5, <2>1, <2>2, <2>3, <2>4, <2>5 DEF GuardInv, GuardIs
  <1> QED BY <1>7, <1>8

LEMMA CheckFailsKeeps == ASSUME GuardInv, CheckFails PROVE GuardInv'
  <1>0. GuardIs(guard) /\ guard.at \in {"classify", "review"} BY DEF GuardInv, CheckFails
  <1>1. PICK h \in MaybeCaptured(guard, guard.at) : guard' = Refuses(h) BY DEF CheckFails
  <1>2. guard.at \in GuardCalls BY <1>0 DEF GuardCalls
  <1>3. PICK n \in {0, 2} : GuardAsked(guard, n) /\ (n = 0 <=> guard.at = "classify")
    BY <1>0 DEF GuardIs
  <1>4. GuardIs(Refuses(h)) BY <1>0, <1>1, <1>2, <1>3, AskRefused
  <1> QED BY <1>1, <1>4 DEF GuardInv

LEMMA PassedWholeKeeps == ASSUME GuardInv, PassedWhole PROVE GuardInv'
  <1>0. GuardIs(guard) /\ guard.at = "pass" BY DEF GuardInv, PassedWhole
  <1>1. GuardAsked(guard, 1) /\ guard.doubt # "open" BY <1>0 DEF GuardIs, InDoubt
  <1>2. "answer" \in GuardCalls /\ 1 \in 0 .. 2 BY DEF GuardCalls
  <1>3. CASE ~guard.stream /\ guard' = RepliesWhole(Captured(guard, "answer"))
    <2> DEFINE g == Captured(guard, "answer")
    <2>1. /\ g \in GuardRecord /\ GuardCalled(g.capture, 2)
          /\ g.stream = guard.stream /\ g.inner = "none" /\ g.doubt = guard.doubt /\ g.queue = <<>>
          /\ g.shown = <<>> /\ g.settled = <<>> /\ (~g.stream => g.log = <<>>)
          /\ g.stream => Running(g.log, 0, OneText, {})
      <3>1. 1 + 1 = 2 OBVIOUS
      <3> QED BY <1>0, <1>1, <1>2, <3>1, AskMoves
    <2> HIDE DEF g
    <2>2. 2 \in 0 .. 3 OBVIOUS
    <2>3. GuardIs(RepliesWhole(g)) BY <1>1, <2>1, <2>2, RepliesWholeIs
    <2> QED BY <1>3, <2>3 DEF GuardInv, g
  <1>4. CASE guard.stream /\ guard' = [guard EXCEPT !.at = "flow", !.inner = "begun"]
    <2>1. guard \in GuardRecord /\ guard.settled = <<>> BY <1>0 DEF GuardIs
    <2>2. /\ guard' \in GuardRecord /\ guard'.at = "flow" /\ guard'.inner = "begun" /\ guard'.capture = guard.capture
          /\ guard'.stream = guard.stream /\ guard'.doubt = guard.doubt /\ guard'.queue = guard.queue
          /\ guard'.log = guard.log /\ guard'.shown = guard.shown /\ guard'.settled = <<>>
      BY <1>4, <2>1 DEF GuardRecord
    <2>3. GuardFlows(guard') BY <1>1, <1>4, <2>2 DEF GuardFlows, GuardAsked
    <2>4. InDoubt(guard') BY <1>1, <2>2 DEF InDoubt
    <2>5. \E n \in 0 .. 3 : GuardCalled(guard.capture, n) BY <1>0 DEF GuardIs
    <2> QED BY <1>4, <2>2, <2>3, <2>4, <2>5 DEF GuardInv, GuardIs
  <1>5. CASE \E g \in MaybeCaptured(guard, "answer") : guard' = Refuses(g)
    <2>1. PICK g \in MaybeCaptured(guard, "answer") : guard' = Refuses(g) BY <1>5
    <2>2. GuardIs(Refuses(g)) BY <1>0, <1>1, <1>2, AskRefused
    <2> QED BY <2>1, <2>2 DEF GuardInv
  <1> QED BY <1>3, <1>4, <1>5 DEF PassedWhole

(* An event more of a log of the guard. *)
LEMMA GuardTells ==
    ASSUME NEW g \in GuardRecord, NEW ev \in GuardEvents
    PROVE  /\ Tells(g, ev) \in GuardRecord /\ Tells(g, ev).log = Append(g.log, ev)
           /\ Tells(g, ev) = [g EXCEPT !.log = Append(g.log, ev)]
           /\ g.log \in Seq(GuardEvents) /\ Append(g.log, ev) \in Seq(GuardEvents)
  <1>1. g.log \in Seq(GuardEvents) /\ Append(g.log, ev) \in Seq(GuardEvents) BY AppendProperties DEF GuardRecord
  <1>2. Tells(g, ev) = [g EXCEPT !.log = Append(g.log, ev)] BY DEF Tells
  <1> QED BY <1>1, <1>2 DEF GuardRecord

LEMMA GuardBlockText ==
    ASSUME NEW log \in Seq(GuardEvents), Running(log, 0, OneText, {})
    PROVE  /\ Running(Append(log, [e |-> "start", i |-> 1, what |-> "text"]), 1, OneText, {1})
  <1> DEFINE x == [e |-> "start", i |-> 1, what |-> "text"]
  <1>1. x \in GuardEvents /\ x.e = "start" /\ x.i = 0 + 1 /\ x.what = "text" BY DEF GuardEvents
  <1> HIDE DEF x
  <1>2. OneText[0 + 1] = x.what /\ \A b \in 1 .. 0 : OneText[b] = OneText[b] BY <1>1 DEF OneText
  <1>3. Running(Append(log, x), 0 + 1, OneText, {} \cup {0 + 1}) BY <1>1, <1>2, RunningStart
  <1>4. 0 + 1 = 1 /\ {} \cup {0 + 1} = {1} OBVIOUS
  <1> QED BY <1>3, <1>4 DEF x

LEMMA GuardBlockStop ==
    ASSUME NEW log \in Seq(GuardEvents), Running(log, 1, OneText, {1})
    PROVE  Running(Append(log, [e |-> "stop", i |-> 1]), 1, OneText, {})
  <1> DEFINE x == [e |-> "stop", i |-> 1]
  <1>1. x \in GuardEvents /\ x.e = "stop" /\ x.i = 1 BY DEF GuardEvents
  <1> HIDE DEF x
  <1>2. Running(Append(log, x), 1, OneText, {1} \ {1}) BY <1>1, RunningStop
  <1>3. {1} \ {1} = {} OBVIOUS
  <1> QED BY <1>2, <1>3 DEF x

LEMMA GuardEnds ==
    ASSUME NEW log \in Seq(GuardEvents), GuardEnding(log)
    PROVE  GuardEnded(Append(log, [e |-> "message_stop"]))
  <1> DEFINE x == [e |-> "message_delta"]
             y == [e |-> "message_stop"]
  <1>1. PICK front \in Seq(GuardEvents), n \in {0, 1} :
           Running(front, n, OneText, {}) /\ log = Append(front, x)
    BY DEF GuardEnding
  <1>2. x \in GuardEvents /\ x.e = "message_delta" /\ y \in GuardEvents /\ y.e = "message_stop" BY DEF GuardEvents
  <1> HIDE DEF x, y
  <1>3. InProtocol(Append(log, y)) BY <1>1, <1>2, RunningEnds
  <1>4. Len(Append(log, y)) = Len(log) + 1 /\ Append(log, y)[Len(log) + 1] = y /\ Len(log) \in Nat
    BY <1>2, AppendProperties
  <1>5. Append(log, y) # <<>>
    <2>1. Len(<<>>) = 0 OBVIOUS
    <2> QED BY <1>4, <2>1
  <1> QED BY <1>2, <1>3, <1>4, <1>5 DEF GuardEnded, y

LEMMA FlowKeeps == ASSUME GuardInv, Flow PROVE GuardInv'
  <1>0. GuardIs(guard) /\ guard.at = "flow" BY DEF GuardInv, Flow
  <1>1. guard \in GuardRecord /\ guard.settled = <<>> /\ GuardFlows(guard) /\ guard.doubt # "open"
    BY <1>0 DEF GuardIs, InDoubt
  <1>2. guard.log \in Seq(GuardEvents) BY <1>1 DEF GuardRecord
  <1> DEFINE n == IF guard.inner \in {"begun", "open"} THEN 1 ELSE 2
  <1>3. GuardCalled(guard.capture, n) /\ n \in 0 .. 3 BY <1>1 DEF GuardFlows
  <1>4. CASE guard.inner = "begun" /\ guard' = [guard EXCEPT !.inner = "open"]
    <2>1. /\ guard' \in GuardRecord /\ guard'.at = "flow" /\ guard'.inner = "open" /\ guard'.capture = guard.capture
          /\ guard'.stream = guard.stream /\ guard'.doubt = guard.doubt /\ guard'.queue = guard.queue
          /\ guard'.log = guard.log /\ guard'.shown = guard.shown /\ guard'.settled = <<>>
      BY <1>0, <1>1, <1>4 DEF GuardRecord
    <2>2. GuardFlows(guard') BY <1>1, <1>4, <2>1 DEF GuardFlows
    <2>3. InDoubt(guard') BY <1>1, <2>1 DEF InDoubt
    <2> QED BY <1>1, <1>3, <2>1, <2>2, <2>3 DEF GuardInv, GuardIs, GuardFlows
  <1>5. CASE guard.inner = "open" /\ At(guard.log, "start") = {}
             /\ guard' = Tells(Tells(guard, [e |-> "start", i |-> 1, what |-> "text"]), [e |-> "stop", i |-> 1])
    <2> DEFINE x == [e |-> "start", i |-> 1, what |-> "text"]
               y == [e |-> "stop", i |-> 1]
               d == Tells(guard, x)
               log == Append(Append(guard.log, x), y)
    <2>1. x \in GuardEvents /\ y \in GuardEvents BY DEF GuardEvents
    <2>2. Running(guard.log, 0, OneText, {})
      <3>1. CASE Running(guard.log, 1, OneText, {})
        <4>1. 1 \in 1 .. 1 OBVIOUS
        <4>2. \E s \in DOMAIN guard.log : Of(guard.log, "start", 1) = {s}
          BY <3>1, <4>1 DEF Running, StartedOnce
        <4>3. Of(guard.log, "start", 1) \subseteq At(guard.log, "start") BY DEF Of
        <4> QED BY <1>5, <4>2, <4>3
      <3> QED BY <1>1, <1>5, <3>1 DEF GuardFlows
    <2>3. Running(log, 1, OneText, {})
      <3>1. Append(guard.log, x) \in Seq(GuardEvents) BY <1>2, <2>1, AppendProperties
      <3>2. Running(Append(guard.log, x), 1, OneText, {1}) BY <1>2, <2>2, GuardBlockText
      <3> QED BY <3>1, <3>2, GuardBlockStop
    <2>4. d \in GuardRecord /\ d = [guard EXCEPT !.log = Append(guard.log, x)] /\ d.log = Append(guard.log, x)
      BY <1>1, <2>1, GuardTells
    <2> HIDE DEF x, y
    <2>5. guard' = Tells(d, y) BY <1>5 DEF x, y
    <2> HIDE DEF d
    <2>6. guard' \in GuardRecord /\ guard' = [d EXCEPT !.log = log] /\ guard'.log = log
      BY <2>1, <2>4, <2>5, GuardTells
    <2> HIDE DEF log
    <2>7. /\ guard'.at = "flow" /\ guard'.inner = "open" /\ guard'.capture = guard.capture
          /\ guard'.stream = guard.stream /\ guard'.doubt = guard.doubt /\ guard'.queue = guard.queue
          /\ guard'.log = log /\ guard'.shown = guard.shown /\ guard'.settled = <<>>
      BY <1>0, <1>1, <1>5, <2>4, <2>6 DEF GuardRecord
    <2>8. GuardFlows(guard') BY <1>1, <1>5, <2>3, <2>7 DEF GuardFlows
    <2>9. InDoubt(guard') BY <1>1, <2>7 DEF InDoubt
    <2> QED BY <1>1, <1>3, <2>6, <2>7, <2>8, <2>9 DEF GuardInv, GuardIs, GuardFlows
  <1>6. CASE guard.inner = "open"
             /\ LET g == [Captured(guard, "answer") EXCEPT !.inner = "ending"]
                IN  guard' = [Tells(g, [e |-> "message_delta"]) EXCEPT !.shown = g.capture]
    <2> DEFINE x == [e |-> "message_delta"]
               c == Captured(guard, "answer")
               more == c.capture
               log == Append(guard.log, x)
    <2>1. x \in GuardEvents /\ "answer" \in GuardCalls BY DEF GuardEvents, GuardCalls
    <2>2. GuardCalled(guard.capture, 1) /\ 1 \in 0 .. 2 /\ 1 + 1 = 2 BY <1>1, <1>6 DEF GuardFlows
    <2>3. c \in GuardRecord /\ GuardCalled(more, 2) /\ c = [guard EXCEPT !.capture = more]
      BY <1>1, <2>1, <2>2, CapturedIs
    <2>4. guard' = [Tells([c EXCEPT !.inner = "ending"], x) EXCEPT !.shown = [c EXCEPT !.inner = "ending"].capture]
      BY <1>6
    <2> HIDE DEF x, c
    <2> DEFINE d == [c EXCEPT !.inner = "ending"]
    <2>5. d \in GuardRecord /\ d.capture = more /\ d.log = guard.log /\ d.inner = "ending"
          /\ d.at = "flow" /\ d.stream = guard.stream /\ d.doubt = guard.doubt /\ d.queue = guard.queue
          /\ d.settled = <<>>
      BY <1>0, <1>1, <2>3 DEF GuardRecord
    <2>6. guard' = [Tells(d, x) EXCEPT !.shown = d.capture] BY <2>4
    <2> HIDE DEF d
    <2>7. Tells(d, x) \in GuardRecord /\ Tells(d, x) = [d EXCEPT !.log = log]
      BY <2>1, <2>5, GuardTells
    <2>8. more \in Seq(GuardCalls) BY <2>5 DEF GuardRecord
    <2> HIDE DEF log, more
    <2>9. /\ guard' \in GuardRecord /\ guard'.at = "flow" /\ guard'.inner = "ending" /\ guard'.capture = more
          /\ guard'.stream = guard.stream /\ guard'.doubt = guard.doubt /\ guard'.queue = guard.queue
          /\ guard'.log = log /\ guard'.shown = more /\ guard'.settled = <<>>
      BY <2>5, <2>6, <2>7, <2>8 DEF GuardRecord
    <2>10. GuardEnding(log)
      BY <1>1, <1>2, <1>6 DEF GuardEnding, GuardFlows, log, x
    <2>11. GuardFlows(guard') BY <1>1, <2>3, <2>9, <2>10 DEF GuardFlows
    <2>12. InDoubt(guard') BY <1>1, <2>9 DEF InDoubt
    <2>13. 2 \in 0 .. 3 OBVIOUS
    <2> QED BY <1>1, <2>3, <2>9, <2>11, <2>12, <2>13 DEF GuardInv, GuardIs, GuardFlows
  <1>7. CASE guard.inner = "ending" /\ guard' = [Tells(guard, [e |-> "message_stop"]) EXCEPT !.inner = "ended"]
    <2> DEFINE x == [e |-> "message_stop"]
               log == Append(guard.log, x)
    <2>1. x \in GuardEvents BY DEF GuardEvents
    <2>2. Tells(guard, x) \in GuardRecord /\ Tells(guard, x) = [guard EXCEPT !.log = log]
      BY <1>1, <2>1, GuardTells
    <2>3. GuardEnded(log) BY <1>1, <1>2, <1>7, GuardEnds DEF GuardFlows
    <2>4. guard' = [Tells(guard, x) EXCEPT !.inner = "ended"] BY <1>7
    <2> HIDE DEF x, log
    <2>5. /\ guard' \in GuardRecord /\ guard'.at = "flow" /\ guard'.inner = "ended" /\ guard'.capture = guard.capture
          /\ guard'.stream = guard.stream /\ guard'.doubt = guard.doubt /\ guard'.queue = guard.queue
          /\ guard'.log = log /\ guard'.shown = guard.shown /\ guard'.settled = <<>>
      BY <1>0, <1>1, <2>2, <2>4 DEF GuardRecord
    <2>6. GuardFlows(guard') BY <1>1, <1>7, <2>3, <2>5 DEF GuardFlows
    <2>7. InDoubt(guard') BY <1>1, <2>5 DEF InDoubt
    <2> QED BY <1>1, <1>3, <2>5, <2>6, <2>7 DEF GuardInv, GuardIs, GuardFlows
  <1> QED BY <1>4, <1>5, <1>6, <1>7 DEF Flow

LEMMA InnerDroppedIs ==
    ASSUME NEW g, GuardIs(g), g.at # "done"
    PROVE  LET h == InnerDropped(g)
           IN  /\ h \in GuardRecord /\ \E n \in 0 .. 3 : GuardCalled(h.capture, n)
               /\ h.stream = g.stream /\ h.at = g.at /\ h.doubt = g.doubt /\ h.queue = g.queue
               /\ h.log = g.log /\ h.shown = g.shown /\ h.settled = <<>> /\ h.listens = g.listens
               /\ h.reply = g.reply
               /\ h.shown # <<>> => h.capture = g.capture /\ h.shown = h.capture
  <1>1. g \in GuardRecord /\ g.settled = <<>> BY DEF GuardIs
  <1>2. CASE g.inner \in {"begun", "open"}
    <2>1. g.at = "flow" BY <1>1, <1>2 DEF GuardIs, GuardAsked, GuardDelivers, GuardRecord
    <2>2. GuardFlows(g) BY <2>1 DEF GuardIs
    <2>3. GuardCalled(g.capture, 1) /\ g.shown = <<>> BY <1>2, <2>2 DEF GuardFlows
    <2> DEFINE c == Captured(g, "answer")
    <2>4. PICK more : more = c.capture OBVIOUS
    <2>5. c \in GuardRecord /\ GuardCalled(more, 2) /\ c = [g EXCEPT !.capture = more]
      <3>1. "answer" \in GuardCalls /\ 1 \in 0 .. 2 /\ 1 + 1 = 2 BY DEF GuardCalls
      <3> QED BY <1>1, <2>3, <2>4, <3>1, CapturedIs
    <2>6. InnerDropped(g) = [c EXCEPT !.inner = "dropped"] BY <1>2 DEF InnerDropped
    <2> HIDE DEF c
    <2>7. 2 \in 0 .. 3 OBVIOUS
    <2>8. PICK h : h = InnerDropped(g) OBVIOUS
    <2>9. more \in Seq(GuardCalls) BY <2>4, <2>5 DEF GuardRecord
    <2>10. /\ h \in GuardRecord /\ h.capture = more
           /\ h.stream = g.stream /\ h.at = g.at /\ h.doubt = g.doubt /\ h.queue = g.queue
           /\ h.log = g.log /\ h.shown = g.shown /\ h.settled = <<>> /\ h.listens = g.listens
           /\ h.reply = g.reply
      <3>1. PICK of : of = [g EXCEPT !.capture = more] /\ of \in GuardRecord BY <2>5
      <3>2. h = [of EXCEPT !.inner = "dropped"] BY <2>5, <2>6, <2>8, <3>1
      <3>3. /\ of.capture = more /\ of.stream = g.stream /\ of.at = g.at /\ of.doubt = g.doubt /\ of.queue = g.queue
            /\ of.log = g.log /\ of.shown = g.shown /\ of.settled = <<>> /\ of.listens = g.listens /\ of.reply = g.reply
        BY <1>1, <3>1 DEF GuardRecord
      <3> HIDE <2>5, <2>6, <2>8
      <3> QED BY <3>1, <3>2, <3>3 DEF GuardRecord
    <2> QED BY <2>3, <2>5, <2>7, <2>8, <2>10
  <1>3. CASE g.inner \notin {"begun", "open"}
    <2>1. InnerDropped(g) = g BY <1>3 DEF InnerDropped
    <2>2. g.shown # <<>> => g.shown = g.capture
      <3>1. g.at \in {"classify", "pass", "answer", "review"} => g.shown = <<>> BY DEF GuardIs, GuardAsked
      <3>2. g.at = "flow" => GuardFlows(g) BY DEF GuardIs
      <3>3. g.at = "deliver" => GuardDelivers(g) BY DEF GuardIs
      <3> QED BY <1>1, <3>1, <3>2, <3>3 DEF GuardFlows, GuardDelivers, GuardRecord
    <2>3. \E n \in 0 .. 3 : GuardCalled(g.capture, n) BY DEF GuardIs
    <2> QED BY <1>1, <2>1, <2>2, <2>3
  <1> QED BY <1>2, <1>3

LEMMA FlowEndsKeeps == ASSUME GuardInv, FlowEnds PROVE GuardInv'
  <1>0. GuardIs(guard) /\ guard.at = "flow" BY DEF GuardInv, FlowEnds
  <1>1. guard \in GuardRecord /\ guard.settled = <<>> /\ GuardFlows(guard) /\ guard.doubt # "open"
    BY <1>0 DEF GuardIs, InDoubt
  <1>2. CASE guard.inner = "ended" /\ guard' = Settles([guard EXCEPT !.reply = "ok"], TRUE)
    <2> DEFINE d == [guard EXCEPT !.reply = "ok"]
    <2>1. /\ d \in GuardRecord /\ d.settled = <<>> /\ d.reply = "ok" /\ d.capture = guard.capture
          /\ d.stream = guard.stream /\ d.doubt = guard.doubt /\ d.queue = guard.queue
          /\ d.log = guard.log /\ d.shown = guard.shown
      BY <1>1 DEF GuardRecord
    <2>2. guard' = Settles(d, TRUE) BY <1>2
    <2> HIDE DEF d
    <2>3. /\ guard' \in GuardRecord /\ guard'.at = "done" /\ Len(guard'.settled) = 1
          /\ guard'.settled[1].of = guard.capture /\ guard'.capture = guard.capture
          /\ guard'.stream = guard.stream /\ guard'.doubt = guard.doubt /\ guard'.queue = guard.queue
          /\ guard'.log = guard.log /\ guard'.shown = guard.shown /\ guard'.reply = "ok"
      BY <2>1, <2>2, SettlesIs
    <2>4. GuardEnded(guard.log) /\ guard.shown = guard.capture BY <1>1, <1>2 DEF GuardFlows
    <2>5. guard.log \in Seq(GuardEvents) BY <1>1 DEF GuardRecord
    <2>6. GuardSays(guard.log) BY <2>4, <2>5, GuardLogs
    <2>7. GuardFinished(guard') BY <2>3, <2>4, <2>6 DEF GuardFinished
    <2>8. InDoubt(guard') BY <1>1, <2>3 DEF InDoubt
    <2>9. \E n \in 0 .. 3 : GuardCalled(guard.capture, n) BY <1>0 DEF GuardIs
    <2> QED BY <1>1, <2>3, <2>7, <2>8, <2>9 DEF GuardInv, GuardIs, GuardFlows
  <1>3. CASE guard.inner # "ended" /\ guard' = Refuses(InnerDropped(guard))
    <2> DEFINE h == InnerDropped(guard)
    <2>1. /\ h \in GuardRecord /\ \E n \in 0 .. 3 : GuardCalled(h.capture, n)
          /\ h.stream = guard.stream /\ h.doubt = guard.doubt /\ h.queue = guard.queue
          /\ h.log = guard.log /\ h.shown = guard.shown /\ h.settled = <<>>
          /\ h.shown # <<>> => h.shown = h.capture
      BY <1>0, InnerDroppedIs
    <2> HIDE DEF h
    <2>2. PICK n \in 0 .. 3 : GuardCalled(h.capture, n) BY <2>1
    <2>3. guard.queue = <<>> /\ guard.stream
          /\ (Running(guard.log, 0, OneText, {}) \/ Running(guard.log, 1, OneText, {}) \/ GuardEnding(guard.log))
      BY <1>1, <1>3 DEF GuardFlows
    <2>4. GuardIs(Refuses(h)) BY <1>1, <2>1, <2>2, <2>3, RefusesIs
    <2> QED BY <1>3, <2>4 DEF GuardInv, h
  <1> QED BY <1>2, <1>3 DEF FlowEnds

LEMMA AnsweredWholeKeeps == ASSUME GuardInv, AnsweredWhole PROVE GuardInv'
  <1>0. GuardIs(guard) /\ guard.at = "answer" BY DEF GuardInv, AnsweredWhole
  <1>1. GuardAsked(guard, 1) /\ guard.doubt # "open" BY <1>0 DEF GuardIs, InDoubt
  <1>2. "answer" \in GuardCalls /\ 1 \in 0 .. 2 BY DEF GuardCalls
  <1> DEFINE g == Captured(guard, "answer")
  <1>3. /\ g \in GuardRecord /\ GuardCalled(g.capture, 2)
        /\ g.stream = guard.stream /\ g.inner = "none" /\ g.doubt = guard.doubt /\ g.queue = <<>>
        /\ g.log = guard.log /\ g.shown = <<>> /\ g.settled = <<>> /\ g.reply = "none"
        /\ (~g.stream => g.log = <<>>)
        /\ g.stream => Running(g.log, 0, OneText, {})
    <2>1. 1 + 1 = 2 OBVIOUS
    <2> QED BY <1>0, <1>1, <1>2, <2>1, AskMoves
  <1>4. CASE guard' = RepliesWhole(Captured(guard, "answer"))
    <2> HIDE DEF g
    <2>1. 2 \in 0 .. 3 OBVIOUS
    <2>2. GuardIs(RepliesWhole(g)) BY <1>1, <1>3, <2>1, RepliesWholeIs
    <2> QED BY <1>4, <2>2 DEF GuardInv, g
  <1>5. CASE guard' = [Captured(guard, "answer") EXCEPT !.at = "review", !.doubt = "open"]
    <2>1. guard' = [g EXCEPT !.at = "review", !.doubt = "open"] BY <1>5
    <2> HIDE DEF g
    <2>2. /\ guard' \in GuardRecord /\ guard'.at = "review" /\ guard'.inner = "none" /\ guard'.capture = g.capture
          /\ guard'.stream = g.stream /\ guard'.doubt = "open" /\ guard'.queue = <<>>
          /\ guard'.log = g.log /\ guard'.shown = <<>> /\ guard'.settled = <<>> /\ guard'.reply = "none"
      BY <1>3, <2>1 DEF GuardRecord
    <2>3. GuardAsked(guard', 2) BY <1>3, <2>2 DEF GuardAsked
    <2>4. At(g.log, "start") = {}
      <3>1. At(<<>>, "start") = {} BY DEF At
      <3>2. g.stream => At(g.log, "start") = {} BY <1>3, EmptyLogHasNoStart
      <3> QED BY <1>3, <3>1, <3>2 DEF GuardRecord
    <2>5. InDoubt(guard') BY <2>2, <2>4 DEF InDoubt
    <2>6. 2 \in 0 .. 3 OBVIOUS
    <2> QED BY <1>3, <2>2, <2>3, <2>5, <2>6 DEF GuardInv, GuardIs
  <1>6. CASE \E h \in MaybeCaptured(guard, "answer") : guard' = Refuses(h)
    <2>1. PICK h \in MaybeCaptured(guard, "answer") : guard' = Refuses(h) BY <1>6
    <2>2. GuardIs(Refuses(h)) BY <1>0, <1>1, <1>2, <2>1, AskRefused
    <2> QED BY <2>1, <2>2 DEF GuardInv
  <1> QED BY <1>4, <1>5, <1>6 DEF AnsweredWhole

LEMMA ReviewedKeeps == ASSUME GuardInv, Reviewed PROVE GuardInv'
  <1>0. GuardIs(guard) /\ guard.at = "review" BY DEF GuardInv, Reviewed
  <1>1. GuardAsked(guard, 2) BY <1>0 DEF GuardIs
  <1>2. "review" \in GuardCalls /\ 2 \in 0 .. 2 BY DEF GuardCalls
  <1> DEFINE g == Captured(guard, "review")
  <1>3. /\ g \in GuardRecord /\ GuardCalled(g.capture, 3)
        /\ g.stream = guard.stream /\ g.inner = "none" /\ g.doubt = guard.doubt /\ g.queue = <<>>
        /\ g.log = guard.log /\ g.shown = <<>> /\ g.settled = <<>> /\ g.reply = "none"
        /\ (~g.stream => g.log = <<>>)
        /\ g.stream => Running(g.log, 0, OneText, {})
    <2>1. 2 + 1 = 3 OBVIOUS
    <2> QED BY <1>0, <1>1, <1>2, <2>1, AskMoves
  <1>4. guard' = RepliesWhole([g EXCEPT !.doubt = "settled"]) \/ guard' = Refuses(g) BY DEF Reviewed
  <1>5. g \in MaybeCaptured(guard, "review") BY DEF MaybeCaptured
  <1>6. CASE guard' = Refuses(g)
    <2> HIDE DEF g
    <2>1. GuardIs(Refuses(g)) BY <1>0, <1>1, <1>2, <1>5, AskRefused
    <2> QED BY <1>6, <2>1 DEF GuardInv
  <1>7. CASE guard' = RepliesWhole([g EXCEPT !.doubt = "settled"])
    <2> HIDE DEF g
    <2> DEFINE d == [g EXCEPT !.doubt = "settled"]
    <2>1. /\ d \in GuardRecord /\ d.capture = g.capture
          /\ d.stream = guard.stream /\ d.inner = "none" /\ d.doubt = "settled" /\ d.queue = <<>>
          /\ d.log = g.log /\ d.shown = <<>> /\ d.settled = <<>>
      BY <1>3 DEF GuardRecord
    <2>2. guard' = RepliesWhole(d) BY <1>7
    <2> HIDE DEF d
    <2>3. 3 \in 0 .. 3 OBVIOUS
    <2>4. GuardIs(RepliesWhole(d)) BY <1>3, <2>1, <2>3, RepliesWholeIs
    <2> QED BY <2>2, <2>4 DEF GuardInv
  <1> QED BY <1>4, <1>6, <1>7

LEMMA DeliverGuardedKeeps == ASSUME GuardInv, DeliverGuarded PROVE GuardInv'
  <1>0. GuardIs(guard) /\ guard.at = "deliver" BY DEF GuardInv, DeliverGuarded
  <1>1. guard \in GuardRecord /\ guard.settled = <<>> /\ GuardDelivers(guard) /\ guard.doubt # "open" /\ guard.stream
    BY <1>0 DEF GuardIs, InDoubt, GuardDelivers
  <1>2. guard.log \in Seq(GuardEvents) /\ guard.queue \in Seq(GuardEvents) BY <1>1 DEF GuardRecord
  <1>3. PICK c \in 0 .. 3 : GuardCalled(guard.capture, c) BY <1>0 DEF GuardIs
  <1>4. CASE guard.queue = <<>>
    <2>1. guard' = Settles(guard, TRUE) BY <1>4 DEF DeliverGuarded
    <2>2. /\ guard' \in GuardRecord /\ guard'.at = "done" /\ Len(guard'.settled) = 1
          /\ guard'.settled[1].of = guard.capture /\ guard'.capture = guard.capture
          /\ guard'.stream = guard.stream /\ guard'.doubt = guard.doubt /\ guard'.queue = guard.queue
          /\ guard'.log = guard.log /\ guard'.shown = guard.shown /\ guard'.reply = guard.reply
      BY <1>1, <2>1, SettlesIs
    <2>3. Len(guard.queue) = 0 /\ ~(0 > 1) BY <1>4
    <2>4. GuardEnded(guard.log) /\ guard.shown = guard.capture /\ guard.reply = "ok" BY <1>1, <2>3 DEF GuardDelivers
    <2>5. GuardSays(guard.log) BY <1>2, <2>4, GuardLogs
    <2>6. GuardFinished(guard') BY <2>2, <2>4, <2>5 DEF GuardFinished
    <2>7. InDoubt(guard') BY <1>1, <2>2 DEF InDoubt
    <2> QED BY <1>1, <1>3, <2>2, <2>6, <2>7 DEF GuardInv, GuardIs
  <1>5. CASE guard.queue # <<>>
    <2> DEFINE ev == Head(guard.queue)
               log == Append(guard.log, ev)
               rest == Tail(guard.queue)
               told == IF ev.e = "message_delta" THEN guard.capture ELSE guard.shown
    <2>1. PICK q \in 1 .. 4 : q = Len(guard.queue)
      <3>1. Len(guard.queue) # 0 BY <1>2, <1>5, EmptySeq
      <3>2. Len(guard.queue) \in 0 .. 4 BY <1>1 DEF GuardDelivers
      <3> QED BY <3>1, <3>2
    <2>2. /\ ev = guard.queue[1] /\ ev \in GuardEvents /\ rest \in Seq(GuardEvents) /\ Len(rest) = q - 1
          /\ \A k \in 1 .. q - 1 : rest[k] = guard.queue[k + 1]
          /\ log \in Seq(GuardEvents) /\ told \in Seq(GuardCalls)
      <3>1. ev = guard.queue[1] /\ ev \in GuardEvents /\ rest \in Seq(GuardEvents) /\ Len(rest) = q - 1
            /\ \A k \in 1 .. q - 1 : rest[k] = guard.queue[k + 1]
        BY <1>2, <1>5, <2>1, HeadTailProperties
      <3>2. log \in Seq(GuardEvents) BY <1>2, <3>1, AppendProperties
      <3>3. told \in Seq(GuardCalls) BY <1>1 DEF GuardRecord
      <3> QED BY <3>1, <3>2, <3>3
    <2>3. guard' = [guard EXCEPT !.log = log, !.queue = rest, !.shown = told] BY <1>5 DEF DeliverGuarded
    <2>4. log = Append(guard.log, ev) /\ told = IF ev.e = "message_delta" THEN guard.capture ELSE guard.shown OBVIOUS
    <2> HIDE DEF log, rest, told, ev
    <2>5. /\ guard' \in GuardRecord /\ guard'.at = "deliver" /\ guard'.inner = guard.inner
          /\ guard'.capture = guard.capture /\ guard'.stream = guard.stream /\ guard'.doubt = guard.doubt
          /\ guard'.queue = rest /\ guard'.log = log /\ guard'.shown = told /\ guard'.settled = <<>>
          /\ guard'.reply = guard.reply
      BY <1>0, <1>1, <2>2, <2>3 DEF GuardRecord
    <2>6. InDoubt(guard') BY <1>1, <2>5 DEF InDoubt
    <2>7. GuardDelivers(guard')
      <3>0. guard.reply = "ok" /\ guard.inner = "none" BY <1>1 DEF GuardDelivers
      <3>1. CASE q = 4
        <4>1. /\ Running(guard.log, 0, OneText, {}) /\ guard.shown = <<>>
              /\ ev = [e |-> "start", i |-> 1, what |-> "text"]
              /\ guard.queue[2] = [e |-> "stop", i |-> 1]
              /\ guard.queue[3] = [e |-> "message_delta"] /\ guard.queue[4] = [e |-> "message_stop"]
          BY <1>1, <2>1, <2>2, <3>1 DEF GuardDelivers
        <4>2. Running(log, 1, OneText, {1}) BY <1>2, <2>4, <4>1, GuardBlockText
        <4>3. Len(rest) = 3 /\ rest[1] = guard.queue[2] /\ rest[2] = guard.queue[3] /\ rest[3] = guard.queue[4]
          BY <2>2, <3>1
        <4>4. told = <<>> BY <2>4, <4>1
        <4> QED BY <1>1, <2>5, <3>0, <4>1, <4>2, <4>3, <4>4 DEF GuardDelivers
      <3>2. CASE q = 3
        <4>1. /\ Running(guard.log, 1, OneText, {1}) /\ guard.shown = <<>>
              /\ ev = [e |-> "stop", i |-> 1]
              /\ guard.queue[2] = [e |-> "message_delta"] /\ guard.queue[3] = [e |-> "message_stop"]
          BY <1>1, <2>1, <2>2, <3>2 DEF GuardDelivers
        <4>2. Running(log, 1, OneText, {}) BY <1>2, <2>4, <4>1, GuardBlockStop
        <4>3. Len(rest) = 2 /\ rest[1] = guard.queue[2] /\ rest[2] = guard.queue[3] BY <2>2, <3>2
        <4>4. told = <<>> BY <2>4, <4>1
        <4> QED BY <1>1, <2>5, <3>0, <4>1, <4>2, <4>3, <4>4 DEF GuardDelivers
      <3>3. CASE q = 2
        <4>1. /\ Running(guard.log, 1, OneText, {})
              /\ ev = [e |-> "message_delta"] /\ guard.queue[2] = [e |-> "message_stop"]
          BY <1>1, <2>1, <2>2, <3>3 DEF GuardDelivers
        <4>2. GuardEnding(log) BY <1>2, <2>4, <4>1 DEF GuardEnding
        <4>3. Len(rest) = 1 /\ rest[1] = guard.queue[2] BY <2>2, <3>3
        <4>4. told = guard.capture BY <2>4, <4>1
        <4> QED BY <1>1, <2>5, <3>0, <4>1, <4>2, <4>3, <4>4 DEF GuardDelivers
      <3>4. CASE q = 1
        <4>1. GuardEnding(guard.log) /\ ev = [e |-> "message_stop"] /\ guard.shown = guard.capture
          BY <1>1, <2>1, <2>2, <3>4 DEF GuardDelivers
        <4>2. GuardEnded(log) BY <1>2, <2>4, <4>1, GuardEnds
        <4>3. Len(rest) = 0 BY <2>2, <3>4
        <4>4. told = guard.capture BY <2>4, <4>1
        <4> QED BY <1>1, <2>5, <3>0, <4>2, <4>3, <4>4 DEF GuardDelivers
      <3> QED BY <3>1, <3>2, <3>3, <3>4
    <2> QED BY <1>1, <1>3, <2>5, <2>6, <2>7 DEF GuardInv, GuardIs
  <1> QED BY <1>4, <1>5

LEMMA GuardLeftKeeps == ASSUME GuardInv, GuardLeft PROVE GuardInv'
  <1>0. GuardIs(guard) /\ guard.at # "done" /\ guard' = [guard EXCEPT !.listens = FALSE] BY DEF GuardInv, GuardLeft
  <1>1. guard \in GuardRecord BY <1>0 DEF GuardIs
  <1>2. /\ guard' \in GuardRecord /\ guard'.at = guard.at /\ guard'.inner = guard.inner
        /\ guard'.capture = guard.capture /\ guard'.stream = guard.stream /\ guard'.doubt = guard.doubt
        /\ guard'.queue = guard.queue /\ guard'.log = guard.log /\ guard'.shown = guard.shown
        /\ guard'.settled = guard.settled /\ guard'.reply = guard.reply
    BY <1>0, <1>1 DEF GuardRecord
  <1>3. InDoubt(guard) BY <1>0 DEF GuardIs
  <1>4. InDoubt(guard') BY <1>2, <1>3 DEF InDoubt
  <1>5. \A n \in 0 .. 3 : GuardAsked(guard, n) => GuardAsked(guard', n) BY <1>2 DEF GuardAsked
  <1>6. GuardFlows(guard) => GuardFlows(guard') BY <1>2 DEF GuardFlows
  <1>7. GuardDelivers(guard) => GuardDelivers(guard') BY <1>2 DEF GuardDelivers
  <1>8. 0 \in 0 .. 3 /\ 1 \in 0 .. 3 /\ 2 \in 0 .. 3 OBVIOUS
  <1>9. GuardIs(guard') BY <1>0, <1>2, <1>4, <1>5, <1>6, <1>7, <1>8 DEF GuardIs
  <1> QED BY <1>9 DEF GuardInv

LEMMA GuardDroppedKeeps == ASSUME GuardInv, GuardDropped PROVE GuardInv'
  <1>0. GuardIs(guard) /\ guard.at # "done" /\ ~guard.listens BY DEF GuardInv, GuardDropped
  <1>1. PICK g \in IF guard.at \in {"pass", "answer"} THEN MaybeCaptured(guard, "answer") ELSE {InnerDropped(guard)} :
           guard' = Settles(g, FALSE)
    BY DEF GuardDropped
  <1>2. /\ g \in GuardRecord /\ \E n \in 0 .. 3 : GuardCalled(g.capture, n)
        /\ g.stream = guard.stream /\ g.doubt = guard.doubt /\ g.queue = guard.queue
        /\ g.log = guard.log /\ g.shown = guard.shown /\ g.settled = <<>> /\ g.listens = guard.listens
        /\ g.reply = guard.reply
        /\ g.shown # <<>> => g.shown = g.capture
    <2>1. CASE guard.at \in {"pass", "answer"}
      <3>1. GuardAsked(guard, 1) /\ guard \in GuardRecord /\ guard.settled = <<>> BY <1>0, <2>1 DEF GuardIs
      <3>2. GuardCalled(guard.capture, 1) /\ guard.shown = <<>> /\ "answer" \in GuardCalls /\ 1 \in 0 .. 2
        BY <3>1 DEF GuardAsked, GuardCalls
      <3>3. g \in MaybeCaptured(guard, "answer") BY <1>1, <2>1
      <3> QED BY <3>1, <3>2, <3>3, MaybeCapturedIs
    <2>2. CASE guard.at \notin {"pass", "answer"}
      <3>1. g = InnerDropped(guard) BY <1>1, <2>2
      <3> QED BY <1>0, <3>1, InnerDroppedIs
    <2> QED BY <2>1, <2>2
  <1>3. /\ guard' \in GuardRecord /\ guard'.at = "done" /\ Len(guard'.settled) = 1
        /\ guard'.settled[1].of = g.capture /\ guard'.settled[1].ok = FALSE /\ guard'.capture = g.capture
        /\ guard'.stream = g.stream /\ guard'.doubt = g.doubt /\ guard'.queue = g.queue
        /\ guard'.log = g.log /\ guard'.shown = g.shown /\ guard'.reply = g.reply /\ guard'.listens = g.listens
    BY <1>1, <1>2, SettlesIs
  <1>4. guard \in GuardRecord BY <1>0 DEF GuardIs
  <1>5. guard.log \in Seq(GuardEvents) BY <1>4 DEF GuardRecord
  <1>6. guard.stream => GuardSays(guard.log)
    <2> SUFFICES ASSUME guard.stream PROVE GuardSays(guard.log) OBVIOUS
    <2>1. CASE guard.at \in {"classify", "pass", "answer", "review"}
      BY <1>0, <1>5, <2>1, GuardLogs DEF GuardIs, GuardAsked
    <2>2. CASE guard.at = "flow"
      <3>1. GuardFlows(guard) BY <1>0, <2>2 DEF GuardIs
      <3> QED BY <1>5, <3>1, GuardLogs DEF GuardFlows
    <2>3. CASE guard.at = "deliver"
      <3>1. GuardDelivers(guard) BY <1>0, <2>3 DEF GuardIs
      <3>2. Len(guard.queue) \in {0, 1, 2, 3, 4} BY <3>1 DEF GuardDelivers
      <3> QED BY <1>5, <3>1, <3>2, GuardLogs DEF GuardDelivers
    <2> QED BY <1>0, <1>4, <2>1, <2>2, <2>3 DEF GuardRecord
  <1>7. GuardFinished(guard') BY <1>0, <1>2, <1>3, <1>6 DEF GuardFinished
  <1>8. InDoubt(guard') BY <1>0, <1>2, <1>3 DEF GuardIs, InDoubt
  <1>9. ~guard'.stream => guard'.log = <<>> /\ guard'.queue = <<>> BY <1>0, <1>2, <1>3 DEF GuardIs
  <1> QED BY <1>2, <1>3, <1>7, <1>8, <1>9 DEF GuardInv, GuardIs

LEMMA GuardStep == GuardInv /\ [GuardNext]_guard => GuardInv'
  <1> SUFFICES ASSUME GuardInv, [GuardNext]_guard PROVE GuardInv' OBVIOUS
  <1>1. CASE UNCHANGED guard BY <1>1 DEF GuardInv
  <1>2. CASE GuardNext
    BY <1>2, ClassifiedKeeps, CheckFailsKeeps, PassedWholeKeeps, FlowKeeps, FlowEndsKeeps, AnsweredWholeKeeps,
       ReviewedKeeps, DeliverGuardedKeeps, GuardLeftKeeps, GuardDroppedKeeps DEF GuardNext
  <1> QED BY <1>1, <1>2

-----------------------------------------------------------------------------
(* The execution bridge: rounds, the calls of a round and their results.    *)

BridgeKinds == {"text", "server", "result", "client", "search"}
SaidKinds == {"text", "exec", "client", "search"}
BridgeBlock == [what : BridgeKinds, of : Nat \X Nat]
BridgeStops == {"none", "tool_use", "end_turn", "max_tokens"}
BridgeEvents ==
    [e : {"start", "delta", "stop"}, i : Nat, what : BridgeKinds] \cup [e : {"message_delta"}, stop : BridgeStops]
    \cup {[e |-> "message_start"], [e |-> "message_stop"], [e |-> "error"]}

KindsOf(content) == [b \in DOMAIN content |-> content[b].what]

SearchCount(content) == Cardinality({k \in DOMAIN content : content[k].what = "search"})

(* A call of the execution tool is answered by the block behind it. *)
Shaped(content) ==
    \A k \in 1 .. Len(content) : content[k].what = "server" =>
        k < Len(content) /\ content[k + 1] = [content[k] EXCEPT !.what = "result"]

(* What is left of the blocks of a message continues it. *)
LEMMA BlockEventsRun ==
    ASSUME NEW content \in Seq(BridgeBlock), NEW offset \in 0 .. Len(content),
           NEW log \in Seq(BridgeEvents), Running(log, offset, KindsOf(content), {})
    PROVE  /\ BlockEvents(content, offset) \in Seq(BridgeEvents)
           /\ Running(log \o BlockEvents(content, offset), Len(content), KindsOf(content), {})
  <1> DEFINE S == BridgeEvents
             K == KindsOf(content)
             ev(k, e) == [e |-> e, i |-> offset + k, what |-> content[offset + k].what]
             piece(k) == IF content[offset + k].what = "result" THEN <<ev(k, "start"), ev(k, "stop")>>
                         ELSE <<ev(k, "start"), ev(k, "delta"), ev(k, "stop")>>
             ss == [k \in 1 .. Len(content) - offset |-> piece(k)]
  <1>1. PICK n \in Nat : n = Len(content) - offset /\ Len(content) = offset + n OBVIOUS
  <1>2. ASSUME NEW k \in 1 .. n
        PROVE  /\ offset + k \in Nat /\ content[offset + k] \in BridgeBlock /\ offset + k \in DOMAIN content
               /\ offset + k = (offset + (k - 1)) + 1 /\ offset + (k - 1) \in Nat
               /\ \A e \in {"start", "delta", "stop"} : ev(k, e) \in S /\ ev(k, e).e = e /\ ev(k, e).i = offset + k
               /\ ev(k, "start").what = K[offset + k]
    <2>1. offset + k \in 1 .. Len(content) /\ offset + k = (offset + (k - 1)) + 1 /\ offset + (k - 1) \in Nat BY <1>1
    <2>2. content[offset + k] \in BridgeBlock BY <2>1, ElementOfSeq
    <2>3. content[offset + k].what \in BridgeKinds BY <2>2 DEF BridgeBlock
    <2>4. \A e \in {"start", "delta", "stop"} : ev(k, e) \in [e : {"start", "delta", "stop"}, i : Nat, what : BridgeKinds]
      BY <2>1, <2>3
    <2>5. K[offset + k] = content[offset + k].what BY <2>1 DEF KindsOf
    <2> QED BY <2>1, <2>2, <2>4, <2>5 DEF BridgeEvents
  <1>3. BlockEvents(content, offset) = FlattenSeq(ss) BY DEF BlockEvents
  <1> HIDE DEF ev, K
  <1>4. ASSUME NEW k \in 1 .. n PROVE piece(k) \in Seq(S)
    <2>1. ev(k, "start") \in S /\ ev(k, "delta") \in S /\ ev(k, "stop") \in S BY <1>2
    <2> QED BY <2>1
  <1>5. ss \in Seq(Seq(S)) /\ Len(ss) = n /\ \A k \in 1 .. n : ss[k] = piece(k)
    <2>1. ss = [k \in 1 .. n |-> piece(k)] BY <1>1
    <2> HIDE DEF piece
    <2> QED BY <1>4, <2>1
  <1> HIDE DEF ss, S, piece
  <1>6. PICK f : Joined(f, ss, S) /\ FlattenSeq(ss) = f[n] BY <1>5, FlattenJoins
  <1>7. f \in [0 .. n -> Seq(S)] /\ f[0] = << >> /\ \A k \in 1 .. n : f[k] = f[k - 1] \o piece(k)
    BY <1>5, <1>6 DEF Joined
  <1>t. ss \in Seq(Seq(S)) BY <1>5
  <1> DEFINE T == {k \in 0 .. n : log \o f[k] \in Seq(S) /\ Running(log \o f[k], offset + k, K, {})}
  <1>8. 0 \in T
    <2>1. log \o << >> = log /\ log \in Seq(S) BY ConcatEmptySeq DEF S
    <2>2. offset + 0 = offset OBVIOUS
    <2>3. Running(log, offset, K, {}) BY DEF K
    <2>4. log \o f[0] \in Seq(S) /\ Running(log \o f[0], offset + 0, K, {}) /\ 0 \in 0 .. n
      BY <1>7, <2>1, <2>2, <2>3
    <2> QED BY <2>4
  <1>9. ASSUME NEW j \in 0 .. n - 1, j \in T PROVE j + 1 \in T
    <2>1. PICK k \in 1 .. n : k = j + 1 /\ k - 1 = j OBVIOUS
    <2>2. PICK l \in Seq(S) : l = log \o f[j] /\ Running(l, offset + j, K, {}) BY <1>9
    <2>3. f[k] = f[j] \o piece(k) /\ f[j] \in Seq(S) /\ piece(k) \in Seq(S)
      <3>1. f[k] = f[k - 1] \o piece(k) BY <1>7
      <3>2. f[j] \in Seq(S) BY <1>7
      <3> QED BY <1>4, <2>1, <3>1, <3>2
    <2>4. log \o f[k] = l \o piece(k)
      <3>1. log \in Seq(S) BY DEF S
      <3>2. (log \o f[j]) \o piece(k) = log \o (f[j] \o piece(k))
        <4>1. PICK g \in Seq(S), p \in Seq(S) : g = f[j] /\ p = piece(k) BY <2>3
        <4>2. (log \o g) \o p = log \o (g \o p) BY <3>1, ConcatAssociative
        <4> QED BY <4>1, <4>2
      <3> QED BY <2>2, <2>3, <3>2
    <2>5. PICK x \in S, y \in S, z \in S :
             /\ x = ev(k, "start") /\ y = ev(k, "delta") /\ z = ev(k, "stop")
             /\ x.e = "start" /\ x.i = (offset + j) + 1 /\ x.what = K[(offset + j) + 1]
             /\ y.e = "delta" /\ y.i = (offset + j) + 1 /\ z.e = "stop" /\ z.i = (offset + j) + 1
      BY <1>2, <2>1
    <2>6. /\ Append(Append(l, x), z) \in Seq(S) /\ Running(Append(Append(l, x), z), (offset + j) + 1, K, {})
          /\ Append(Append(Append(l, x), y), z) \in Seq(S)
          /\ Running(Append(Append(Append(l, x), y), z), (offset + j) + 1, K, {})
      <3>1. offset + j \in Nat OBVIOUS
      <3> QED BY <2>2, <2>5, <3>1, RunningBlock
    <2>7. l \o piece(k) = Append(Append(l, x), z) \/ l \o piece(k) = Append(Append(Append(l, x), y), z)
      <3>1. l \o <<x, z>> = Append(Append(l, x), z) /\ l \o <<x, y, z>> = Append(Append(Append(l, x), y), z)
        BY ConcatSome
      <3> QED BY <2>5, <3>1 DEF piece
    <2>8. (offset + j) + 1 = offset + k BY <2>1
    <2>9. log \o f[k] \in Seq(S) /\ Running(log \o f[k], offset + k, K, {}) BY <2>4, <2>6, <2>7, <2>8
    <2>10. k \in 0 .. n OBVIOUS
    <2>11. k \in T BY <2>9, <2>10
    <2> QED BY <2>1, <2>11
  <1> HIDE DEF T
  <1>10. \A k \in 0 .. n : k \in T
    <2>1. \A k \in 0 .. n - 1 : k \in T => k + 1 \in T BY <1>9
    <2> QED BY <1>8, <2>1, UpTo
  <1>11. log \o f[n] \in Seq(S) /\ Running(log \o f[n], offset + n, K, {}) /\ f[n] \in Seq(S) BY <1>7, <1>10 DEF T
  <1> QED BY <1>1, <1>3, <1>6, <1>11 DEF S, K

LEMMA SearchCountAppend ==
    ASSUME NEW content \in Seq(BridgeBlock), NEW b \in BridgeBlock
    PROVE  /\ SearchCount(content) \in Nat
           /\ SearchCount(Append(content, b)) = SearchCount(content) + (IF b.what = "search" THEN 1 ELSE 0)
  <1> DEFINE found(s) == {k \in DOMAIN s : s[k].what = "search"}
             more == Append(content, b)
  <1>1. PICK n \in Nat : n = Len(content) OBVIOUS
  <1>2. DOMAIN more = 1 .. n + 1 /\ more[n + 1] = b /\ \A k \in 1 .. n : more[k] = content[k]
    BY <1>1, AppendProperties
  <1>3. found(content) \subseteq 1 .. n /\ DOMAIN content = 1 .. n BY <1>1
  <1>4. IsFiniteSet(found(content))
    <2>1. IsFiniteSet(1 .. n) BY FS_Interval
    <2> QED BY <1>3, <2>1, FS_Subset
  <1>5. n + 1 \notin 1 .. n /\ 1 .. n + 1 = (1 .. n) \cup {n + 1} OBVIOUS
  <1> HIDE DEF more
  <1>6. found(more) = IF b.what = "search" THEN found(content) \cup {n + 1} ELSE found(content)
    BY <1>2, <1>3, <1>5
  <1>7. Cardinality(found(content)) \in Nat BY <1>4, FS_CardinalityType
  <1>8. Cardinality(found(content) \cup {n + 1}) = Cardinality(found(content)) + 1
    <2>1. n + 1 \notin found(content) BY <1>3, <1>5
    <2> QED BY <1>4, <2>1, FS_AddElement
  <1>9. SearchCount(content) = Cardinality(found(content)) /\ SearchCount(more) = Cardinality(found(more)) BY DEF SearchCount
  <1> HIDE DEF found
  <1>10. CASE b.what = "search" BY <1>6, <1>7, <1>8, <1>9, <1>10 DEF more
  <1>11. CASE b.what # "search"
    <2>1. Cardinality(found(content)) + 0 = Cardinality(found(content)) BY <1>7
    <2> QED BY <1>6, <1>7, <1>9, <1>11, <2>1 DEF more
  <1> QED BY <1>10, <1>11

LEMMA ShapedAppend ==
    ASSUME NEW content \in Seq(BridgeBlock), Shaped(content), NEW a \in BridgeBlock, NEW b \in BridgeBlock
    PROVE  /\ a.what # "server" => Shaped(Append(content, a))
           /\ a.what = "server" /\ b = [a EXCEPT !.what = "result"] => Shaped(Append(Append(content, a), b))
  <1> DEFINE one == Append(content, a)
             two == Append(one, b)
  <1>1. PICK n \in Nat : n = Len(content) OBVIOUS
  <1>2. one \in Seq(BridgeBlock) /\ Len(one) = n + 1 /\ one[n + 1] = a /\ \A k \in 1 .. n : one[k] = content[k]
    BY <1>1, AppendProperties
  <1>3. Len(two) = (n + 1) + 1 /\ two[(n + 1) + 1] = b /\ \A k \in 1 .. n + 1 : two[k] = one[k]
    <2> HIDE DEF one
    <2> QED BY <1>2, AppendProperties
  <1> HIDE DEF one, two
  <1>4. \A k \in 1 .. n : content[k].what = "server" => k < n /\ content[k + 1] = [content[k] EXCEPT !.what = "result"]
    BY <1>1 DEF Shaped
  <1>5. a.what # "server" => Shaped(one)
    <2> SUFFICES ASSUME a.what # "server", NEW k \in 1 .. n + 1, one[k].what = "server"
                 PROVE  k < n + 1 /\ one[k + 1] = [one[k] EXCEPT !.what = "result"]
      BY <1>2 DEF Shaped
    <2>1. k \in 1 .. n BY <1>2
    <2>2. k < n /\ k + 1 \in 1 .. n
      <3>1. content[k].what = "server" BY <1>2, <2>1
      <3>2. k < n BY <1>4, <2>1, <3>1
      <3> QED BY <2>1, <3>2
    <2> QED BY <1>2, <1>4, <2>1, <2>2
  <1>6. a.what = "server" /\ b = [a EXCEPT !.what = "result"] => Shaped(two)
    <2> SUFFICES ASSUME a.what = "server", b = [a EXCEPT !.what = "result"], NEW k \in 1 .. (n + 1) + 1,
                        two[k].what = "server"
                 PROVE  k < (n + 1) + 1 /\ two[k + 1] = [two[k] EXCEPT !.what = "result"]
      BY <1>3 DEF Shaped
    <2>1. b.what = "result" BY DEF BridgeBlock
    <2>2. k # (n + 1) + 1 BY <1>3, <2>1
    <2>3. CASE k = n + 1
      <3>1. two[k] = a /\ two[k + 1] = b
        <4>1. n + 1 \in 1 .. n + 1 OBVIOUS
        <4> QED BY <1>2, <1>3, <2>3, <4>1
      <3> QED BY <2>3, <3>1
    <2>4. CASE k \in 1 .. n
      <3>1. two[k] = content[k]
        <4>1. k \in 1 .. n + 1 BY <2>4
        <4> QED BY <1>2, <1>3, <2>4, <4>1
      <3>2. k < n /\ k + 1 \in 1 .. n
        <4>1. content[k].what = "server" BY <3>1
        <4>2. k < n BY <1>4, <2>4, <4>1
        <4> QED BY <2>4, <4>2
      <3>3. two[k + 1] = content[k + 1]
        <4>1. k + 1 \in 1 .. n + 1 BY <3>2
        <4> QED BY <1>2, <1>3, <3>2, <4>1
      <3> QED BY <1>4, <2>4, <3>1, <3>2, <3>3
    <2> QED BY <2>2, <2>3, <2>4
  <1> QED BY <1>5, <1>6 DEF one, two

LEMMA BridgeAnswers ==
    ASSUME NEW a \in BridgeBlock, NEW b \in BridgeBlock, b.what = "result", b.of = a.of
    PROVE  b = [a EXCEPT !.what = "result"]
  BY DEF BridgeBlock

(* The blocks of a round join the message. *)
LEMMA PresentedJoin ==
    ASSUME NEW content \in Seq(BridgeBlock), Shaped(content), NEW said \in Seq(SaidKinds), bridge.round \in Nat
    PROVE  /\ content \o PresentedBlocks(said) \in Seq(BridgeBlock) /\ Shaped(content \o PresentedBlocks(said))
           /\ Searched(said) \in Nat
           /\ SearchCount(content \o PresentedBlocks(said)) = SearchCount(content) + Searched(said)
           /\ Len(content \o PresentedBlocks(said)) \in Nat
           /\ Len(content) <= Len(content \o PresentedBlocks(said))
           /\ \A k \in 1 .. Len(content) : (content \o PresentedBlocks(said))[k] = content[k]
  <1> DEFINE S == BridgeBlock
             block(k, what) == [what |-> what, of |-> <<bridge.round, k>>]
             piece(k) == IF said[k] = "exec" THEN <<block(k, "server"), block(k, "result")>> ELSE <<block(k, said[k])>>
             ss == [k \in DOMAIN said |-> piece(k)]
             found(k) == {j \in 1 .. k : said[j] = "search"}
  <1>1. PICK n \in Nat : n = Len(said) /\ DOMAIN said = 1 .. n OBVIOUS
  <1>2. \A k \in 1 .. n : k \in Nat /\ said[k] \in SaidKinds BY <1>1, ElementOfSeq
  <1>3. ASSUME NEW k \in 1 .. n
        PROVE  /\ \A w \in BridgeKinds : block(k, w) \in S /\ block(k, w).what = w
               /\ "server" \in BridgeKinds /\ "result" \in BridgeKinds
               /\ said[k] # "exec" => said[k] \in BridgeKinds /\ said[k] # "server"
               /\ block(k, "result") = [block(k, "server") EXCEPT !.what = "result"]
    <2>1. \A w \in BridgeKinds : block(k, w) \in S /\ block(k, w).what = w BY <1>2 DEF BridgeBlock
    <2>2. "server" \in BridgeKinds /\ "result" \in BridgeKinds BY DEF BridgeKinds
    <2>3. said[k] # "exec" => said[k] \in BridgeKinds /\ said[k] # "server" BY <1>2 DEF BridgeKinds, SaidKinds
    <2>4. block(k, "result") = [block(k, "server") EXCEPT !.what = "result"]
      <3>1. block(k, "result").of = block(k, "server").of OBVIOUS
      <3> QED BY <2>1, <2>2, <3>1, BridgeAnswers
    <2> QED BY <2>1, <2>2, <2>3, <2>4
  <1>4. PresentedBlocks(said) = FlattenSeq(ss) BY DEF PresentedBlocks
  <1> HIDE DEF block
  <1>5. ASSUME NEW k \in 1 .. n PROVE piece(k) \in Seq(S)
    <2>1. CASE said[k] = "exec"
      <3>1. block(k, "server") \in S /\ block(k, "result") \in S BY <1>3
      <3> QED BY <2>1, <3>1
    <2>2. CASE said[k] # "exec"
      <3>1. block(k, said[k]) \in S BY <1>3, <2>2
      <3> QED BY <2>2, <3>1
    <2> QED BY <2>1, <2>2
  <1>6. ss \in Seq(Seq(S)) /\ Len(ss) = n /\ \A k \in 1 .. n : ss[k] = piece(k)
    <2>1. ss = [k \in 1 .. n |-> piece(k)] BY <1>1
    <2> HIDE DEF piece
    <2> QED BY <1>5, <2>1
  <1> HIDE DEF ss, S, piece
  <1>7. PICK f : Joined(f, ss, S) /\ FlattenSeq(ss) = f[n] BY <1>6, FlattenJoins
  <1>8. f \in [0 .. n -> Seq(S)] /\ f[0] = << >> /\ \A k \in 1 .. n : f[k] = f[k - 1] \o piece(k)
    BY <1>6, <1>7 DEF Joined
  <1> DEFINE Good(k) == /\ content \o f[k] \in Seq(S) /\ Shaped(content \o f[k]) /\ IsFiniteSet(found(k))
                        /\ SearchCount(content \o f[k]) = SearchCount(content) + Cardinality(found(k))
                        /\ Cardinality(found(k)) \in Nat
             T == {k \in 0 .. n : Good(k)}
  <1>9. SearchCount(content) \in Nat
    <2>1. PICK b : b \in BridgeBlock
      <3>1. [what |-> "text", of |-> <<0, 0>>] \in BridgeBlock BY DEF BridgeBlock, BridgeKinds
      <3> QED BY <3>1
    <2> QED BY <2>1, SearchCountAppend
  <1>10. Good(0)
    <2>1. content \o << >> = content /\ content \in Seq(S) BY ConcatEmptySeq DEF S
    <2>2. found(0) = {} OBVIOUS
    <2>3. IsFiniteSet({}) /\ Cardinality({}) = 0 BY FS_EmptySet
    <2>4. SearchCount(content) = SearchCount(content) + 0 BY <1>9
    <2>5. content \o f[0] = content BY <1>8, <2>1
    <2> HIDE DEF found
    <2>6. content \o f[0] \in Seq(S) /\ Shaped(content \o f[0]) BY <2>1, <2>5
    <2>7. IsFiniteSet(found(0)) /\ Cardinality(found(0)) = 0 BY <2>2, <2>3
    <2>8. SearchCount(content \o f[0]) = SearchCount(content) + Cardinality(found(0)) BY <2>4, <2>5, <2>7
    <2> QED BY <2>6, <2>7, <2>8
  <1>11. ASSUME NEW j \in 0 .. n - 1, Good(j) PROVE Good(j + 1)
    <2>1. PICK k \in 1 .. n : k = j + 1 /\ k - 1 = j OBVIOUS
    <2>2. PICK l \in Seq(S) : l = content \o f[j] /\ Shaped(l) /\ SearchCount(l) = SearchCount(content) + Cardinality(found(j))
      BY <1>11
    <2>3. content \o f[k] = l \o piece(k)
      <3>1. f[k] = f[k - 1] \o piece(k) BY <1>8
      <3>2. PICK g \in Seq(S), p \in Seq(S) : g = f[j] /\ p = piece(k) BY <1>5, <1>8
      <3>3. content \in Seq(S) BY DEF S
      <3>4. (content \o g) \o p = content \o (g \o p) BY <3>3, ConcatAssociative
      <3> QED BY <2>1, <2>2, <3>1, <3>2, <3>4
    <2>4. found(k) = IF said[k] = "search" THEN found(j) \cup {k} ELSE found(j) BY <2>1
    <2>5. k \notin found(j) BY <2>1
    <2> HIDE DEF found
    <2>6. IsFiniteSet(found(k)) /\ Cardinality(found(k)) \in Nat
          /\ Cardinality(found(k)) = Cardinality(found(j)) + (IF said[k] = "search" THEN 1 ELSE 0)
      <3>1. IsFiniteSet(found(j) \cup {k}) /\ Cardinality(found(j) \cup {k}) = Cardinality(found(j)) + 1
        BY <1>11, <2>5, FS_AddElement
      <3>2. Cardinality(found(j)) \in Nat BY <1>11
      <3>3. CASE said[k] = "search" BY <2>4, <3>1, <3>2, <3>3
      <3>4. CASE said[k] # "search" BY <1>11, <2>4, <3>2, <3>4
      <3> QED BY <3>3, <3>4
    <2>7. SearchCount(l) \in Nat /\ Cardinality(found(j)) \in Nat BY <1>9, <1>11, <2>2
    <2>8. CASE said[k] = "exec"
      <3>1. PICK a \in S, b \in S : /\ a = block(k, "server") /\ b = block(k, "result") /\ a.what = "server"
                                    /\ b.what = "result" /\ b = [a EXCEPT !.what = "result"]
        BY <1>3
      <3>2. l \o piece(k) = Append(Append(l, a), b)
        <4>1. l \o <<a, b>> = Append(Append(l, a), b) BY ConcatSome
        <4> QED BY <2>8, <3>1, <4>1 DEF piece
      <3>3. Append(l, a) \in Seq(S) /\ Append(Append(l, a), b) \in Seq(S) BY AppendProperties
      <3>4. Shaped(Append(Append(l, a), b)) BY <2>2, <3>1, ShapedAppend DEF S
      <3>5. SearchCount(Append(Append(l, a), b)) = SearchCount(l)
        <4>1. SearchCount(Append(l, a)) = SearchCount(l) + 0 BY <3>1, SearchCountAppend DEF S
        <4>2. SearchCount(Append(Append(l, a), b)) = SearchCount(Append(l, a)) + 0
          BY <3>1, <3>3, SearchCountAppend DEF S
        <4> QED BY <2>7, <4>1, <4>2
      <3>6. Cardinality(found(k)) = Cardinality(found(j)) BY <2>6, <2>7, <2>8
      <3>7. SearchCount(content \o f[k]) = SearchCount(content) + Cardinality(found(k)) BY <2>2, <2>3, <3>2, <3>5, <3>6
      <3> QED BY <2>1, <2>3, <2>6, <3>2, <3>3, <3>4, <3>7
    <2>9. CASE said[k] # "exec"
      <3>1. PICK a \in S : a = block(k, said[k]) /\ a.what = said[k] /\ a.what # "server" BY <1>3, <2>9
      <3>2. l \o piece(k) = Append(l, a)
        <4>1. l \o <<a>> = Append(l, a) BY ConcatSome
        <4> QED BY <2>9, <3>1, <4>1 DEF piece
      <3>3. Append(l, a) \in Seq(S) BY AppendProperties
      <3>4. Shaped(Append(l, a)) BY <2>2, <3>1, ShapedAppend DEF S
      <3>5. SearchCount(Append(l, a)) = SearchCount(l) + (IF said[k] = "search" THEN 1 ELSE 0)
        BY <3>1, SearchCountAppend DEF S
      <3>6. SearchCount(Append(l, a)) = SearchCount(content) + Cardinality(found(k))
        BY <1>9, <2>2, <2>6, <2>7, <3>5
      <3> QED BY <2>1, <2>3, <2>6, <3>2, <3>3, <3>4, <3>6
    <2> QED BY <2>8, <2>9
  <1> HIDE DEF Good
  <1>12. \A k \in 0 .. n : k \in T
    <2>1. 0 \in T BY <1>10
    <2>2. \A k \in 0 .. n - 1 : k \in T => k + 1 \in T
      <3> SUFFICES ASSUME NEW k \in 0 .. n - 1, k \in T PROVE k + 1 \in T OBVIOUS
      <3>1. Good(k + 1) BY <1>11
      <3> QED BY <3>1
    <2> HIDE DEF T
    <2> QED BY <2>1, <2>2, UpTo
  <1>13. Good(n) BY <1>12
  <1>14. found(n) = {k \in DOMAIN said : said[k] = "search"} BY <1>1
  <1> HIDE DEF found
  <1>15. Searched(said) = Cardinality(found(n)) BY <1>14 DEF Searched
  <1>16. f[n] \in Seq(BridgeBlock) BY <1>8 DEF S
  <1>17. /\ Len(content \o f[n]) \in Nat /\ Len(content) <= Len(content \o f[n])
         /\ \A k \in 1 .. Len(content) : (content \o f[n])[k] = content[k]
    <2>1. PICK g \in Seq(BridgeBlock), a \in Nat, b \in Nat : g = f[n] /\ a = Len(content) /\ b = Len(g) BY <1>16
    <2>2. Len(content \o g) = a + b /\ \A k \in 1 .. a + b : (content \o g)[k] = IF k <= a THEN content[k] ELSE g[k - a]
      BY <2>1, ConcatProperties
    <2>3. \A k \in 1 .. a : k \in 1 .. a + b /\ k <= a OBVIOUS
    <2> QED BY <2>1, <2>2, <2>3
  <1> QED BY <1>4, <1>7, <1>13, <1>15, <1>17 DEF Good, S

BridgeRecord ==
    [stream : BOOLEAN, format : BOOLEAN, at : {"call", "wait", "publish", "deliver", "done"},
     round : 1 .. BridgeRounds, retry : 0 .. BridgeRetries, content : Seq(BridgeBlock), stop : BridgeStops,
     emitted : Nat, queue : Seq(BridgeEvents), log : Seq(BridgeEvents), answered : Nat,
     searches : 0 .. BridgeSearches, listens : BOOLEAN, reply : {"none", "ok", "refused", "timeout"},
     counted : {0, 1}]

BridgeGood(log) == Completes(log) \/ At(log, "message_delta") = {} => InProtocol(log)
BridgeEnds(log, came) ==
    InProtocol(log) /\ log # << >> /\ log[Len(log)].e = IF came = "ok" THEN "message_stop" ELSE "error"

(* What the message is made of, wherever the rounds are. *)
BridgeCore(b) ==
    /\ b \in BridgeRecord
    /\ Shaped(b.content) /\ b.emitted \in 0 .. Len(b.content) /\ b.answered <= b.round
    /\ b.stream => b.log # << >>
    /\ ~b.stream => b.log = << >>

(* How far the client is. *)
BridgeTold(b) ==
    /\ ~b.stream => b.queue = << >> /\ b.at # "deliver"
    /\ b.stream /\ b.at \in {"call", "wait"} =>
          b.queue = << >> /\ Running(b.log, b.emitted, KindsOf(b.content), {})
    /\ b.stream /\ b.at = "publish" =>
          Running(b.log \o b.queue, IF b.format THEN b.emitted ELSE Len(b.content), KindsOf(b.content), {})
    /\ b.at = "deliver" => BridgeEnds(b.log \o b.queue, b.reply)
    /\ b.at = "done" /\ b.stream => BridgeGood(b.log) /\ (b.listens => BridgeEnds(b.log, b.reply))

BridgeCounts(b) ==
    /\ b.counted = IF b.reply = "ok" THEN 1 ELSE 0
    /\ b.searches = SearchCount(b.content) \/ b.reply = "refused"
    /\ b.at \in {"call", "wait", "publish"} => b.reply = "none"
    /\ b.at \in {"call", "wait"} => b.answered < b.round

BridgeIs(b) == BridgeCore(b) /\ BridgeTold(b) /\ BridgeCounts(b)

BridgeInv == BridgeIs(bridge)

LEMMA AtPrefix ==
    ASSUME NEW S, NEW log \in Seq(S), NEW q \in Seq(S)
    PROVE  /\ log \o q \in Seq(S) /\ Len(log \o q) = Len(log) + Len(q) /\ Len(log) \in Nat /\ Len(q) \in Nat
           /\ \A j \in 1 .. Len(log) : (log \o q)[j] = log[j]
           /\ \A e : At(log, e) \subseteq At(log \o q, e)
           /\ q # << >> => Len(q) # 0
           /\ log \o << >> = log
  <1> DEFINE w == log \o q
  <1>1. PICK m \in Nat, n \in Nat : m = Len(log) /\ n = Len(q) OBVIOUS
  <1>2. w \in Seq(S) /\ Len(w) = m + n /\ \A i \in 1 .. m + n : w[i] = IF i <= m THEN log[i] ELSE q[i - m]
    BY <1>1, ConcatProperties
  <1>3. \A j \in 1 .. m : j \in 1 .. m + n /\ j <= m OBVIOUS
  <1>4. \A j \in 1 .. m : w[j] = log[j] BY <1>2, <1>3
  <1>5. DOMAIN w = 1 .. m + n /\ DOMAIN log = 1 .. m BY <1>1, <1>2
  <1> HIDE DEF w
  <1>6. \A e : At(log, e) \subseteq At(w, e) BY <1>3, <1>4, <1>5 DEF At
  <1>7. q # << >> => n # 0 BY <1>1, EmptySeq
  <1>8. log \o << >> = log BY ConcatEmptySeq
  <1> QED BY <1>1, <1>2, <1>4, <1>6, <1>7, <1>8 DEF w

LEMMA RunningSoFar ==
    ASSUME NEW S, NEW log \in Seq(S), NEW q \in Seq(S), NEW n \in Nat, NEW K, NEW open, log # << >>,
           Running(log \o q, n, K, open)
    PROVE  InProtocol(log) /\ At(log, "message_delta") = {} /\ At(log, "error") = {} /\ At(log, "message_stop") = {}
  <1>1. log \o q \in Seq(S) /\ \A e : At(log, e) \subseteq At(log \o q, e) BY AtPrefix
  <1>2. InProtocol(log \o q) BY <1>1, RunningInProtocol
  <1>3. At(log, "message_delta") = {} /\ At(log, "error") = {} /\ At(log, "message_stop") = {}
    BY <1>1 DEF Running, Unfinished
  <1>4. CASE q = << >>
    <2>1. log \o q = log BY <1>4, AtPrefix
    <2> QED BY <1>2, <1>3, <2>1
  <1>5. CASE q # << >> BY <1>2, <1>3, <1>5, ProtocolPrefix
  <1> QED BY <1>4, <1>5

LEMMA BridgeEndsSoFar ==
    ASSUME NEW log \in Seq(BridgeEvents), NEW q \in Seq(BridgeEvents), NEW came, log # << >>, BridgeEnds(log \o q, came)
    PROVE  BridgeGood(log)
  <1> DEFINE w == log \o q
  <1>0. PICK m \in Nat : m = Len(log) OBVIOUS
  <1>1. w \in Seq(BridgeEvents) /\ Len(w) = m + Len(q) /\ Len(q) \in Nat
        /\ \A e : At(log, e) \subseteq At(w, e)
    BY <1>0, AtPrefix
  <1>2. CASE q = << >>
    <2>1. log \o q = log BY <1>2, AtPrefix
    <2> QED BY <2>1 DEF BridgeEnds, BridgeGood
  <1>3. CASE q # << >>
    <2>1. Len(q) # 0 BY <1>3, AtPrefix
    <2>2. ~Completes(log)
      <3> SUFFICES ASSUME Completes(log) PROVE FALSE OBVIOUS
      <3>1. m \in At(log, "message_stop")
        <4>1. m # 0 BY <1>0, EmptySeq
        <4>2. m \in DOMAIN log BY <1>0, <4>1
        <4> QED BY <1>0, <4>2 DEF Completes, Last, At
      <3>2. m \in At(w, "message_stop") /\ InProtocol(w) BY <1>1, <3>1 DEF BridgeEnds
      <3> HIDE DEF w
      <3>3. PICK i : i \in At(w, "message_delta") BY <3>2 DEF InProtocol
      <3>4. i = Len(w) - 1 /\ At(w, "message_stop") = {i + 1} BY <3>2, <3>3 DEF InProtocol
      <3>5. m = Len(w) BY <1>1, <3>2, <3>4
      <3> QED BY <1>1, <2>1, <3>5
    <2>3. At(log, "message_delta") = {} => InProtocol(log) BY <1>3, ProtocolPrefix DEF BridgeEnds
    <2> QED BY <2>2, <2>3 DEF BridgeGood
  <1> QED BY <1>2, <1>3

(* run_rounds returns. *)
LEMMA ReturnsIs ==
    ASSUME NEW b, BridgeCore(b), NEW came \in {"ok", "refused", "timeout"},
           b.counted = 0, b.searches = SearchCount(b.content) \/ came = "refused",
           b.stream /\ came # "ok" =>
               InProtocol(b.log) /\ At(b.log, "message_delta") = {} /\ At(b.log, "error") = {},
           b.stream /\ came = "ok" => Running(b.log, b.emitted, KindsOf(b.content), {})
    PROVE  BridgeIs(Returns(b, came))
  <1>0. b \in BridgeRecord BY DEF BridgeCore
  <1>1. PICK h : h = Returns(b, came) OBVIOUS
  <1> DEFINE queue == CASE ~b.stream -> << >>
                        [] b.stream /\ came = "ok" -> Deliver(b)
                        [] OTHER -> <<[e |-> "error"]>>
             err == [e |-> "error"]
             d == [e |-> "message_delta", stop |-> b.stop]
             z == [e |-> "message_stop"]
  <1>2. err \in BridgeEvents /\ d \in BridgeEvents /\ z \in BridgeEvents /\ err.e = "error" /\ d.e = "message_delta"
        /\ z.e = "message_stop"
    BY <1>0 DEF BridgeEvents, BridgeRecord
  <1>3. b.log \in Seq(BridgeEvents) /\ b.content \in Seq(BridgeBlock) BY <1>0 DEF BridgeRecord
  <1>4. queue \in Seq(BridgeEvents) /\ (b.stream => BridgeEnds(b.log \o queue, came))
    <2>1. CASE ~b.stream BY <2>1, EmptySeq
    <2>2. CASE b.stream /\ came # "ok"
      <3>1. queue = <<err>> BY <2>2
      <3> HIDE DEF queue, err
      <3>2. queue \in Seq(BridgeEvents) BY <1>2, <3>1
      <3>3. b.log \o queue = Append(b.log, err) BY <1>2, <1>3, <3>1, ConcatSome
      <3>4. InProtocol(Append(b.log, err)) BY <1>2, <1>3, <2>2, ProtocolFails
      <3>5. Len(Append(b.log, err)) = Len(b.log) + 1 /\ Append(b.log, err)[Len(b.log) + 1] = err
            /\ Append(b.log, err) # << >>
        BY <1>2, <1>3, AppendProperties
      <3> QED BY <1>2, <2>2, <3>2, <3>3, <3>4, <3>5 DEF BridgeEnds
    <2>3. CASE b.stream /\ came = "ok"
      <3> DEFINE be == BlockEvents(b.content, b.emitted)
      <3>1. queue = be \o <<d, z>> BY <2>3 DEF Deliver, EndEvents
      <3>2. be \in Seq(BridgeEvents) /\ Running(b.log \o be, Len(b.content), KindsOf(b.content), {})
        <4>1. b.emitted \in 0 .. Len(b.content) BY DEF BridgeCore
        <4> QED BY <1>3, <2>3, <4>1, BlockEventsRun
      <3> HIDE DEF queue, d, z, be
      <3>3. <<d, z>> \in Seq(BridgeEvents) BY <1>2
      <3>4. queue \in Seq(BridgeEvents) BY <3>1, <3>2, <3>3, ConcatProperties
      <3>5. PICK l \in Seq(BridgeEvents) : l = b.log \o be BY <1>3, <3>2, ConcatProperties
      <3>6. b.log \o queue = Append(Append(l, d), z)
        <4>1. (b.log \o be) \o <<d, z>> = b.log \o (be \o <<d, z>>)
          <5>1. PICK t \in Seq(BridgeEvents), v \in Seq(BridgeEvents) : t = <<d, z>> /\ v = b.log BY <1>3, <3>3
          <5>2. (v \o be) \o t = v \o (be \o t) BY <3>2, ConcatAssociative
          <5> QED BY <5>1, <5>2
        <4>2. l \o <<d, z>> = Append(Append(l, d), z) BY <1>2, ConcatSome
        <4> QED BY <3>1, <3>5, <4>1, <4>2
      <3>7. InProtocol(Append(Append(l, d), z))
        <4>1. Len(b.content) \in Nat BY <1>3
        <4> QED BY <1>2, <3>2, <3>5, <4>1, RunningEnds
      <3>8. PICK p \in Seq(BridgeEvents) : p = Append(l, d) BY <1>2, AppendProperties
      <3>9. Len(Append(p, z)) = Len(p) + 1 /\ Append(p, z)[Len(p) + 1] = z /\ Append(p, z) # << >>
        BY <1>2, AppendProperties
      <3> QED BY <1>2, <2>3, <3>4, <3>6, <3>7, <3>8, <3>9 DEF BridgeEnds
    <2> QED BY <2>1, <2>2, <2>3
  <1>5. h = [b EXCEPT !.reply = came, !.counted = IF came = "ok" THEN @ + 1 ELSE @,
                      !.at = IF b.stream THEN "deliver" ELSE "done", !.queue = queue]
    BY <1>1 DEF Returns
  <1>6. ~b.stream => queue = << >> OBVIOUS
  <1> HIDE DEF queue
  <1>7. /\ h \in BridgeRecord /\ h.stream = b.stream /\ h.format = b.format /\ h.content = b.content
        /\ h.at = (IF b.stream THEN "deliver" ELSE "done") /\ h.queue = queue /\ h.log = b.log
        /\ h.emitted = b.emitted /\ h.answered = b.answered /\ h.round = b.round /\ h.searches = b.searches
        /\ h.listens = b.listens /\ h.reply = came /\ h.counted = IF came = "ok" THEN 1 ELSE 0
    <2>1. 0 + 1 = 1 OBVIOUS
    <2> QED BY <1>0, <1>4, <1>5, <2>1 DEF BridgeRecord
  <1>8. BridgeCore(h) BY <1>7 DEF BridgeCore
  <1>9. BridgeTold(h) BY <1>4, <1>6, <1>7 DEF BridgeTold
  <1>10. BridgeCounts(h) BY <1>7 DEF BridgeCounts
  <1> QED BY <1>1, <1>8, <1>9, <1>10 DEF BridgeIs

LEMMA BreaksOffIs ==
    ASSUME NEW b, BridgeIs(b), b.at \in {"call", "wait", "publish"}, NEW came \in {"refused", "timeout"}
    PROVE  BridgeIs(Returns(b, came))
  <1>1. BridgeCore(b) /\ b \in BridgeRecord BY DEF BridgeIs, BridgeCore
  <1>2. b.reply = "none" /\ b.counted = 0 /\ b.searches = SearchCount(b.content) BY DEF BridgeIs, BridgeCounts
  <1>3. b.log \in Seq(BridgeEvents) /\ b.queue \in Seq(BridgeEvents) /\ b.content \in Seq(BridgeBlock)
        /\ b.emitted \in Nat /\ Len(b.content) \in Nat
    BY <1>1 DEF BridgeRecord
  <1>4. b.stream => InProtocol(b.log) /\ At(b.log, "message_delta") = {} /\ At(b.log, "error") = {}
    <2> SUFFICES ASSUME b.stream
                 PROVE  InProtocol(b.log) /\ At(b.log, "message_delta") = {} /\ At(b.log, "error") = {}
      OBVIOUS
    <2>1. b.log # << >> BY <1>1 DEF BridgeCore
    <2>2. CASE b.at = "publish"
      <3>1. PICK n \in Nat : Running(b.log \o b.queue, n, KindsOf(b.content), {})
        BY <1>3, <2>2 DEF BridgeIs, BridgeTold
      <3> QED BY <1>3, <2>1, <3>1, RunningSoFar
    <2>3. CASE b.at # "publish"
      <3>1. Running(b.log, b.emitted, KindsOf(b.content), {}) BY <2>3 DEF BridgeIs, BridgeTold
      <3>2. b.log \o << >> = b.log /\ << >> \in Seq(BridgeEvents) BY <1>3, AtPrefix, EmptySeq
      <3>3. PICK l \in Seq(BridgeEvents), n \in Nat : l = b.log /\ n = b.emitted BY <1>3
      <3>4. Running(l \o << >>, n, KindsOf(b.content), {}) /\ l # << >> BY <2>1, <3>1, <3>2, <3>3
      <3>5. InProtocol(l) /\ At(l, "message_delta") = {} /\ At(l, "error") = {} BY <3>2, <3>4, RunningSoFar
      <3> QED BY <3>3, <3>5
    <2> QED BY <2>2, <2>3
  <1> QED BY <1>1, <1>2, <1>4, ReturnsIs

LEMMA BridgeInitially == BridgeInit => BridgeInv
  <1> SUFFICES ASSUME BridgeInit PROVE BridgeInv OBVIOUS
  <1>1. PICK stream \in BOOLEAN, format \in BOOLEAN :
           bridge = [stream |-> stream, format |-> format, at |-> "call", round |-> 1, retry |-> 0,
                     content |-> <<>>, stop |-> "none", emitted |-> 0, queue |-> <<>>,
                     log |-> IF stream THEN <<[e |-> "message_start"]>> ELSE <<>>,
                     answered |-> 0, searches |-> 0, listens |-> TRUE, reply |-> "none", counted |-> 0]
    BY DEF BridgeInit
  <1> DEFINE x == [e |-> "message_start"]
             log == IF stream THEN <<x>> ELSE << >>
  <1>2. x \in BridgeEvents /\ x.e = "message_start" BY DEF BridgeEvents
  <1>3. bridge.log = log BY <1>1
  <1> HIDE DEF x
  <1>4. log \in Seq(BridgeEvents) /\ (stream => log = <<x>> /\ log # << >>) /\ (~stream => log = << >>)
    <2>1. <<x>> \in Seq(BridgeEvents) /\ <<x>> # << >> BY <1>2
    <2> QED BY <2>1, EmptySeq
  <1> HIDE DEF log
  <1>5. << >> \in Seq(BridgeBlock) /\ << >> \in Seq(BridgeEvents) /\ Len(<< >>) = 0 BY EmptySeq
  <1>6. bridge \in BridgeRecord /\ bridge.stream = stream /\ bridge.content = << >> /\ bridge.emitted = 0
        /\ bridge.answered = 0 /\ bridge.round = 1 /\ bridge.queue = << >> /\ bridge.at = "call" /\ bridge.counted = 0
        /\ bridge.reply = "none" /\ bridge.searches = 0
    <2>1. 1 \in 1 .. BridgeRounds /\ 0 \in 0 .. BridgeRetries /\ 0 \in 0 .. BridgeSearches BY BridgeAssumption
    <2>2. "none" \in BridgeStops BY DEF BridgeStops
    <2> QED BY <1>1, <1>3, <1>4, <1>5, <2>1, <2>2 DEF BridgeRecord
  <1>7. Shaped(<< >>) BY <1>5 DEF Shaped
  <1>8. BridgeCore(bridge) BY <1>3, <1>4, <1>5, <1>6, <1>7 DEF BridgeCore
  <1>9. BridgeTold(bridge)
    <2>1. stream => Running(log, 0, KindsOf(<< >>), {}) BY <1>2, <1>4, RunningBegins
    <2> QED BY <1>3, <1>6, <2>1 DEF BridgeTold
  <1>10. BridgeCounts(bridge)
    <2>1. {k \in DOMAIN << >> : << >>[k].what = "search"} = {} OBVIOUS
    <2>2. SearchCount(<< >>) = 0 BY <2>1, FS_EmptySet DEF SearchCount
    <2> QED BY <1>6, <2>2 DEF BridgeCounts
  <1> QED BY <1>8, <1>9, <1>10 DEF BridgeInv, BridgeIs

LEMMA RoundLimitedKeeps == ASSUME BridgeInv, RoundLimited PROVE BridgeInv'
  <1>0. BridgeIs(bridge) /\ bridge.at = "call" BY DEF BridgeInv, RoundLimited
  <1>1. CASE bridge' = Returns(bridge, "refused") BY <1>0, <1>1, BreaksOffIs DEF BridgeInv
  <1>2. CASE bridge.retry < BridgeRetries /\ bridge' = [bridge EXCEPT !.at = "wait", !.retry = @ + 1]
    <2>1. bridge \in BridgeRecord BY <1>0 DEF BridgeIs, BridgeCore
    <2>2. bridge.retry + 1 \in 0 .. BridgeRetries BY <1>2, <2>1, BridgeAssumption DEF BridgeRecord
    <2>3. /\ bridge' \in BridgeRecord /\ bridge'.at = "wait" /\ bridge'.stream = bridge.stream
          /\ bridge'.format = bridge.format /\ bridge'.content = bridge.content /\ bridge'.queue = bridge.queue
          /\ bridge'.log = bridge.log /\ bridge'.emitted = bridge.emitted /\ bridge'.answered = bridge.answered
          /\ bridge'.round = bridge.round /\ bridge'.searches = bridge.searches /\ bridge'.reply = bridge.reply
          /\ bridge'.counted = bridge.counted
      BY <1>2, <2>1, <2>2 DEF BridgeRecord
    <2>4. BridgeCore(bridge') BY <1>0, <2>3 DEF BridgeIs, BridgeCore
    <2>5. BridgeTold(bridge') BY <1>0, <2>3 DEF BridgeIs, BridgeTold
    <2>6. BridgeCounts(bridge') BY <1>0, <2>3 DEF BridgeIs, BridgeCounts
    <2> QED BY <2>4, <2>5, <2>6 DEF BridgeInv, BridgeIs
  <1> QED BY <1>1, <1>2 DEF RoundLimited

LEMMA WaitedKeeps == ASSUME BridgeInv, Waited PROVE BridgeInv'
  <1>0. BridgeIs(bridge) /\ bridge.at = "wait" /\ bridge' = [bridge EXCEPT !.at = "call"] BY DEF BridgeInv, Waited
  <1>1. bridge \in BridgeRecord BY <1>0 DEF BridgeIs, BridgeCore
  <1>2. /\ bridge' \in BridgeRecord /\ bridge'.at = "call" /\ bridge'.stream = bridge.stream
        /\ bridge'.format = bridge.format /\ bridge'.content = bridge.content /\ bridge'.queue = bridge.queue
        /\ bridge'.log = bridge.log /\ bridge'.emitted = bridge.emitted /\ bridge'.answered = bridge.answered
        /\ bridge'.round = bridge.round /\ bridge'.searches = bridge.searches /\ bridge'.reply = bridge.reply
        /\ bridge'.counted = bridge.counted
    BY <1>0, <1>1 DEF BridgeRecord
  <1>3. BridgeCore(bridge') BY <1>0, <1>2 DEF BridgeIs, BridgeCore
  <1>4. BridgeTold(bridge') BY <1>0, <1>2 DEF BridgeIs, BridgeTold
  <1>5. BridgeCounts(bridge') BY <1>0, <1>2 DEF BridgeIs, BridgeCounts
  <1> QED BY <1>3, <1>4, <1>5 DEF BridgeInv, BridgeIs

LEMMA RoundAnswersKeeps == ASSUME BridgeInv, RoundAnswers PROVE BridgeInv'
  <1>0. BridgeIs(bridge) /\ bridge.at = "call" BY DEF BridgeInv, RoundAnswers
  <1>1. /\ BridgeCore(bridge) /\ bridge \in BridgeRecord /\ bridge.reply = "none" /\ bridge.counted = 0
        /\ bridge.searches = SearchCount(bridge.content) /\ bridge.answered < bridge.round
    BY <1>0 DEF BridgeIs, BridgeCore, BridgeCounts
  <1>2. PICK said \in RoundBlocks, stop \in {"tool_use", "end_turn", "max_tokens"} :
          /\ Searched(said) <= BridgeSearches - bridge.searches
          /\ LET full == stop = "max_tokens"
                 heard == [bridge EXCEPT !.answered = @ + 1, !.searches = @ + Searched(said), !.stop = stop]
                 told == [heard EXCEPT !.content = @ \o PresentedBlocks(said)]
             IN  bridge' = IF full /\ "exec" \in ToSet(said) THEN Returns(heard, "refused")
                           ELSE [told EXCEPT !.at = "publish",
                                   !.queue = IF Progress THEN BlockEvents(told.content, bridge.emitted)
                                             ELSE <<>>]
    BY DEF RoundAnswers
  <1>3. said \in Seq(SaidKinds) BY BridgeAssumption DEF SaidKinds
  <1>4. bridge.content \in Seq(BridgeBlock) /\ Shaped(bridge.content) /\ bridge.round \in Nat
        /\ bridge.searches \in Nat /\ bridge.answered \in Nat /\ bridge.log \in Seq(BridgeEvents)
        /\ bridge.emitted \in 0 .. Len(bridge.content)
    BY <1>1 DEF BridgeRecord, BridgeCore
  <1> DEFINE content == bridge.content \o PresentedBlocks(said)
  <1>5. /\ content \in Seq(BridgeBlock) /\ Shaped(content) /\ Searched(said) \in Nat
        /\ SearchCount(content) = bridge.searches + Searched(said)
        /\ Len(content) \in Nat /\ Len(bridge.content) <= Len(content)
        /\ \A k \in 1 .. Len(bridge.content) : content[k] = bridge.content[k]
    BY <1>1, <1>3, <1>4, PresentedJoin
  <1>6. bridge.searches + Searched(said) \in 0 .. BridgeSearches BY <1>2, <1>4, <1>5, BridgeAssumption
  <1>7. bridge.answered + 1 \in Nat /\ bridge.answered + 1 <= bridge.round BY <1>1, <1>4
  <1>8. stop \in BridgeStops BY DEF BridgeStops
  <1> DEFINE heard == [bridge EXCEPT !.answered = @ + 1, !.searches = @ + Searched(said), !.stop = stop]
             queue == IF Progress THEN BlockEvents(content, bridge.emitted) ELSE << >>
  <1>9. /\ heard \in BridgeRecord /\ heard.at = "call" /\ heard.stream = bridge.stream
        /\ heard.format = bridge.format /\ heard.content = bridge.content /\ heard.queue = bridge.queue
        /\ heard.log = bridge.log /\ heard.emitted = bridge.emitted /\ heard.answered = bridge.answered + 1
        /\ heard.round = bridge.round /\ heard.searches = bridge.searches + Searched(said)
        /\ heard.reply = "none" /\ heard.counted = 0
    BY <1>0, <1>1, <1>6, <1>7, <1>8 DEF BridgeRecord
  <1>10. bridge' = Returns(heard, "refused")
         \/ bridge' = [heard EXCEPT !.content = content, !.at = "publish", !.queue = queue]
    <2> DEFINE told == [heard EXCEPT !.content = @ \o PresentedBlocks(said)]
    <2>1. bridge' = Returns(heard, "refused")
          \/ bridge' = [told EXCEPT !.at = "publish",
                          !.queue = IF Progress THEN BlockEvents(told.content, bridge.emitted) ELSE <<>>]
      BY <1>2
    <2> HIDE DEF heard
    <2>2. told = [heard EXCEPT !.content = content] /\ told.content = content BY <1>9 DEF BridgeRecord
    <2> HIDE DEF told, content
    <2>3. [[heard EXCEPT !.content = content] EXCEPT !.at = "publish", !.queue = queue]
             = [heard EXCEPT !.content = content, !.at = "publish", !.queue = queue]
      OBVIOUS
    <2> QED BY <2>1, <2>2, <2>3
  <1> HIDE DEF heard
  <1>11. BridgeCore(heard) BY <1>1, <1>7, <1>9 DEF BridgeCore
  <1>12. bridge.stream => Running(bridge.log, bridge.emitted, KindsOf(bridge.content), {}) /\ bridge.log # << >>
    BY <1>0, <1>1 DEF BridgeIs, BridgeTold, BridgeCore
  <1>13. CASE bridge' = Returns(heard, "refused")
    <2>1. bridge.stream =>
             InProtocol(bridge.log) /\ At(bridge.log, "message_delta") = {} /\ At(bridge.log, "error") = {}
      <3>1. bridge.log \o << >> = bridge.log /\ << >> \in Seq(BridgeEvents) BY <1>4, AtPrefix, EmptySeq
      <3>2. bridge.emitted \in Nat BY <1>4
      <3> QED BY <1>4, <1>12, <3>1, <3>2, RunningSoFar
    <2>2. BridgeIs(Returns(heard, "refused")) BY <1>9, <1>11, <2>1, ReturnsIs
    <2> QED BY <1>13, <2>2 DEF BridgeInv
  <1>14. CASE bridge' = [heard EXCEPT !.content = content, !.at = "publish", !.queue = queue]
    <2>1. bridge.emitted \in 0 .. Len(content) BY <1>4, <1>5
    <2>2. bridge.stream => Running(bridge.log, bridge.emitted, KindsOf(content), {})
      <3>1. \A k \in 1 .. bridge.emitted : KindsOf(content)[k] = KindsOf(bridge.content)[k]
        <4> SUFFICES ASSUME NEW k \in 1 .. bridge.emitted PROVE KindsOf(content)[k] = KindsOf(bridge.content)[k]
          OBVIOUS
        <4>0. PICK a \in Nat, c \in Nat : a = Len(bridge.content) /\ c = Len(content) /\ a <= c /\ bridge.emitted \in 0 .. a
          BY <1>4, <1>5
        <4>1. k \in 1 .. a /\ k \in 1 .. c BY <4>0
        <4>2. k \in DOMAIN bridge.content /\ k \in DOMAIN content BY <1>4, <1>5, <4>0, <4>1
        <4>3. content[k] = bridge.content[k] BY <1>5, <4>0, <4>1
        <4> HIDE DEF content
        <4> QED BY <4>2, <4>3 DEF KindsOf
      <3>2. bridge.emitted \in Nat BY <1>4
      <3> HIDE DEF content
      <3> QED BY <1>12, <3>1, <3>2, RunningKinds
    <2> HIDE DEF content
    <2>3. /\ queue \in Seq(BridgeEvents)
          /\ bridge.stream =>
                Running(bridge.log \o queue, IF bridge.format THEN bridge.emitted ELSE Len(content), KindsOf(content), {})
          /\ ~bridge.stream => queue = << >>
      <3>1. CASE Progress
        <4>1. bridge.stream /\ ~bridge.format BY <3>1 DEF Progress
        <4> QED BY <1>4, <1>5, <2>1, <2>2, <3>1, <4>1, BlockEventsRun
      <3>2. CASE ~Progress
        <4>1. bridge.stream => bridge.format BY <3>2 DEF Progress
        <4>2. queue = << >> /\ << >> \in Seq(BridgeEvents) /\ bridge.log \o << >> = bridge.log
          BY <1>4, <3>2, AtPrefix, EmptySeq
        <4> QED BY <2>2, <4>1, <4>2
      <3> QED BY <3>1, <3>2
    <2> HIDE DEF queue
    <2>4. /\ bridge' \in BridgeRecord /\ bridge'.at = "publish" /\ bridge'.stream = bridge.stream
          /\ bridge'.format = bridge.format /\ bridge'.content = content /\ bridge'.queue = queue
          /\ bridge'.log = bridge.log /\ bridge'.emitted = bridge.emitted /\ bridge'.answered = bridge.answered + 1
          /\ bridge'.round = bridge.round /\ bridge'.searches = bridge.searches + Searched(said)
          /\ bridge'.reply = "none" /\ bridge'.counted = 0
      BY <1>5, <1>9, <1>14, <2>3 DEF BridgeRecord
    <2>5. BridgeCore(bridge') BY <1>1, <1>5, <1>7, <2>1, <2>4 DEF BridgeCore
    <2>6. BridgeTold(bridge') BY <2>3, <2>4 DEF BridgeTold
    <2>7. BridgeCounts(bridge') BY <1>5, <2>4 DEF BridgeCounts
    <2> QED BY <2>5, <2>6, <2>7 DEF BridgeInv, BridgeIs
  <1> QED BY <1>10, <1>13, <1>14

LEMMA RoundFailsKeeps == ASSUME BridgeInv, RoundFails PROVE BridgeInv'
  <1>1. BridgeIs(bridge) /\ bridge.at = "call" /\ bridge' = Returns(bridge, "refused") BY DEF BridgeInv, RoundFails
  <1> QED BY <1>1, BreaksOffIs DEF BridgeInv

LEMMA BridgeTimesOutKeeps == ASSUME BridgeInv, BridgeTimesOut PROVE BridgeInv'
  <1>1. BridgeIs(bridge) /\ bridge.at \in {"call", "wait", "publish"} /\ bridge' = Returns(bridge, "timeout")
    BY DEF BridgeInv, BridgeTimesOut
  <1> QED BY <1>1, BreaksOffIs DEF BridgeInv

LEMMA PublishKeeps == ASSUME BridgeInv, Publish PROVE BridgeInv'
  <1>0. /\ BridgeIs(bridge) /\ bridge.at \in {"publish", "deliver"} /\ bridge.queue # << >>
        /\ bridge' = [bridge EXCEPT !.log = Append(@, Head(bridge.queue)), !.queue = Tail(@)]
    BY DEF BridgeInv, Publish
  <1>1. BridgeCore(bridge) /\ bridge \in BridgeRecord BY <1>0 DEF BridgeIs, BridgeCore
  <1>2. bridge.log \in Seq(BridgeEvents) /\ bridge.queue \in Seq(BridgeEvents) BY <1>1 DEF BridgeRecord
  <1> DEFINE log == Append(bridge.log, Head(bridge.queue))
             queue == Tail(bridge.queue)
  <1>3. log \o queue = bridge.log \o bridge.queue /\ log \in Seq(BridgeEvents) /\ queue \in Seq(BridgeEvents)
        /\ log # << >>
    <2>1. log \o queue = bridge.log \o bridge.queue /\ log \in Seq(BridgeEvents) /\ queue \in Seq(BridgeEvents)
          /\ Head(bridge.queue) \in BridgeEvents
      <3>1. PICK s \in Seq(BridgeEvents), q \in Seq(BridgeEvents) : s = bridge.log /\ q = bridge.queue BY <1>2
      <3>2. q # << >> BY <1>0, <3>1
      <3>3. /\ Append(s, Head(q)) \o Tail(q) = s \o q /\ Append(s, Head(q)) \in Seq(BridgeEvents)
            /\ Tail(q) \in Seq(BridgeEvents) /\ Head(q) \in BridgeEvents
        BY <3>2, HeadMoves
      <3> QED BY <3>1, <3>3
    <2>2. log # << >> BY <1>2, <2>1, AppendProperties
    <2> QED BY <2>1, <2>2
  <1>4. bridge.stream BY <1>0 DEF BridgeIs, BridgeTold
  <1>5. bridge' = [bridge EXCEPT !.log = log, !.queue = queue] BY <1>0
  <1> HIDE DEF log, queue
  <1>6. /\ bridge' \in BridgeRecord /\ bridge'.at = bridge.at /\ bridge'.stream = bridge.stream
        /\ bridge'.format = bridge.format /\ bridge'.content = bridge.content /\ bridge'.queue = queue
        /\ bridge'.log = log /\ bridge'.emitted = bridge.emitted /\ bridge'.answered = bridge.answered
        /\ bridge'.round = bridge.round /\ bridge'.searches = bridge.searches /\ bridge'.reply = bridge.reply
        /\ bridge'.counted = bridge.counted
    BY <1>1, <1>3, <1>5 DEF BridgeRecord
  <1>7. BridgeCore(bridge') BY <1>1, <1>3, <1>4, <1>6 DEF BridgeCore
  <1>8. BridgeTold(bridge') BY <1>0, <1>3, <1>4, <1>6 DEF BridgeIs, BridgeTold
  <1>9. BridgeCounts(bridge') BY <1>0, <1>6 DEF BridgeIs, BridgeCounts
  <1> QED BY <1>7, <1>8, <1>9 DEF BridgeInv, BridgeIs

LEMMA RoundOverKeeps == ASSUME BridgeInv, RoundOver PROVE BridgeInv'
  <1> DEFINE emitted == IF Progress THEN Len(bridge.content) ELSE bridge.emitted
             stop == IF OfRound("server") THEN "tool_use" ELSE bridge.stop
             b == [bridge EXCEPT !.emitted = emitted, !.stop = stop]
  <1>0. /\ BridgeIs(bridge) /\ bridge.at = "publish" /\ bridge.queue = << >>
        /\ \/ bridge' = Returns(b, "ok") \/ bridge' = Returns(b, "refused")
           \/ b.round # BridgeRounds /\ bridge' = [b EXCEPT !.at = "call", !.round = @ + 1, !.retry = 0]
    <2>1. b = [bridge EXCEPT !.emitted = IF Progress THEN Len(bridge.content) ELSE @,
                               !.stop = IF OfRound("server") THEN "tool_use" ELSE @]
      OBVIOUS
    <2> HIDE DEF b
    <2> QED BY <2>1 DEF BridgeInv, RoundOver
  <1>1. /\ BridgeCore(bridge) /\ bridge \in BridgeRecord /\ bridge.reply = "none" /\ bridge.counted = 0
        /\ bridge.searches = SearchCount(bridge.content)
    BY <1>0 DEF BridgeIs, BridgeCore, BridgeCounts
  <1>2. bridge.log \in Seq(BridgeEvents) /\ bridge.content \in Seq(BridgeBlock) /\ Len(bridge.content) \in Nat
        /\ bridge.round \in 1 .. BridgeRounds /\ bridge.answered \in Nat /\ bridge.answered <= bridge.round
        /\ bridge.emitted \in 0 .. Len(bridge.content)
    BY <1>1 DEF BridgeRecord, BridgeCore
  <1>3. emitted \in 0 .. Len(bridge.content) /\ stop \in BridgeStops
    <2>1. bridge.stop \in BridgeStops /\ "tool_use" \in BridgeStops BY <1>1 DEF BridgeRecord, BridgeStops
    <2> QED BY <1>2, <2>1
  <1>4. bridge.stream => Running(bridge.log, emitted, KindsOf(bridge.content), {})
    <2> SUFFICES ASSUME bridge.stream PROVE Running(bridge.log, emitted, KindsOf(bridge.content), {}) OBVIOUS
    <2>1. emitted = IF bridge.format THEN bridge.emitted ELSE Len(bridge.content) BY DEF Progress
    <2>2. bridge.log \o bridge.queue = bridge.log BY <1>0, <1>2, AtPrefix
    <2>3. Running(bridge.log \o bridge.queue, IF bridge.format THEN bridge.emitted ELSE Len(bridge.content),
                  KindsOf(bridge.content), {})
      BY <1>0 DEF BridgeIs, BridgeTold
    <2> HIDE DEF emitted
    <2> QED BY <2>1, <2>2, <2>3
  <1>5. emitted \in Nat BY <1>2, <1>3
  <1> HIDE DEF emitted, stop
  <1>6. /\ b \in BridgeRecord /\ b.at = "publish" /\ b.stream = bridge.stream
        /\ b.format = bridge.format /\ b.content = bridge.content /\ b.queue = bridge.queue
        /\ b.log = bridge.log /\ b.emitted = emitted /\ b.answered = bridge.answered
        /\ b.round = bridge.round /\ b.searches = bridge.searches
        /\ b.reply = "none" /\ b.counted = 0
    BY <1>0, <1>1, <1>3, <1>5 DEF BridgeRecord
  <1> HIDE DEF b
  <1>7. BridgeCore(b) BY <1>1, <1>3, <1>6 DEF BridgeCore
  <1>8. CASE bridge' = Returns(b, "ok") \/ bridge' = Returns(b, "refused")
    <2>1. b.stream => InProtocol(b.log) /\ At(b.log, "message_delta") = {} /\ At(b.log, "error") = {}
      BY <1>2, <1>4, <1>5, <1>6, RunningInProtocol DEF Running, Unfinished
    <2>2. BridgeIs(Returns(b, "ok")) BY <1>1, <1>4, <1>6, <1>7, ReturnsIs
    <2>3. BridgeIs(Returns(b, "refused")) BY <1>1, <1>6, <1>7, <2>1, ReturnsIs
    <2> QED BY <1>8, <2>2, <2>3 DEF BridgeInv
  <1>9. CASE b.round # BridgeRounds /\ bridge' = [b EXCEPT !.at = "call", !.round = @ + 1, !.retry = 0]
    <2>1. bridge.round + 1 \in 1 .. BridgeRounds /\ 0 \in 0 .. BridgeRetries BY <1>2, <1>6, <1>9, BridgeAssumption
    <2>2. /\ bridge' \in BridgeRecord /\ bridge'.at = "call" /\ bridge'.stream = bridge.stream
          /\ bridge'.format = bridge.format /\ bridge'.content = bridge.content /\ bridge'.queue = << >>
          /\ bridge'.log = bridge.log /\ bridge'.emitted = emitted /\ bridge'.answered = bridge.answered
          /\ bridge'.round = bridge.round + 1 /\ bridge'.searches = bridge.searches /\ bridge'.reply = "none"
          /\ bridge'.counted = 0
      BY <1>0, <1>6, <1>9, <2>1 DEF BridgeRecord
    <2>3. bridge.answered <= bridge.round + 1 /\ bridge.answered < bridge.round + 1 BY <1>2
    <2>4. BridgeCore(bridge') BY <1>1, <1>3, <2>2, <2>3 DEF BridgeCore
    <2>5. BridgeTold(bridge') BY <1>4, <2>2 DEF BridgeTold
    <2>6. BridgeCounts(bridge') BY <1>1, <2>2, <2>3 DEF BridgeCounts
    <2> QED BY <2>4, <2>5, <2>6 DEF BridgeInv, BridgeIs
  <1> QED BY <1>0, <1>8, <1>9

LEMMA DeliveredKeeps == ASSUME BridgeInv, Delivered PROVE BridgeInv'
  <1>0. /\ BridgeIs(bridge) /\ bridge.at = "deliver" /\ bridge.queue = << >> /\ bridge' = [bridge EXCEPT !.at = "done"]
    BY DEF BridgeInv, Delivered
  <1>1. BridgeCore(bridge) /\ bridge \in BridgeRecord BY <1>0 DEF BridgeIs, BridgeCore
  <1>2. /\ bridge' \in BridgeRecord /\ bridge'.at = "done" /\ bridge'.stream = bridge.stream
        /\ bridge'.format = bridge.format /\ bridge'.content = bridge.content /\ bridge'.queue = bridge.queue
        /\ bridge'.log = bridge.log /\ bridge'.emitted = bridge.emitted /\ bridge'.answered = bridge.answered
        /\ bridge'.round = bridge.round /\ bridge'.searches = bridge.searches /\ bridge'.reply = bridge.reply
        /\ bridge'.counted = bridge.counted
    BY <1>0, <1>1 DEF BridgeRecord
  <1>3. BridgeCore(bridge') BY <1>1, <1>2 DEF BridgeCore
  <1>4. BridgeTold(bridge')
    <2>1. bridge.log \in Seq(BridgeEvents) BY <1>1 DEF BridgeRecord
    <2>2. bridge.log \o bridge.queue = bridge.log BY <1>0, <2>1, AtPrefix
    <2>3. BridgeEnds(bridge.log, bridge.reply) BY <1>0, <2>2 DEF BridgeIs, BridgeTold
    <2>4. BridgeGood(bridge.log) BY <2>3 DEF BridgeEnds, BridgeGood
    <2> QED BY <1>0, <1>2, <2>3, <2>4 DEF BridgeTold, BridgeIs
  <1>5. BridgeCounts(bridge') BY <1>0, <1>2 DEF BridgeIs, BridgeCounts
  <1> QED BY <1>3, <1>4, <1>5 DEF BridgeInv, BridgeIs

LEMMA BridgeLeftKeeps == ASSUME BridgeInv, BridgeLeft PROVE BridgeInv'
  <1>0. BridgeIs(bridge) /\ bridge.at # "done" /\ bridge' = [bridge EXCEPT !.listens = FALSE]
    BY DEF BridgeInv, BridgeLeft
  <1>1. BridgeCore(bridge) /\ bridge \in BridgeRecord BY <1>0 DEF BridgeIs, BridgeCore
  <1>2. /\ bridge' \in BridgeRecord /\ bridge'.at = bridge.at /\ bridge'.stream = bridge.stream
        /\ bridge'.format = bridge.format /\ bridge'.content = bridge.content /\ bridge'.queue = bridge.queue
        /\ bridge'.log = bridge.log /\ bridge'.emitted = bridge.emitted /\ bridge'.answered = bridge.answered
        /\ bridge'.round = bridge.round /\ bridge'.searches = bridge.searches /\ bridge'.reply = bridge.reply
        /\ bridge'.counted = bridge.counted
    BY <1>0, <1>1 DEF BridgeRecord
  <1>3. BridgeCore(bridge') BY <1>1, <1>2 DEF BridgeCore
  <1>4. BridgeTold(bridge') BY <1>0, <1>2 DEF BridgeIs, BridgeTold
  <1>5. BridgeCounts(bridge') BY <1>0, <1>2 DEF BridgeIs, BridgeCounts
  <1> QED BY <1>3, <1>4, <1>5 DEF BridgeInv, BridgeIs

LEMMA BridgeDroppedKeeps == ASSUME BridgeInv, BridgeDropped PROVE BridgeInv'
  <1>0. /\ BridgeIs(bridge) /\ bridge.at # "done" /\ ~bridge.listens /\ bridge' = [bridge EXCEPT !.at = "done"]
    BY DEF BridgeInv, BridgeDropped
  <1>1. BridgeCore(bridge) /\ bridge \in BridgeRecord BY <1>0 DEF BridgeIs, BridgeCore
  <1>2. /\ bridge' \in BridgeRecord /\ bridge'.at = "done" /\ bridge'.stream = bridge.stream
        /\ bridge'.format = bridge.format /\ bridge'.content = bridge.content /\ bridge'.queue = bridge.queue
        /\ bridge'.log = bridge.log /\ bridge'.emitted = bridge.emitted /\ bridge'.answered = bridge.answered
        /\ bridge'.round = bridge.round /\ bridge'.searches = bridge.searches /\ bridge'.reply = bridge.reply
        /\ bridge'.counted = bridge.counted /\ ~bridge'.listens
    BY <1>0, <1>1 DEF BridgeRecord
  <1>3. BridgeCore(bridge') BY <1>1, <1>2 DEF BridgeCore
  <1>4. bridge.stream => BridgeGood(bridge.log)
    <2> SUFFICES ASSUME bridge.stream PROVE BridgeGood(bridge.log) OBVIOUS
    <2>1. bridge.log \in Seq(BridgeEvents) /\ bridge.queue \in Seq(BridgeEvents) /\ bridge.log # << >>
          /\ bridge.emitted \in Nat /\ Len(bridge.content) \in Nat
      BY <1>1 DEF BridgeRecord, BridgeCore
    <2>2. CASE bridge.at = "deliver"
      <3>1. BridgeEnds(bridge.log \o bridge.queue, bridge.reply) BY <1>0, <2>2 DEF BridgeIs, BridgeTold
      <3> QED BY <2>1, <3>1, BridgeEndsSoFar
    <2>3. CASE bridge.at = "publish"
      <3>1. PICK n \in Nat : Running(bridge.log \o bridge.queue, n, KindsOf(bridge.content), {})
        BY <1>0, <2>1, <2>3 DEF BridgeIs, BridgeTold
      <3>2. InProtocol(bridge.log) BY <2>1, <3>1, RunningSoFar
      <3> QED BY <3>2 DEF BridgeGood
    <2>4. CASE bridge.at \in {"call", "wait"}
      <3>1. Running(bridge.log, bridge.emitted, KindsOf(bridge.content), {}) BY <1>0, <2>4 DEF BridgeIs, BridgeTold
      <3>2. InProtocol(bridge.log) BY <2>1, <3>1, RunningInProtocol
      <3> QED BY <3>2 DEF BridgeGood
    <2> QED BY <1>0, <1>1, <2>2, <2>3, <2>4 DEF BridgeRecord
  <1>5. BridgeTold(bridge') BY <1>0, <1>2, <1>4 DEF BridgeIs, BridgeTold
  <1>6. BridgeCounts(bridge') BY <1>0, <1>2 DEF BridgeIs, BridgeCounts
  <1> QED BY <1>3, <1>5, <1>6 DEF BridgeInv, BridgeIs

LEMMA BridgeStep == BridgeInv /\ [BridgeNext]_bridge => BridgeInv'
  <1> SUFFICES ASSUME BridgeInv, [BridgeNext]_bridge PROVE BridgeInv' OBVIOUS
  <1>1. CASE UNCHANGED bridge BY <1>1 DEF BridgeInv
  <1>2. CASE BridgeNext
    BY <1>2, RoundLimitedKeeps, WaitedKeeps, RoundFailsKeeps, RoundAnswersKeeps, PublishKeeps, RoundOverKeeps,
       BridgeTimesOutKeeps, DeliveredKeeps, BridgeLeftKeeps, BridgeDroppedKeeps DEF BridgeNext
  <1> QED BY <1>1, <1>2

LEMMA BridgeSound == BridgeInv => BridgeTypeOK /\ BridgeWellFormed /\ BridgeSettledOnce
  <1> SUFFICES ASSUME BridgeInv PROVE BridgeTypeOK /\ BridgeWellFormed /\ BridgeSettledOnce OBVIOUS
  <1>0. BridgeCore(bridge) /\ bridge \in BridgeRecord /\ BridgeTold(bridge) /\ BridgeCounts(bridge)
    BY DEF BridgeInv, BridgeIs, BridgeCore
  <1>1. BridgeTypeOK
    <2>1. bridge.round \in 1 .. BridgeRounds /\ bridge.answered \in Nat /\ bridge.answered <= bridge.round
          /\ bridge.emitted \in 0 .. Len(bridge.content) /\ bridge.retry \in 0 .. BridgeRetries
          /\ bridge.at \in {"call", "wait", "publish", "deliver", "done"}
      BY <1>0 DEF BridgeRecord, BridgeCore
    <2>2. bridge.answered \in 0 .. BridgeRounds BY <2>1, BridgeAssumption
    <2> QED BY <2>1, <2>2 DEF BridgeTypeOK
  <1>2. bridge.log \in Seq(BridgeEvents) /\ bridge.queue \in Seq(BridgeEvents) /\ bridge.content \in Seq(BridgeBlock)
        /\ bridge.emitted \in Nat /\ Len(bridge.content) \in Nat
    BY <1>0 DEF BridgeRecord
  <1>3. bridge.stream => BridgeGood(bridge.log)
    <2> SUFFICES ASSUME bridge.stream PROVE BridgeGood(bridge.log) OBVIOUS
    <2>1. bridge.log # << >> BY <1>0 DEF BridgeCore
    <2>2. CASE bridge.at = "deliver"
      <3>1. BridgeEnds(bridge.log \o bridge.queue, bridge.reply) BY <1>0, <2>2 DEF BridgeTold
      <3> QED BY <1>2, <2>1, <3>1, BridgeEndsSoFar
    <2>3. CASE bridge.at = "publish"
      <3>1. PICK n \in Nat : Running(bridge.log \o bridge.queue, n, KindsOf(bridge.content), {})
        BY <1>0, <1>2, <2>3 DEF BridgeTold
      <3>2. InProtocol(bridge.log) BY <1>2, <2>1, <3>1, RunningSoFar
      <3> QED BY <3>2 DEF BridgeGood
    <2>4. CASE bridge.at \in {"call", "wait"}
      <3>1. Running(bridge.log, bridge.emitted, KindsOf(bridge.content), {}) BY <1>0, <2>4 DEF BridgeTold
      <3>2. InProtocol(bridge.log) BY <1>2, <3>1, RunningInProtocol
      <3> QED BY <3>2 DEF BridgeGood
    <2>5. CASE bridge.at = "done" BY <1>0, <2>5 DEF BridgeTold
    <2> QED BY <1>1, <2>2, <2>3, <2>4, <2>5 DEF BridgeTypeOK
  <1>4. BridgeWellFormed
    <2>1. bridge.at = "done" /\ bridge.listens /\ bridge.stream =>
            Last(bridge.log).e = (IF bridge.reply = "ok" THEN "message_stop" ELSE "error")
      BY <1>0 DEF BridgeTold, BridgeEnds, Last
    <2>2. ASSUME NEW k \in DOMAIN bridge.content
          PROVE  /\ bridge.content[k].what # "exec"
                 /\ bridge.content[k].what = "server" =>
                      k < Len(bridge.content) /\ bridge.content[k + 1] = [bridge.content[k] EXCEPT !.what = "result"]
      <3>1. k \in 1 .. Len(bridge.content) BY <1>2
      <3>2. bridge.content[k] \in BridgeBlock BY <1>2, <3>1, ElementOfSeq
      <3> QED BY <1>0, <3>1, <3>2 DEF BridgeCore, Shaped, BridgeBlock, BridgeKinds
    <2> QED BY <1>3, <2>1, <2>2 DEF BridgeWellFormed, BridgeGood
  <1>5. BridgeSettledOnce
    <2>1. bridge.searches <= BridgeSearches BY <1>0, BridgeAssumption DEF BridgeRecord
    <2> QED BY <1>0, <2>1 DEF BridgeCounts, BridgeSettledOnce, SearchCount
  <1> QED BY <1>1, <1>4, <1>5

-----------------------------------------------------------------------------
(* The web search loop: rounds of searches and the emitter of their stream. *)

SearchKinds == {"text", "server_tool_use", "result", "client"}
SearchStops == {"none", "refusal", "max_tokens", "tool_use", "end_turn"}
SearchEvents ==
    [e : {"start"}, i : Nat, what : SearchKinds] \cup [e : {"delta", "stop"}, i : Nat]
    \cup [e : {"message_delta"}, stop : SearchStops]
    \cup {[e |-> "message_start"], [e |-> "message_stop"], [e |-> "error"]}
Emitters == [log : Seq(SearchEvents), blocks : Nat, open : SUBSET Nat, text : Nat]

(* The blocks that are searches; a stopped one is followed by what it found, *)
(* but it may be the last event; and it is not.                              *)
Searches(log) == {log[i].i : i \in {j \in At(log, "start") : log[j].what = "server_tool_use"}}
SearchesShown(log) ==
    \A k \in At(log, "stop") : log[k].i \in Searches(log) /\ k < Len(log) => Shows(log[k + 1])
Displayed(log) == SearchesShown(log) /\ \A k \in At(log, "stop") : log[k].i \in Searches(log) => k < Len(log)

LEMMA ShownAppend ==
    ASSUME NEW S, NEW log \in Seq(S), NEW x \in S,
           x.e = "start" => \A k \in At(log, "stop") : log[k].i # x.i
    PROVE  /\ Displayed(log) => SearchesShown(Append(log, x))
           /\ Displayed(log) /\ (x.e = "stop" => x.i \notin Searches(log)) => Displayed(Append(log, x))
           /\ SearchesShown(log) /\ Shows(x) => Displayed(Append(log, x))
  <1> DEFINE more == Append(log, x)
             m == Len(log) + 1
  <1>1. /\ Len(more) = m /\ more[m] = x /\ m \in Nat
        /\ \A j \in 1 .. Len(log) : more[j] = log[j] /\ j < m
        /\ \A e : At(more, e) = IF x.e = e THEN At(log, e) \cup {m} ELSE At(log, e)
        /\ \A e : At(log, e) \subseteq 1 .. Len(log)
    BY AtAppend
  <1>2. PICK n \in Nat : n = Len(log) /\ m = n + 1 OBVIOUS
  <1> HIDE DEF more, m
  <1>3. \A b \in Searches(more) : b \in Searches(log) \/ (x.e = "start" /\ b = x.i)
    <2> SUFFICES ASSUME NEW j \in At(more, "start"), more[j].what = "server_tool_use"
                 PROVE  more[j].i \in Searches(log) \/ (x.e = "start" /\ more[j].i = x.i)
      BY DEF Searches
    <2>1. CASE j \in At(log, "start") BY <1>1, <2>1 DEF Searches
    <2>2. CASE j = m /\ x.e = "start" BY <1>1, <2>2
    <2> QED BY <1>1, <2>1, <2>2
  <1>4. ASSUME NEW k \in At(log, "stop"), more[k].i \in Searches(more)
        PROVE  k \in 1 .. n /\ log[k].i \in Searches(log) /\ more[k] = log[k]
    BY <1>1, <1>2, <1>3, <1>4
  <1>5. ASSUME NEW k \in At(more, "stop"), k \notin At(log, "stop") PROVE k = m /\ x.e = "stop"
    BY <1>1, <1>5
  <1>6. ASSUME SearchesShown(log), NEW k \in At(log, "stop"), more[k].i \in Searches(more), k < n
        PROVE  Shows(more[k + 1])
    <2>1. k \in 1 .. n /\ log[k].i \in Searches(log) BY <1>4, <1>6
    <2>2. k + 1 \in 1 .. n BY <1>6, <2>1
    <2>3. Shows(log[k + 1]) BY <1>2, <1>6, <2>1 DEF SearchesShown
    <2> QED BY <1>1, <1>2, <2>2, <2>3
  <1>7. Displayed(log) => SearchesShown(more)
    <2> SUFFICES ASSUME Displayed(log), NEW k \in At(more, "stop"), more[k].i \in Searches(more), k < Len(more)
                 PROVE  Shows(more[k + 1])
      BY DEF SearchesShown
    <2>1. k \in At(log, "stop") BY <1>1, <1>2, <1>5
    <2>2. k < n BY <1>2, <1>4, <2>1 DEF Displayed
    <2> QED BY <1>6, <2>1, <2>2 DEF Displayed
  <1>8. Displayed(log) /\ (x.e = "stop" => x.i \notin Searches(log)) => Displayed(more)
    <2> SUFFICES ASSUME Displayed(log), x.e = "stop" => x.i \notin Searches(log),
                        NEW k \in At(more, "stop"), more[k].i \in Searches(more)
                 PROVE  k < Len(more)
      BY <1>7 DEF Displayed
    <2>1. CASE k \in At(log, "stop") BY <1>1, <1>2, <1>4, <2>1
    <2>2. CASE k \notin At(log, "stop")
      <3>1. k = m /\ x.e = "stop" BY <1>5, <2>2
      <3> QED BY <1>1, <1>3, <3>1
    <2> QED BY <2>1, <2>2
  <1>9. SearchesShown(log) /\ Shows(x) => Displayed(more)
    <2> SUFFICES ASSUME SearchesShown(log), Shows(x), NEW k \in At(more, "stop"), more[k].i \in Searches(more)
                 PROVE  k < Len(more) /\ Shows(more[k + 1])
      BY DEF Displayed, SearchesShown
    <2>0. k \in At(log, "stop") BY <1>5 DEF Shows
    <2>1. k \in 1 .. n BY <1>4, <2>0
    <2>2. CASE k < n BY <1>1, <1>2, <1>6, <2>0, <2>1, <2>2
    <2>3. CASE k = n BY <1>1, <1>2, <2>3
    <2>4. k < n \/ k = n BY <2>1
    <2> QED BY <2>2, <2>3, <2>4
  <1> QED BY <1>7, <1>8, <1>9 DEF more

LEMMA SentIs ==
    ASSUME NEW m \in Emitters, NEW x \in SearchEvents
    PROVE  /\ Sent(m, x) \in Emitters /\ Sent(m, x).log = Append(m.log, x) /\ Sent(m, x).blocks = m.blocks
           /\ Sent(m, x).open = m.open /\ Sent(m, x).text = m.text /\ Sent(m, x).log # << >>
           /\ m.log \in Seq(SearchEvents) /\ Append(m.log, x) \in Seq(SearchEvents)
  <1>1. m.log \in Seq(SearchEvents) BY DEF Emitters
  <1>2. Append(m.log, x) \in Seq(SearchEvents) /\ Append(m.log, x) # << >> BY <1>1, AppendProperties
  <1> QED BY <1>1, <1>2 DEF Emitters, Sent

LEMMA StartedRuns ==
    ASSUME NEW m \in Emitters, NEW K, Running(m.log, m.blocks, K, {}), m.open = {}, NEW what \in SearchKinds,
           Displayed(m.log) \/ (SearchesShown(m.log) /\ what = "result")
    PROVE  LET h == Started(m, what)
           IN  /\ h \in Emitters /\ h.blocks = m.blocks + 1 /\ h.blocks \in Nat \ {0} /\ h.open = {h.blocks}
               /\ h.text = m.text /\ h.log # << >> /\ Displayed(h.log)
               /\ \E L : L[h.blocks] = what /\ Running(h.log, h.blocks, L, {h.blocks})
  <1> DEFINE n == m.blocks
             o == [m EXCEPT !.blocks = n + 1, !.open = @ \cup {n + 1}]
             x == [e |-> "start", i |-> n + 1, what |-> what]
  <1>0. n \in Nat /\ n + 1 \in Nat \ {0} /\ m.open \cup {n + 1} = {n + 1} BY DEF Emitters
  <1>1. o \in Emitters /\ o.log = m.log /\ o.blocks = n + 1 /\ o.open = {n + 1} /\ o.text = m.text
    BY <1>0 DEF Emitters
  <1>2. x \in SearchEvents /\ x.e = "start" /\ x.i = n + 1 /\ x.what = what BY <1>0 DEF SearchEvents
  <1>3. Started(m, what) = Sent(o, x) BY DEF Started
  <1> HIDE DEF o, x
  <1>4. Sent(o, x) \in Emitters /\ Sent(o, x).log = Append(m.log, x) /\ Sent(o, x).blocks = n + 1
        /\ Sent(o, x).open = {n + 1} /\ Sent(o, x).text = m.text /\ Sent(o, x).log # << >>
        /\ m.log \in Seq(SearchEvents)
    BY <1>1, <1>2, SentIs
  <1>5. PICK log \in Seq(SearchEvents), k \in Nat : log = m.log /\ k = n BY <1>0, <1>4
  <1>6. PICK L : L[k + 1] = what /\ Running(Append(log, x), k + 1, L, {k + 1})
    <2>1. Running(log, k, K, {}) /\ x.i = k + 1 BY <1>2, <1>5
    <2> QED BY <1>2, <1>5, <2>1, RunningStartsAlone
  <1>8. Displayed(Append(log, x))
    <2>1. \A j \in At(log, "stop") : log[j].i # x.i
      <3>1. \A j \in At(log, "stop") : log[j].i \in 1 .. k BY <1>5 DEF Running, Numbered
      <3> QED BY <1>2, <1>5, <3>1
    <2>2. what = "result" => Shows(x) BY <1>2 DEF Shows
    <2>3. Displayed(log) \/ (SearchesShown(log) /\ what = "result") BY <1>5
    <2>4. /\ Displayed(log) /\ (x.e = "stop" => x.i \notin Searches(log)) => Displayed(Append(log, x))
          /\ SearchesShown(log) /\ Shows(x) => Displayed(Append(log, x))
      BY <1>2, <2>1, ShownAppend
    <2>5. x.e # "stop" BY <1>2
    <2> QED BY <2>2, <2>3, <2>4, <2>5
  <1> QED BY <1>0, <1>3, <1>4, <1>5, <1>6, <1>8

LEMMA StoppedRuns ==
    ASSUME NEW m \in Emitters, NEW K, NEW i \in 1 .. m.blocks, Running(m.log, m.blocks, K, {i}), m.open = {i},
           Displayed(m.log)
    PROVE  LET h == Stopped(m, i)
           IN  /\ h \in Emitters /\ h.blocks = m.blocks /\ h.open = {} /\ h.text = m.text /\ h.log # << >>
               /\ SearchesShown(h.log) /\ Running(h.log, h.blocks, K, {})
               /\ K[i] # "server_tool_use" => Displayed(h.log)
  <1> DEFINE o == [m EXCEPT !.open = @ \ {i}]
             x == [e |-> "stop", i |-> i]
  <1>0. m.blocks \in Nat /\ m.open \ {i} = {} /\ i \in Nat BY DEF Emitters
  <1>1. o \in Emitters /\ o.log = m.log /\ o.blocks = m.blocks /\ o.open = {} /\ o.text = m.text
    BY <1>0 DEF Emitters
  <1>2. x \in SearchEvents /\ x.e = "stop" /\ x.i = i BY <1>0 DEF SearchEvents
  <1>3. Stopped(m, i) = Sent(o, x) BY DEF Stopped
  <1> HIDE DEF o, x
  <1>4. Sent(o, x) \in Emitters /\ Sent(o, x).log = Append(m.log, x) /\ Sent(o, x).blocks = m.blocks
        /\ Sent(o, x).open = {} /\ Sent(o, x).text = m.text /\ Sent(o, x).log # << >>
        /\ m.log \in Seq(SearchEvents)
    BY <1>1, <1>2, SentIs
  <1>5. PICK log \in Seq(SearchEvents), k \in Nat : log = m.log /\ k = m.blocks BY <1>0, <1>4
  <1>6. Running(Append(log, x), k, K, {i} \ {x.i})
    <2>1. Running(log, k, K, {i}) /\ x.i \in {i} /\ x.i \in 1 .. k BY <1>2, <1>5
    <2> QED BY <1>2, <2>1, RunningStop
  <1>7. {i} \ {x.i} = {} BY <1>2
  <1>8. K[i] # "server_tool_use" => i \notin Searches(log)
    <2> SUFFICES ASSUME NEW j \in At(log, "start"), log[j].what = "server_tool_use", log[j].i = i
                 PROVE  K[i] = "server_tool_use"
      BY DEF Searches
    <2>1. PICK s \in DOMAIN log : Of(log, "start", i) = {s} /\ log[s].what = K[i]
      BY <1>5 DEF Running, StartedOnce
    <2>2. j \in Of(log, "start", i) BY DEF Of
    <2> QED BY <2>1, <2>2
  <1>9. SearchesShown(Append(log, x)) /\ (K[i] # "server_tool_use" => Displayed(Append(log, x)))
    <2>1. /\ Displayed(log) => SearchesShown(Append(log, x))
          /\ Displayed(log) /\ (x.e = "stop" => x.i \notin Searches(log)) => Displayed(Append(log, x))
      BY <1>2, ShownAppend
    <2> QED BY <1>2, <1>5, <1>8, <2>1
  <1> QED BY <1>3, <1>4, <1>5, <1>6, <1>7, <1>9

(* Between the searches, the only open block is one of text. *)
Rests(m) ==
    /\ m \in Emitters /\ m.log # << >> /\ m.text \in 0 .. m.blocks /\ m.open = (IF m.text = 0 THEN {} ELSE {m.text})
    /\ Displayed(m.log)
    /\ \E K : Running(m.log, m.blocks, K, m.open) /\ (m.text # 0 => K[m.text] = "text")

(* While one runs, its block is open. *)
Seeks(m) ==
    /\ m \in Emitters /\ m.log # << >> /\ m.text = 0 /\ m.blocks \in Nat \ {0} /\ m.open = {m.blocks}
    /\ Displayed(m.log) /\ \E K : Running(m.log, m.blocks, K, {m.blocks})

(* It was stopped and has shown nothing yet. *)
Bides(m) ==
    /\ m \in Emitters /\ m.log # << >> /\ m.text = 0 /\ m.open = {}
    /\ SearchesShown(m.log) /\ \E K : Running(m.log, m.blocks, K, {})

EmitterSound(log) == InProtocol(log) /\ SearchesShown(log)

LEMMA EmittersSound == ASSUME NEW m, Rests(m) \/ Seeks(m) \/ Bides(m) PROVE EmitterSound(m.log)
  <1>1. m.log \in Seq(SearchEvents) /\ m.blocks \in Nat /\ SearchesShown(m.log) /\ \E K, open : Running(m.log, m.blocks, K, open)
    BY DEF Rests, Seeks, Bides, Emitters, Displayed
  <1>2. PICK log, n, K, open :
            log \in Seq(SearchEvents) /\ n \in Nat /\ log = m.log /\ n = m.blocks /\ Running(log, n, K, open) BY <1>1
  <1> log \in Seq(SearchEvents) /\ n \in Nat BY <1>2
  <1>3. InProtocol(log) BY <1>2, RunningInProtocol
  <1> QED BY <1>1, <1>2, <1>3 DEF EmitterSound

LEMMA CloseTextRests ==
    ASSUME NEW m, Rests(m)
    PROVE  Rests(CloseText(m)) /\ CloseText(m).text = 0 /\ CloseText(m).open = {}
  <1>1. CASE m.text = 0 BY <1>1 DEF CloseText, Rests
  <1>2. CASE m.text # 0
    <2> DEFINE o == [m EXCEPT !.text = 0]
    <2>1. PICK K : Running(m.log, m.blocks, K, {m.text}) /\ K[m.text] = "text" /\ m.open = {m.text}
      BY <1>2 DEF Rests
    <2>2. m \in Emitters /\ m.text \in 1 .. m.blocks /\ Displayed(m.log) /\ m.blocks \in Nat
      BY <1>2 DEF Rests, Emitters
    <2>3. o \in Emitters /\ o.log = m.log /\ o.blocks = m.blocks /\ o.open = m.open /\ o.text = 0
      BY <2>2 DEF Emitters
    <2>4. CloseText(m) = Stopped(o, m.text) BY <1>2 DEF CloseText
    <2> HIDE DEF o
    <2>5. PICK t \in 1 .. o.blocks : t = m.text BY <2>2, <2>3
    <2>6. PICK h : h = Stopped(o, t) OBVIOUS
    <2>7. Running(o.log, o.blocks, K, {t}) /\ o.open = {t} /\ Displayed(o.log) BY <2>1, <2>2, <2>3, <2>5
    <2>8. /\ h \in Emitters /\ h.blocks = o.blocks /\ h.open = {} /\ h.text = o.text /\ h.log # << >>
          /\ Running(h.log, h.blocks, K, {}) /\ (K[t] # "server_tool_use" => Displayed(h.log))
      BY <2>3, <2>6, <2>7, StoppedRuns
    <2>9. K[t] # "server_tool_use" BY <2>1, <2>5
    <2>10. h.text = 0 /\ 0 \in 0 .. h.blocks BY <2>2, <2>3, <2>8
    <2>11. Rests(h) BY <2>8, <2>9, <2>10 DEF Rests
    <2> QED BY <2>4, <2>5, <2>6, <2>8, <2>10, <2>11
  <1> QED BY <1>1, <1>2

LEMMA BeginSearchSeeks == ASSUME NEW m, Rests(m) PROVE Seeks(BeginSearch(m))
  <1>1. PICK o : o = CloseText(m) OBVIOUS
  <1>2. Rests(o) /\ o.text = 0 /\ o.open = {} BY <1>1, CloseTextRests
  <1>3. PICK K : Running(o.log, o.blocks, K, {}) BY <1>2 DEF Rests
  <1>4. PICK h : h = Started(o, "server_tool_use") OBVIOUS
  <1>5. "server_tool_use" \in SearchKinds BY DEF SearchKinds
  <1>6. PICK w \in SearchKinds : w = "server_tool_use" BY <1>5
  <1>7. /\ h \in Emitters /\ h.blocks \in Nat \ {0} /\ h.open = {h.blocks}
        /\ h.text = o.text /\ h.log # << >> /\ Displayed(h.log)
        /\ \E L : L[h.blocks] = w /\ Running(h.log, h.blocks, L, {h.blocks})
    BY <1>2, <1>3, <1>4, <1>6, StartedRuns DEF Rests
  <1>8. Seeks(h) BY <1>2, <1>7 DEF Seeks
  <1> QED BY <1>1, <1>4, <1>8 DEF BeginSearch

LEMMA AbortSearchStays == ASSUME NEW m, Seeks(m) PROVE Bides(AbortSearch(m))
  <1>1. PICK i \in 1 .. m.blocks : i = m.blocks BY DEF Seeks
  <1>2. PICK K : Running(m.log, m.blocks, K, {i}) BY <1>1 DEF Seeks
  <1>3. PICK h : h = Stopped(m, i) OBVIOUS
  <1>4. m.open = {i} /\ m \in Emitters /\ Displayed(m.log) /\ m.text = 0 BY <1>1 DEF Seeks
  <1>5. /\ h \in Emitters /\ h.open = {} /\ h.text = m.text /\ h.log # << >>
        /\ SearchesShown(h.log) /\ Running(h.log, h.blocks, K, {})
    BY <1>2, <1>3, <1>4, StoppedRuns
  <1>6. Bides(h) BY <1>4, <1>5 DEF Bides
  <1> QED BY <1>1, <1>3, <1>6 DEF AbortSearch

(* A block of its own. *)
LEMMA BlockRests ==
    ASSUME NEW m, m.text = 0, NEW what \in SearchKinds, what # "server_tool_use",
           Rests(m) \/ (Bides(m) /\ what = "result")
    PROVE  Rests(Block(m, what)) /\ Block(m, what).text = 0
  <1>1. m \in Emitters /\ m.open = {} /\ (Displayed(m.log) \/ (SearchesShown(m.log) /\ what = "result"))
    BY DEF Rests, Bides
  <1>2. PICK K : Running(m.log, m.blocks, K, {}) BY DEF Rests, Bides
  <1>3. PICK n : n = Started(m, what) OBVIOUS
  <1>4. /\ n \in Emitters /\ n.blocks \in Nat \ {0} /\ n.open = {n.blocks}
        /\ n.text = m.text /\ n.log # << >> /\ Displayed(n.log)
        /\ \E L : L[n.blocks] = what /\ Running(n.log, n.blocks, L, {n.blocks})
    BY <1>1, <1>2, <1>3, StartedRuns
  <1>5. PICK L : L[n.blocks] = what /\ Running(n.log, n.blocks, L, {n.blocks}) BY <1>4
  <1>6. PICK i \in 1 .. n.blocks : i = n.blocks BY <1>4
  <1>7. PICK h : h = Stopped(n, i) OBVIOUS
  <1>8. /\ h \in Emitters /\ h.blocks = n.blocks /\ h.open = {} /\ h.text = n.text /\ h.log # << >>
        /\ Running(h.log, h.blocks, L, {}) /\ (L[i] # "server_tool_use" => Displayed(h.log))
    <2>1. Running(n.log, n.blocks, L, {i}) /\ n.open = {i} /\ n \in Emitters /\ Displayed(n.log)
      BY <1>4, <1>5, <1>6
    <2> QED BY <1>7, <2>1, StoppedRuns
  <1>9. Displayed(h.log) /\ h.text = 0 /\ 0 \in 0 .. h.blocks BY <1>4, <1>5, <1>6, <1>8
  <1>10. Rests(h) BY <1>8, <1>9 DEF Rests
  <1> QED BY <1>3, <1>6, <1>7, <1>9, <1>10 DEF Block

LEMMA CompleteSearchRests == ASSUME NEW m, Seeks(m) PROVE Rests(CompleteSearch(m))
  <1>1. PICK o : o = Stopped(m, m.blocks) OBVIOUS
  <1>2. Bides(o) BY <1>1, AbortSearchStays DEF AbortSearch
  <1>3. PICK w \in SearchKinds : w = "result" BY DEF SearchKinds
  <1>4. o.text = 0 BY <1>2 DEF Bides
  <1>5. Rests(Block(o, w)) BY <1>2, <1>3, <1>4, BlockRests
  <1> QED BY <1>1, <1>3, <1>5 DEF CompleteSearch

LEMMA TextDeltaRests == ASSUME NEW m, Rests(m) PROVE Rests(TextDelta(m))
  <1> DEFINE s == Started(m, "text")
             n == IF m.text # 0 THEN m ELSE [s EXCEPT !.text = s.blocks]
  <1>1. Rests(n) /\ n.text # 0
    <2>1. CASE m.text # 0 BY <2>1
    <2>2. CASE m.text = 0
      <3>1. m \in Emitters /\ m.open = {} /\ Displayed(m.log) BY <2>2 DEF Rests
      <3>2. PICK K : Running(m.log, m.blocks, K, {}) BY <2>2, <3>1 DEF Rests
      <3>3. PICK w \in SearchKinds : w = "text" BY DEF SearchKinds
      <3>4. PICK h : h = s OBVIOUS
      <3>5. /\ h \in Emitters /\ h.blocks \in Nat \ {0} /\ h.open = {h.blocks}
            /\ h.log # << >> /\ Displayed(h.log)
            /\ \E L : L[h.blocks] = w /\ Running(h.log, h.blocks, L, {h.blocks})
        BY <3>1, <3>2, <3>3, <3>4, StartedRuns
      <3>6. n = [h EXCEPT !.text = h.blocks] BY <2>2, <3>4
      <3> HIDE DEF n, s
      <3>7. n \in Emitters /\ n.blocks = h.blocks /\ n.open = h.open /\ n.log = h.log /\ n.text = h.blocks
        BY <3>5, <3>6 DEF Emitters
      <3>8. n.text \in 0 .. n.blocks /\ n.text # 0 BY <3>5, <3>7
      <3> QED BY <3>3, <3>5, <3>7, <3>8 DEF Rests
    <2> QED BY <2>1, <2>2
  <1> DEFINE x == [e |-> "delta", i |-> n.text]
  <1>2. TextDelta(m) = Sent(n, x) BY DEF TextDelta
  <1> HIDE DEF n, s
  <1>3. n \in Emitters /\ n.text \in 1 .. n.blocks /\ n.blocks \in Nat /\ n.open = {n.text} /\ Displayed(n.log)
    BY <1>1 DEF Rests, Emitters
  <1>4. x \in SearchEvents /\ x.e = "delta" /\ x.i = n.text BY <1>3 DEF SearchEvents
  <1> HIDE DEF x
  <1>5. PICK h : h = Sent(n, x) OBVIOUS
  <1>6. h \in Emitters /\ h.log = Append(n.log, x) /\ h.blocks = n.blocks /\ h.open = n.open /\ h.text = n.text
        /\ h.log # << >> /\ n.log \in Seq(SearchEvents)
    BY <1>3, <1>4, <1>5, SentIs
  <1>7. PICK log, k, K :
            log \in Seq(SearchEvents) /\ k \in Nat /\
           log = n.log /\ k = n.blocks /\ Running(log, k, K, n.open) /\ K[n.text] = "text"
    BY <1>1, <1>3, <1>6 DEF Rests
  <1> log \in Seq(SearchEvents) /\ k \in Nat BY <1>7
  <1>8. Running(Append(log, x), k, K, n.open)
    <2>1. x.i \in n.open /\ x.i \in 1 .. k BY <1>3, <1>4, <1>7
    <2> QED BY <1>4, <1>7, <2>1, RunningDelta
  <1>9. Displayed(Append(log, x))
    <2>1. Displayed(log) /\ (x.e = "stop" => x.i \notin Searches(log)) => Displayed(Append(log, x))
      BY <1>4, ShownAppend
    <2> QED BY <1>3, <1>4, <1>7, <2>1
  <1>10. Rests(h) BY <1>1, <1>3, <1>6, <1>7, <1>8, <1>9 DEF Rests
  <1> QED BY <1>2, <1>5, <1>10

(* FinishMessage writes the blocks that were not sent yet, and the end. *)
LEMMA FinishSound ==
    ASSUME NEW m, Rests(m), NEW content \in Seq({"text", "client"}), NEW reason \in SearchStops
    PROVE  LET h == FinishMessage(m, content, reason)
           IN  h \in Emitters /\ EmitterSound(h.log) /\ h.text = 0 /\ h.open = {}
  <1> DEFINE n == Len(content)
             V == {d \in Emitters : Rests(d) /\ d.text = 0}
             base == CloseText(m)
             G == [k \in 1 .. n |-> [d \in V |-> Block(d, content[k])]]
             Is(f) == f = [s \in SUBSET DOMAIN content |-> IF s = {} THEN base
                              ELSE Block(f[s \ {Max(s)}], content[Max(s)])]
  <1>1. n \in Nat /\ DOMAIN content = 1 .. n /\ \A k \in 1 .. n : content[k] \in {"text", "client"}
    BY ElementOfSeq
  <1>2. base \in V
    <2>1. Rests(base) /\ base.text = 0 BY CloseTextRests
    <2> HIDE DEF base
    <2> QED BY <2>1 DEF Rests
  <1>3. ASSUME NEW k \in 1 .. n, NEW d \in V PROVE Block(d, content[k]) \in V
    <2>1. PICK w \in SearchKinds : w = content[k] /\ w # "server_tool_use" BY <1>1 DEF SearchKinds
    <2>2. PICK h : h = Block(d, w) OBVIOUS
    <2>3. Rests(h) /\ h.text = 0 BY <2>1, <2>2, BlockRests
    <2>4. h \in V BY <2>3 DEF Rests
    <2> QED BY <2>1, <2>2, <2>4
  <1> HIDE DEF base, V
  <1>4. G \in [1 .. n -> [V -> V]] BY <1>3
  <1>5. PICK f : FoldUpTo(f, n, V, base, G)
    <2> HIDE DEF n, G
    <2> QED BY <1>1, <1>2, <1>4, FoldExists
  <1>6. Is(f)
    <2>1. f = [s \in SUBSET (1 .. n) |-> f[s]] BY <1>5 DEF FoldUpTo
    <2>2. ASSUME NEW s \in SUBSET (1 .. n), s # {}
          PROVE  f[s] = Block(f[s \ {Max(s)}], content[Max(s)])
      <3>1. Max(s) \in 1 .. n
        <4>1. Max(s) \in s BY <1>1, <2>2, MaxOf
        <4> QED BY <4>1
      <3>2. f[s \ {Max(s)}] \in V /\ f[s] = G[Max(s)][f[s \ {Max(s)}]] BY <1>5, <2>2, <3>1 DEF FoldUpTo
      <3> QED BY <3>1, <3>2
    <2>3. f[{}] = base BY <1>5 DEF FoldUpTo
    <2> HIDE DEF G, n
    <2> QED BY <1>1, <2>1, <2>2, <2>3
  <1>7. FoldLeft(Block, base, content) = (CHOOSE g : Is(g))[DOMAIN content] BY DEF FoldLeft, MapThenFoldSet
  <1>8. PICK g : g = CHOOSE x : Is(x) OBVIOUS
  <1>9. Is(g) BY <1>6, <1>8
  <1>10. PICK h : Unrolls(h, n, V, base, G) /\ h[n] = g[1 .. n]
    <2>1. DOMAIN g = SUBSET (1 .. n) /\ g[{}] = base BY <1>1, <1>9
    <2>2. ASSUME NEW s \in SUBSET (1 .. n), s # {}, g[s \ {Max(s)}] \in V
          PROVE  g[s] = G[Max(s)][g[s \ {Max(s)}]]
      <3>1. Max(s) \in 1 .. n
        <4>1. Max(s) \in s BY <1>1, <2>2, MaxOf
        <4> QED BY <4>1
      <3>2. g[s] = Block(g[s \ {Max(s)}], content[Max(s)]) BY <1>1, <1>9, <2>2
      <3> QED BY <2>2, <3>1, <3>2
    <2>3. \A s \in SUBSET (1 .. n) : s # {} /\ g[s \ {Max(s)}] \in V => g[s] = G[Max(s)][g[s \ {Max(s)}]] BY <2>2
    <2>4. FoldsUp(g, n, V, base, G) BY <2>1, <2>3 DEF FoldsUp
    <2> HIDE DEF G, n, Is
    <2> QED BY <1>1, <1>2, <1>4, <2>4, FoldUnrolls
  <1>11. FoldLeft(Block, base, content) = h[n] BY <1>1, <1>7, <1>8, <1>10
  <1>12. h[n] \in V BY <1>1, <1>10 DEF Unrolls
  <1>13. PICK o : o = h[n] /\ Rests(o) /\ o.text = 0 BY <1>12 DEF V
  <1> DEFINE x == [e |-> "message_delta", stop |-> reason]
             y == [e |-> "message_stop"]
  <1>14. x \in SearchEvents /\ y \in SearchEvents /\ x.e = "message_delta" /\ y.e = "message_stop" BY DEF SearchEvents
  <1>15. FinishMessage(m, content, reason) = [o EXCEPT !.log = @ \o <<x, y>>]
    BY <1>11, <1>13 DEF FinishMessage, base
  <1> HIDE DEF x, y, G, n, Is
  <1>16. o \in Emitters /\ o.open = {} /\ Displayed(o.log) BY <1>13 DEF Rests
  <1>17. PICK log, k, K :
            log \in Seq(SearchEvents) /\ k \in Nat /\ log = o.log /\ k = o.blocks /\ Running(log, k, K, {})
    BY <1>13, <1>16 DEF Rests, Emitters
  <1> log \in Seq(SearchEvents) /\ k \in Nat BY <1>17
  <1>18. log \o <<x, y>> = Append(Append(log, x), y) BY <1>14, ConcatSome
  <1>19. InProtocol(Append(Append(log, x), y)) BY <1>14, <1>17, RunningEnds
  <1>20. PICK p \in Seq(SearchEvents) : p = Append(log, x) BY <1>14, AppendProperties
  <1>21. Displayed(p) BY <1>14, <1>16, <1>17, <1>20, ShownAppend
  <1>22. Displayed(Append(p, y)) /\ Append(p, y) \in Seq(SearchEvents) BY <1>14, <1>21, ShownAppend, AppendProperties
  <1>23. PICK q \in Seq(SearchEvents) : q = Append(p, y) BY <1>22
  <1>24. PICK r : r = [o EXCEPT !.log = q] OBVIOUS
  <1>25. r \in Emitters /\ r.log = q /\ r.text = 0 /\ r.open = {} BY <1>13, <1>16, <1>24 DEF Emitters
  <1>26. FinishMessage(m, content, reason) = r BY <1>15, <1>17, <1>18, <1>20, <1>23, <1>24
  <1>27. EmitterSound(q) BY <1>19, <1>20, <1>22, <1>23 DEF EmitterSound, Displayed
  <1> QED BY <1>25, <1>26, <1>27

LEMMA FewInSequence ==
    /\ SetToSeq({}) = << >>
    /\ \A i \in Nat : SetToSeq({i}) = <<i>>
  <1>1. SetToSeq({}) = << >>
    <2>1. Cardinality({}) = 0 BY FS_EmptySet
    <2>2. 1 .. 0 = {} OBVIOUS
    <2>3. \E f \in [{} -> {}] : IsInjective(f)
      <3>1. [j \in {} |-> j] \in [{} -> {}] OBVIOUS
      <3> QED BY <3>1 DEF IsInjective
    <2>4. SetToSeq({}) \in [{} -> {}] BY <2>1, <2>2, <2>3 DEF SetToSeq
    <2>5. << >> \in [{} -> {}] OBVIOUS
    <2> QED BY <2>4, <2>5
  <1>2. ASSUME NEW i \in Nat PROVE SetToSeq({i}) = <<i>>
    <2>1. Cardinality({i}) = 1 BY FS_Singleton
    <2>2. <<i>> \in [1 .. 1 -> {i}] OBVIOUS
    <2>3. IsInjective(<<i>>) BY DEF IsInjective
    <2>4. SetToSeq({i}) \in [1 .. 1 -> {i}] BY <2>1, <2>2, <2>3 DEF SetToSeq
    <2>5. PICK f \in [1 .. 1 -> {i}] : f = SetToSeq({i}) BY <2>4
    <2>6. f = <<i>>
      <3>1. f[1] = i BY <2>5
      <3>2. f = [j \in 1 .. 1 |-> f[j]] OBVIOUS
      <3>3. \A j \in 1 .. 1 : j = 1 OBVIOUS
      <3>4. <<i>> = [j \in 1 .. 1 |-> <<i>>[j]] OBVIOUS
      <3> QED BY <3>1, <3>2, <3>3, <3>4
    <2> QED BY <2>5, <2>6
  <1> QED BY <1>1, <1>2

LEMMA StopsOfOpen ==
    ASSUME NEW m, NEW i \in Nat
    PROVE  FoldLeft(Stopped, m, << >>) = m /\ FoldLeft(Stopped, m, <<i>>) = Stopped(m, i)
  <1>1. FoldLeft(Stopped, m, << >>) = m
    <2> DEFINE seq == << >>
               Is(f) == f = [s \in SUBSET DOMAIN seq |-> IF s = {} THEN m
                                ELSE Stopped(f[s \ {Max(s)}], seq[Max(s)])]
    <2>1. DOMAIN seq = {} OBVIOUS
    <2>2. Is([s \in SUBSET DOMAIN seq |-> m]) BY <2>1
    <2>3. FoldLeft(Stopped, m, << >>) = (CHOOSE g : Is(g))[DOMAIN seq] BY DEF FoldLeft, MapThenFoldSet
    <2>4. PICK g : g = CHOOSE x : Is(x) OBVIOUS
    <2>5. Is(g) BY <2>2, <2>4
    <2>6. g[{}] = m BY <2>1, <2>5
    <2> QED BY <2>1, <2>3, <2>4, <2>6
  <1>2. FoldLeft(Stopped, m, <<i>>) = Stopped(m, i)
    <2> DEFINE seq == <<i>>
               Is(f) == f = [s \in SUBSET DOMAIN seq |-> IF s = {} THEN m
                                ELSE Stopped(f[s \ {Max(s)}], seq[Max(s)])]
               one == [s \in SUBSET DOMAIN seq |-> IF s = {} THEN m ELSE Stopped(m, i)]
    <2>1. DOMAIN seq = {1} /\ seq[1] = i
      <3>1. \A j : j \in 1 .. 1 <=> j = 1 OBVIOUS
      <3> QED BY <3>1
    <2>2. Max({1}) = 1
      <3>1. 0 \in Nat /\ {1} \in SUBSET (1 .. 0 + 1) /\ 0 + 1 \in {1} /\ 0 + 1 = 1 OBVIOUS
      <3>2. Max({1}) = 0 + 1 BY <3>1, MaxUpTo
      <3> QED BY <3>1, <3>2
    <2>3. \A s \in SUBSET DOMAIN seq : s # {} => s = {1} BY <2>1
    <2>4. {1} \ {1} = {} /\ {1} \in SUBSET DOMAIN seq /\ {} \in SUBSET DOMAIN seq BY <2>1
    <2>5. FoldLeft(Stopped, m, <<i>>) = (CHOOSE g : Is(g))[DOMAIN seq] BY DEF FoldLeft, MapThenFoldSet
    <2> HIDE DEF seq
    <2>6. Is(one)
      <3>1. one[{}] = m BY <2>4
      <3>2. \A s \in SUBSET DOMAIN seq : s # {} => Stopped(one[s \ {Max(s)}], seq[Max(s)]) = Stopped(m, i)
        BY <2>1, <2>2, <2>3, <2>4, <3>1
      <3> QED BY <3>2
    <2>7. PICK g : g = CHOOSE x : Is(x) OBVIOUS
    <2>8. Is(g) BY <2>6, <2>7
    <2>9. g[{}] = m BY <2>4, <2>8
    <2>10. g[{1}] = Stopped(g[{1} \ {Max({1})}], seq[Max({1})]) BY <2>4, <2>8
    <2>11. g[{1}] = Stopped(m, i) BY <2>1, <2>2, <2>4, <2>9, <2>10
    <2> QED BY <2>1, <2>5, <2>7, <2>11
  <1> QED BY <1>1, <1>2

(* FailMessage stops what is open, and tells the error. *)
LEMMA FailSound ==
    ASSUME NEW m, Rests(m) \/ Seeks(m) \/ Bides(m)
    PROVE  LET h == FailMessage(m) IN h \in Emitters /\ EmitterSound(h.log) /\ h.text = 0 /\ h.open = {}
  <1> DEFINE n == FoldLeft(Stopped, m, SetToSeq(m.open))
  <1>1. n \in Emitters /\ n.open = {} /\ SearchesShown(n.log) /\ \E K : Running(n.log, n.blocks, K, {})
    <2>1. CASE m.open = {}
      <3>1. n = m BY <2>1, FewInSequence, StopsOfOpen
      <3> HIDE DEF n
      <3>2. m \in Emitters /\ SearchesShown(m.log) /\ \E K : Running(m.log, m.blocks, K, {})
        BY <2>1 DEF Rests, Seeks, Bides, Displayed
      <3> QED BY <2>1, <3>1, <3>2
    <2>2. CASE m.open # {}
      <3>1. m \in Emitters /\ Displayed(m.log) /\ m.blocks \in Nat BY <2>2 DEF Rests, Seeks, Bides, Emitters
      <3>2. PICK i, K :
            i \in 1 .. m.blocks /\ m.open = {i} /\ Running(m.log, m.blocks, K, {i})
        <4>1. CASE Rests(m)
          <5>1. m.text \in 1 .. m.blocks /\ m.open = {m.text} BY <2>2, <3>1, <4>1 DEF Rests
          <5> QED BY <4>1, <5>1 DEF Rests
        <4>2. CASE Seeks(m)
          <5>1. m.blocks \in 1 .. m.blocks BY <4>2 DEF Seeks
          <5> QED BY <4>2, <5>1 DEF Seeks
        <4>3. ~Bides(m) BY <2>2 DEF Bides
        <4> QED BY <4>1, <4>2, <4>3
      <3> i \in 1 .. m.blocks BY <3>2
      <3>3. i \in Nat BY <3>1
      <3>4. n = Stopped(m, i) BY <3>2, <3>3, FewInSequence, StopsOfOpen
      <3> HIDE DEF n
      <3>5. PICK h : h = Stopped(m, i) OBVIOUS
      <3>6. h \in Emitters /\ h.open = {} /\ SearchesShown(h.log) /\ Running(h.log, h.blocks, K, {})
        BY <3>1, <3>2, <3>5, StoppedRuns
      <3> QED BY <3>4, <3>5, <3>6
    <2> QED BY <2>1, <2>2
  <1> DEFINE o == [n EXCEPT !.text = 0]
             x == [e |-> "error"]
  <1>2. FailMessage(m) = Sent(o, x) BY DEF FailMessage
  <1>3. x \in SearchEvents /\ x.e = "error" BY DEF SearchEvents
  <1> HIDE DEF n, x
  <1>4. o \in Emitters /\ o.log = n.log /\ o.open = {} /\ o.text = 0 BY <1>1 DEF Emitters
  <1> HIDE DEF o
  <1>5. PICK h : h = Sent(o, x) OBVIOUS
  <1>6. h \in Emitters /\ h.log = Append(n.log, x) /\ h.open = {} /\ h.text = 0 /\ n.log \in Seq(SearchEvents)
    BY <1>3, <1>4, <1>5, SentIs
  <1>7. PICK log, k, K :
            log \in Seq(SearchEvents) /\ k \in Nat /\ log = n.log /\ k = n.blocks /\ Running(log, k, K, {})
    BY <1>1, <1>6 DEF Emitters
  <1> log \in Seq(SearchEvents) /\ k \in Nat BY <1>7
  <1>8. InProtocol(Append(log, x)) BY <1>3, <1>7, RunningFails
  <1>9. SearchesShown(Append(log, x))
    <2>1. x.e # "start" /\ Shows(x) BY <1>3 DEF Shows
    <2>2. Displayed(Append(log, x)) BY <1>1, <1>3, <1>7, <2>1, ShownAppend
    <2> QED BY <2>2 DEF Displayed
  <1>10. EmitterSound(h.log) BY <1>6, <1>7, <1>8, <1>9 DEF EmitterSound
  <1> QED BY <1>2, <1>5, <1>6, <1>10

-----------------------------------------------------------------------------
SearchContents == {"text", "client"}
SearchRounds ==
    [text : {"", "p", "x", "px"}, uses : Seq({"web", "no_query", "client"}), half : BOOLEAN,
     stop : {"none", "refusal", "max_tokens"}, credits : {0, 1}, sent : BOOLEAN, torn : BOOLEAN]
SearchReplies ==
    [status : {"none", "success", "error", "left"}, content : Seq(SearchContents), stop : SearchStops]
HasSent(r) == r.sent => r.text # ""
SearchUsed == [rounds : Nat, credits : Nat]

(* Whatever becomes of the loop, what was sent is in order. *)
Quiet(m) ==
    m \in Emitters /\ EmitterSound(m.log) /\ m.open \subseteq 1 .. m.blocks /\ m.text \in {0} \cup m.open

SearchCore ==
    /\ form \in [stream : BOOLEAN, at_once : BOOLEAN, result : BOOLEAN] /\ (form.at_once => form.stream)
    /\ at \in {"call", "decode", "search", "mcp", "done"}
    /\ round \in 0 .. MaxRounds /\ retries \in 0 .. MaxRetries
    /\ got \in SearchRounds /\ Len(got.uses) <= MaxCalls /\ HasSent(got)
    /\ next \in 1 .. MaxCalls + 1 /\ requests \in 0 .. MaxUses
    /\ at = "mcp" => next <= Len(got.uses)

SearchSettled ==
    /\ recorded = << >> => used.rounds = 0 /\ reply.status = "error"
    /\ recorded # << >> =>
          /\ Len(recorded) = 1 /\ recorded[1].rounds = used.rounds /\ recorded[1].credits = used.credits
          /\ (recorded[1].status = "success") <=> (reply.status = "success")

SearchAccounts ==
    /\ used \in SearchUsed /\ paid \in Nat /\ reply \in SearchReplies
    /\ used.credits <= paid /\ paid <= used.credits + 1
    /\ at # "done" => recorded = << >> /\ used.credits = paid
    /\ at = "call" /\ round = 0 /\ retries = 0 => used.rounds = 0
    /\ at = "done" => SearchSettled

SearchTold ==
    /\ at \in {"call", "decode", "search"} \/ (at = "mcp" /\ ~form.stream) => Rests(emitter)
    /\ at = "mcp" /\ form.stream => Seeks(emitter)
    /\ at = "done" => Quiet(emitter)

SearchInv == SearchCore /\ SearchAccounts /\ SearchTold

LEMMA IsQuiet == ASSUME NEW m, Rests(m) \/ Seeks(m) \/ Bides(m) PROVE Quiet(m)
  <1>1. EmitterSound(m.log) /\ m \in Emitters /\ m.blocks \in Nat BY EmittersSound DEF Rests, Seeks, Bides, Emitters
  <1>2. CASE Rests(m)
    <2>1. m.text = 0 \/ m.text \in 1 .. m.blocks BY <1>1, <1>2 DEF Rests
    <2> QED BY <1>1, <1>2, <2>1 DEF Rests, Quiet
  <1>3. CASE Seeks(m)
    <2>1. m.blocks \in 1 .. m.blocks BY <1>3 DEF Seeks
    <2> QED BY <1>1, <1>3, <2>1 DEF Seeks, Quiet
  <1>4. CASE Bides(m) BY <1>1, <1>4 DEF Bides, Quiet
  <1> QED BY <1>2, <1>3, <1>4

LEMMA FailsQuiet ==
    ASSUME NEW m, Rests(m) \/ Seeks(m) \/ Bides(m)
    PROVE  Quiet(FailMessage(m))
  <1>1. PICK h : h = FailMessage(m) OBVIOUS
  <1>2. h \in Emitters /\ EmitterSound(h.log) /\ h.text = 0 /\ h.open = {} BY <1>1, FailSound
  <1>3. Quiet(h) BY <1>2 DEF Quiet
  <1> QED BY <1>1, <1>3

(* What a round may say. *)
LEMMA RoundBlank == NoRound \in SearchRounds /\ Len(NoRound.uses) = 0 /\ HasSent(NoRound)
  <1>1. << >> \in Seq({"web", "no_query", "client"}) /\ Len(<< >>) = 0 BY EmptySeq
  <1>2. HasSent(NoRound) BY DEF NoRound, HasSent
  <1> QED BY <1>1, <1>2 DEF NoRound, SearchRounds

LEMMA FlushTyped ==
    ASSUME got \in SearchRounds, HasSent(got)
    PROVE  /\ FlushText \in Seq(SearchContents) /\ ClientCalls \in Seq(SearchContents)
           /\ Unsent \in Seq(SearchContents) /\ FlushText \o ClientCalls \in Seq(SearchContents)
           /\ FlushStop \in SearchStops
  <1> DEFINE C == SearchContents
             piece(k) == IF IsSearch(got.uses[k]) THEN << >> ELSE <<got.uses[k]>>
             ss == [k \in DOMAIN got.uses |-> piece(k)]
  <1>1. PICK u \in Seq({"web", "no_query", "client"}), n \in Nat : u = got.uses /\ n = Len(u) /\ DOMAIN u = 1 .. n
    <2>1. got.uses \in Seq({"web", "no_query", "client"}) BY DEF SearchRounds
    <2>2. PICK u \in Seq({"web", "no_query", "client"}) : u = got.uses BY <2>1
    <2>3. Len(u) \in Nat /\ DOMAIN u = 1 .. Len(u) OBVIOUS
    <2> QED BY <2>2, <2>3
  <1>2. got.text \in {"", "p", "x", "px"} /\ got.stop \in {"none", "refusal", "max_tokens"} BY DEF SearchRounds
  <1>3. FlushText \in {<< >>, <<"text">>, <<"client">>, <<"text">> \o <<"client">>} BY <1>2 DEF FlushText
  <1>4. "text" \in C /\ "client" \in C BY DEF SearchContents
  <1>5. << >> \in Seq(C) /\ <<"text">> \in Seq(C) /\ <<"client">> \in Seq(C)
    <2> HIDE DEF C
    <2> QED BY <1>4, EmptySeq
  <1>6. PICK t \in Seq(C), c \in Seq(C) : t = <<"text">> /\ c = <<"client">> BY <1>5
  <1>7. t \o c \in Seq(C) /\ t # << >> /\ c # << >> /\ t \o c # << >>
    <2>1. t \o c \in Seq(C) /\ Len(t \o c) = Len(t) + Len(c) BY ConcatProperties
    <2>2. Len(t) = 1 /\ Len(c) = 1 /\ Len(<< >>) = 0 BY <1>6, EmptySeq
    <2> HIDE DEF C
    <2> QED BY <2>1, <2>2
  <1>8. FlushText \in Seq(C) BY <1>3, <1>5, <1>6, <1>7
  <1>9. ClientCalls = FlattenSeq(ss) BY DEF ClientCalls
  <1>10. \A k \in 1 .. n : piece(k) \in Seq(C)
    <2> SUFFICES ASSUME NEW k \in 1 .. n PROVE piece(k) \in Seq(C) OBVIOUS
    <2>1. got.uses[k] \in {"web", "no_query", "client"} BY <1>1, ElementOfSeq
    <2>2. ~IsSearch(got.uses[k]) => got.uses[k] = "client" BY <2>1 DEF IsSearch
    <2> QED BY <1>5, <2>2
  <1>11. ss \in Seq(Seq(C))
    <2>1. ss = [k \in 1 .. n |-> piece(k)] BY <1>1
    <2> HIDE DEF piece, C, ss
    <2> QED BY <1>10, <2>1
  <1> HIDE DEF ss, C, piece
  <1>12. ClientCalls \in Seq(C)
    <2>1. PICK f : Joined(f, ss, C) /\ FlattenSeq(ss) = f[Len(ss)] BY <1>11, FlattenJoins
    <2>2. Len(ss) \in Nat BY <1>11
    <2>3. f[Len(ss)] \in Seq(C) BY <2>1, <2>2 DEF Joined
    <2> QED BY <1>9, <2>1, <2>3
  <1>13. PICK a \in Seq(C), b \in Seq(C) : a = FlushText /\ b = ClientCalls BY <1>8, <1>12
  <1>14. a \o b \in Seq(C) BY ConcatProperties
  <1>15. Unsent \in Seq(C)
    <2> DEFINE first == IF got.sent THEN (IF got.text = "p" THEN <<>>
                                         ELSE IF FlushText = <<"text">> THEN FlushText ELSE Tail(FlushText))
                       ELSE FlushText
    <2>1. first \in Seq(C)
      <3>1. got.text # "" => FlushText # << >>
        <4>1. PICK call \in {t, c} : call = IF got.uses = <<>> /\ got.stop # "refusal" THEN <<"client">> ELSE <<"text">>
          BY <1>6
        <4>2. got.text # "" => FlushText \in {t, call, t \o call} BY <1>2, <1>6, <4>1 DEF FlushText
        <4>3. call = <<"text">> <=> call = t BY <1>6
        <4>4. got.text # "" => FlushText \in {t, c, t \o c}
          BY <1>2, <1>6, <4>1, <4>3 DEF FlushText
        <4> QED BY <1>7, <4>4
      <3>2. a # << >> => Tail(a) \in Seq(C) BY HeadTailProperties
      <3>3. got.sent => FlushText # << >> BY <3>1 DEF HasSent
      <3> HIDE DEF C
      <3> QED BY <1>5, <1>13, <3>2, <3>3
    <2>2. Unsent = first \o ClientCalls BY DEF Unsent
    <2> HIDE DEF first
    <2>3. PICK p \in Seq(C) : p = first BY <2>1
    <2>4. p \o b \in Seq(C) BY ConcatProperties
    <2> QED BY <1>13, <2>2, <2>3, <2>4
  <1>16. FlushStop \in SearchStops BY <1>2 DEF FlushStop, SearchStops
  <1> QED BY <1>8, <1>12, <1>13, <1>14, <1>15, <1>16 DEF C

(* The ends of the loop. *)
LEMMA OneRecord ==
    ASSUME recorded = << >>, NEW status, NEW usage, SettleLoop(status, usage)
    PROVE  /\ recorded' # << >> /\ Len(recorded') = 1 /\ recorded'[1].rounds = usage.rounds
           /\ recorded'[1].credits = usage.credits /\ recorded'[1].status = status
  <1> DEFINE r == [status |-> status, rounds |-> usage.rounds, credits |-> usage.credits]
  <1>1. recorded' = Append(<< >>, r) BY DEF SettleLoop
  <1>2. r.status = status /\ r.rounds = usage.rounds /\ r.credits = usage.credits OBVIOUS
  <1> HIDE DEF r
  <1>3. Append(<< >>, r) # << >> /\ Len(Append(<< >>, r)) = 1 /\ Append(<< >>, r)[1] = r
    <2>1. << >> \in Seq({r}) /\ Len(<< >>) = 0 BY EmptySeq
    <2>2. PICK e \in Seq({r}) : e = << >> BY <2>1
    <2>3. 0 + 1 = 1 OBVIOUS
    <2> QED BY <2>1, <2>2, <2>3, AppendProperties
  <1> QED BY <1>1, <1>2, <1>3

LEMMA GoneKeeps ==
    ASSUME SearchInv, NEW status \in {"error", "left"}, Gone(status), Quiet(emitter'),
           used' \in SearchUsed, paid' \in Nat, used'.credits <= paid', paid' <= used'.credits + 1,
           \/ recorded' = << >> /\ used'.rounds = 0 /\ status = "error"
           \/ at # "done" /\ SettleLoop("error", used')
    PROVE  SearchInv'
  <1>1. /\ at' = "done" /\ round' = 0 /\ retries' = 0 /\ got' = NoRound /\ next' = 1 /\ requests' = 0
        /\ form' = form /\ reply' = [reply EXCEPT !.status = status]
    BY DEF Gone
  <1>2. SearchCore' BY <1>1, RoundBlank, RoundsAssumption DEF SearchInv, SearchCore
  <1>3. reply' \in SearchReplies /\ reply'.status = status BY <1>1 DEF SearchInv, SearchAccounts, SearchReplies
  <1>4. SearchSettled'
    <2>1. CASE recorded' = << >> /\ used'.rounds = 0 /\ status = "error" BY <1>3, <2>1 DEF SearchSettled
    <2>2. CASE at # "done" /\ SettleLoop("error", used')
      <3>1. recorded = << >> BY <2>2 DEF SearchInv, SearchAccounts
      <3>2. PICK u : u = used' OBVIOUS
      <3>3. SettleLoop("error", u) BY <2>2, <3>2
      <3>4. /\ recorded' # << >> /\ Len(recorded') = 1 /\ recorded'[1].rounds = u.rounds
            /\ recorded'[1].credits = u.credits /\ recorded'[1].status = "error"
        BY <3>1, <3>3, OneRecord
      <3> QED BY <1>3, <3>2, <3>4 DEF SearchSettled
    <2> QED BY <2>1, <2>2
  <1>5. SearchAccounts' BY <1>1, <1>3, <1>4 DEF SearchAccounts
  <1>6. SearchTold' BY <1>1 DEF SearchTold
  <1> QED BY <1>2, <1>5, <1>6 DEF SearchInv

LEMMA SearchFacts ==
    ASSUME SearchInv
    PROVE  /\ used \in SearchUsed /\ paid \in Nat /\ used.credits \in Nat /\ used.rounds \in Nat
           /\ used.credits <= paid /\ paid <= used.credits + 1
           /\ got.credits \in {0, 1} /\ round \in Nat /\ retries \in Nat /\ next \in Nat /\ requests \in Nat
           /\ Len(got.uses) \in Nat /\ got \in SearchRounds /\ form.stream \in BOOLEAN
           /\ got.uses \in Seq({"web", "no_query", "client"})
           /\ at # "done" => recorded = << >> /\ used.credits = paid
  <1>1. used \in SearchUsed /\ paid \in Nat /\ used.credits \in Nat /\ used.rounds \in Nat
        /\ used.credits <= paid /\ paid <= used.credits + 1
        /\ (at # "done" => recorded = << >> /\ used.credits = paid)
    BY DEF SearchInv, SearchAccounts, SearchUsed
  <1>2. got \in SearchRounds BY DEF SearchInv, SearchCore
  <1>3. got.credits \in {0, 1} /\ got.uses \in Seq({"web", "no_query", "client"}) BY <1>2 DEF SearchRounds
  <1>4. Len(got.uses) \in Nat BY <1>3
  <1>5. round \in Nat /\ retries \in Nat /\ next \in Nat /\ requests \in Nat /\ form.stream \in BOOLEAN
    BY RoundsAssumption DEF SearchInv, SearchCore
  <1> QED BY <1>1, <1>2, <1>3, <1>4, <1>5

LEMMA AddIs ==
    ASSUME SearchInv, NEW credits \in {0, 1}
    PROVE  Add(credits) \in SearchUsed /\ Add(credits).credits = used.credits + credits
  BY SearchFacts DEF Add, SearchUsed

LEMMA FailsAre ==
    ASSUME SearchInv, NEW m, Rests(m) \/ Seeks(m) \/ Bides(m), Fails(m)
    PROVE  Gone("error") /\ Quiet(emitter')
  <1>1. Gone("error") /\ emitter' = IF form.stream THEN FailMessage(m) ELSE m BY DEF Fails
  <1>2. Quiet(FailMessage(m)) /\ Quiet(m) BY FailsQuiet, IsQuiet
  <1> QED BY <1>1, <1>2

LEMMA CallRefusedKeeps == ASSUME SearchInv, CallRefused PROVE SearchInv'
  <1>1. at = "call" /\ Fails(emitter) /\ used' = used /\ paid' = paid
        /\ IF round = 0 /\ retries = 0 THEN recorded' = recorded ELSE SettleLoop("error", used)
    BY DEF CallRefused
  <1>2. Rests(emitter) BY <1>1 DEF SearchInv, SearchTold
  <1>3. Gone("error") /\ Quiet(emitter') BY <1>1, <1>2, FailsAre
  <1>4. recorded = << >> /\ used \in SearchUsed /\ paid \in Nat /\ used.credits <= paid /\ paid <= used.credits + 1
    BY <1>1, SearchFacts
  <1>5. CASE round = 0 /\ retries = 0
    <2>1. recorded' = << >> /\ used'.rounds = 0 BY <1>1, <1>4, <1>5 DEF SearchInv, SearchAccounts
    <2> QED BY <1>1, <1>3, <1>4, <2>1, GoneKeeps
  <1>6. CASE ~(round = 0 /\ retries = 0)
    <2>1. at # "done" /\ SettleLoop("error", used') BY <1>1, <1>6
    <2> QED BY <1>1, <1>3, <1>4, <2>1, GoneKeeps
  <1> QED BY <1>5, <1>6

LEMMA CallFailsKeeps == ASSUME SearchInv, CallFails PROVE SearchInv'
  <1>1. at = "call" /\ Fails(emitter) /\ used' = Add(0) /\ paid' = paid /\ SettleLoop("error", used') BY DEF CallFails
  <1>2. Rests(emitter) BY <1>1 DEF SearchInv, SearchTold
  <1>3. Gone("error") /\ Quiet(emitter') BY <1>1, <1>2, FailsAre
  <1>4. paid \in Nat /\ used.credits = paid /\ used.credits \in Nat BY <1>1, SearchFacts
  <1>5. used' \in SearchUsed /\ used'.credits = used.credits + 0 BY <1>1, AddIs
  <1>6. used'.credits <= paid' /\ paid' <= used'.credits + 1 /\ paid' \in Nat /\ at # "done" BY <1>1, <1>4, <1>5
  <1> QED BY <1>1, <1>3, <1>5, <1>6, GoneKeeps

LEMMA RoundBreaksKeeps == ASSUME SearchInv, RoundBreaks PROVE SearchInv'
  <1>1. at = "decode" /\ Fails(CloseText(emitter)) /\ used' = Add(got.credits) /\ paid' = paid + got.credits
        /\ SettleLoop("error", used')
    BY DEF RoundBreaks, Decoding
  <1>2. PICK m : m = CloseText(emitter) OBVIOUS
  <1>3. Rests(m)
    <2>1. Rests(emitter) BY <1>1 DEF SearchInv, SearchTold
    <2> QED BY <1>2, <2>1, CloseTextRests
  <1>4. Gone("error") /\ Quiet(emitter') BY <1>1, <1>2, <1>3, FailsAre
  <1>5. paid \in Nat /\ used.credits = paid /\ used.credits \in Nat /\ got.credits \in {0, 1} BY <1>1, SearchFacts
  <1>6. used' \in SearchUsed /\ used'.credits = used.credits + got.credits BY <1>1, <1>5, AddIs
  <1>7. used'.credits <= paid' /\ paid' <= used'.credits + 1 /\ paid' \in Nat /\ at # "done" BY <1>1, <1>5, <1>6
  <1> QED BY <1>1, <1>4, <1>6, <1>7, GoneKeeps

LEMMA DroppedKeeps ==
    ASSUME SearchInv, at # "done", Dropped, NEW status \in {"error", "left"}, Gone(status), Quiet(emitter')
    PROVE  SearchInv'
  <1>1. SettleLoop("error", used) /\ used' = used /\ paid' = (IF at = "decode" THEN paid + got.credits ELSE paid)
    BY DEF Dropped
  <1>2. paid \in Nat /\ used.credits = paid /\ used.credits \in Nat /\ got.credits \in {0, 1} /\ used \in SearchUsed
    BY SearchFacts
  <1>3. used'.credits <= paid' /\ paid' <= used'.credits + 1 /\ paid' \in Nat /\ used' \in SearchUsed BY <1>1, <1>2
  <1>4. SettleLoop("error", used') BY <1>1
  <1> QED BY <1>3, <1>4, GoneKeeps

LEMMA SearchDropsKeep == ASSUME SearchInv, LeaveSearch \/ Panics PROVE SearchInv'
  <1>1. at # "done" BY DEF LeaveSearch, Panics
  <1>2. Rests(emitter) \/ Seeks(emitter) BY <1>1 DEF SearchInv, SearchTold, SearchCore
  <1>3. CASE LeaveSearch
    <2>1. Dropped /\ Gone("left") /\ emitter' = emitter BY <1>3 DEF LeaveSearch
    <2>2. Quiet(emitter') BY <1>2, <2>1, IsQuiet
    <2> QED BY <1>1, <2>1, <2>2, DroppedKeeps
  <1>4. CASE Panics
    <2>1. Dropped /\ Fails(emitter) BY <1>4 DEF Panics
    <2>2. Gone("error") /\ Quiet(emitter') BY <1>2, <2>1, FailsAre
    <2> QED BY <1>1, <2>1, <2>2, DroppedKeeps
  <1> QED BY <1>3, <1>4

LEMMA SearchFailsKeeps == ASSUME SearchInv, SearchFails PROVE SearchInv'
  <1>1. at = "mcp" /\ SettleLoop("error", used) /\ Fails(Present(AbortSearch(emitter))) /\ used' = used /\ paid' = paid
    BY DEF SearchFails
  <1>2. PICK m : m = Present(AbortSearch(emitter)) OBVIOUS
  <1>3. Rests(m) \/ Seeks(m) \/ Bides(m)
    <2>1. CASE form.stream
      <3>1. Seeks(emitter) BY <1>1, <2>1 DEF SearchInv, SearchTold
      <3>2. Bides(AbortSearch(emitter)) BY <3>1, AbortSearchStays
      <3> QED BY <1>2, <2>1, <3>2 DEF Present
    <2>2. CASE ~form.stream BY <1>1, <1>2, <2>2 DEF SearchInv, SearchTold, Present
    <2> QED BY <2>1, <2>2
  <1>4. Gone("error") /\ Quiet(emitter') BY <1>1, <1>2, <1>3, FailsAre
  <1>5. used' \in SearchUsed /\ paid' \in Nat /\ used'.credits <= paid' /\ paid' <= used'.credits + 1
        /\ at # "done" /\ SettleLoop("error", used')
    BY <1>1, SearchFacts
  <1> QED BY <1>4, <1>5, GoneKeeps

LEMMA FlushInvalidKeeps == ASSUME SearchInv, FlushInvalid PROVE SearchInv'
  <1>1. at = "search" /\ SettleLoop("error", used) /\ Fails(emitter) /\ used' = used /\ paid' = paid BY DEF FlushInvalid
  <1>2. Rests(emitter) BY <1>1 DEF SearchInv, SearchTold
  <1>3. Gone("error") /\ Quiet(emitter') BY <1>1, <1>2, FailsAre
  <1>4. used' \in SearchUsed /\ paid' \in Nat /\ used'.credits <= paid' /\ paid' <= used'.credits + 1
        /\ at # "done" /\ SettleLoop("error", used')
    BY <1>1, SearchFacts
  <1> QED BY <1>3, <1>4, GoneKeeps

(* The steps that leave the loop running. *)
LEMMA AccountsSame ==
    ASSUME SearchInv, at # "done", at' # "done", at' = "call" => round' # 0 \/ retries' # 0,
           used' = used, paid' = paid, recorded' = recorded, reply' = reply
    PROVE  SearchAccounts'
  BY DEF SearchInv, SearchAccounts

LEMMA CallKeeps == ASSUME SearchInv, Call PROVE SearchInv'
  <1>1. /\ at = "call" /\ at' = "decode" /\ got' = NoRound /\ form' = form /\ round' = round /\ retries' = retries
        /\ next' = next /\ requests' = requests /\ used' = used /\ recorded' = recorded /\ paid' = paid
        /\ emitter' = emitter /\ reply' = reply
    BY DEF Call
  <1>2. SearchCore' BY <1>1, RoundBlank, RoundsAssumption DEF SearchInv, SearchCore
  <1>3. SearchAccounts' BY <1>1, AccountsSame
  <1>4. SearchTold' BY <1>1 DEF SearchInv, SearchTold
  <1> QED BY <1>2, <1>3, <1>4 DEF SearchInv

LEMMA HeardKeeps ==
    ASSUME SearchInv, at = "decode", NEW outcome \in SearchRounds, Len(outcome.uses) <= MaxCalls, HasSent(outcome),
           NEW m, Rests(m), Heard(outcome, m)
    PROVE  SearchInv'
  <1>1. /\ got' = outcome /\ emitter' = m /\ form' = form /\ at' = at /\ round' = round /\ retries' = retries
        /\ next' = next /\ requests' = requests /\ used' = used /\ recorded' = recorded /\ paid' = paid
        /\ reply' = reply
    BY DEF Heard
  <1>2. SearchCore' BY <1>1 DEF SearchInv, SearchCore
  <1>3. SearchAccounts' BY <1>1, AccountsSame
  <1>4. SearchTold' BY <1>1 DEF SearchTold
  <1> QED BY <1>2, <1>3, <1>4 DEF SearchInv

LEMMA RoundTextKeeps == ASSUME SearchInv, RoundText PROVE SearchInv'
  <1>1. PICK s \in {"p", "x"}, once \in BOOLEAN :
           Heard([got EXCEPT !.text = IF @ = "p" THEN "px" ELSE s, !.sent = @ \/ once],
                 IF once THEN TextDelta(emitter) ELSE emitter)
    BY DEF RoundText
  <1>2. at = "decode" BY DEF RoundText, Decoding
  <1>3. PICK r : r = [got EXCEPT !.text = IF @ = "p" THEN "px" ELSE s, !.sent = @ \/ once] OBVIOUS
  <1>4. got \in SearchRounds /\ Len(got.uses) <= MaxCalls BY DEF SearchInv, SearchCore
  <1>5. r \in SearchRounds /\ r.uses = got.uses /\ r.text \in {"p", "x", "px"}
    BY <1>3, <1>4 DEF SearchRounds
  <1>6. HasSent(r) BY <1>5 DEF HasSent
  <1>7. PICK m : m = IF once THEN TextDelta(emitter) ELSE emitter OBVIOUS
  <1>8. Rests(m)
    <2>1. Rests(emitter) BY <1>2 DEF SearchInv, SearchTold
    <2> QED BY <1>7, <2>1, TextDeltaRests
  <1>9. Heard(r, m) BY <1>1, <1>3, <1>7
  <1> QED BY <1>2, <1>4, <1>5, <1>6, <1>8, <1>9, HeardKeeps

LEMMA RoundSaysKeeps == ASSUME SearchInv, RoundTool \/ RoundStop \/ RoundMetering PROVE SearchInv'
  <1>1. at = "decode" BY DEF RoundTool, RoundStop, RoundMetering, Decoding
  <1>2. Rests(emitter) BY <1>1 DEF SearchInv, SearchTold
  <1>3. got \in SearchRounds /\ Len(got.uses) <= MaxCalls /\ HasSent(got) BY DEF SearchInv, SearchCore
  <1>4. \E r \in SearchRounds : r.sent = got.sent /\ r.text = got.text /\ Len(r.uses) <= MaxCalls /\ Heard(r, emitter)
    <2>1. CASE RoundTool
      <3>1. PICK u \in {"web", "no_query", "client", "half"} :
               /\ Len(got.uses) < MaxCalls
               /\ Heard(IF u = "half" THEN [got EXCEPT !.half = TRUE] ELSE [got EXCEPT !.uses = Append(@, u)], emitter)
        BY <2>1 DEF RoundTool
      <3>2. CASE u = "half"
        <4>1. PICK r : r = [got EXCEPT !.half = TRUE] OBVIOUS
        <4>2. r \in SearchRounds /\ r.sent = got.sent /\ r.text = got.text /\ r.uses = got.uses
          BY <1>3, <4>1 DEF SearchRounds
        <4> QED BY <1>3, <3>1, <3>2, <4>1, <4>2
      <3>3. CASE u # "half"
        <4>1. PICK w \in {"web", "no_query", "client"} : w = u BY <3>3
        <4>2. PICK s \in Seq({"web", "no_query", "client"}) : s = got.uses BY <1>3 DEF SearchRounds
        <4>3. PICK t \in Seq({"web", "no_query", "client"}) : t = Append(s, w) BY AppendProperties
        <4>4. Len(t) = Len(s) + 1 /\ Len(s) \in Nat BY <4>3, AppendProperties
        <4>5. PICK r : r = [got EXCEPT !.uses = t] OBVIOUS
        <4>6. r \in SearchRounds /\ r.sent = got.sent /\ r.text = got.text /\ r.uses = t
          BY <1>3, <4>5 DEF SearchRounds
        <4>7. Len(t) <= MaxCalls BY <3>1, <4>2, <4>4, RoundsAssumption
        <4>8. r = [got EXCEPT !.uses = Append(@, u)] BY <4>1, <4>2, <4>3, <4>5
        <4> QED BY <3>1, <3>3, <4>6, <4>7, <4>8
      <3> QED BY <3>2, <3>3
    <2>2. CASE RoundStop
      <3>1. PICK x \in {"refusal", "max_tokens"} : Heard([got EXCEPT !.stop = x], emitter) BY <2>2 DEF RoundStop
      <3>2. PICK r : r = [got EXCEPT !.stop = x] OBVIOUS
      <3>3. r \in SearchRounds /\ r.sent = got.sent /\ r.text = got.text /\ r.uses = got.uses
        BY <1>3, <3>2 DEF SearchRounds
      <3> QED BY <1>3, <3>1, <3>2, <3>3
    <2>3. CASE RoundMetering
      <3>1. Heard([got EXCEPT !.credits = 1], emitter) BY <2>3 DEF RoundMetering
      <3>2. PICK r : r = [got EXCEPT !.credits = 1] OBVIOUS
      <3>3. r \in SearchRounds /\ r.sent = got.sent /\ r.text = got.text /\ r.uses = got.uses
        BY <1>3, <3>2 DEF SearchRounds
      <3> QED BY <1>3, <3>1, <3>2, <3>3
    <2> QED BY <2>1, <2>2, <2>3
  <1>5. PICK r \in SearchRounds : r.sent = got.sent /\ r.text = got.text /\ Len(r.uses) <= MaxCalls /\ Heard(r, emitter)
    BY <1>4
  <1>6. HasSent(r) BY <1>3, <1>5 DEF HasSent
  <1> QED BY <1>1, <1>2, <1>5, <1>6, HeardKeeps

LEMMA AcceptedRound ==
    ASSUME SearchInv, NEW torn \in BOOLEAN
    PROVE  LET r == [Accepted(got) EXCEPT !.torn = torn]
           IN  r \in SearchRounds /\ Len(r.uses) <= MaxCalls /\ HasSent(r)
  <1>1. got \in SearchRounds /\ Len(got.uses) <= MaxCalls /\ HasSent(got) BY DEF SearchInv, SearchCore
  <1>2. PICK none \in Seq({"web", "no_query", "client"}) : none = << >> /\ Len(none) = 0 BY EmptySeq
  <1>3. PICK a : a = Accepted(got) OBVIOUS
  <1>4. a \in SearchRounds /\ a.sent = got.sent /\ a.text = got.text /\ a.uses \in {none, got.uses}
    <2>1. CASE got.stop = "refusal"
      <3>1. a = [got EXCEPT !.uses = none] BY <1>2, <1>3, <2>1 DEF Accepted
      <3> QED BY <1>1, <3>1 DEF SearchRounds
    <2>2. CASE got.stop # "refusal" BY <1>1, <1>3, <2>2 DEF Accepted
    <2> QED BY <2>1, <2>2
  <1>5. PICK r : r = [a EXCEPT !.torn = torn] OBVIOUS
  <1>6. r \in SearchRounds /\ r.sent = got.sent /\ r.text = got.text /\ r.uses = a.uses BY <1>4, <1>5 DEF SearchRounds
  <1>7. HasSent(r) BY <1>1, <1>6 DEF HasSent
  <1>8. Len(r.uses) <= MaxCalls BY <1>1, <1>2, <1>4, <1>6, RoundsAssumption
  <1> QED BY <1>3, <1>5, <1>6, <1>7, <1>8

LEMMA RoundEndsKeeps == ASSUME SearchInv, RoundEnds PROVE SearchInv'
  <1>1. at = "decode" /\ used' = Add(got.credits) /\ paid' = paid + got.credits BY DEF RoundEnds, Decoding
  <1>2. PICK torn \in BOOLEAN, empty \in BOOLEAN :
           IF empty /\ retries >= MaxRetries
           THEN SettleLoop("error", used') /\ Fails(CloseText(emitter))
           ELSE /\ IF empty THEN at' = "call" /\ retries' = retries + 1 /\ got' = got
                   ELSE at' = "search" /\ got' = [Accepted(got) EXCEPT !.torn = torn] /\ retries' = retries
                /\ emitter' = CloseText(emitter)
                /\ form' = form /\ round' = round /\ next' = next /\ requests' = requests
                /\ recorded' = recorded /\ reply' = reply
    BY DEF RoundEnds
  <1>3. Rests(CloseText(emitter))
    <2>1. Rests(emitter) BY <1>1 DEF SearchInv, SearchTold
    <2> QED BY <2>1, CloseTextRests
  <1>4. paid \in Nat /\ used.credits = paid /\ used.credits \in Nat /\ got.credits \in {0, 1} /\ recorded = << >>
        /\ retries \in Nat
    BY <1>1, SearchFacts
  <1>5. used' \in SearchUsed /\ used'.credits = used.credits + got.credits BY <1>1, <1>4, AddIs
  <1>6. used'.credits = paid' /\ used'.credits <= paid' /\ paid' <= used'.credits + 1 /\ paid' \in Nat /\ at # "done"
    BY <1>1, <1>4, <1>5
  <1>7. CASE empty /\ retries >= MaxRetries
    <2>1. SettleLoop("error", used') /\ Fails(CloseText(emitter)) BY <1>2, <1>7
    <2>2. PICK m : m = CloseText(emitter) OBVIOUS
    <2>3. Gone("error") /\ Quiet(emitter') BY <1>3, <2>1, <2>2, FailsAre
    <2> QED BY <1>5, <1>6, <2>1, <2>3, GoneKeeps
  <1>8. CASE ~(empty /\ retries >= MaxRetries)
    <2>1. /\ at' \in {"call", "search"} /\ emitter' = CloseText(emitter) /\ form' = form /\ round' = round
          /\ next' = next /\ requests' = requests /\ recorded' = recorded /\ reply' = reply
          /\ at' = "call" => retries' = retries + 1 /\ got' = got
      BY <1>2, <1>8
    <2>2. retries' \in 0 .. MaxRetries
      <3>1. CASE empty
        <4>1. retries' = retries + 1 /\ ~(retries >= MaxRetries) BY <1>2, <1>8, <3>1
        <4> QED BY <1>4, <4>1, RoundsAssumption
      <3>2. CASE ~empty
        <4>1. retries' = retries BY <1>2, <1>8, <3>2
        <4> QED BY <4>1 DEF SearchInv, SearchCore
      <3> QED BY <3>1, <3>2
    <2>3. got' \in SearchRounds /\ Len(got'.uses) <= MaxCalls /\ HasSent(got)'
      <3>1. CASE empty
        <4>1. got' = got BY <1>2, <1>8, <3>1
        <4> QED BY <4>1 DEF SearchInv, SearchCore, HasSent
      <3>2. CASE ~empty
        <4>1. got' = [Accepted(got) EXCEPT !.torn = torn] BY <1>2, <1>8, <3>2
        <4>2. PICK r : r = [Accepted(got) EXCEPT !.torn = torn] OBVIOUS
        <4>3. r \in SearchRounds /\ Len(r.uses) <= MaxCalls /\ HasSent(r) BY <4>2, AcceptedRound
        <4>4. HasSent(got') BY <4>1, <4>2, <4>3
        <4> QED BY <4>1, <4>2, <4>3, <4>4
      <3> QED BY <3>1, <3>2
    <2>4. SearchCore' BY <2>1, <2>2, <2>3 DEF SearchInv, SearchCore
    <2>5. retries + 1 # 0 BY <1>4
    <2>6. SearchAccounts' BY <1>5, <1>6, <2>1, <2>5 DEF SearchInv, SearchAccounts
    <2>7. SearchTold' BY <1>3, <2>1 DEF SearchTold
    <2> QED BY <2>4, <2>6, <2>7 DEF SearchInv
  <1> QED BY <1>7, <1>8

LEMMA SkipClientCallKeeps == ASSUME SearchInv, SkipClientCall PROVE SearchInv'
  <1>1. /\ at = "search" /\ next <= Len(got.uses) /\ next' = next + 1 /\ form' = form /\ at' = at /\ round' = round
        /\ retries' = retries /\ got' = got /\ requests' = requests /\ used' = used /\ recorded' = recorded
        /\ paid' = paid /\ emitter' = emitter /\ reply' = reply
    BY DEF SkipClientCall
  <1>2. next' \in 1 .. MaxCalls + 1 /\ HasSent(got')
    <2>1. next \in Nat /\ 1 <= next /\ Len(got.uses) \in Nat /\ Len(got.uses) <= MaxCalls /\ HasSent(got)
      BY RoundsAssumption, SearchFacts DEF SearchInv, SearchCore
    <2> QED BY <1>1, <2>1, RoundsAssumption
  <1>3. SearchCore' BY <1>1, <1>2 DEF SearchInv, SearchCore
  <1>4. SearchAccounts' BY <1>1, AccountsSame
  <1>5. SearchTold' BY <1>1 DEF SearchInv, SearchTold
  <1> QED BY <1>3, <1>4, <1>5 DEF SearchInv

LEMMA SearchBeginsKeeps == ASSUME SearchInv, SearchBegins PROVE SearchInv'
  <1>1. /\ at = "search" /\ next <= Len(got.uses) /\ form' = form /\ round' = round
        /\ retries' = retries /\ got' = got /\ used' = used /\ recorded' = recorded
        /\ paid' = paid /\ reply' = reply
        /\ \/ /\ at' = "mcp" /\ requests < MaxUses /\ requests' = requests + 1 /\ next' = next
              /\ emitter' = Present(BeginSearch(emitter))
           \/ /\ at' = at /\ requests' = requests /\ next' = next + 1
              /\ emitter' = Present(CompleteSearch(BeginSearch(emitter)))
    BY DEF SearchBegins
  <1>2. next \in Nat /\ 1 <= next /\ Len(got.uses) \in Nat /\ Len(got.uses) <= MaxCalls /\ HasSent(got)
        /\ requests \in 0 .. MaxUses
    BY RoundsAssumption, SearchFacts DEF SearchInv, SearchCore
  <1>3. next' \in 1 .. MaxCalls + 1 /\ HasSent(got') /\ requests' \in 0 .. MaxUses BY <1>1, <1>2, RoundsAssumption
  <1>4. SearchCore' BY <1>1, <1>3 DEF SearchInv, SearchCore
  <1>5. SearchAccounts' BY <1>1, AccountsSame
  <1>6. Rests(emitter) BY <1>1 DEF SearchInv, SearchTold
  <1>7. Seeks(BeginSearch(emitter)) BY <1>6, BeginSearchSeeks
  <1>8. Rests(CompleteSearch(BeginSearch(emitter)))
    <2>1. PICK m : m = BeginSearch(emitter) OBVIOUS
    <2>2. Seeks(m) BY <1>7, <2>1
    <2> QED BY <2>1, <2>2, CompleteSearchRests
  <1>9. SearchTold' BY <1>1, <1>6, <1>7, <1>8 DEF SearchTold, Present
  <1> QED BY <1>4, <1>5, <1>9 DEF SearchInv

LEMMA SearchEndsKeeps == ASSUME SearchInv, SearchEnds PROVE SearchInv'
  <1>1. /\ at = "mcp" /\ at' = "search" /\ emitter' = Present(CompleteSearch(emitter)) /\ next' = next + 1
        /\ form' = form /\ round' = round /\ retries' = retries /\ got' = got /\ requests' = requests
        /\ used' = used /\ recorded' = recorded /\ paid' = paid /\ reply' = reply
    BY DEF SearchEnds
  <1>2. next \in Nat /\ 1 <= next /\ next <= Len(got.uses) /\ Len(got.uses) \in Nat /\ Len(got.uses) <= MaxCalls
        /\ HasSent(got)
    BY <1>1, RoundsAssumption, SearchFacts DEF SearchInv, SearchCore
  <1>3. next' \in 1 .. MaxCalls + 1 /\ HasSent(got') BY <1>1, <1>2, RoundsAssumption
  <1>4. SearchCore' BY <1>1, <1>3 DEF SearchInv, SearchCore
  <1>5. SearchAccounts' BY <1>1, AccountsSame
  <1>6. Rests(emitter')
    <2>1. CASE form.stream
      <3>1. Seeks(emitter) BY <1>1, <2>1 DEF SearchInv, SearchTold
      <3>2. Rests(CompleteSearch(emitter)) BY <3>1, CompleteSearchRests
      <3> QED BY <1>1, <2>1, <3>2 DEF Present
    <2>2. CASE ~form.stream BY <1>1, <2>2 DEF SearchInv, SearchTold, Present
    <2> QED BY <2>1, <2>2
  <1>7. SearchTold' BY <1>1, <1>6 DEF SearchTold
  <1> QED BY <1>4, <1>5, <1>7 DEF SearchInv

LEMMA NextRoundKeeps == ASSUME SearchInv, NextRound PROVE SearchInv'
  <1>1. /\ at = "search" /\ at' = "call" /\ round < MaxRounds /\ round' = round + 1 /\ retries' = 0 /\ next' = 1
        /\ got' = NoRound /\ form' = [form EXCEPT !.result = TRUE] /\ requests' = requests
        /\ used' = used /\ recorded' = recorded /\ paid' = paid /\ emitter' = emitter /\ reply' = reply
    BY DEF NextRound, SearchOn
  <1>2. round' \in 0 .. MaxRounds /\ round' # 0
    <2>1. round \in Nat BY SearchFacts
    <2> QED BY <1>1, <2>1, RoundsAssumption
  <1>3. form' \in [stream : BOOLEAN, at_once : BOOLEAN, result : BOOLEAN] /\ (form'.at_once => form'.stream)
    BY <1>1 DEF SearchInv, SearchCore
  <1>4. SearchCore' BY <1>1, <1>2, <1>3, RoundBlank, RoundsAssumption DEF SearchInv, SearchCore
  <1>5. SearchAccounts' BY <1>1, <1>2, AccountsSame
  <1>6. SearchTold' BY <1>1 DEF SearchInv, SearchTold
  <1> QED BY <1>4, <1>5, <1>6 DEF SearchInv

LEMMA FlushKeeps == ASSUME SearchInv, Flush PROVE SearchInv'
  <1>1. /\ at = "search" /\ at' = "done" /\ SettleLoop("success", used)
        /\ reply' = [status |-> "success", content |-> FlushText \o ClientCalls, stop |-> FlushStop]
        /\ emitter' = Present(FinishMessage(emitter, Unsent, FlushStop))
        /\ form' = form /\ round' = round /\ retries' = retries /\ got' = got /\ next' = next
        /\ requests' = requests /\ used' = used /\ paid' = paid
    BY DEF Flush
  <1>2. got \in SearchRounds /\ HasSent(got) /\ HasSent(got') BY <1>1 DEF SearchInv, SearchCore
  <1>3. Unsent \in Seq(SearchContents) /\ FlushText \o ClientCalls \in Seq(SearchContents) /\ FlushStop \in SearchStops
    BY <1>2, FlushTyped
  <1>4. SearchCore' BY <1>1, <1>2 DEF SearchInv, SearchCore
  <1>5. reply' \in SearchReplies /\ reply'.status = "success" BY <1>1, <1>3 DEF SearchReplies
  <1>6. recorded = << >> BY <1>1 DEF SearchInv, SearchAccounts
  <1>7. /\ recorded' # << >> /\ Len(recorded') = 1 /\ recorded'[1].rounds = used.rounds
        /\ recorded'[1].credits = used.credits /\ recorded'[1].status = "success"
    BY <1>1, <1>6, OneRecord
  <1>8. SearchSettled' BY <1>1, <1>5, <1>7 DEF SearchSettled
  <1>9. SearchAccounts' BY <1>1, <1>5, <1>8, SearchFacts DEF SearchAccounts
  <1>10. Quiet(emitter')
    <2>1. Rests(emitter) BY <1>1 DEF SearchInv, SearchTold
    <2>2. PICK c \in Seq({"text", "client"}), r \in SearchStops : c = Unsent /\ r = FlushStop
      BY <1>3 DEF SearchContents
    <2>3. PICK h : h = FinishMessage(emitter, c, r) OBVIOUS
    <2>4. h \in Emitters /\ EmitterSound(h.log) /\ h.text = 0 /\ h.open = {} BY <2>1, <2>3, FinishSound
    <2>5. Quiet(h) BY <2>4 DEF Quiet
    <2>6. Quiet(emitter) BY <2>1, IsQuiet
    <2>7. emitter' = h \/ emitter' = emitter BY <1>1, <2>2, <2>3 DEF Present
    <2> QED BY <2>5, <2>6, <2>7
  <1>11. SearchTold' BY <1>1, <1>10 DEF SearchTold
  <1> QED BY <1>4, <1>9, <1>11 DEF SearchInv

LEMMA SearchInitially == SearchInit => SearchInv
  <1> SUFFICES ASSUME SearchInit PROVE SearchInv OBVIOUS
  <1>1. SearchCore BY RoundBlank, RoundsAssumption DEF SearchInit, SearchCore
  <1>2. reply \in SearchReplies
    <2>1. << >> \in Seq(SearchContents) BY EmptySeq
    <2> QED BY <2>1 DEF SearchInit, SearchReplies, SearchStops
  <1>3. SearchAccounts BY <1>2 DEF SearchInit, SearchAccounts, SearchUsed
  <1> DEFINE x == [e |-> "message_start"]
             m == [log |-> <<x>>, blocks |-> 0, open |-> {}, text |-> 0]
  <1>4. x \in SearchEvents /\ x.e = "message_start" BY DEF SearchEvents
  <1>5. emitter = m BY DEF SearchInit
  <1> HIDE DEF x
  <1>6. <<x>> \in Seq(SearchEvents) /\ <<x>> # << >> /\ Len(<<x>>) = 1 /\ <<x>>[1] = x BY <1>4
  <1>7. Running(<<x>>, 0, << >>, {}) BY <1>4, RunningBegins
  <1>8. Displayed(<<x>>)
    <2>1. At(<<x>>, "stop") = {} BY <1>4, <1>6 DEF At
    <2> QED BY <2>1 DEF Displayed, SearchesShown
  <1>9. PICK log \in Seq(SearchEvents) : log = <<x>> BY <1>6
  <1>10. emitter \in Emitters /\ emitter.log = log /\ emitter.blocks = 0 /\ emitter.open = {} /\ emitter.text = 0
    BY <1>5, <1>9 DEF Emitters
  <1> HIDE DEF m
  <1>11. Rests(emitter)
    <2>1. 0 \in 0 .. 0 OBVIOUS
    <2> QED BY <1>6, <1>7, <1>8, <1>9, <1>10, <2>1 DEF Rests
  <1>12. at = "call" BY DEF SearchInit
  <1>13. SearchTold BY <1>11, <1>12 DEF SearchTold
  <1> QED BY <1>1, <1>3, <1>13 DEF SearchInv

LEMMA SearchStep == SearchInv /\ [SearchNext]_searchVars => SearchInv'
  <1> SUFFICES ASSUME SearchInv, [SearchNext]_searchVars PROVE SearchInv' OBVIOUS
  <1>1. CASE SearchNext
    BY <1>1, CallKeeps, CallRefusedKeeps, CallFailsKeeps, RoundTextKeeps, RoundSaysKeeps, RoundBreaksKeeps,
       RoundEndsKeeps, SkipClientCallKeeps, SearchBeginsKeeps, SearchEndsKeeps, SearchFailsKeeps, NextRoundKeeps,
       FlushKeeps, FlushInvalidKeeps, SearchDropsKeep
    DEF SearchNext
  <1>2. CASE UNCHANGED searchVars
    BY <1>2 DEF searchVars, SearchInv, SearchCore, SearchAccounts, SearchSettled, SearchTold
  <1> QED BY <1>1, <1>2

LEMMA SearchSound == SearchInv => SearchTypeOK /\ SearchWellFormed /\ SearchSettledOnce
  <1> SUFFICES ASSUME SearchInv PROVE SearchTypeOK /\ SearchWellFormed /\ SearchSettledOnce OBVIOUS
  <1>1. Quiet(emitter)
    <2>1. CASE at = "done" BY <2>1 DEF SearchInv, SearchTold
    <2>2. CASE at # "done"
      <3>1. Rests(emitter) \/ Seeks(emitter) BY <2>2 DEF SearchInv, SearchTold, SearchCore
      <3> QED BY <3>1, IsQuiet
    <2> QED BY <2>1, <2>2
  <1>2. SearchTypeOK
    <2>1. got.uses \in BoundedSeq({"web", "no_query", "client"}, MaxCalls)
      <3> DEFINE W == {"web", "no_query", "client"}
      <3>1. PICK u \in Seq(W) : u = got.uses /\ Len(u) \in Nat BY SearchFacts
      <3>2. Len(u) \in 0 .. MaxCalls BY <3>1, RoundsAssumption DEF SearchInv, SearchCore
      <3>3. u \in [1 .. Len(u) -> W] OBVIOUS
      <3> HIDE DEF W
      <3>4. u \in UNION {[1 .. k -> W] : k \in 0 .. MaxCalls} BY <3>2, <3>3
      <3>5. u \in BoundedSeq(W, MaxCalls) BY <3>4 DEF BoundedSeq, SeqOf
      <3> QED BY <3>1, <3>5 DEF W
    <2> QED BY <1>1, <2>1 DEF SearchInv, SearchCore, SearchTypeOK, Quiet
  <1>3. SearchWellFormed
    <2>1. InProtocol(emitter.log) /\ SearchesShown(emitter.log) BY <1>1 DEF Quiet, EmitterSound
    <2>2. ASSUME NEW i \in Blocks("server_tool_use"), NEW k \in Of(emitter.log, "stop", emitter.log[i].i),
                 k < Len(emitter.log)
          PROVE  Shows(emitter.log[k + 1])
      <3>1. i \in At(emitter.log, "start") /\ emitter.log[i].what = "server_tool_use" BY <2>2 DEF Blocks
      <3>2. k \in At(emitter.log, "stop") /\ emitter.log[k].i = emitter.log[i].i BY <2>2 DEF Of
      <3>3. emitter.log[k].i \in Searches(emitter.log) BY <3>1, <3>2 DEF Searches
      <3> QED BY <2>1, <2>2, <3>2, <3>3 DEF SearchesShown
    <2> QED BY <2>1, <2>2 DEF SearchWellFormed
  <1>4. SearchSettledOnce
    <2>1. used.credits <= paid /\ paid <= used.credits + 1 BY DEF SearchInv, SearchAccounts
    <2>2. at # "done" => recorded = << >> BY DEF SearchInv, SearchAccounts
    <2>3. at = "done" => SearchSettled BY DEF SearchInv, SearchAccounts
    <2>4. Len(<< >>) <= 1 OBVIOUS
    <2>5. Len(recorded) <= 1
      <3>1. recorded = << >> \/ Len(recorded) = 1 BY <2>2, <2>3 DEF SearchSettled
      <3>2. recorded = << >> => Len(recorded) <= 1 BY <2>4
      <3>3. Len(recorded) = 1 => Len(recorded) <= 1 OBVIOUS
      <3> QED BY <3>1, <3>2, <3>3
    <2> QED BY <2>1, <2>2, <2>3, <2>5 DEF SearchSettledOnce, SearchSettled
  <1> QED BY <1>2, <1>3, <1>4

-----------------------------------------------------------------------------
(* Structured output: what is queued is a whole message.                    *)

StrictEnds(w) == InProtocol(w) /\ w # << >> /\ w[Len(w)].e \in {"message_stop", "error"}
StrictGood(w) == At(w, "message_delta") = {} => InProtocol(w)

(* The events of a message, behind its start, are one message. *)
LEMMA MessageEventsEnd ==
    ASSUME NEW C, NEW content \in Seq(C), NEW stop
    PROVE  \E S : /\ MessageEvents(content, stop) \in Seq(S) /\ Start \in S
                  /\ StrictEnds(<<Start>> \o MessageEvents(content, stop))
  <1> DEFINE ev(k, e) == [e |-> e, i |-> k, what |-> content[k].what, s |-> content[k].s]
             last == [e |-> "message_delta", stop |-> stop]
             stopped == [e |-> "message_stop"]
             n == Len(content)
             S == {ev(k, e) : k \in 1 .. n, e \in {"start", "delta", "stop"}} \cup {Start, last, stopped}
             K == [k \in 1 .. n |-> content[k].what]
             piece(k) == <<ev(k, "start"), ev(k, "delta"), ev(k, "stop")>>
             ss == [k \in DOMAIN content |-> piece(k)]
  <1>1. n \in Nat /\ DOMAIN content = 1 .. n OBVIOUS
  <1>2. ASSUME NEW k \in 1 .. n
        PROVE  /\ \A e \in {"start", "delta", "stop"} : ev(k, e) \in S /\ ev(k, e).e = e /\ ev(k, e).i = k
               /\ ev(k, "start").what = K[k]
    OBVIOUS
  <1>3. MessageEvents(content, stop) = FlattenSeq(ss) \o <<last, stopped>> BY DEF MessageEvents
  <1>4. Start \in S /\ last \in S /\ stopped \in S /\ Start.e = "message_start"
        /\ last.e = "message_delta" /\ stopped.e = "message_stop"
    BY DEF Start
  <1> HIDE DEF ev, K, S, last, stopped
  <1>5. ASSUME NEW k \in 1 .. n PROVE piece(k) \in Seq(S)
    <2>1. ev(k, "start") \in S /\ ev(k, "delta") \in S /\ ev(k, "stop") \in S BY <1>2
    <2> QED BY <2>1
  <1>6. ss \in Seq(Seq(S)) /\ Len(ss) = n /\ \A k \in 1 .. n : ss[k] = piece(k)
    <2>1. ss = [k \in 1 .. n |-> piece(k)] BY <1>1
    <2> HIDE DEF piece, n
    <2> QED BY <1>1, <1>5, <2>1
  <1> HIDE DEF ss, piece
  <1>m. PICK m \in Nat : m = n BY <1>1
  <1> HIDE DEF n
  <1>7. PICK f : Joined(f, ss, S) /\ FlattenSeq(ss) = f[m] BY <1>6, <1>m, FlattenJoins
  <1>8. f \in [0 .. m -> Seq(S)] /\ f[0] = << >> /\ \A k \in 1 .. m : f[k] = f[k - 1] \o piece(k)
    BY <1>6, <1>7, <1>m DEF Joined
  <1>9. PICK log \in Seq(S) : log = <<Start>> /\ Running(log, 0, K, {})
    <2>1. PICK x \in S : x = Start /\ x.e = "message_start" BY <1>4
    <2>2. <<x>> \in Seq(S) OBVIOUS
    <2>3. Running(<<x>>, 0, K, {}) BY <2>1, RunningBegins
    <2> QED BY <2>1, <2>2, <2>3
  <1> DEFINE T == {k \in 0 .. m : log \o f[k] \in Seq(S) /\ Running(log \o f[k], k, K, {})}
  <1>10. 0 \in T
    <2>1. log \o << >> = log BY <1>9, ConcatEmptySeq
    <2>2. log \o f[0] \in Seq(S) /\ Running(log \o f[0], 0, K, {}) /\ 0 \in 0 .. m
      BY <1>8, <1>9, <2>1
    <2> QED BY <2>2
  <1>11. ASSUME NEW j \in 0 .. m - 1, j \in T PROVE j + 1 \in T
    <2>1. PICK k \in 1 .. m : k = j + 1 /\ k - 1 = j OBVIOUS
    <2>2. PICK l \in Seq(S) : l = log \o f[j] /\ Running(l, j, K, {}) BY <1>11
    <2>3. f[k] = f[j] \o piece(k) /\ f[j] \in Seq(S) /\ piece(k) \in Seq(S)
      <3>1. f[k] = f[k - 1] \o piece(k) BY <1>8
      <3>2. f[j] \in Seq(S) BY <1>8
      <3>3. k \in 1 .. n BY <1>m
      <3> QED BY <1>5, <2>1, <3>1, <3>2, <3>3
    <2>4. log \o f[k] = l \o piece(k)
      <3>1. PICK g \in Seq(S), p \in Seq(S) : g = f[j] /\ p = piece(k) BY <2>3
      <3>2. (log \o g) \o p = log \o (g \o p) BY <1>9, ConcatAssociative
      <3> QED BY <2>2, <2>3, <3>1, <3>2
    <2>5. PICK x \in S, y \in S, z \in S :
             /\ x = ev(k, "start") /\ y = ev(k, "delta") /\ z = ev(k, "stop")
             /\ x.e = "start" /\ x.i = j + 1 /\ x.what = K[j + 1]
             /\ y.e = "delta" /\ y.i = j + 1 /\ z.e = "stop" /\ z.i = j + 1
      <3>1. k \in 1 .. n BY <1>m
      <3> QED BY <1>2, <2>1, <3>1
    <2>6. /\ Append(Append(Append(l, x), y), z) \in Seq(S)
          /\ Running(Append(Append(Append(l, x), y), z), j + 1, K, {})
      <3>1. j \in Nat OBVIOUS
      <3> QED BY <2>2, <2>5, <3>1, RunningBlock
    <2>7. l \o piece(k) = Append(Append(Append(l, x), y), z)
      <3>1. l \o <<x, y, z>> = Append(Append(Append(l, x), y), z) BY ConcatSome
      <3> QED BY <2>5, <3>1 DEF piece
    <2>8. log \o f[k] \in Seq(S) /\ Running(log \o f[k], k, K, {}) /\ k \in 0 .. m
      <3>1. PICK a : a = Append(Append(Append(l, x), y), z) /\ a \in Seq(S) /\ Running(a, j + 1, K, {}) BY <2>6
      <3>2. log \o f[k] = a BY <2>4, <2>7, <3>1
      <3>3. Running(a, k, K, {}) BY <2>1, <3>1
      <3>4. k \in 0 .. m OBVIOUS
      <3> QED BY <3>1, <3>2, <3>3, <3>4
    <2>9. k \in T BY <2>8
    <2> QED BY <2>1, <2>9
  <1> HIDE DEF T
  <1>12. \A k \in 0 .. m : k \in T
    <2>1. \A k \in 0 .. m - 1 : k \in T => k + 1 \in T BY <1>11
    <2> QED BY <1>10, <2>1, UpTo
  <1>13. log \o f[m] \in Seq(S) /\ Running(log \o f[m], m, K, {}) /\ f[m] \in Seq(S) BY <1>8, <1>12 DEF T
  <1>14. PICK g \in Seq(S), w \in Seq(S), x \in S, y \in S :
            /\ g = f[m] /\ w = log \o g /\ Running(w, m, K, {}) /\ x = last /\ y = stopped
            /\ x.e = "message_delta" /\ y.e = "message_stop"
    BY <1>4, <1>13
  <1>15. <<x, y>> \in Seq(S) OBVIOUS
  <1>16. log \o (g \o <<x, y>>) = Append(Append(w, x), y)
    <2>1. PICK p \in Seq(S) : p = <<x, y>> BY <1>15
    <2>2. (log \o g) \o p = log \o (g \o p) BY <1>9, ConcatAssociative
    <2>3. w \o <<x, y>> = Append(Append(w, x), y) BY ConcatSome
    <2> QED BY <1>14, <2>1, <2>2, <2>3
  <1>17. InProtocol(Append(Append(w, x), y)) BY <1>14, RunningEnds
  <1>18. PICK a \in Seq(S) : a = Append(w, x) BY AppendProperties
  <1>19. Append(a, y) # << >> /\ Append(a, y)[Len(Append(a, y))].e = "message_stop"
    <2>1. Len(Append(a, y)) = Len(a) + 1 /\ Append(a, y)[Len(a) + 1] = y /\ Append(a, y) # << >>
      BY AppendProperties
    <2> QED BY <1>14, <2>1
  <1>20. MessageEvents(content, stop) = g \o <<x, y>> BY <1>3, <1>7, <1>14
  <1>21. g \o <<x, y>> \in Seq(S)
    <2>1. PICK p \in Seq(S) : p = <<x, y>> BY <1>15
    <2>2. g \o p \in Seq(S) BY ConcatProperties
    <2> QED BY <2>1, <2>2
  <1>22. StrictEnds(<<Start>> \o MessageEvents(content, stop))
    BY <1>9, <1>16, <1>17, <1>18, <1>19, <1>20 DEF StrictEnds
  <1>23. MessageEvents(content, stop) \in Seq(S) /\ Start \in S BY <1>4, <1>20, <1>21
  <1> QED BY <1>22, <1>23

LEMMA FailureEnds ==
    \E S : <<Failure>> \in Seq(S) /\ Start \in S /\ StrictEnds(<<Start>> \o <<Failure>>)
  <1> DEFINE S == {Start, Failure}
  <1>1. PICK x \in S, y \in S : x = Start /\ y = Failure /\ x.e = "message_start" /\ y.e = "error"
    BY DEF Start, Failure
  <1>2. <<y>> \in Seq(S) /\ <<x>> \in Seq(S) OBVIOUS
  <1>3. <<x>> \o <<y>> = Append(<<x>>, y)
    <2>1. PICK l \in Seq(S) : l = <<x>> BY <1>2
    <2>2. l \o <<y>> = Append(l, y) BY ConcatSome
    <2> QED BY <2>1, <2>2
  <1>4. PICK l \in Seq(S) : l = <<x>> BY <1>2
  <1>5. Running(l, 0, << >>, {}) BY <1>1, <1>4, RunningBegins
  <1>6. InProtocol(Append(l, y)) BY <1>1, <1>5, RunningFails
  <1>7. Append(l, y) # << >> /\ Append(l, y)[Len(Append(l, y))].e = "error"
    <2>1. Len(Append(l, y)) = Len(l) + 1 /\ Append(l, y)[Len(l) + 1] = y /\ Append(l, y) # << >>
      BY AppendProperties
    <2> QED BY <1>1, <2>1
  <1>8. StrictEnds(<<x>> \o <<y>>) BY <1>3, <1>4, <1>6, <1>7 DEF StrictEnds
  <1> QED BY <1>1, <1>2, <1>8

(* A message that is whole keeps the protocol as far as it was sent. *)
LEMMA StrictSoFar ==
    ASSUME NEW S, NEW log \in Seq(S), NEW q \in Seq(S), log # << >>, StrictEnds(log \o q)
    PROVE  StrictGood(log)
  <1>1. CASE q = << >>
    <2>1. log \o << >> = log BY ConcatEmptySeq
    <2> QED BY <1>1, <2>1 DEF StrictEnds, StrictGood
  <1>2. CASE q # << >> BY <1>2, ProtocolPrefix DEF StrictEnds, StrictGood
  <1> QED BY <1>1, <1>2

(* Rewritten or not, an answer is a sequence of blocks. *)
LEMMA ReplacedBlocks ==
    ASSUME NEW C, NEW content \in Seq(C), NEW text
    PROVE  \E D : Replaced(content, text) \in Seq(D)
  <1> DEFINE new == [what |-> "text", s |-> text]
             D == C \cup {new}
             first == CHOOSE k \in TextsIn(content) : \A n \in TextsIn(content) : k <= n
             piece(k) == CASE k = first -> <<new>>
                           [] k \in TextsIn(content) \ {first} -> << >>
                           [] OTHER -> <<content[k]>>
             ss == [k \in DOMAIN content |-> piece(k)]
  <1>1. Replaced(content, text) = FlattenSeq(ss) BY DEF Replaced
  <1>2. new \in D /\ << >> \in Seq(D) BY EmptySeq
  <1> HIDE DEF new, first
  <1>3. ASSUME NEW k \in DOMAIN content PROVE piece(k) \in Seq(D)
    <2>1. content[k] \in D BY ElementOfSeq
    <2> HIDE DEF D
    <2>2. <<new>> \in Seq(D) /\ <<content[k]>> \in Seq(D) BY <1>2, <2>1
    <2>3. CASE k = first BY <2>2, <2>3
    <2>4. CASE k # first /\ k \in TextsIn(content) BY <1>2, <2>4
    <2>5. CASE k # first /\ k \notin TextsIn(content) BY <2>2, <2>5
    <2> QED BY <2>3, <2>4, <2>5
  <1>4. ss \in Seq(Seq(D)) 
    <2>1. DOMAIN content = 1 .. Len(content) /\ Len(content) \in Nat OBVIOUS
    <2> HIDE DEF piece, D
    <2> QED BY <1>3, <2>1
  <1> HIDE DEF ss, D
  <1>5. PICK f : Joined(f, ss, D) /\ FlattenSeq(ss) = f[Len(ss)] BY <1>4, FlattenJoins
  <1>6. Len(ss) \in 0 .. Len(ss) BY <1>4
  <1>7. f[Len(ss)] \in Seq(D) BY <1>5, <1>6 DEF Joined
  <1> QED BY <1>1, <1>5, <1>7

LEMMA MadeBlocks ==
    ASSUME NEW content \in Answers, NEW stop
    PROVE  \E D : Made(content, stop).content \in Seq(D)
  <1>1. PICK C : content \in Seq(C) BY AnswersAssumption
  <1>2. \E D : Fitted(content) \in Seq(D)
    <2> DEFINE text == TextOf(content)
               fits == {k \in DOMAIN text : text[k] \in Conforming}
               last == CHOOSE k \in fits : \A n \in fits : n <= k
    <2>1. Fitted(content) = content \/ Fitted(content) = Replaced(content, <<text[last]>>)
      BY DEF Fitted
    <2>2. \E D : Replaced(content, <<text[last]>>) \in Seq(D) BY <1>1, ReplacedBlocks
    <2> HIDE DEF text, fits, last
    <2> QED BY <1>1, <2>1, <2>2
  <1>3. PICK fit, B : fit \in Seq(B) /\ Made(content, stop).content = Presented(fit, stop)
    <2> DEFINE fit == IF stop = "end_turn" THEN Fitted(content) ELSE content
    <2>1. Made(content, stop).content = Presented(fit, stop) BY DEF Made
    <2>2. \E B : fit \in Seq(B) BY <1>1, <1>2
    <2> QED BY <2>1, <2>2
  <1>4. Presented(fit, stop) = fit \/ Presented(fit, stop) = Replaced(fit, <<Presentation>>) BY DEF Presented
  <1>5. \E D : Replaced(fit, <<Presentation>>) \in Seq(D) BY <1>3, ReplacedBlocks
  <1> QED BY <1>3, <1>4, <1>5

-----------------------------------------------------------------------------
(* The invariant. *)

StrictRecord(S, T) ==
    [stream : BOOLEAN, shown : BOOLEAN, at : {"work", "deliver", "done"}, begun : BOOLEAN,
     queue : Seq(S), log : Seq(S), http : {"none", "ok", "refused"}, content : T, stop : T, listens : BOOLEAN]

StrictTold(s) ==
    /\ s.begun => s.stream /\ s.http = "none"
    /\ s.at = "work" =>
          s.listens /\ s.queue = << >> /\ s.http = "none" /\ s.log = IF s.begun THEN <<Start>> ELSE << >>
    /\ s.at = "deliver" => s.listens /\ s.stream /\ s.http # "refused" /\ StrictEnds(s.log \o s.queue)
    /\ s.at = "done" /\ s.log # << >> => StrictGood(s.log) /\ (s.listens => StrictEnds(s.log))
    /\ s.http = "refused" => s.log = << >>

StrictIs(s) == (\E S, T : s \in StrictRecord(S, T)) /\ StrictTold(s)

StrictInv == StrictIs(strict)

LEMMA StrictInitially == StrictInit => StrictInv
  <1> SUFFICES ASSUME StrictInit PROVE StrictInv OBVIOUS
  <1>1. PICK stream \in BOOLEAN, thinks \in BOOLEAN :
           strict = [stream |-> stream, shown |-> thinks, at |-> "work", begun |-> FALSE,
                     queue |-> <<>>, log |-> <<>>, http |-> "none", content |-> <<>>,
                     stop |-> "none", listens |-> TRUE]
    BY DEF StrictInit
  <1> DEFINE T == {<< >>, "none"}
             S == {}
  <1>2. << >> \in Seq(S) BY EmptySeq
  <1> HIDE DEF S
  <1>3. strict \in StrictRecord(S, T) BY <1>1, <1>2 DEF StrictRecord
  <1>4. StrictTold(strict) BY <1>1 DEF StrictTold
  <1> QED BY <1>3, <1>4 DEF StrictInv, StrictIs

(* The work is over: s is told of events. *)
LEMMA TellsStrictIs ==
    ASSUME NEW S, NEW T, NEW s \in StrictRecord(S, T), StrictTold(s), s.at = "work",
           NEW events, NEW status \in {"ok", "refused"},
           \E R : events \in Seq(R) /\ Start \in R /\ StrictEnds(<<Start>> \o events)
    PROVE  StrictIs(TellsStrict(s, events, status))
  <1>1. PICK R : events \in Seq(R) /\ Start \in R /\ StrictEnds(<<Start>> \o events) OBVIOUS
  <1>2. s.log = << >> \/ s.log = <<Start>> BY DEF StrictTold
  <1>3. s.listens /\ s.queue = << >> /\ s.http = "none" BY DEF StrictTold
  <1>4. << >> \in Seq(R) /\ <<Start>> \in Seq(R) /\ <<Start>> \o events \in Seq(R)
    <2>1. PICK x \in R : x = Start BY <1>1
    <2>2. <<x>> \in Seq(R) OBVIOUS
    <2>3. PICK l \in Seq(R) : l = <<x>> BY <2>2
    <2>4. l \o events \in Seq(R) BY <1>1, ConcatProperties
    <2> QED BY <2>1, <2>3, <2>4, EmptySeq
  <1>5. s \in StrictRecord(R, T) BY <1>2, <1>3, <1>4 DEF StrictRecord
  <1>6. CASE s.begun
    <2>1. PICK t : t = [s EXCEPT !.at = "deliver", !.queue = events] OBVIOUS
    <2>2. t \in StrictRecord(R, T) BY <1>1, <1>5, <2>1 DEF StrictRecord
    <2>3. t.at = "deliver" /\ t.queue = events /\ t.log = s.log /\ t.listens = s.listens /\ t.http = s.http
          /\ t.begun = s.begun /\ t.stream = s.stream
      BY <1>5, <2>1 DEF StrictRecord
    <2>4. s.log = <<Start>> /\ s.stream BY <1>6 DEF StrictTold
    <2>5. StrictTold(t) BY <1>1, <1>3, <2>3, <2>4 DEF StrictTold
    <2> QED BY <1>6, <2>1, <2>2, <2>5 DEF TellsStrict, StrictIs
  <1>7. CASE ~s.begun /\ s.stream /\ status = "ok"
    <2>1. PICK t : t = [s EXCEPT !.at = "deliver", !.queue = <<Start>> \o events, !.http = status] OBVIOUS
    <2>2. t \in StrictRecord(R, T) BY <1>4, <1>5, <1>7, <2>1 DEF StrictRecord
    <2>3. t.at = "deliver" /\ t.queue = <<Start>> \o events /\ t.log = s.log /\ t.listens = s.listens
          /\ t.http = "ok" /\ t.begun = s.begun /\ t.stream = s.stream
      BY <1>5, <1>7, <2>1 DEF StrictRecord
    <2>4. s.log = << >> BY <1>7 DEF StrictTold
    <2>5. << >> \o (<<Start>> \o events) = <<Start>> \o events BY <1>4, ConcatEmptySeq
    <2>6. StrictTold(t) BY <1>1, <1>3, <1>7, <2>3, <2>4, <2>5 DEF StrictTold
    <2> QED BY <1>7, <2>1, <2>2, <2>6 DEF TellsStrict, StrictIs
  <1>8. CASE ~s.begun /\ ~(s.stream /\ status = "ok")
    <2>1. PICK t : t = [s EXCEPT !.at = "done", !.http = status] OBVIOUS
    <2>2. t \in StrictRecord(R, T) BY <1>5, <2>1 DEF StrictRecord
    <2>3. t.at = "done" /\ t.log = s.log /\ t.begun = s.begun BY <1>5, <2>1 DEF StrictRecord
    <2>4. s.log = << >> BY <1>8 DEF StrictTold
    <2>5. StrictTold(t) BY <1>8, <2>3, <2>4 DEF StrictTold
    <2> QED BY <1>8, <2>1, <2>2, <2>5 DEF TellsStrict, StrictIs
  <1> QED BY <1>6, <1>7, <1>8

LEMMA WorkFailsKeeps == ASSUME StrictInv, WorkFails PROVE StrictInv'
  <1>1. PICK S, T : strict \in StrictRecord(S, T) BY DEF StrictInv, StrictIs
  <1>2. StrictTold(strict) /\ strict.at = "work" /\ strict' = TellsStrict(strict, <<Failure>>, "refused")
    BY DEF StrictInv, StrictIs, WorkFails
  <1>3. StrictIs(TellsStrict(strict, <<Failure>>, "refused")) BY <1>1, <1>2, FailureEnds, TellsStrictIs
  <1> QED BY <1>2, <1>3 DEF StrictInv

LEMMA WorkDoneKeeps == ASSUME StrictInv, WorkDone PROVE StrictInv'
  <1>1. PICK S, T : strict \in StrictRecord(S, T) BY DEF StrictInv, StrictIs
  <1>2. StrictTold(strict) /\ strict.at = "work" BY DEF StrictInv, StrictIs, WorkDone
  <1>3. PICK content \in Answers, stop \in {"end_turn", "tool_use", "max_tokens"} :
           LET made == Made(content, stop)
               s == [strict EXCEPT !.content = made.content, !.stop = stop]
           IN  strict' = IF made.ok THEN TellsStrict(s, MessageEvents(made.content, stop), "ok")
                         ELSE TellsStrict(s, <<Failure>>, "refused")
    BY DEF WorkDone
  <1>4. PICK made, s : /\ made = Made(content, stop) /\ s = [strict EXCEPT !.content = made.content, !.stop = stop]
                       /\ strict' = IF made.ok THEN TellsStrict(s, MessageEvents(made.content, stop), "ok")
                                    ELSE TellsStrict(s, <<Failure>>, "refused")
    BY <1>3
  <1>5. PICK blocks, D : blocks = made.content /\ blocks \in Seq(D) BY <1>4, MadeBlocks
  <1> DEFINE U == T \cup {blocks, stop}
  <1>6. s = [strict EXCEPT !.content = blocks, !.stop = stop] BY <1>4, <1>5
  <1>7. strict \in StrictRecord(S, U) BY <1>1 DEF StrictRecord
  <1>8. blocks \in U /\ stop \in U OBVIOUS
  <1> HIDE DEF U
  <1>9. s \in StrictRecord(S, U) BY <1>6, <1>7, <1>8 DEF StrictRecord
  <1>10. s.at = strict.at /\ s.stream = strict.stream /\ s.begun = strict.begun /\ s.http = strict.http
         /\ s.listens = strict.listens /\ s.log = strict.log /\ s.queue = strict.queue
    BY <1>6, <1>7 DEF StrictRecord
  <1>11. StrictTold(s) /\ s.at = "work" BY <1>2, <1>10 DEF StrictTold
  <1>12. StrictIs(TellsStrict(s, MessageEvents(blocks, stop), "ok"))
    <2>1. \E R : /\ MessageEvents(blocks, stop) \in Seq(R) /\ Start \in R
                 /\ StrictEnds(<<Start>> \o MessageEvents(blocks, stop))
      BY <1>5, MessageEventsEnd
    <2> QED BY <1>9, <1>11, <2>1, TellsStrictIs
  <1>13. StrictIs(TellsStrict(s, <<Failure>>, "refused")) BY <1>9, <1>11, FailureEnds, TellsStrictIs
  <1>14. strict' = IF made.ok THEN TellsStrict(s, MessageEvents(blocks, stop), "ok")
                   ELSE TellsStrict(s, <<Failure>>, "refused")
    BY <1>4, <1>5
  <1> QED BY <1>12, <1>13, <1>14 DEF StrictInv

LEMMA GraceOverKeeps == ASSUME StrictInv, GraceOver PROVE StrictInv'
  <1>1. PICK S, T : strict \in StrictRecord(S, T) BY DEF StrictInv, StrictIs
  <1>2. /\ StrictTold(strict) /\ strict.at = "work" /\ strict.stream /\ ~strict.begun
        /\ strict' = [strict EXCEPT !.begun = TRUE, !.log = <<Start>>]
    BY DEF StrictInv, StrictIs, GraceOver
  <1> DEFINE R == S \cup {Start}
  <1>3. Start \in R /\ S \subseteq R OBVIOUS
  <1> HIDE DEF R
  <1>4. <<Start>> \in Seq(R)
    <2>1. PICK x \in R : x = Start BY <1>3
    <2>2. <<x>> \in Seq(R) OBVIOUS
    <2> QED BY <2>1, <2>2
  <1>5. << >> \in Seq(R) /\ strict.queue = << >> /\ strict.log = << >> BY <1>2, EmptySeq DEF StrictTold
  <1>6. strict \in StrictRecord(R, T) BY <1>1, <1>5 DEF StrictRecord
  <1>7. strict' \in StrictRecord(R, T) BY <1>2, <1>4, <1>6 DEF StrictRecord
  <1>8. strict'.at = strict.at /\ strict'.begun /\ strict'.stream /\ strict'.log = <<Start>>
        /\ strict'.queue = strict.queue /\ strict'.listens = strict.listens /\ strict'.http = strict.http
    BY <1>2, <1>6 DEF StrictRecord
  <1>9. StrictTold(strict') BY <1>2, <1>8 DEF StrictTold
  <1> QED BY <1>7, <1>9 DEF StrictInv, StrictIs

LEMMA StrictSendKeeps == ASSUME StrictInv, StrictSend PROVE StrictInv'
  <1>1. PICK S, T : strict \in StrictRecord(S, T) BY DEF StrictInv, StrictIs
  <1>2. /\ StrictTold(strict) /\ strict.at = "deliver"
        /\ strict' = IF strict.queue = <<>> THEN [strict EXCEPT !.at = "done"]
                     ELSE [strict EXCEPT !.log = Append(@, Head(strict.queue)), !.queue = Tail(@)]
    BY DEF StrictInv, StrictIs, StrictSend
  <1>3. strict.listens /\ strict.stream /\ strict.http # "refused" /\ StrictEnds(strict.log \o strict.queue)
        /\ strict.log \in Seq(S) /\ strict.queue \in Seq(S)
    BY <1>1, <1>2 DEF StrictTold, StrictRecord
  <1>4. CASE strict.queue = << >>
    <2>1. strict' = [strict EXCEPT !.at = "done"] BY <1>2, <1>4
    <2>2. strict' \in StrictRecord(S, T) BY <1>1, <2>1 DEF StrictRecord
    <2>3. strict'.at = "done" /\ strict'.log = strict.log /\ strict'.http = strict.http
          /\ strict'.begun = strict.begun /\ strict'.stream = strict.stream
      BY <1>1, <2>1 DEF StrictRecord
    <2>4. strict.log \o << >> = strict.log BY <1>3, ConcatEmptySeq
    <2>5. StrictEnds(strict.log) /\ StrictGood(strict.log) BY <1>3, <1>4, <2>4 DEF StrictEnds, StrictGood
    <2>6. StrictTold(strict') BY <1>2, <1>3, <2>3, <2>5 DEF StrictTold
    <2> QED BY <2>2, <2>6 DEF StrictInv, StrictIs
  <1>5. CASE strict.queue # << >>
    <2>1. PICK l \in Seq(S), q \in Seq(S) :
             l = Append(strict.log, Head(strict.queue)) /\ q = Tail(strict.queue)
             /\ l \o q = strict.log \o strict.queue
      <3>1. PICK was \in Seq(S), rest \in Seq(S) : was = strict.log /\ rest = strict.queue BY <1>3
      <3>5. rest # << >> BY <1>5, <3>1
      <3>2. /\ Append(was, Head(rest)) \o Tail(rest) = was \o rest
            /\ Append(was, Head(rest)) \in Seq(S) /\ Tail(rest) \in Seq(S)
        BY <3>5, HeadMoves
      <3>3. PICK l \in Seq(S), q \in Seq(S) : l = Append(was, Head(rest)) /\ q = Tail(rest) BY <3>2
      <3>4. l \o q = was \o rest BY <3>2, <3>3
      <3> QED BY <3>1, <3>3, <3>4
    <2>2. strict' = [strict EXCEPT !.log = l, !.queue = q] BY <1>2, <1>5, <2>1
    <2>3. strict' \in StrictRecord(S, T) BY <1>1, <2>2 DEF StrictRecord
    <2>4. strict'.at = "deliver" /\ strict'.log = l /\ strict'.queue = q /\ strict'.http = strict.http
          /\ strict'.begun = strict.begun /\ strict'.stream = strict.stream /\ strict'.listens = strict.listens
      BY <1>1, <1>2, <2>2 DEF StrictRecord
    <2>5. StrictTold(strict') BY <1>2, <1>3, <2>1, <2>4 DEF StrictTold
    <2> QED BY <2>3, <2>5 DEF StrictInv, StrictIs
  <1> QED BY <1>4, <1>5

LEMMA StartGood == StrictGood(<<Start>>)
  <1>1. PICK x \in {Start} : x = Start /\ x.e = "message_start" BY DEF Start
  <1>2. PICK S : S = {Start} OBVIOUS
  <1>3. PICK l \in Seq(S) : l = <<x>>
    <2>1. x \in S BY <1>2
    <2>2. <<x>> \in Seq(S) BY <2>1
    <2> QED BY <2>2
  <1>4. Running(l, 0, << >>, {}) BY <1>1, <1>2, <1>3, RunningBegins
  <1>5. InProtocol(l) BY <1>4, RunningInProtocol
  <1> QED BY <1>1, <1>3, <1>5 DEF StrictGood

(* Whatever was sent so far is in order. *)
LEMMA StrictLogGood ==
    ASSUME StrictInv, strict.log # << >>
    PROVE  StrictGood(strict.log)
  <1>1. PICK S, T : strict \in StrictRecord(S, T) BY DEF StrictInv, StrictIs
  <1>2. StrictTold(strict) BY DEF StrictInv, StrictIs
  <1>3. CASE strict.at = "work"
    <2>1. strict.log = <<Start>> BY <1>2, <1>3 DEF StrictTold
    <2> QED BY <2>1, StartGood
  <1>4. CASE strict.at = "deliver"
    <2>1. StrictEnds(strict.log \o strict.queue) BY <1>2, <1>4 DEF StrictTold
    <2>2. strict.log \in Seq(S) /\ strict.queue \in Seq(S) BY <1>1 DEF StrictRecord
    <2> QED BY <2>1, <2>2, StrictSoFar
  <1>5. CASE strict.at = "done" BY <1>2, <1>5 DEF StrictTold
  <1> QED BY <1>1, <1>3, <1>4, <1>5 DEF StrictRecord

LEMMA StrictLeftKeeps == ASSUME StrictInv, StrictLeft PROVE StrictInv'
  <1>1. PICK S, T : strict \in StrictRecord(S, T) BY DEF StrictInv, StrictIs
  <1>2. StrictTold(strict) /\ strict' = [strict EXCEPT !.listens = FALSE, !.at = "done"]
    BY DEF StrictInv, StrictIs, StrictLeft
  <1>3. strict' \in StrictRecord(S, T) BY <1>1, <1>2 DEF StrictRecord
  <1>4. strict'.at = "done" /\ ~strict'.listens /\ strict'.log = strict.log /\ strict'.http = strict.http
        /\ strict'.begun = strict.begun /\ strict'.stream = strict.stream
    BY <1>1, <1>2 DEF StrictRecord
  <1>5. strict.log # << >> => StrictGood(strict.log) BY StrictLogGood
  <1>6. StrictTold(strict') BY <1>2, <1>4, <1>5 DEF StrictTold
  <1> QED BY <1>3, <1>6 DEF StrictInv, StrictIs

LEMMA StrictStep == StrictInv /\ [StrictNext]_strict => StrictInv'
  <1> SUFFICES ASSUME StrictInv, [StrictNext]_strict PROVE StrictInv' OBVIOUS
  <1>1. CASE UNCHANGED strict BY <1>1 DEF StrictInv
  <1>2. CASE StrictNext
    BY <1>2, WorkDoneKeeps, WorkFailsKeeps, GraceOverKeeps, StrictSendKeeps, StrictLeftKeeps DEF StrictNext
  <1> QED BY <1>1, <1>2

LEMMA StrictSound == StrictInv => StrictTypeOK /\ StrictWellFormed
  <1> SUFFICES ASSUME StrictInv PROVE StrictTypeOK /\ StrictWellFormed OBVIOUS
  <1>1. PICK S, T : strict \in StrictRecord(S, T) BY DEF StrictInv, StrictIs
  <1>2. StrictTold(strict) BY DEF StrictInv, StrictIs
  <1>3. StrictTypeOK BY <1>1, <1>2 DEF StrictTypeOK, StrictRecord, StrictTold
  <1>4. strict.log # << >> /\ StrictEnded => StrictEnds(strict.log) BY <1>2 DEF StrictTold, StrictEnded
  <1>5. strict.log # << >> => StrictGood(strict.log) BY StrictLogGood
  <1>6. strict.log # << >> /\ (StrictEnded \/ At(strict.log, "message_delta") = {}) => InProtocol(strict.log)
    BY <1>4, <1>5 DEF StrictGood, StrictEnds
  <1>7. StrictEnded /\ strict.log # << >> => Last(strict.log).e \in {"message_stop", "error"}
    BY <1>4 DEF StrictEnds, Last
  <1>8. (strict.begun => strict.http = "none") /\ (strict.http = "refused" => strict.log = << >>)
    BY <1>2 DEF StrictTold
  <1> QED BY <1>3, <1>6, <1>7, <1>8 DEF StrictWellFormed

-----------------------------------------------------------------------------
(* The Responses interface: items, the blocks they come from, and what each *)
(* function of the stream context does to them.                             *)

(***************************************************************************)
(* The events of a response: which are about one item.                     *)
(***************************************************************************)
EventKinds ==
    {"created", "in_progress", "added", "part", "delta", "text_done", "part_done", "done",
     "completed", "incomplete", "failed"}
FinalKinds == {"completed", "incomplete", "failed"}
ItemEvents == [r : EventKinds, at : Nat, s : Seq(Nat)]

StandsIn(out, kind, place) == {j \in DOMAIN out : out[j].r = kind /\ out[j].at = place}
AboutIn(out, place) == {j \in DOMAIN out : out[j].at = place}
DonesIn(out) == {j \in DOMAIN out : out[j].r = "done"}
FinalsIn(out) == {j \in DOMAIN out : out[j].r \in FinalKinds}

(* The items below free were added, before all else of them, and those of   *)
(* fin are done, behind all else of them.                                   *)
ItemsOK(out, free, fin) ==
    /\ fin \subseteq 1 .. free - 1
    /\ \A j \in DOMAIN out : out[j].at \in 0 .. free - 1
    /\ \A place \in 1 .. free - 1 :
          \E j \in DOMAIN out : StandsIn(out, "added", place) = {j} /\ \A k \in AboutIn(out, place) : j <= k
    /\ \A place \in fin : \E j \in DOMAIN out : StandsIn(out, "done", place) = {j} /\ \A k \in AboutIn(out, place) : k <= j
    /\ \A place \in (1 .. free - 1) \ fin : StandsIn(out, "done", place) = {}

PlacesOK(out, free, fin, n, last) ==
    /\ out \in Seq(ItemEvents) /\ free \in Nat \ {0} /\ n \in Nat
    /\ ItemsOK(out, free, fin)
    /\ Cardinality(DonesIn(out)) = n /\ FinalsIn(out) = last

(* What one event adds. *)
LEMMA PlacesAppend ==
    ASSUME NEW out \in Seq(ItemEvents), NEW x \in ItemEvents
    PROVE  LET more == Append(out, x)
               m == Len(out) + 1
           IN  /\ more \in Seq(ItemEvents) /\ m \in Nat /\ Len(more) = m /\ more[m] = x
               /\ DOMAIN more = (DOMAIN out) \cup {m}
               /\ \A j \in DOMAIN out : more[j] = out[j] /\ j < m /\ j \in Nat
               /\ \A r, a : StandsIn(more, r, a) = IF x.r = r /\ x.at = a THEN StandsIn(out, r, a) \cup {m}
                                                   ELSE StandsIn(out, r, a)
               /\ \A a : AboutIn(more, a) = IF x.at = a THEN AboutIn(out, a) \cup {m} ELSE AboutIn(out, a)
               /\ DonesIn(more) = IF x.r = "done" THEN DonesIn(out) \cup {m} ELSE DonesIn(out)
               /\ FinalsIn(more) = IF x.r \in FinalKinds THEN FinalsIn(out) \cup {m} ELSE FinalsIn(out)
               /\ \A a : AboutIn(out, a) \subseteq DOMAIN out
               /\ \A r, a : StandsIn(out, r, a) \subseteq AboutIn(out, a)
  <1> DEFINE more == Append(out, x)
             m == Len(out) + 1
  <1>1. /\ more \in Seq(ItemEvents) /\ m \in Nat /\ Len(more) = m /\ more[m] = x
        /\ \A j \in 1 .. Len(out) : more[j] = out[j]
    BY AppendProperties
  <1>2. DOMAIN out = 1 .. Len(out) /\ Len(out) \in Nat OBVIOUS
  <1>3. DOMAIN more = 1 .. m /\ 1 .. m = (1 .. Len(out)) \cup {m} BY <1>1, <1>2
  <1>4. \A j \in 1 .. Len(out) : j < m /\ j # m /\ j \in Nat OBVIOUS
  <1>5. DOMAIN more = (DOMAIN out) \cup {m} /\ \A j \in DOMAIN out : more[j] = out[j] /\ j < m /\ j # m /\ j \in Nat
    BY <1>1, <1>2, <1>3, <1>4
  <1> HIDE DEF more, m
  <1>6. \A r, a : StandsIn(more, r, a) = IF x.r = r /\ x.at = a THEN StandsIn(out, r, a) \cup {m}
                                         ELSE StandsIn(out, r, a)
    BY <1>1, <1>5 DEF StandsIn
  <1>7. \A a : AboutIn(more, a) = IF x.at = a THEN AboutIn(out, a) \cup {m} ELSE AboutIn(out, a)
    BY <1>1, <1>5 DEF AboutIn
  <1>8. DonesIn(more) = IF x.r = "done" THEN DonesIn(out) \cup {m} ELSE DonesIn(out) BY <1>1, <1>5 DEF DonesIn
  <1>9. FinalsIn(more) = IF x.r \in FinalKinds THEN FinalsIn(out) \cup {m} ELSE FinalsIn(out)
    BY <1>1, <1>5 DEF FinalsIn
  <1>10. \A a : AboutIn(out, a) \subseteq DOMAIN out BY DEF AboutIn
  <1>11. \A r, a : StandsIn(out, r, a) \subseteq AboutIn(out, a) BY DEF StandsIn, AboutIn
  <1> QED BY <1>1, <1>5, <1>6, <1>7, <1>8, <1>9, <1>10, <1>11 DEF more, m

LEMMA DonesCounted ==
    ASSUME NEW out \in Seq(ItemEvents), NEW x \in ItemEvents
    PROVE  /\ Cardinality(DonesIn(out)) \in Nat
           /\ Cardinality(DonesIn(Append(out, x)))
                = IF x.r = "done" THEN Cardinality(DonesIn(out)) + 1 ELSE Cardinality(DonesIn(out))
  <1> DEFINE more == Append(out, x)
             m == Len(out) + 1
  <1>1. /\ DonesIn(more) = IF x.r = "done" THEN DonesIn(out) \cup {m} ELSE DonesIn(out)
        /\ \A j \in DOMAIN out : j < m /\ j \in Nat /\ m \in Nat
    BY PlacesAppend
  <1> HIDE DEF more, m
  <1>2. IsFiniteSet(DonesIn(out))
    <2>1. DonesIn(out) \subseteq 1 .. Len(out) /\ Len(out) \in Nat BY DEF DonesIn
    <2>2. IsFiniteSet(1 .. Len(out)) BY <2>1, FS_Interval
    <2> QED BY <2>1, <2>2, FS_Subset
  <1>3. m \notin DonesIn(out)
    <2>1. \A j \in DOMAIN out : j # m BY <1>1
    <2> QED BY <2>1 DEF DonesIn
  <1>4. Cardinality(DonesIn(out)) \in Nat BY <1>2, FS_CardinalityType
  <1>5. Cardinality(DonesIn(out) \cup {m}) = Cardinality(DonesIn(out)) + 1 BY <1>2, <1>3, FS_AddElement
  <1> QED BY <1>1, <1>4, <1>5 DEF more

(* An item is added. *)
LEMMA PlacesAdded ==
    ASSUME NEW out, NEW free, NEW fin, NEW n, PlacesOK(out, free, fin, n, {}),
           NEW x \in ItemEvents, x.r = "added", x.at = free
    PROVE  PlacesOK(Append(out, x), free + 1, fin, n, {})
  <1> DEFINE more == Append(out, x)
             m == Len(out) + 1
  <1>0. out \in Seq(ItemEvents) /\ free \in Nat \ {0} /\ n \in Nat /\ ItemsOK(out, free, fin) /\ FinalsIn(out) = {}
    BY DEF PlacesOK
  <1>1. /\ more \in Seq(ItemEvents) /\ m \in Nat /\ more[m] = x /\ DOMAIN more = (DOMAIN out) \cup {m}
        /\ \A j \in DOMAIN out : more[j] = out[j] /\ j < m /\ j \in Nat
        /\ \A r, a : StandsIn(more, r, a) = IF x.r = r /\ x.at = a THEN StandsIn(out, r, a) \cup {m}
                                            ELSE StandsIn(out, r, a)
        /\ \A a : AboutIn(more, a) = IF x.at = a THEN AboutIn(out, a) \cup {m} ELSE AboutIn(out, a)
        /\ \A a : AboutIn(out, a) \subseteq DOMAIN out
        /\ \A r, a : StandsIn(out, r, a) \subseteq AboutIn(out, a)
    BY <1>0, PlacesAppend
  <1>2. Cardinality(DonesIn(more)) = n BY <1>0, DonesCounted DEF PlacesOK
  <1>f. FinalsIn(more) = IF x.r \in FinalKinds THEN FinalsIn(out) \cup {m} ELSE FinalsIn(out) BY <1>0, PlacesAppend
  <1> HIDE DEF more, m
  <1>3. 1 .. (free + 1) - 1 = (1 .. free - 1) \cup {free} /\ free \notin 1 .. free - 1 /\ free \notin 0 .. free - 1
        /\ 0 .. free - 1 \subseteq 0 .. (free + 1) - 1 /\ free \in 0 .. (free + 1) - 1
    BY <1>0
  <1>4. AboutIn(out, free) = {}
    <2>1. \A j \in DOMAIN out : out[j].at \in 0 .. free - 1 BY <1>0 DEF ItemsOK
    <2> QED BY <1>3, <2>1 DEF AboutIn
  <1>5. ItemsOK(more, free + 1, fin)
    <2>1. fin \subseteq 1 .. (free + 1) - 1 BY <1>0, <1>3 DEF ItemsOK
    <2>2. \A j \in DOMAIN more : more[j].at \in 0 .. (free + 1) - 1 BY <1>0, <1>1, <1>3 DEF ItemsOK
    <2>3. ASSUME NEW place \in 1 .. (free + 1) - 1
          PROVE  \E j \in DOMAIN more : StandsIn(more, "added", place) = {j} /\ \A k \in AboutIn(more, place) : j <= k
      <3>1. CASE place = free
        <4>1. AboutIn(more, place) = {m} /\ StandsIn(more, "added", place) = {m} BY <1>1, <1>4, <3>1
        <4>2. m <= m BY <1>1
        <4> QED BY <1>1, <4>1, <4>2
      <3>2. CASE place # free
        <4>1. place \in 1 .. free - 1 BY <1>3, <3>2
        <4>2. PICK j \in DOMAIN out : StandsIn(out, "added", place) = {j} /\ \A k \in AboutIn(out, place) : j <= k
          BY <1>0, <4>1 DEF ItemsOK
        <4> QED BY <1>1, <3>2, <4>2
      <3> QED BY <3>1, <3>2
    <2>4. ASSUME NEW place \in fin
          PROVE  \E j \in DOMAIN more : StandsIn(more, "done", place) = {j} /\ \A k \in AboutIn(more, place) : k <= j
      <3>1. place # free BY <1>0, <1>3 DEF ItemsOK
      <3>2. PICK j \in DOMAIN out : StandsIn(out, "done", place) = {j} /\ \A k \in AboutIn(out, place) : k <= j
        BY <1>0 DEF ItemsOK
      <3> QED BY <1>1, <3>1, <3>2
    <2>5. ASSUME NEW place \in (1 .. (free + 1) - 1) \ fin PROVE StandsIn(more, "done", place) = {}
      <3>1. StandsIn(more, "done", place) = StandsIn(out, "done", place) BY <1>1
      <3>2. CASE place = free BY <1>1, <1>4, <3>1, <3>2
      <3>3. CASE place # free
        <4>1. place \in (1 .. free - 1) \ fin BY <1>3, <3>3
        <4> QED BY <1>0, <3>1, <4>1 DEF ItemsOK
      <3> QED BY <3>2, <3>3
    <2> QED BY <2>1, <2>2, <2>3, <2>4, <2>5 DEF ItemsOK
  <1>6. free + 1 \in Nat \ {0} BY <1>0
  <1>7. FinalsIn(more) = {} BY <1>0, <1>f DEF FinalKinds
  <1> QED BY <1>0, <1>1, <1>2, <1>5, <1>6, <1>7 DEF PlacesOK, more

(* Something is said of an item that is not done. *)
LEMMA PlacesTold ==
    ASSUME NEW out, NEW free, NEW fin, NEW n, PlacesOK(out, free, fin, n, {}),
           NEW x \in ItemEvents, x.r \notin {"added", "done"}, x.at \in (0 .. free - 1) \ fin
    PROVE  PlacesOK(Append(out, x), free, fin, n, IF x.r \in FinalKinds THEN {Len(out) + 1} ELSE {})
  <1> DEFINE more == Append(out, x)
             m == Len(out) + 1
  <1>0. out \in Seq(ItemEvents) /\ free \in Nat \ {0} /\ n \in Nat /\ ItemsOK(out, free, fin) /\ FinalsIn(out) = {}
    BY DEF PlacesOK
  <1>1. /\ more \in Seq(ItemEvents) /\ m \in Nat /\ more[m] = x /\ DOMAIN more = (DOMAIN out) \cup {m}
        /\ \A j \in DOMAIN out : more[j] = out[j] /\ j < m /\ j \in Nat
        /\ \A r, a : StandsIn(more, r, a) = IF x.r = r /\ x.at = a THEN StandsIn(out, r, a) \cup {m}
                                            ELSE StandsIn(out, r, a)
        /\ \A a : AboutIn(more, a) = IF x.at = a THEN AboutIn(out, a) \cup {m} ELSE AboutIn(out, a)
    BY <1>0, PlacesAppend
  <1>2. Cardinality(DonesIn(more)) = n BY <1>0, DonesCounted DEF PlacesOK
  <1>f. FinalsIn(more) = IF x.r \in FinalKinds THEN FinalsIn(out) \cup {m} ELSE FinalsIn(out) BY <1>0, PlacesAppend
  <1> HIDE DEF more, m
  <1>3. \A a : StandsIn(more, "added", a) = StandsIn(out, "added", a)
               /\ StandsIn(more, "done", a) = StandsIn(out, "done", a)
    BY <1>1
  <1>4. ItemsOK(more, free, fin)
    <2>1. fin \subseteq 1 .. free - 1 BY <1>0 DEF ItemsOK
    <2>2. \A j \in DOMAIN more : more[j].at \in 0 .. free - 1 BY <1>0, <1>1 DEF ItemsOK
    <2>3. ASSUME NEW place \in 1 .. free - 1
          PROVE  \E j \in DOMAIN more : StandsIn(more, "added", place) = {j} /\ \A k \in AboutIn(more, place) : j <= k
      <3>1. PICK j \in DOMAIN out : StandsIn(out, "added", place) = {j} /\ \A k \in AboutIn(out, place) : j <= k
        BY <1>0 DEF ItemsOK
      <3>2. j <= m BY <1>1
      <3> QED BY <1>1, <1>3, <3>1, <3>2
    <2>4. ASSUME NEW place \in fin
          PROVE  \E j \in DOMAIN more : StandsIn(more, "done", place) = {j} /\ \A k \in AboutIn(more, place) : k <= j
      <3>1. PICK j \in DOMAIN out : StandsIn(out, "done", place) = {j} /\ \A k \in AboutIn(out, place) : k <= j
        BY <1>0 DEF ItemsOK
      <3> QED BY <1>1, <1>3, <3>1
    <2>5. \A place \in (1 .. free - 1) \ fin : StandsIn(more, "done", place) = {} BY <1>0, <1>3 DEF ItemsOK
    <2> QED BY <2>1, <2>2, <2>3, <2>4, <2>5 DEF ItemsOK
  <1>5. FinalsIn(more) = IF x.r \in FinalKinds THEN {m} ELSE {} BY <1>0, <1>f
  <1>6. PlacesOK(more, free, fin, n, IF x.r \in FinalKinds THEN {m} ELSE {}) BY <1>0, <1>1, <1>2, <1>4, <1>5 DEF PlacesOK
  <1> QED BY <1>6 DEF more, m

(* An item is done. *)
LEMMA PlacesDone ==
    ASSUME NEW out, NEW free, NEW fin, NEW n, PlacesOK(out, free, fin, n, {}),
           NEW x \in ItemEvents, x.r = "done", x.at \in (1 .. free - 1) \ fin
    PROVE  PlacesOK(Append(out, x), free, fin \cup {x.at}, n + 1, {})
  <1> DEFINE more == Append(out, x)
             m == Len(out) + 1
  <1>0. out \in Seq(ItemEvents) /\ free \in Nat \ {0} /\ n \in Nat /\ ItemsOK(out, free, fin) /\ FinalsIn(out) = {}
    BY DEF PlacesOK
  <1>1. /\ more \in Seq(ItemEvents) /\ m \in Nat /\ more[m] = x /\ DOMAIN more = (DOMAIN out) \cup {m}
        /\ \A j \in DOMAIN out : more[j] = out[j] /\ j < m /\ j \in Nat
        /\ \A r, a : StandsIn(more, r, a) = IF x.r = r /\ x.at = a THEN StandsIn(out, r, a) \cup {m}
                                            ELSE StandsIn(out, r, a)
        /\ \A a : AboutIn(more, a) = IF x.at = a THEN AboutIn(out, a) \cup {m} ELSE AboutIn(out, a)
        /\ \A a : AboutIn(out, a) \subseteq DOMAIN out
    BY <1>0, PlacesAppend
  <1>2. Cardinality(DonesIn(more)) = n + 1 BY <1>0, DonesCounted DEF PlacesOK
  <1>f. FinalsIn(more) = IF x.r \in FinalKinds THEN FinalsIn(out) \cup {m} ELSE FinalsIn(out) BY <1>0, PlacesAppend
  <1> HIDE DEF more, m
  <1>3. \A a : StandsIn(more, "added", a) = StandsIn(out, "added", a) BY <1>1
  <1>4. \A a : a # x.at => StandsIn(more, "done", a) = StandsIn(out, "done", a) /\ AboutIn(more, a) = AboutIn(out, a)
    BY <1>1
  <1>5. ItemsOK(more, free, fin \cup {x.at})
    <2>1. fin \cup {x.at} \subseteq 1 .. free - 1 BY <1>0 DEF ItemsOK
    <2>2. \A j \in DOMAIN more : more[j].at \in 0 .. free - 1
      <3>1. x.at \in 0 .. free - 1 BY <1>0
      <3> QED BY <1>0, <1>1, <3>1 DEF ItemsOK
    <2>3. ASSUME NEW place \in 1 .. free - 1
          PROVE  \E j \in DOMAIN more : StandsIn(more, "added", place) = {j} /\ \A k \in AboutIn(more, place) : j <= k
      <3>1. PICK j \in DOMAIN out : StandsIn(out, "added", place) = {j} /\ \A k \in AboutIn(out, place) : j <= k
        BY <1>0 DEF ItemsOK
      <3>2. j <= m BY <1>1
      <3> QED BY <1>1, <1>3, <3>1, <3>2
    <2>4. ASSUME NEW place \in fin \cup {x.at}
          PROVE  \E j \in DOMAIN more : StandsIn(more, "done", place) = {j} /\ \A k \in AboutIn(more, place) : k <= j
      <3>1. CASE place = x.at
        <4>1. StandsIn(out, "done", place) = {} BY <1>0, <3>1 DEF ItemsOK
        <4>2. StandsIn(more, "done", place) = {m} BY <1>1, <3>1, <4>1
        <4>3. \A k \in AboutIn(more, place) : k <= m
          <5>1. \A k \in DOMAIN more : k <= m BY <1>1
          <5>2. AboutIn(more, place) \subseteq DOMAIN more BY DEF AboutIn
          <5> QED BY <5>1, <5>2
        <4> QED BY <1>1, <4>2, <4>3
      <3>2. CASE place # x.at
        <4>1. PICK j \in DOMAIN out : StandsIn(out, "done", place) = {j} /\ \A k \in AboutIn(out, place) : k <= j
          BY <1>0, <3>2 DEF ItemsOK
        <4> QED BY <1>1, <1>4, <3>2, <4>1
      <3> QED BY <3>1, <3>2
    <2>5. \A place \in (1 .. free - 1) \ (fin \cup {x.at}) : StandsIn(more, "done", place) = {} BY <1>0, <1>4 DEF ItemsOK
    <2> QED BY <2>1, <2>2, <2>3, <2>4, <2>5 DEF ItemsOK
  <1>6. FinalsIn(more) = {} BY <1>0, <1>f DEF FinalKinds
  <1> QED BY <1>0, <1>1, <1>2, <1>5, <1>6 DEF PlacesOK, more

DoneKinds == {<<"text_done", "part_done", "done">>, <<"text_done", "done">>, <<"delta", "text_done", "done">>, <<"done">>}

(* The last events of an item. *)
LEMMA PlacesFinished ==
    ASSUME NEW out, NEW free, NEW fin, NEW n, PlacesOK(out, free, fin, n, {}),
           NEW place \in (1 .. free - 1) \ fin, NEW s \in Seq(Nat), NEW kinds \in DoneKinds
    PROVE  PlacesOK(out \o [k \in DOMAIN kinds |-> [r |-> kinds[k], at |-> place, s |-> s]],
                    free, fin \cup {place}, n + 1, {})
  <1> DEFINE ev(r) == [r |-> r, at |-> place, s |-> s]
             said == [k \in DOMAIN kinds |-> ev(kinds[k])]
  <1>0. out \in Seq(ItemEvents) /\ free \in Nat \ {0} /\ place \in Nat /\ place \in (0 .. free - 1) \ fin BY DEF PlacesOK
  <1>1. PICK x \in ItemEvents, y \in ItemEvents, z \in ItemEvents, w \in ItemEvents :
           /\ x = ev("delta") /\ y = ev("text_done") /\ z = ev("part_done") /\ w = ev("done")
           /\ x.r = "delta" /\ y.r = "text_done" /\ z.r = "part_done" /\ w.r = "done"
           /\ x.at = place /\ y.at = place /\ z.at = place /\ w.at = place
    <2>1. ASSUME NEW r \in EventKinds PROVE ev(r) \in ItemEvents /\ ev(r).r = r /\ ev(r).at = place
      BY <1>0 DEF ItemEvents
    <2>2. {"delta", "text_done", "part_done", "done"} \subseteq EventKinds BY DEF EventKinds
    <2> HIDE DEF ev
    <2> QED BY <2>1, <2>2
  <1>2. ASSUME NEW o, PlacesOK(o, free, fin, n, {}), NEW e \in {x, y, z}
        PROVE  PlacesOK(Append(o, e), free, fin, n, {}) /\ Append(o, e) \in Seq(ItemEvents)
    <2>1. e \in ItemEvents /\ e.r \notin {"added", "done"} /\ e.r \notin FinalKinds /\ e.at \in (0 .. free - 1) \ fin
      BY <1>0, <1>1 DEF FinalKinds
    <2>2. PlacesOK(Append(o, e), free, fin, n, IF e.r \in FinalKinds THEN {Len(o) + 1} ELSE {})
      BY <1>2, <2>1, PlacesTold
    <2> QED BY <2>1, <2>2 DEF PlacesOK
  <1>3. ASSUME NEW o, PlacesOK(o, free, fin, n, {})
        PROVE  PlacesOK(Append(o, w), free, fin \cup {place}, n + 1, {})
    <2>1. PlacesOK(Append(o, w), free, fin \cup {w.at}, n + 1, {}) BY <1>1, <1>3, PlacesDone
    <2> QED BY <1>1, <2>1
  <1>c. \A o : PlacesOK(o, free, fin, n, {}) => \A e \in {x, y, z} :
            PlacesOK(Append(o, e), free, fin, n, {})
    BY <1>2
  <1>d. \A o : PlacesOK(o, free, fin, n, {}) => PlacesOK(Append(o, w), free, fin \cup {place}, n + 1, {}) BY <1>3
  <1> HIDE DEF ev
  <1>4. \/ said = <<w>> \/ said = <<y, w>> \/ said = <<y, z, w>> \/ said = <<x, y, w>>
    <2>1. CASE kinds = <<"done">> BY <1>1, <2>1
    <2>2. CASE kinds = <<"text_done", "done">> BY <1>1, <2>2
    <2>3. CASE kinds = <<"text_done", "part_done", "done">> BY <1>1, <2>3
    <2>4. CASE kinds = <<"delta", "text_done", "done">> BY <1>1, <2>4
    <2> QED BY <2>1, <2>2, <2>3, <2>4 DEF DoneKinds
  <1> HIDE DEF said
  <1>5. PlacesOK(out \o said, free, fin \cup {place}, n + 1, {})
    <2>1. CASE said = <<w>>
      <3>1. out \o <<w>> = Append(out, w) BY <1>0, ConcatSome
      <3> QED BY <1>d, <2>1, <3>1
    <2>2. CASE said = <<y, w>>
      <3>1. out \o <<y, w>> = Append(Append(out, y), w) BY <1>0, ConcatSome
      <3>2. PlacesOK(Append(out, y), free, fin, n, {}) BY <1>c
      <3> QED BY <1>d, <2>2, <3>1, <3>2
    <2>3. CASE said = <<y, z, w>>
      <3>1. out \o <<y, z, w>> = Append(Append(Append(out, y), z), w) BY <1>0, ConcatSome
      <3>2. PlacesOK(Append(out, y), free, fin, n, {}) BY <1>c
      <3>3. PlacesOK(Append(Append(out, y), z), free, fin, n, {}) BY <1>c, <3>2
      <3> QED BY <1>d, <2>3, <3>1, <3>3
    <2>4. CASE said = <<x, y, w>>
      <3>1. out \o <<x, y, w>> = Append(Append(Append(out, x), y), w) BY <1>0, ConcatSome
      <3>2. PlacesOK(Append(out, x), free, fin, n, {}) BY <1>c
      <3>3. PlacesOK(Append(Append(out, x), y), free, fin, n, {}) BY <1>c, <3>2
      <3> QED BY <1>d, <2>4, <3>1, <3>3
    <2> QED BY <1>4, <2>1, <2>2, <2>3, <2>4
  <1> QED BY <1>5 DEF said, ev

-----------------------------------------------------------------------------
(* The items that are done, in the order they were. *)
Resolutions == Tools \cup {NoTool} \cup {[flat |-> n, name |-> n, kind |-> "function"] : n \in CalledAs}
OutputItems == [at : Nat, what : {"message", "reasoning", "call", "search"}, s : Seq(Nat), tool : Resolutions]

PlacesOf(output) == {output[k].at : k \in DOMAIN output}
ItemsInOrder(output) == \A k \in DOMAIN output : output[k].at = k

Listed(out, free, output) ==
    output \in Seq(OutputItems) /\ PlacesOK(out, free, PlacesOf(output), Len(output), {})

LEMMA ListedFinished ==
    ASSUME NEW out, NEW free, NEW output, Listed(out, free, output), NEW item \in OutputItems,
           item.at \in (1 .. free - 1) \ PlacesOf(output), NEW kinds \in DoneKinds
    PROVE  /\ Listed(out \o [k \in DOMAIN kinds |-> [r |-> kinds[k], at |-> item.at, s |-> item.s]],
                     free, Append(output, item))
           /\ Append(output, item) \in Seq(OutputItems) /\ Len(Append(output, item)) = Len(output) + 1
           /\ PlacesOf(Append(output, item)) = PlacesOf(output) \cup {item.at}
           /\ ItemsInOrder(output) /\ item.at = Len(output) + 1 => ItemsInOrder(Append(output, item))
  <1> DEFINE more == Append(output, item)
             m == Len(output) + 1
  <1>1. output \in Seq(OutputItems) /\ PlacesOK(out, free, PlacesOf(output), Len(output), {}) BY DEF Listed
  <1>2. /\ more \in Seq(OutputItems) /\ Len(more) = m /\ more[m] = item /\ Len(output) \in Nat
        /\ \A j \in 1 .. Len(output) : more[j] = output[j]
    BY <1>1, AppendProperties
  <1>3. DOMAIN output = 1 .. Len(output) /\ DOMAIN more = 1 .. m /\ 1 .. m = (1 .. Len(output)) \cup {m}
    BY <1>1, <1>2
  <1>4. item.s \in Seq(Nat) BY DEF OutputItems
  <1> HIDE DEF more
  <1>5. PlacesOf(more) = PlacesOf(output) \cup {item.at} BY <1>2, <1>3 DEF PlacesOf
  <1>6. ItemsInOrder(output) /\ item.at = m => ItemsInOrder(more) BY <1>2, <1>3 DEF ItemsInOrder
  <1>7. PICK place, s, fin :
           place = item.at /\ s = item.s /\ fin = PlacesOf(output) /\ place \in (1 .. free - 1) \ fin /\ s \in Seq(Nat)
    BY <1>4
  <1>t. place \in (1 .. free - 1) \ fin /\ s \in Seq(Nat) BY <1>7
  <1>8. PlacesOK(out \o [k \in DOMAIN kinds |-> [r |-> kinds[k], at |-> place, s |-> s]],
                 free, fin \cup {place}, Len(output) + 1, {})
    <2>1. PlacesOK(out, free, fin, Len(output), {}) BY <1>1, <1>7
    <2>2. PICK n : n = Len(output) OBVIOUS
    <2>3. PlacesOK(out, free, fin, n, {}) BY <2>1, <2>2
    <2>4. PlacesOK(out \o [k \in DOMAIN kinds |-> [r |-> kinds[k], at |-> place, s |-> s]],
                   free, fin \cup {place}, n + 1, {})
      BY <1>t, <2>3, PlacesFinished
    <2> QED BY <2>2, <2>4
  <1>9. Listed(out \o [k \in DOMAIN kinds |-> [r |-> kinds[k], at |-> item.at, s |-> item.s]], free, more)
    BY <1>2, <1>5, <1>7, <1>8 DEF Listed
  <1> QED BY <1>2, <1>5, <1>6, <1>9 DEF more

LEMMA ListedAdded ==
    ASSUME NEW out, NEW free, NEW output, Listed(out, free, output),
           NEW x \in ItemEvents, x.r = "added", x.at = free
    PROVE  /\ Listed(Append(out, x), free + 1, output) /\ free \in Nat \ {0}
           /\ free \in (1 .. (free + 1) - 1) \ PlacesOf(output)
           /\ PlacesOf(output) \subseteq 1 .. free - 1
  <1>1. PlacesOK(out, free, PlacesOf(output), Len(output), {}) BY DEF Listed
  <1>2. PICK n, fin : n = Len(output) /\ fin = PlacesOf(output) OBVIOUS
  <1>3. PlacesOK(out, free, fin, n, {}) BY <1>1, <1>2
  <1>4. PlacesOK(Append(out, x), free + 1, fin, n, {}) BY <1>3, PlacesAdded
  <1>5. free \in Nat \ {0} /\ fin \subseteq 1 .. free - 1 BY <1>3 DEF PlacesOK, ItemsOK
  <1> QED BY <1>2, <1>4, <1>5 DEF Listed

LEMMA ListedTold ==
    ASSUME NEW out, NEW free, NEW output, Listed(out, free, output), NEW x \in ItemEvents,
           x.r \in {"part", "delta"}, x.at \in (1 .. free - 1) \ PlacesOf(output)
    PROVE  Listed(Append(out, x), free, output)
  <1>1. PlacesOK(out, free, PlacesOf(output), Len(output), {}) BY DEF Listed
  <1>2. PICK n, fin : n = Len(output) /\ fin = PlacesOf(output) OBVIOUS
  <1>3. PlacesOK(out, free, fin, n, {}) BY <1>1, <1>2
  <1>4. x.r \notin {"added", "done"} /\ x.r \notin FinalKinds /\ x.at \in (0 .. free - 1) \ fin
    <2>1. free \in Nat BY <1>3 DEF PlacesOK
    <2> QED BY <1>2, <2>1 DEF FinalKinds
  <1>5. PlacesOK(Append(out, x), free, fin, n, IF x.r \in FinalKinds THEN {Len(out) + 1} ELSE {})
    BY <1>3, <1>4, PlacesTold
  <1> QED BY <1>2, <1>4, <1>5 DEF Listed

-----------------------------------------------------------------------------
(* The blocks that are open and the indices they have: each its own, and    *)
(* none of an item that is done.                                            *)
LiveIn(D, ats) == {b \in D : ats[b] # 0}
UnplacedIn(D, ats) == {b \in D : ats[b] = 0}

PlacesHeld(D, ats, n, free, fin, len, a) ==
    /\ n \in Nat /\ D \subseteq 1 .. n /\ ats \in [D -> Nat] /\ free \in Nat \ {0} /\ len \in Nat /\ a \in Nat
    /\ \A b \in LiveIn(D, ats) : ats[b] \in (1 .. free - 1) \ fin
    /\ \A b, d \in LiveIn(D, ats) : ats[b] = ats[d] => b = d
    /\ len + Cardinality(LiveIn(D, ats)) = free - 1
    /\ free + Cardinality(UnplacedIn(D, ats)) <= 1 + n + a

LEMMA HeldCounts ==
    ASSUME NEW n \in Nat, NEW D \in SUBSET (1 .. n), NEW ats
    PROVE  /\ IsFiniteSet(LiveIn(D, ats)) /\ IsFiniteSet(UnplacedIn(D, ats))
           /\ Cardinality(LiveIn(D, ats)) \in Nat /\ Cardinality(UnplacedIn(D, ats)) \in Nat
  <1>1. IsFiniteSet(1 .. n) BY FS_Interval
  <1>2. LiveIn(D, ats) \subseteq 1 .. n /\ UnplacedIn(D, ats) \subseteq 1 .. n BY DEF LiveIn, UnplacedIn
  <1>3. IsFiniteSet(LiveIn(D, ats)) /\ IsFiniteSet(UnplacedIn(D, ats)) BY <1>1, <1>2, FS_Subset
  <1> QED BY <1>3, FS_CardinalityType

(* A block opens that has nothing to say yet. *)
LEMMA HeldOpens ==
    ASSUME NEW D, NEW ats, NEW n, NEW free, NEW fin, NEW len, NEW a, PlacesHeld(D, ats, n, free, fin, len, a),
           NEW more \in [D \cup {n + 1} -> Nat], \A b \in D : more[b] = ats[b], more[n + 1] = 0
    PROVE  PlacesHeld(D \cup {n + 1}, more, n + 1, free, fin, len, a)
  <1>0. n \in Nat /\ D \subseteq 1 .. n /\ free \in Nat \ {0} /\ len \in Nat /\ a \in Nat BY DEF PlacesHeld
  <1>1. n + 1 \notin D /\ D \cup {n + 1} \subseteq 1 .. n + 1 /\ n + 1 \in Nat BY <1>0
  <1>2. LiveIn(D \cup {n + 1}, more) = LiveIn(D, ats) BY <1>1 DEF LiveIn
  <1>3. UnplacedIn(D \cup {n + 1}, more) = UnplacedIn(D, ats) \cup {n + 1} /\ n + 1 \notin UnplacedIn(D, ats)
    BY <1>1 DEF UnplacedIn
  <1>4. IsFiniteSet(UnplacedIn(D, ats)) /\ Cardinality(UnplacedIn(D, ats)) \in Nat BY <1>0, HeldCounts
  <1>5. Cardinality(UnplacedIn(D \cup {n + 1}, more)) = Cardinality(UnplacedIn(D, ats)) + 1
    BY <1>3, <1>4, FS_AddElement
  <1>6. \A b \in LiveIn(D, ats) : more[b] = ats[b] BY DEF LiveIn
  <1>7. free + Cardinality(UnplacedIn(D \cup {n + 1}, more)) <= 1 + (n + 1) + a BY <1>0, <1>4, <1>5 DEF PlacesHeld
  <1> QED BY <1>0, <1>1, <1>2, <1>6, <1>7 DEF PlacesHeld

(* A block opens that has an index at once. *)
LEMMA HeldShown ==
    ASSUME NEW D, NEW ats, NEW n, NEW free, NEW fin, NEW len, NEW a, PlacesHeld(D, ats, n, free, fin, len, a),
           fin \subseteq 1 .. free - 1,
           NEW more \in [D \cup {n + 1} -> Nat], \A b \in D : more[b] = ats[b], more[n + 1] = free
    PROVE  PlacesHeld(D \cup {n + 1}, more, n + 1, free + 1, fin, len, a)
  <1>0. n \in Nat /\ D \subseteq 1 .. n /\ free \in Nat \ {0} /\ len \in Nat /\ a \in Nat BY DEF PlacesHeld
  <1>1. n + 1 \notin D /\ D \cup {n + 1} \subseteq 1 .. n + 1 /\ n + 1 \in Nat /\ free + 1 \in Nat \ {0} BY <1>0
  <1>2. LiveIn(D \cup {n + 1}, more) = LiveIn(D, ats) \cup {n + 1} /\ n + 1 \notin LiveIn(D, ats)
    BY <1>0, <1>1 DEF LiveIn
  <1>3. UnplacedIn(D \cup {n + 1}, more) = UnplacedIn(D, ats) BY <1>0, <1>1 DEF UnplacedIn
  <1>4. /\ IsFiniteSet(LiveIn(D, ats)) /\ Cardinality(LiveIn(D, ats)) \in Nat
        /\ Cardinality(UnplacedIn(D, ats)) \in Nat
    BY <1>0, HeldCounts
  <1>5. Cardinality(LiveIn(D \cup {n + 1}, more)) = Cardinality(LiveIn(D, ats)) + 1
    BY <1>2, <1>4, FS_AddElement
  <1>6. \A b \in LiveIn(D, ats) : more[b] = ats[b] /\ ats[b] \in (1 .. free - 1) \ fin BY DEF LiveIn, PlacesHeld
  <1>7. \A b \in LiveIn(D \cup {n + 1}, more) : more[b] \in (1 .. (free + 1) - 1) \ fin
    <2>1. free \in (1 .. (free + 1) - 1) \ fin /\ 1 .. free - 1 \subseteq 1 .. (free + 1) - 1 BY <1>0
    <2> QED BY <1>2, <1>6, <2>1
  <1>8. \A b, d \in LiveIn(D \cup {n + 1}, more) : more[b] = more[d] => b = d
    <2>1. free \notin 1 .. free - 1 BY <1>0
    <2>2. \A b, d \in LiveIn(D, ats) : ats[b] = ats[d] => b = d BY DEF PlacesHeld
    <2> QED BY <1>2, <1>6, <2>1, <2>2
  <1>9. len + Cardinality(LiveIn(D \cup {n + 1}, more)) = (free + 1) - 1 BY <1>0, <1>4, <1>5 DEF PlacesHeld
  <1>10. (free + 1) + Cardinality(UnplacedIn(D \cup {n + 1}, more)) <= 1 + (n + 1) + a BY <1>0, <1>3, <1>4 DEF PlacesHeld
  <1> QED BY <1>0, <1>1, <1>7, <1>8, <1>9, <1>10 DEF PlacesHeld

(* An open block gets an index. *)
LEMMA HeldPlaced ==
    ASSUME NEW D, NEW ats, NEW n, NEW free, NEW fin, NEW len, NEW a, PlacesHeld(D, ats, n, free, fin, len, a),
           fin \subseteq 1 .. free - 1, NEW i \in D, ats[i] = 0,
           NEW more \in [D -> Nat], \A b \in D \ {i} : more[b] = ats[b], more[i] = free
    PROVE  PlacesHeld(D, more, n, free + 1, fin, len, a)
  <1>0. n \in Nat /\ D \subseteq 1 .. n /\ free \in Nat \ {0} /\ len \in Nat /\ a \in Nat /\ free + 1 \in Nat \ {0}
    BY DEF PlacesHeld
  <1>2. LiveIn(D, more) = LiveIn(D, ats) \cup {i} /\ i \notin LiveIn(D, ats) BY <1>0 DEF LiveIn
  <1>3. UnplacedIn(D, more) = UnplacedIn(D, ats) \ {i} /\ i \in UnplacedIn(D, ats) BY <1>0 DEF UnplacedIn
  <1>4. /\ IsFiniteSet(LiveIn(D, ats)) /\ Cardinality(LiveIn(D, ats)) \in Nat
        /\ IsFiniteSet(UnplacedIn(D, ats)) /\ Cardinality(UnplacedIn(D, ats)) \in Nat
    BY <1>0, HeldCounts
  <1>5. Cardinality(LiveIn(D, more)) = Cardinality(LiveIn(D, ats)) + 1 BY <1>2, <1>4, FS_AddElement
  <1>6. Cardinality(UnplacedIn(D, more)) = Cardinality(UnplacedIn(D, ats)) - 1 BY <1>3, <1>4, FS_RemoveElement
  <1>7. \A b \in LiveIn(D, ats) : more[b] = ats[b] /\ ats[b] \in (1 .. free - 1) \ fin BY DEF LiveIn, PlacesHeld
  <1>8. \A b \in LiveIn(D, more) : more[b] \in (1 .. (free + 1) - 1) \ fin
    <2>1. free \in (1 .. (free + 1) - 1) \ fin /\ 1 .. free - 1 \subseteq 1 .. (free + 1) - 1 BY <1>0
    <2> QED BY <1>2, <1>7, <2>1
  <1>9. \A b, d \in LiveIn(D, more) : more[b] = more[d] => b = d
    <2>1. free \notin 1 .. free - 1 BY <1>0
    <2>2. \A b, d \in LiveIn(D, ats) : ats[b] = ats[d] => b = d BY DEF PlacesHeld
    <2> QED BY <1>2, <1>7, <2>1, <2>2
  <1>10. len + Cardinality(LiveIn(D, more)) = (free + 1) - 1 BY <1>0, <1>4, <1>5 DEF PlacesHeld
  <1>11. (free + 1) + Cardinality(UnplacedIn(D, more)) <= 1 + n + a BY <1>0, <1>4, <1>6 DEF PlacesHeld
  <1> QED BY <1>0, <1>8, <1>9, <1>10, <1>11 DEF PlacesHeld

(* An open block that has an index stops: its item is done. *)
DoneOf(D, ats, n, free, fin, len, a, i, less) ==
    /\ PlacesHeld(D \ {i}, less, n, free, fin \cup {ats[i]}, len + 1, a)
    /\ ats[i] \in (1 .. free - 1) \ fin
    /\ D \subseteq {i} => len + 1 = free - 1

LEMMA HeldDone ==
    ASSUME NEW D, NEW ats, NEW n, NEW free, NEW fin, NEW len, NEW a, PlacesHeld(D, ats, n, free, fin, len, a),
           NEW i \in D, ats[i] # 0, NEW less \in [D \ {i} -> Nat], \A b \in D \ {i} : less[b] = ats[b]
    PROVE  DoneOf(D, ats, n, free, fin, len, a, i, less)
  <1>0. n \in Nat /\ D \subseteq 1 .. n /\ free \in Nat \ {0} /\ len \in Nat /\ a \in Nat BY DEF PlacesHeld
  <1>2. LiveIn(D \ {i}, less) = LiveIn(D, ats) \ {i} /\ i \in LiveIn(D, ats) BY DEF LiveIn
  <1>3. UnplacedIn(D \ {i}, less) = UnplacedIn(D, ats) BY DEF UnplacedIn
  <1>4. /\ IsFiniteSet(LiveIn(D, ats)) /\ Cardinality(LiveIn(D, ats)) \in Nat BY <1>0, HeldCounts
  <1>5. Cardinality(LiveIn(D \ {i}, less)) = Cardinality(LiveIn(D, ats)) - 1 BY <1>2, <1>4, FS_RemoveElement
  <1>6. \A b \in LiveIn(D \ {i}, less) : b # i /\ b \in LiveIn(D, ats) /\ less[b] = ats[b] BY <1>2 DEF LiveIn
  <1>7. \A b, d \in LiveIn(D, ats) : ats[b] = ats[d] => b = d BY DEF PlacesHeld
  <1>8. \A b \in LiveIn(D, ats) : ats[b] \in (1 .. free - 1) \ fin BY DEF PlacesHeld
  <1>9. \A b \in LiveIn(D \ {i}, less) : less[b] \in (1 .. free - 1) \ (fin \cup {ats[i]})
    BY <1>2, <1>6, <1>7, <1>8
  <1>10. \A b, d \in LiveIn(D \ {i}, less) : less[b] = less[d] => b = d BY <1>6, <1>7
  <1>11. (len + 1) + Cardinality(LiveIn(D \ {i}, less)) = free - 1 BY <1>0, <1>4, <1>5 DEF PlacesHeld
  <1>12. free + Cardinality(UnplacedIn(D \ {i}, less)) <= 1 + n + a BY <1>3 DEF PlacesHeld
  <1>13. D \subseteq {i} => len + 1 = free - 1
    <2>1. SUFFICES ASSUME D \subseteq {i} PROVE len + 1 = free - 1 OBVIOUS
    <2>2. LiveIn(D, ats) \ {i} = {} BY <2>1 DEF LiveIn
    <2>3. Cardinality(LiveIn(D \ {i}, less)) = 0 BY <1>2, <2>2, FS_EmptySet
    <2> QED BY <1>0, <1>11, <2>3
  <1>14. D \ {i} \subseteq 1 .. n /\ len + 1 \in Nat /\ ats[i] \in (1 .. free - 1) \ fin BY <1>0, <1>2, <1>8
  <1>15. PlacesHeld(D \ {i}, less, n, free, fin \cup {ats[i]}, len + 1, a)
    BY <1>0, <1>9, <1>10, <1>11, <1>12, <1>14 DEF PlacesHeld
  <1> QED BY <1>13, <1>14, <1>15 DEF DoneOf

(* An open block that had nothing to say stops. *)
LEMMA HeldDropped ==
    ASSUME NEW D, NEW ats, NEW n, NEW free, NEW fin, NEW len, NEW a, PlacesHeld(D, ats, n, free, fin, len, a),
           NEW i \in D, ats[i] = 0, NEW less \in [D \ {i} -> Nat], \A b \in D \ {i} : less[b] = ats[b]
    PROVE  /\ PlacesHeld(D \ {i}, less, n, free, fin, len, a)
           /\ free + 1 + Cardinality(UnplacedIn(D \ {i}, less)) <= 1 + n + a
           /\ D \subseteq {i} => len = free - 1
  <1>0. n \in Nat /\ D \subseteq 1 .. n /\ free \in Nat \ {0} /\ len \in Nat /\ a \in Nat BY DEF PlacesHeld
  <1>2. UnplacedIn(D \ {i}, less) = UnplacedIn(D, ats) \ {i} /\ i \in UnplacedIn(D, ats) BY DEF UnplacedIn
  <1>3. LiveIn(D \ {i}, less) = LiveIn(D, ats) BY DEF LiveIn
  <1>4. /\ IsFiniteSet(UnplacedIn(D, ats)) /\ Cardinality(UnplacedIn(D, ats)) \in Nat BY <1>0, HeldCounts
  <1>5. Cardinality(UnplacedIn(D \ {i}, less)) = Cardinality(UnplacedIn(D, ats)) - 1 BY <1>2, <1>4, FS_RemoveElement
  <1>6. \A b \in LiveIn(D, ats) : less[b] = ats[b] BY <1>3 DEF LiveIn
  <1>7. free + 1 + Cardinality(UnplacedIn(D \ {i}, less)) <= 1 + n + a BY <1>0, <1>4, <1>5 DEF PlacesHeld
  <1>8. free + Cardinality(UnplacedIn(D \ {i}, less)) <= 1 + n + a BY <1>0, <1>4, <1>5 DEF PlacesHeld
  <1>9. D \subseteq {i} => len = free - 1
    <2>1. SUFFICES ASSUME D \subseteq {i} PROVE len = free - 1 OBVIOUS
    <2>2. LiveIn(D, ats) = {} BY <2>1 DEF LiveIn
    <2>3. Cardinality(LiveIn(D, ats)) = 0 BY <2>2, FS_EmptySet
    <2> QED BY <1>0, <2>3 DEF PlacesHeld
  <1> QED BY <1>0, <1>3, <1>6, <1>7, <1>8, <1>9 DEF PlacesHeld

(* An index is given to an item that is done at once; there must be room. *)
LEMMA HeldAtOnce ==
    ASSUME NEW D, NEW ats, NEW n, NEW free, NEW fin, NEW len, NEW a, NEW c \in Nat, PlacesHeld(D, ats, n, free, fin, len, a),
           free + 1 + Cardinality(UnplacedIn(D, ats)) <= 1 + n + c
    PROVE  /\ PlacesHeld(D, ats, n, free + 1, fin \cup {free}, len + 1, c)
           /\ D = {} => len = free - 1
  <1>0. n \in Nat /\ D \subseteq 1 .. n /\ free \in Nat \ {0} /\ len \in Nat /\ a \in Nat /\ free + 1 \in Nat \ {0}
    BY DEF PlacesHeld
  <1>1. Cardinality(LiveIn(D, ats)) \in Nat BY <1>0, HeldCounts
  <1>2. \A b \in LiveIn(D, ats) : ats[b] \in (1 .. (free + 1) - 1) \ (fin \cup {free})
    <2>1. \A b \in LiveIn(D, ats) : ats[b] \in (1 .. free - 1) \ fin BY DEF PlacesHeld
    <2>2. 1 .. free - 1 \subseteq 1 .. (free + 1) - 1 /\ free \notin 1 .. free - 1 BY <1>0
    <2> QED BY <2>1, <2>2
  <1>3. (len + 1) + Cardinality(LiveIn(D, ats)) = (free + 1) - 1 BY <1>0, <1>1 DEF PlacesHeld
  <1>4. D = {} => len = free - 1
    <2>1. SUFFICES ASSUME D = {} PROVE len = free - 1 OBVIOUS
    <2>2. LiveIn(D, ats) = {} BY <2>1 DEF LiveIn
    <2>3. Cardinality(LiveIn(D, ats)) = 0 BY <2>2, FS_EmptySet
    <2> QED BY <1>0, <2>3 DEF PlacesHeld
  <1>5. (free + 1) + Cardinality(UnplacedIn(D, ats)) <= 1 + n + c OBVIOUS
  <1>6. \A b, d \in LiveIn(D, ats) : ats[b] = ats[d] => b = d BY DEF PlacesHeld
  <1>7. ats \in [D -> Nat] BY DEF PlacesHeld
  <1> QED BY <1>0, <1>2, <1>3, <1>4, <1>5, <1>6, <1>7 DEF PlacesHeld

-----------------------------------------------------------------------------
(* What the functions of the stream context return. *)
EndReasons == {"none", "end_turn", "max_tokens", "refusal"}
ItemBlocks ==
    {b \in [what : Kinds, at : Nat, s : Seq(Nat), name : Seq(CalledAs)] :
        /\ b.what \in {"tool", "other"} => b.at = 0
        /\ b.what = "server_tool_use" => b.at # 0
        /\ b.what = "tool" => b.name # << >>}

RespRecord(D) ==
    [out : Seq(ItemEvents), blocks : [D -> ItemBlocks], next : Nat, output : Seq(OutputItems),
     reason : EndReasons, over : BOOLEAN]

Ats(blocks) == [b \in DOMAIN blocks |-> blocks[b].at]

(* d is c, and x was sent. *)
EventSent(c, d, x) ==
    /\ d.out = Append(c.out, x) /\ d.blocks = c.blocks /\ d.next = c.next /\ d.output = c.output
    /\ d.reason = c.reason /\ d.over = c.over

SentFrom(D, c, kind, place, s) ==
    \E d \in RespRecord(D), x \in ItemEvents :
        d = Sends(c, kind, place, s) /\ x.r = kind /\ x.at = place /\ EventSent(c, d, x)

LEMMA SendsIs ==
    ASSUME NEW D, NEW c \in RespRecord(D), NEW kind \in EventKinds, NEW place \in Nat, NEW s \in Seq(Nat)
    PROVE  SentFrom(D, c, kind, place, s)
  <1>1. PICK x \in ItemEvents : x = [r |-> kind, at |-> place, s |-> s] /\ x.r = kind /\ x.at = place
    <2>1. [r |-> kind, at |-> place, s |-> s] \in ItemEvents BY DEF ItemEvents
    <2> QED BY <2>1
  <1>2. c.out \in Seq(ItemEvents) BY DEF RespRecord
  <1>3. PICK o \in Seq(ItemEvents) : o = Append(c.out, x) BY <1>2, AppendProperties
  <1>4. PICK d : d = [c EXCEPT !.out = o] OBVIOUS
  <1>5. d = Sends(c, kind, place, s) BY <1>1, <1>3, <1>4 DEF Sends
  <1>6. d \in RespRecord(D) BY <1>4 DEF RespRecord
  <1>7. /\ d.out = o /\ d.blocks = c.blocks /\ d.next = c.next /\ d.output = c.output /\ d.reason = c.reason
        /\ d.over = c.over
    BY <1>4 DEF RespRecord
  <1> QED BY <1>1, <1>3, <1>5, <1>6, <1>7 DEF EventSent, SentFrom

LEMMA AllocateIs ==
    ASSUME NEW D, NEW c \in RespRecord(D)
    PROVE  \E d \in RespRecord(D) :
              /\ d = Allocate(c) /\ d.next = c.next + 1 /\ d.out = c.out /\ d.blocks = c.blocks
              /\ d.output = c.output /\ d.reason = c.reason /\ d.over = c.over
  <1>1. PICK d : d = [c EXCEPT !.next = c.next + 1] OBVIOUS
  <1>2. d \in RespRecord(D) BY <1>1 DEF RespRecord
  <1>3. /\ d.next = c.next + 1 /\ d.out = c.out /\ d.blocks = c.blocks
        /\ d.output = c.output /\ d.reason = c.reason /\ d.over = c.over
    BY <1>1 DEF RespRecord
  <1> QED BY <1>1, <1>2, <1>3 DEF Allocate

FinishedFrom(D, c, item, kinds) ==
    \E d \in RespRecord(D) :
        /\ d = Finishes(c, item, kinds) /\ Listed(d.out, d.next, d.output)
        /\ Len(d.output) = Len(c.output) + 1 /\ PlacesOf(d.output) = PlacesOf(c.output) \cup {item.at}
        /\ ItemsInOrder(c.output) /\ item.at = Len(c.output) + 1 => ItemsInOrder(d.output)
        /\ d.next = c.next /\ d.blocks = c.blocks /\ d.reason = c.reason /\ d.over = c.over

LEMMA FinishesIs ==
    ASSUME NEW D, NEW c \in RespRecord(D), Listed(c.out, c.next, c.output), NEW item \in OutputItems,
           item.at \in (1 .. c.next - 1) \ PlacesOf(c.output), NEW kinds \in DoneKinds
    PROVE  FinishedFrom(D, c, item, kinds)
  <1> DEFINE said == [k \in DOMAIN kinds |-> [r |-> kinds[k], at |-> item.at, s |-> item.s]]
  <1>1. PICK out, free, output : out = c.out /\ free = c.next /\ output = c.output OBVIOUS
  <1>2. Listed(out, free, output) /\ item.at \in (1 .. free - 1) \ PlacesOf(output) BY <1>1
  <1>3. /\ Listed(out \o said, free, Append(output, item))
        /\ Append(output, item) \in Seq(OutputItems) /\ Len(Append(output, item)) = Len(output) + 1
        /\ PlacesOf(Append(output, item)) = PlacesOf(output) \cup {item.at}
        /\ ItemsInOrder(output) /\ item.at = Len(output) + 1 => ItemsInOrder(Append(output, item))
    BY <1>2, ListedFinished
  <1>4. out \o said \in Seq(ItemEvents) BY <1>3 DEF Listed, PlacesOK
  <1>5. Finishes(c, item, kinds) = [c EXCEPT !.output = Append(c.output, item), !.out = c.out \o said]
    BY DEF Finishes
  <1> HIDE DEF said
  <1>6. PICK d : d = [c EXCEPT !.output = Append(output, item), !.out = out \o said] OBVIOUS
  <1>7. d \in RespRecord(D) BY <1>3, <1>4, <1>6 DEF RespRecord
  <1>8. /\ d.out = out \o said /\ d.output = Append(output, item) /\ d.next = c.next /\ d.blocks = c.blocks
        /\ d.reason = c.reason /\ d.over = c.over
    BY <1>6 DEF RespRecord
  <1>9. d = Finishes(c, item, kinds) BY <1>1, <1>5, <1>6
  <1> QED BY <1>1, <1>3, <1>7, <1>8, <1>9 DEF FinishedFrom

(* An item that is whole when it is added. *)
LEMMA AtOnceIs ==
    ASSUME NEW D, NEW c \in RespRecord(D), Listed(c.out, c.next, c.output), NEW item \in OutputItems,
           item.at = c.next, NEW kinds \in DoneKinds
    PROVE  \E d \in RespRecord(D) :
              /\ d = Finishes(Allocate(Sends(c, "added", c.next, << >>)), item, kinds)
              /\ Listed(d.out, d.next, d.output)
              /\ Len(d.output) = Len(c.output) + 1 /\ PlacesOf(d.output) = PlacesOf(c.output) \cup {c.next}
              /\ ItemsInOrder(c.output) /\ c.next = Len(c.output) + 1 => ItemsInOrder(d.output)
              /\ d.next = c.next + 1 /\ d.blocks = c.blocks /\ d.reason = c.reason /\ d.over = c.over
  <1>1. c.next \in Nat /\ << >> \in Seq(Nat) /\ "added" \in EventKinds BY EmptySeq DEF RespRecord, EventKinds
  <1>2. PICK e \in RespRecord(D), x \in ItemEvents :
           /\ e = Sends(c, "added", c.next, << >>) /\ x.r = "added" /\ x.at = c.next /\ e.out = Append(c.out, x)
           /\ e.blocks = c.blocks /\ e.next = c.next /\ e.output = c.output /\ e.reason = c.reason
           /\ e.over = c.over
    <2>1. PICK k \in EventKinds, place \in Nat, s \in Seq(Nat) : k = "added" /\ place = c.next /\ s = << >> BY <1>1
    <2>2. SentFrom(D, c, k, place, s) BY SendsIs
    <2> QED BY <2>1, <2>2 DEF EventSent, SentFrom
  <1>3. PICK f \in RespRecord(D) :
           /\ f = Allocate(e) /\ f.next = e.next + 1 /\ f.out = e.out /\ f.blocks = e.blocks
           /\ f.output = e.output /\ f.reason = e.reason /\ f.over = e.over
    BY AllocateIs
  <1>4. PICK out, free, output : out = c.out /\ free = c.next /\ output = c.output OBVIOUS
  <1>5. /\ Listed(Append(out, x), free + 1, output)
        /\ free \in (1 .. (free + 1) - 1) \ PlacesOf(output)
    <2>1. Listed(out, free, output) /\ x.r = "added" /\ x.at = free BY <1>2, <1>4
    <2> QED BY <2>1, ListedAdded
  <1>6. Listed(f.out, f.next, f.output) /\ item.at \in (1 .. f.next - 1) \ PlacesOf(f.output)
    BY <1>2, <1>3, <1>4, <1>5
  <1>7. PICK d \in RespRecord(D) :
           /\ d = Finishes(f, item, kinds) /\ Listed(d.out, d.next, d.output)
           /\ Len(d.output) = Len(f.output) + 1 /\ PlacesOf(d.output) = PlacesOf(f.output) \cup {item.at}
           /\ ItemsInOrder(f.output) /\ item.at = Len(f.output) + 1 => ItemsInOrder(d.output)
           /\ d.next = f.next /\ d.blocks = f.blocks /\ d.reason = f.reason /\ d.over = f.over
    BY <1>6, FinishesIs DEF FinishedFrom
  <1>8. d = Finishes(Allocate(Sends(c, "added", c.next, << >>)), item, kinds) BY <1>2, <1>3, <1>7
  <1>9. f.output = c.output /\ f.blocks = c.blocks /\ f.reason = c.reason /\ f.over = c.over /\ f.next = c.next + 1
    BY <1>2, <1>3
  <1> QED BY <1>7, <1>8, <1>9

-----------------------------------------------------------------------------
(* The response while it goes on: n blocks were started, those of D are     *)
(* open, and a counts the thinking that came aside.                         *)
RespIs(c, D, n, a) ==
    /\ c \in RespRecord(D) /\ ~c.over /\ Listed(c.out, c.next, c.output)
    /\ PlacesHeld(D, Ats(c.blocks), n, c.next, PlacesOf(c.output), Len(c.output), a)

LEMMA AsideIs ==
    ASSUME NEW c, NEW D, NEW n, RespIs(c, D, n, 0), NEW ev, ev.aside \in Nat
    PROVE  \E d : /\ d = Aside(c, ev) /\ RespIs(d, D, n, IF ev.aside = 0 THEN 0 ELSE 1) /\ d.blocks = c.blocks
                  /\ ItemsInOrder(c.output) /\ D = {} => ItemsInOrder(d.output)
  <1>1. CASE ev.aside = 0
    <2>1. Aside(c, ev) = c BY <1>1 DEF Aside
    <2> QED BY <1>1, <2>1
  <1>2. CASE ev.aside # 0
    <2> DEFINE item == Item(c.next, "reasoning", <<ev.aside>>, NoTool)
               kinds == <<"delta", "text_done", "done">>
    <2>1. Aside(c, ev) = Finishes(Allocate(Sends(c, "added", c.next, << >>)), item, kinds) BY <1>2 DEF Aside
    <2>2. c \in RespRecord(D) /\ ~c.over /\ Listed(c.out, c.next, c.output)
          /\ PlacesHeld(D, Ats(c.blocks), n, c.next, PlacesOf(c.output), Len(c.output), 0)
      BY DEF RespIs
    <2>3. item \in OutputItems /\ item.at = c.next
      <3>1. PICK m \in Nat : m = ev.aside OBVIOUS
      <3>2. <<m>> \in Seq(Nat) OBVIOUS
      <3>3. NoTool \in Resolutions /\ c.next \in Nat BY <2>2 DEF Resolutions, RespRecord
      <3> QED BY <3>1, <3>2, <3>3 DEF Item, OutputItems
    <2>4. kinds \in DoneKinds BY DEF DoneKinds
    <2> HIDE DEF item, kinds
    <2>5. PICK d \in RespRecord(D) :
             /\ d = Finishes(Allocate(Sends(c, "added", c.next, << >>)), item, kinds)
             /\ Listed(d.out, d.next, d.output)
             /\ Len(d.output) = Len(c.output) + 1 /\ PlacesOf(d.output) = PlacesOf(c.output) \cup {c.next}
             /\ ItemsInOrder(c.output) /\ c.next = Len(c.output) + 1 => ItemsInOrder(d.output)
             /\ d.next = c.next + 1 /\ d.blocks = c.blocks /\ d.reason = c.reason /\ d.over = c.over
      BY <2>2, <2>3, <2>4, AtOnceIs
    <2>6. PICK ats, free, fin, len : ats = Ats(c.blocks) /\ free = c.next /\ fin = PlacesOf(c.output) /\ len = Len(c.output)
      OBVIOUS
    <2>7. PlacesHeld(D, ats, n, free, fin, len, 0) BY <2>2, <2>6
    <2>8. free + 1 + Cardinality(UnplacedIn(D, ats)) <= 1 + n + 1
      <3>1. n \in Nat /\ D \in SUBSET (1 .. n) /\ free \in Nat BY <2>7 DEF PlacesHeld
      <3>2. Cardinality(UnplacedIn(D, ats)) \in Nat BY <3>1, HeldCounts
      <3>3. free + Cardinality(UnplacedIn(D, ats)) <= 1 + n + 0 BY <2>7 DEF PlacesHeld
      <3> QED BY <3>1, <3>2, <3>3
    <2>9. PlacesHeld(D, ats, n, free + 1, fin \cup {free}, len + 1, 1) /\ (D = {} => len = free - 1)
      BY <2>7, <2>8, HeldAtOnce
    <2>10. RespIs(d, D, n, 1) BY <2>2, <2>5, <2>6, <2>9 DEF RespIs
    <2>11. free \in Nat BY <2>7 DEF PlacesHeld
    <2>12. D = {} => c.next = Len(c.output) + 1 BY <2>6, <2>9, <2>11
    <2> QED BY <1>2, <2>1, <2>5, <2>10, <2>12
  <1> QED BY <1>1, <1>2

Kin(c, d) == d.out = c.out /\ d.output = c.output /\ d.reason = c.reason /\ d.over = c.over

OpeningBlock(c, i, b) == [c EXCEPT !.blocks = [j \in {i} \cup DOMAIN c.blocks |-> IF j = i THEN b ELSE c.blocks[j]]]
BlockOpened(c, d, D, i, b) == d.next = c.next /\ Kin(c, d) /\ d.blocks[i] = b /\ \A j \in D : d.blocks[j] = c.blocks[j]

LEMMA AtsIs ==
    ASSUME NEW D, NEW c \in RespRecord(D)
    PROVE  Ats(c.blocks) \in [D -> Nat] /\ \A j \in D : Ats(c.blocks)[j] = c.blocks[j].at
  <1>1. c.blocks \in [D -> ItemBlocks] BY DEF RespRecord
  <1>2. \A b \in ItemBlocks : b.at \in Nat BY DEF ItemBlocks
  <1>3. DOMAIN c.blocks = D /\ \A j \in D : c.blocks[j] \in ItemBlocks BY <1>1
  <1> QED BY <1>2, <1>3 DEF Ats

LEMMA OpenedIs ==
    ASSUME NEW D, NEW c \in RespRecord(D), NEW i, i \notin D, NEW b \in ItemBlocks
    PROVE  \E d \in RespRecord(D \cup {i}) : d = OpeningBlock(c, i, b) /\ BlockOpened(c, d, D, i, b)
  <1>1. c.blocks \in [D -> ItemBlocks] BY DEF RespRecord
  <1>2. PICK f : f = [j \in {i} \cup DOMAIN c.blocks |-> IF j = i THEN b ELSE c.blocks[j]] OBVIOUS
  <1>3. DOMAIN c.blocks = D /\ {i} \cup D = D \cup {i} BY <1>1
  <1>4. f \in [D \cup {i} -> ItemBlocks] /\ f[i] = b /\ \A j \in D : f[j] = c.blocks[j] BY <1>1, <1>2, <1>3
  <1>5. PICK d : d = [c EXCEPT !.blocks = f] OBVIOUS
  <1>6. d \in RespRecord(D \cup {i}) BY <1>4, <1>5 DEF RespRecord
  <1>7. d.blocks = f /\ d.next = c.next /\ Kin(c, d) BY <1>5 DEF RespRecord, Kin
  <1> QED BY <1>2, <1>4, <1>5, <1>6, <1>7 DEF OpeningBlock, BlockOpened

(* A block opens. *)
LEMMA ItemStartsIs ==
    ASSUME NEW c, NEW D, NEW n, NEW a, RespIs(c, D, n, a),
           NEW ev, ev.i = n + 1, ev.what \in Kinds, ev.s \in Seq(CalledAs), ev.what = "tool" => ev.s # << >>
    PROVE  \E d : d = ItemStarts(c, ev) /\ RespIs(d, D \cup {n + 1}, n + 1, a) /\ d.output = c.output
  <1>1. c \in RespRecord(D) /\ ~c.over /\ Listed(c.out, c.next, c.output)
        /\ PlacesHeld(D, Ats(c.blocks), n, c.next, PlacesOf(c.output), Len(c.output), a)
    BY DEF RespIs
  <1>2. n \in Nat /\ D \subseteq 1 .. n /\ c.next \in Nat \ {0} BY <1>1 DEF PlacesHeld
  <1>3. n + 1 \notin D /\ << >> \in Seq(Nat) BY <1>2, EmptySeq
  <1>4. c.blocks \in [D -> ItemBlocks] BY <1>1 DEF RespRecord
  <1>5. CASE ev.what # "server_tool_use"
    <2> DEFINE b == [what |-> ev.what, at |-> 0, s |-> << >>, name |-> ev.s]
    <2>1. ItemStarts(c, ev) = OpeningBlock(c, ev.i, b) BY <1>5 DEF ItemStarts, OpeningBlock
    <2>2. b \in ItemBlocks /\ b.at = 0 BY <1>3, <1>5 DEF ItemBlocks
    <2> HIDE DEF b
    <2>3. PICK i, new : i = n + 1 /\ i \notin D /\ new = b /\ new \in ItemBlocks BY <1>3, <2>2
    <2>t. i \notin D /\ new \in ItemBlocks BY <2>3
    <2>4. PICK d \in RespRecord(D \cup {i}) : d = OpeningBlock(c, i, new) /\ BlockOpened(c, d, D, i, new) BY <1>1, <2>t, OpenedIs
    <2>5. Ats(d.blocks) \in [D \cup {n + 1} -> Nat] /\ Ats(d.blocks)[n + 1] = 0
          /\ \A j \in D : Ats(d.blocks)[j] = Ats(c.blocks)[j]
      <3>1. Ats(d.blocks) \in [D \cup {i} -> Nat] /\ \A j \in D \cup {i} : Ats(d.blocks)[j] = d.blocks[j].at BY AtsIs
      <3>2. \A j \in D : Ats(c.blocks)[j] = c.blocks[j].at BY <1>1, AtsIs
      <3> QED BY <2>2, <2>3, <2>4, <3>1, <3>2 DEF BlockOpened
    <2>6. PICK ats, more, free, fin, len :
             ats = Ats(c.blocks) /\ more = Ats(d.blocks) /\ free = c.next /\ fin = PlacesOf(c.output) /\ len = Len(c.output)
      OBVIOUS
    <2>7. PlacesHeld(D \cup {n + 1}, more, n + 1, free, fin, len, a)
      <3>1. /\ PlacesHeld(D, ats, n, free, fin, len, a) /\ more \in [D \cup {n + 1} -> Nat] /\ more[n + 1] = 0
            /\ \A j \in D : more[j] = ats[j]
        BY <1>1, <2>5, <2>6
      <3> QED BY <3>1, HeldOpens
    <2>8. RespIs(d, D \cup {n + 1}, n + 1, a) BY <1>1, <2>3, <2>4, <2>6, <2>7 DEF RespIs, Kin, BlockOpened
    <2>9. d = ItemStarts(c, ev) BY <2>1, <2>3, <2>4
    <2> QED BY <2>4, <2>8, <2>9 DEF Kin, BlockOpened
  <1>6. CASE ev.what = "server_tool_use"
    <2> DEFINE b == [what |-> ev.what, at |-> c.next, s |-> << >>, name |-> ev.s]
    <2>1. PICK e \in RespRecord(D) :
             /\ e = Allocate(c) /\ e.next = c.next + 1 /\ e.out = c.out /\ e.blocks = c.blocks
             /\ e.output = c.output /\ e.reason = c.reason /\ e.over = c.over
      BY <1>1, AllocateIs
    <2>2. ItemStarts(c, ev) = Sends(OpeningBlock(e, ev.i, b), "added", c.next, << >>)
      BY <1>6, <2>1 DEF ItemStarts, OpeningBlock
    <2>3. b \in ItemBlocks /\ b.at = c.next BY <1>2, <1>3, <1>6 DEF ItemBlocks
    <2> HIDE DEF b
    <2>4. PICK i, new : i = n + 1 /\ i \notin D /\ new = b /\ new \in ItemBlocks BY <1>3, <2>3
    <2>t. i \notin D /\ new \in ItemBlocks BY <2>4
    <2>5. PICK f \in RespRecord(D \cup {i}) : f = OpeningBlock(e, i, new) /\ BlockOpened(e, f, D, i, new) BY <2>t, OpenedIs
    <2>6. PICK k \in EventKinds, place \in Nat, s \in Seq(Nat) : k = "added" /\ place = c.next /\ s = << >>
      BY <1>2, <1>3 DEF EventKinds
    <2>7. PICK d \in RespRecord(D \cup {i}), x \in ItemEvents :
             d = Sends(f, k, place, s) /\ x.r = k /\ x.at = place /\ EventSent(f, d, x)
      <3>1. SentFrom(D \cup {i}, f, k, place, s) BY SendsIs
      <3> QED BY <3>1 DEF SentFrom
    <2>8. d = ItemStarts(c, ev) BY <2>2, <2>4, <2>5, <2>6, <2>7
    <2>9. /\ d.out = Append(c.out, x) /\ d.next = c.next + 1 /\ d.output = c.output /\ d.over = c.over
          /\ d.blocks[n + 1] = b /\ \A j \in D : d.blocks[j] = c.blocks[j]
      BY <2>1, <2>4, <2>5, <2>7 DEF Kin, EventSent, BlockOpened
    <2>10. Ats(d.blocks) \in [D \cup {n + 1} -> Nat] /\ Ats(d.blocks)[n + 1] = c.next
           /\ \A j \in D : Ats(d.blocks)[j] = Ats(c.blocks)[j]
      <3>1. Ats(d.blocks) \in [D \cup {i} -> Nat] /\ \A j \in D \cup {i} : Ats(d.blocks)[j] = d.blocks[j].at BY AtsIs
      <3>2. \A j \in D : Ats(c.blocks)[j] = c.blocks[j].at BY <1>1, AtsIs
      <3> QED BY <2>3, <2>4, <2>9, <3>1, <3>2
    <2>11. PICK ats, more, free, fin, len, out, output :
             /\ ats = Ats(c.blocks) /\ more = Ats(d.blocks) /\ free = c.next /\ fin = PlacesOf(c.output) /\ len = Len(c.output)
             /\ out = c.out /\ output = c.output
      OBVIOUS
    <2>12. Listed(Append(out, x), free + 1, output) /\ fin \subseteq 1 .. free - 1
      <3>1. Listed(out, free, output) /\ x.r = "added" /\ x.at = free BY <1>1, <2>6, <2>7, <2>11
      <3>2. Listed(Append(out, x), free + 1, output) /\ PlacesOf(output) \subseteq 1 .. free - 1 BY <3>1, ListedAdded
      <3> QED BY <2>11, <3>2
    <2>13. PlacesHeld(D \cup {n + 1}, more, n + 1, free + 1, fin, len, a)
      <3>1. /\ PlacesHeld(D, ats, n, free, fin, len, a) /\ more \in [D \cup {n + 1} -> Nat] /\ more[n + 1] = free
            /\ \A j \in D : more[j] = ats[j]
        BY <1>1, <2>10, <2>11
      <3> QED BY <2>12, <3>1, HeldShown
    <2>14. RespIs(d, D \cup {n + 1}, n + 1, a) BY <1>1, <2>4, <2>7, <2>9, <2>11, <2>12, <2>13 DEF RespIs
    <2> QED BY <2>8, <2>9, <2>14
  <1> QED BY <1>5, <1>6

Changing(c, i, b, free) == [c EXCEPT !.blocks = [c.blocks EXCEPT ![i] = b], !.next = free]
Changed(c, d, D, i, b, free) ==
    d.next = free /\ Kin(c, d) /\ d.blocks[i] = b /\ \A j \in D \ {i} : d.blocks[j] = c.blocks[j]

LEMMA ChangedIs ==
    ASSUME NEW D, NEW c \in RespRecord(D), NEW i \in D, NEW b \in ItemBlocks, NEW free \in Nat
    PROVE  \E d \in RespRecord(D) : d = Changing(c, i, b, free) /\ Changed(c, d, D, i, b, free)
  <1>1. c.blocks \in [D -> ItemBlocks] BY DEF RespRecord
  <1>2. PICK f : f = [c.blocks EXCEPT ![i] = b] OBVIOUS
  <1>3. f \in [D -> ItemBlocks] /\ f[i] = b /\ \A j \in D \ {i} : f[j] = c.blocks[j] BY <1>1, <1>2
  <1>4. PICK d : d = [c EXCEPT !.blocks = f, !.next = free] OBVIOUS
  <1>5. d \in RespRecord(D) BY <1>3, <1>4 DEF RespRecord
  <1>6. d.blocks = f /\ d.next = free /\ Kin(c, d) BY <1>4 DEF RespRecord, Kin
  <1> QED BY <1>2, <1>3, <1>4, <1>5, <1>6 DEF Changing, Changed

GrownAt(c, i) == IF c.blocks[i].at = 0 THEN c.next ELSE c.blocks[i].at
Grown(c, i, s) ==
    [c EXCEPT !.blocks[i] = [c.blocks[i] EXCEPT !.s = c.blocks[i].s \o s, !.at = GrownAt(c, i)],
              !.next = IF c.blocks[i].at = 0 THEN c.next + 1 ELSE c.next]
ItemBegun(c, i, s) ==
    IF c.blocks[i].at # 0 THEN Grown(c, i, s)
    ELSE IF c.blocks[i].what = "text"
         THEN Sends(Sends(Grown(c, i, s), "added", GrownAt(c, i), << >>), "part", GrownAt(c, i), << >>)
         ELSE Sends(Grown(c, i, s), "added", GrownAt(c, i), << >>)

LEMMA ItemTold ==
    ASSUME NEW c, NEW ev, c.blocks[ev.i].what \in {"text", "thinking"}, ev.s # << >>
    PROVE  ItemGrows(c, ev) = Sends(ItemBegun(c, ev.i, ev.s), "delta", GrownAt(c, ev.i), ev.s)
  <1>1. c.blocks[ev.i].what # "tool" OBVIOUS
  <1>2. CASE c.blocks[ev.i].at = 0
    <2>1. GrownAt(c, ev.i) = c.next BY <1>2 DEF GrownAt
    <2>2. Grown(c, ev.i, ev.s)
            = [c EXCEPT !.blocks[ev.i] = [c.blocks[ev.i] EXCEPT !.s = c.blocks[ev.i].s \o ev.s, !.at = c.next],
                        !.next = c.next + 1]
      BY <1>2, <2>1 DEF Grown
    <2>3. CASE c.blocks[ev.i].what = "text"
      <3>1. ItemBegun(c, ev.i, ev.s)
              = Sends(Sends(Grown(c, ev.i, ev.s), "added", c.next, << >>), "part", c.next, << >>)
        BY <1>2, <2>1, <2>3 DEF ItemBegun
      <3> QED BY <1>1, <1>2, <2>1, <2>2, <2>3, <3>1, SMTT(20) DEF ItemGrows
    <2>4. CASE c.blocks[ev.i].what # "text"
      <3>1. ItemBegun(c, ev.i, ev.s) = Sends(Grown(c, ev.i, ev.s), "added", c.next, << >>) BY <1>2, <2>1, <2>4 DEF ItemBegun
      <3> QED BY <1>1, <1>2, <2>1, <2>2, <2>4, <3>1, SMTT(20) DEF ItemGrows
    <2> QED BY <2>3, <2>4
  <1>3. CASE c.blocks[ev.i].at # 0
    <2>1. GrownAt(c, ev.i) = c.blocks[ev.i].at BY <1>3 DEF GrownAt
    <2>2. Grown(c, ev.i, ev.s)
            = [c EXCEPT !.blocks[ev.i]
                  = [c.blocks[ev.i] EXCEPT !.s = c.blocks[ev.i].s \o ev.s, !.at = c.blocks[ev.i].at], !.next = c.next]
      BY <1>3, <2>1 DEF Grown
    <2>3. ItemBegun(c, ev.i, ev.s) = Grown(c, ev.i, ev.s) BY <1>3 DEF ItemBegun
    <2> QED BY <1>1, <1>3, <2>1, <2>2, <2>3, SMTT(20) DEF ItemGrows
  <1> QED BY <1>2, <1>3

(* More of an open block. *)
LEMMA ItemGrowsIs ==
    ASSUME NEW c, NEW D, NEW n, NEW a, RespIs(c, D, n, a), NEW ev, ev.i \in D, ev.s \in Seq(Nat)
    PROVE  \E d : d = ItemGrows(c, ev) /\ RespIs(d, D, n, a) /\ d.output = c.output
  <1>1. c \in RespRecord(D) /\ ~c.over /\ Listed(c.out, c.next, c.output)
        /\ PlacesHeld(D, Ats(c.blocks), n, c.next, PlacesOf(c.output), Len(c.output), a)
    BY DEF RespIs
  <1>2. n \in Nat /\ D \subseteq 1 .. n /\ c.next \in Nat \ {0} BY <1>1 DEF PlacesHeld
  <1>3. PICK i \in D, b \in ItemBlocks, s \in Seq(Nat), t \in Seq(Nat) :
           i = ev.i /\ b = c.blocks[i] /\ s = ev.s /\ t = b.s \o s
    <2>1. c.blocks \in [D -> ItemBlocks] BY <1>1 DEF RespRecord
    <2>2. PICK i \in D, b \in ItemBlocks, s \in Seq(Nat) : i = ev.i /\ b = c.blocks[i] /\ s = ev.s BY <2>1
    <2>3. b.s \in Seq(Nat) BY DEF ItemBlocks
    <2>4. b.s \o s \in Seq(Nat) BY <2>3, ConcatProperties
    <2> QED BY <2>2, <2>4
  <1>4. Ats(c.blocks) \in [D -> Nat] /\ \A j \in D : Ats(c.blocks)[j] = c.blocks[j].at BY <1>1, AtsIs
  <1>5. CASE b.what = "tool"
    <2>1. PICK new \in ItemBlocks : new = [b EXCEPT !.s = t] /\ new.at = b.at
      <3>1. [b EXCEPT !.s = t] \in ItemBlocks /\ [b EXCEPT !.s = t].at = b.at BY DEF ItemBlocks
      <3> QED BY <3>1
    <2>2. PICK free \in Nat : free = c.next BY <1>2
    <2>3. PICK d \in RespRecord(D) : d = Changing(c, i, new, free) /\ Changed(c, d, D, i, new, free) BY <1>1, ChangedIs
    <2>4. ItemGrows(c, ev) = [c EXCEPT !.blocks[i].s = t] BY <1>3, <1>5 DEF ItemGrows
    <2>5. Changing(c, i, new, free) = [c EXCEPT !.blocks[i].s = t]
      <3>1. [c.blocks EXCEPT ![i] = new] = [c.blocks EXCEPT ![i].s = t] BY <1>3, <2>1
      <3>2. [c EXCEPT !.blocks[i].s = t] = [c EXCEPT !.blocks = [c.blocks EXCEPT ![i].s = t]] OBVIOUS
      <3>3. \A f : [c EXCEPT !.blocks = f, !.next = c.next] = [c EXCEPT !.blocks = f] BY <1>1 DEF RespRecord
      <3> QED BY <2>2, <3>1, <3>2, <3>3 DEF Changing
    <2>6. Ats(d.blocks) = Ats(c.blocks)
      <3>1. Ats(d.blocks) \in [D -> Nat] /\ \A j \in D : Ats(d.blocks)[j] = d.blocks[j].at BY AtsIs
      <3>2. ASSUME NEW j \in D PROVE d.blocks[j].at = c.blocks[j].at
        <4>1. CASE j = i BY <1>3, <2>1, <2>3, <4>1 DEF Changed
        <4>2. CASE j # i
          <5>1. j \in D \ {i} BY <4>2
          <5> QED BY <2>3, <5>1 DEF Changed
        <4> QED BY <4>1, <4>2
      <3> QED BY <1>4, <3>1, <3>2
    <2>7. RespIs(d, D, n, a) /\ d.output = c.output BY <1>1, <2>2, <2>3, <2>6 DEF RespIs, Changed, Kin
    <2> QED BY <2>3, <2>4, <2>5, <2>7
  <1>6. CASE b.what \in {"text", "thinking"} /\ s # << >>
    <2> DEFINE first == b.at = 0
               place == IF first THEN c.next ELSE b.at
               free == IF first THEN c.next + 1 ELSE c.next
               grown == [c EXCEPT !.blocks[i] = [b EXCEPT !.s = t, !.at = place], !.next = free]
               begun == IF ~first THEN grown
                        ELSE IF b.what = "text" THEN Sends(Sends(grown, "added", place, << >>), "part", place, << >>)
                        ELSE Sends(grown, "added", place, << >>)
    <2>1. ItemGrows(c, ev) = Sends(begun, "delta", place, s)
      <3>1. ItemGrows(c, ev) = Sends(ItemBegun(c, i, s), "delta", GrownAt(c, i), s) BY <1>3, <1>6, ItemTold
      <3>2. GrownAt(c, i) = place BY <1>3 DEF GrownAt
      <3>3. Grown(c, i, s) = grown BY <1>3, <3>2 DEF Grown
      <3>4. ItemBegun(c, i, s) = begun BY <1>3, <3>2, <3>3 DEF ItemBegun
      <3> QED BY <3>1, <3>2, <3>4
    <2>2. place \in Nat \ {0} /\ free \in Nat /\ << >> \in Seq(Nat) BY <1>2, EmptySeq DEF ItemBlocks
    <2> HIDE DEF place, free
    <2>3. PICK new \in ItemBlocks : new = [b EXCEPT !.s = t, !.at = place] /\ new.at = place
      <3>1. [b EXCEPT !.s = t, !.at = place] \in ItemBlocks /\ [b EXCEPT !.s = t, !.at = place].at = place
        BY <1>6, <2>2 DEF ItemBlocks
      <3> QED BY <3>1
    <2>4. PICK m \in Nat, k \in Nat, e \in Seq(Nat) : m = free /\ k = place /\ e = << >> BY <2>2
    <2>5. PICK g \in RespRecord(D) : g = Changing(c, i, new, m) /\ Changed(c, g, D, i, new, m) BY <1>1, ChangedIs
    <2>6. g = grown BY <2>3, <2>4, <2>5 DEF Changing
    <2> HIDE DEF grown
    <2>7. Ats(g.blocks) \in [D -> Nat] /\ Ats(g.blocks)[i] = place
          /\ \A j \in D \ {i} : Ats(g.blocks)[j] = Ats(c.blocks)[j]
      <3>1. Ats(g.blocks) \in [D -> Nat] /\ \A j \in D : Ats(g.blocks)[j] = g.blocks[j].at BY AtsIs
      <3>2. g.blocks[i] = new /\ \A j \in D \ {i} : g.blocks[j] = c.blocks[j] BY <2>5 DEF Changed
      <3>3. Ats(g.blocks)[i] = place BY <2>3, <3>1, <3>2
      <3>4. \A j \in D \ {i} : Ats(g.blocks)[j] = Ats(c.blocks)[j] BY <1>4, <3>1, <3>2
      <3> QED BY <3>1, <3>3, <3>4
    <2>8. PICK ats, more, was, fin, len, out, output :
             /\ ats = Ats(c.blocks) /\ more = Ats(g.blocks) /\ was = c.next /\ fin = PlacesOf(c.output) /\ len = Len(c.output)
             /\ out = c.out /\ output = c.output
      OBVIOUS
    <2>9. PlacesHeld(D, ats, n, was, fin, len, a) /\ Listed(out, was, output) BY <1>1, <2>8
    <2>10. fin \subseteq 1 .. was - 1 BY <2>8, <2>9 DEF Listed, PlacesOK, ItemsOK
    <2>11. \E d : d = Sends(begun, "delta", place, s) /\ RespIs(d, D, n, a) /\ d.output = c.output
      <3>1. \E d : /\ d = begun /\ d \in RespRecord(D) /\ Listed(d.out, m, output) /\ PlacesHeld(D, more, n, m, fin, len, a)
                   /\ k \in (1 .. m - 1) \ fin
                   /\ d.blocks = g.blocks /\ d.output = output /\ d.next = m /\ d.over = c.over
        <4>1. CASE ~first
          <5>1. m = was /\ k = ats[i] BY <1>3, <1>4, <2>4, <2>8, <4>1 DEF place, free
          <5>2. more = ats
            <6>1. \A j \in D : more[j] = ats[j] BY <2>4, <2>7, <2>8, <5>1
            <6> QED BY <1>4, <2>7, <2>8, <6>1
          <5>3. PlacesHeld(D, more, n, m, fin, len, a) BY <2>9, <5>1, <5>2
          <5>4. k \in (1 .. m - 1) \ fin
            <6>1. i \in LiveIn(D, ats) BY <2>2, <2>4, <5>1 DEF LiveIn
            <6> QED BY <2>9, <5>1, <6>1 DEF PlacesHeld
          <5> QED BY <2>5, <2>6, <2>8, <2>9, <4>1, <5>1, <5>3, <5>4 DEF Changed, Kin
        <4>2. CASE first
          <5>1. m = was + 1 /\ k = was /\ ats[i] = 0 BY <1>3, <1>4, <2>4, <2>8, <4>2 DEF place, free
          <5>2. PlacesHeld(D, more, n, m, fin, len, a)
            <6>1. more \in [D -> Nat] /\ more[i] = was /\ \A j \in D \ {i} : more[j] = ats[j] BY <2>4, <2>7, <2>8, <5>1
            <6>2. PlacesHeld(D, more, n, was + 1, fin, len, a) BY <2>9, <2>10, <5>1, <6>1, HeldPlaced
            <6> QED BY <5>1, <6>2
          <5>3. PICK f \in RespRecord(D), x \in ItemEvents :
                   f = Sends(g, "added", place, << >>) /\ x.r = "added" /\ x.at = k /\ EventSent(g, f, x)
            <6>1. PICK r \in EventKinds : r = "added" BY DEF EventKinds
            <6>2. SentFrom(D, g, r, k, e) BY SendsIs
            <6> QED BY <2>4, <6>1, <6>2 DEF SentFrom
          <5>4. Listed(Append(out, x), m, output) /\ k \in (1 .. m - 1) \ fin
            <6>1. x.at = was BY <5>1, <5>3
            <6>2. Listed(Append(out, x), was + 1, output) /\ was \in (1 .. (was + 1) - 1) \ PlacesOf(output)
              BY <2>9, <5>3, <6>1, ListedAdded
            <6> QED BY <2>8, <5>1, <6>2
          <5>5. /\ f.out = Append(out, x) /\ f.blocks = g.blocks /\ f.output = output /\ f.next = m /\ f.over = c.over
            BY <2>5, <2>8, <5>3 DEF Changed, Kin, EventSent
          <5>6. CASE b.what # "text"
            <6>1. begun = f BY <2>6, <4>2, <5>3, <5>6
            <6> HIDE DEF begun, first
            <6> QED BY <5>2, <5>4, <5>5, <6>1
          <5>7. CASE b.what = "text"
            <6>1. begun = Sends(f, "part", place, << >>) BY <2>6, <4>2, <5>3, <5>7
            <6> HIDE DEF begun, first
            <6>2. PICK h \in RespRecord(D), y \in ItemEvents :
                     h = Sends(f, "part", place, << >>) /\ y.r = "part" /\ y.at = k /\ EventSent(f, h, y)
              <7>1. PICK r \in EventKinds : r = "part" BY DEF EventKinds
              <7>2. SentFrom(D, f, r, k, e) BY SendsIs
              <7> QED BY <2>4, <7>1, <7>2 DEF SentFrom
            <6>3. PICK o : o = Append(out, x) OBVIOUS
            <6>4. Listed(Append(o, y), m, output)
              <7>1. y.r \in {"part", "delta"} /\ y.at \in (1 .. m - 1) \ PlacesOf(output) BY <2>8, <5>4, <6>2
              <7>2. Listed(o, m, output) BY <5>4, <6>3
              <7> QED BY <7>1, <7>2, ListedTold
            <6>5. h.out = Append(o, y) /\ h.blocks = g.blocks /\ h.output = output /\ h.next = m /\ h.over = c.over
              BY <5>5, <6>2, <6>3 DEF EventSent
            <6> QED BY <5>2, <5>4, <6>1, <6>2, <6>4, <6>5
          <5> QED BY <5>6, <5>7
        <4> QED BY <4>1, <4>2
      <3> HIDE DEF begun, first
      <3>2. PICK d \in RespRecord(D) :
               /\ d = begun /\ Listed(d.out, m, output) /\ PlacesHeld(D, more, n, m, fin, len, a)
               /\ k \in (1 .. m - 1) \ fin
               /\ d.blocks = g.blocks /\ d.output = output /\ d.next = m /\ d.over = c.over
        BY <3>1
      <3>3. PICK h \in RespRecord(D), y \in ItemEvents :
               h = Sends(d, "delta", place, s) /\ y.r = "delta" /\ y.at = k /\ EventSent(d, h, y)
        <4>1. PICK r \in EventKinds : r = "delta" BY DEF EventKinds
        <4>2. SentFrom(D, d, r, k, s) BY SendsIs
        <4> QED BY <2>4, <4>1, <4>2 DEF SentFrom
      <3>4. PICK o : o = d.out OBVIOUS
      <3>5. Listed(Append(o, y), m, output)
        <4>1. y.r \in {"part", "delta"} /\ y.at \in (1 .. m - 1) \ PlacesOf(output) BY <2>8, <3>2, <3>3
        <4>2. Listed(o, m, output) BY <3>2, <3>4
        <4> QED BY <4>1, <4>2, ListedTold
      <3>6. h.out = Append(o, y) /\ h.blocks = g.blocks /\ h.output = output /\ h.next = m /\ h.over = c.over
        BY <3>2, <3>3, <3>4 DEF EventSent
      <3>7. RespIs(h, D, n, a) BY <1>1, <2>8, <3>2, <3>5, <3>6 DEF RespIs
      <3> QED BY <2>8, <3>2, <3>3, <3>6, <3>7
    <2> QED BY <2>1, <2>11
  <1>7. CASE b.what # "tool" /\ ~(b.what \in {"text", "thinking"} /\ s # << >>)
    <2>1. ItemGrows(c, ev) = c BY <1>3, <1>7, SMTT(20) DEF ItemGrows
    <2> QED BY <2>1
  <1> QED BY <1>5, <1>6, <1>7

LEMMA ResolvedTyped ==
    ASSUME NEW name \in CalledAs
    PROVE  Resolved(name) \in Resolutions
  <1> DEFINE exact == {t \in Tools : t.flat = name}
             bare == {t \in Tools : t.name = name}
             found == IF exact # {} THEN exact ELSE bare
  <1>1. Resolved(name) = IF Cardinality(found) = 1 THEN CHOOSE t \in found : TRUE
                         ELSE [flat |-> name, name |-> name, kind |-> "function"]
    BY DEF Resolved
  <1>2. found \subseteq Tools OBVIOUS
  <1> HIDE DEF found
  <1>3. ASSUME Cardinality(found) = 1 PROVE (CHOOSE t \in found : TRUE) \in Tools
    <2>1. found # {} BY <1>3, FS_EmptySet
    <2>2. PICK t : t \in found BY <2>1
    <2> QED BY <1>2, <2>2
  <1> QED BY <1>1, <1>3 DEF Resolutions

Dropping(c, i) == [c EXCEPT !.blocks = [j \in DOMAIN c.blocks \ {i} |-> c.blocks[j]]]
BlockDropped(c, d, D, i) ==
    /\ d.next = c.next /\ Kin(c, d) /\ Ats(d.blocks) \in [D \ {i} -> Nat]
    /\ \A j \in D \ {i} : Ats(d.blocks)[j] = Ats(c.blocks)[j]

LEMMA DroppedIs ==
    ASSUME NEW D, NEW c \in RespRecord(D), NEW i \in D
    PROVE  \E d \in RespRecord(D \ {i}) : d = Dropping(c, i) /\ BlockDropped(c, d, D, i)
  <1>1. c.blocks \in [D -> ItemBlocks] BY DEF RespRecord
  <1>2. PICK f : f = [j \in DOMAIN c.blocks \ {i} |-> c.blocks[j]] OBVIOUS
  <1>3. DOMAIN c.blocks = D BY <1>1
  <1>4. f \in [D \ {i} -> ItemBlocks] /\ \A j \in D \ {i} : f[j] = c.blocks[j] BY <1>1, <1>2, <1>3
  <1>5. PICK d : d = [c EXCEPT !.blocks = f] OBVIOUS
  <1>6. d \in RespRecord(D \ {i}) BY <1>4, <1>5 DEF RespRecord
  <1>7. d.blocks = f /\ d.next = c.next /\ Kin(c, d) BY <1>5 DEF RespRecord, Kin
  <1>8. Ats(d.blocks) \in [D \ {i} -> Nat] /\ \A j \in D \ {i} : Ats(d.blocks)[j] = d.blocks[j].at BY <1>6, AtsIs
  <1>9. \A j \in D : Ats(c.blocks)[j] = c.blocks[j].at BY AtsIs
  <1>10. \A j \in D \ {i} : Ats(d.blocks)[j] = Ats(c.blocks)[j] BY <1>4, <1>7, <1>8, <1>9
  <1> QED BY <1>2, <1>5, <1>6, <1>7, <1>8, <1>10 DEF Dropping, BlockDropped

(* The context after a block stopped. *)
StoppedItem(c, d, D, n, a, i) == RespIs(d, D \ {i}, n, a) /\ (ItemsInOrder(c.output) /\ D \subseteq {i} => ItemsInOrder(d.output))

(* An item that has an index is done with its block. *)
LEMMA ItemDone ==
    ASSUME NEW c, NEW D, NEW n, NEW a, RespIs(c, D, n, a), NEW i \in D, c.blocks[i].at # 0,
           NEW item \in OutputItems, item.at = c.blocks[i].at, NEW kinds \in DoneKinds
    PROVE  StoppedItem(c, Finishes(Dropping(c, i), item, kinds), D, n, a, i)
  <1>1. c \in RespRecord(D) /\ ~c.over /\ Listed(c.out, c.next, c.output)
        /\ PlacesHeld(D, Ats(c.blocks), n, c.next, PlacesOf(c.output), Len(c.output), a)
    BY DEF RespIs
  <1>2. PICK e \in RespRecord(D \ {i}) : e = Dropping(c, i) /\ BlockDropped(c, e, D, i) BY <1>1, DroppedIs
  <1>3. PICK ats, less, free, fin, len :
           ats = Ats(c.blocks) /\ less = Ats(e.blocks) /\ free = c.next /\ fin = PlacesOf(c.output) /\ len = Len(c.output)
    OBVIOUS
  <1>4. /\ PlacesHeld(D, ats, n, free, fin, len, a) /\ less \in [D \ {i} -> Nat] /\ ats[i] # 0 /\ ats[i] = item.at
        /\ \A j \in D \ {i} : less[j] = ats[j]
    BY <1>1, <1>2, <1>3, AtsIs DEF BlockDropped
  <1>5. /\ PlacesHeld(D \ {i}, less, n, free, fin \cup {ats[i]}, len + 1, a)
        /\ ats[i] \in (1 .. free - 1) \ fin
        /\ D \subseteq {i} => len + 1 = free - 1
    <2>1. DoneOf(D, ats, n, free, fin, len, a, i, less) BY <1>4, HeldDone
    <2> QED BY <2>1 DEF DoneOf
  <1>6. /\ Listed(e.out, e.next, e.output) /\ e.next = free /\ e.output = c.output /\ e.over = c.over
        /\ item.at \in (1 .. e.next - 1) \ PlacesOf(e.output)
    BY <1>1, <1>2, <1>3, <1>4, <1>5 DEF BlockDropped, Kin
  <1>7. PICK d \in RespRecord(D \ {i}) :
           /\ d = Finishes(e, item, kinds) /\ Listed(d.out, d.next, d.output)
           /\ Len(d.output) = Len(e.output) + 1 /\ PlacesOf(d.output) = PlacesOf(e.output) \cup {item.at}
           /\ ItemsInOrder(e.output) /\ item.at = Len(e.output) + 1 => ItemsInOrder(d.output)
           /\ d.next = e.next /\ d.blocks = e.blocks /\ d.reason = e.reason /\ d.over = e.over
    <2>1. PICK E : E = D \ {i} OBVIOUS
    <2>2. e \in RespRecord(E) BY <2>1
    <2>3. FinishedFrom(E, e, item, kinds) BY <1>6, <2>2, FinishesIs
    <2> QED BY <2>1, <2>3 DEF FinishedFrom
  <1>8. RespIs(d, D \ {i}, n, a) BY <1>1, <1>3, <1>4, <1>5, <1>6, <1>7 DEF RespIs
  <1>9. ItemsInOrder(c.output) /\ D \subseteq {i} => ItemsInOrder(d.output)
    <2>1. SUFFICES ASSUME ItemsInOrder(c.output), D \subseteq {i} PROVE ItemsInOrder(d.output) OBVIOUS
    <2>2. len + 1 = free - 1 BY <1>5, <2>1
    <2>3. fin = 1 .. len
      <3>1. DOMAIN c.output = 1 .. len BY <1>1, <1>3 DEF Listed
      <3> QED BY <1>3, <2>1, <3>1 DEF PlacesOf, ItemsInOrder
    <2>4. free \in Nat /\ len \in Nat BY <1>4 DEF PlacesHeld
    <2>5. ats[i] = len + 1 BY <1>5, <2>2, <2>3, <2>4
    <2> QED BY <1>3, <1>4, <1>6, <1>7, <2>1, <2>5
  <1> QED BY <1>2, <1>7, <1>8, <1>9 DEF StoppedItem

(* A call is an item when its block stops. *)
LEMMA ItemCalled ==
    ASSUME NEW c, NEW D, NEW n, NEW a, RespIs(c, D, n, a), NEW i \in D, c.blocks[i].at = 0,
           NEW item \in OutputItems, item.at = c.next, NEW kinds \in DoneKinds
    PROVE  StoppedItem(c, Finishes(Allocate(Sends(Dropping(c, i), "added", c.next, << >>)), item, kinds), D, n, a, i)
  <1>1. c \in RespRecord(D) /\ ~c.over /\ Listed(c.out, c.next, c.output)
        /\ PlacesHeld(D, Ats(c.blocks), n, c.next, PlacesOf(c.output), Len(c.output), a)
    BY DEF RespIs
  <1>2. PICK e \in RespRecord(D \ {i}) : e = Dropping(c, i) /\ BlockDropped(c, e, D, i) BY <1>1, DroppedIs
  <1>3. PICK ats, less, free, fin, len :
           ats = Ats(c.blocks) /\ less = Ats(e.blocks) /\ free = c.next /\ fin = PlacesOf(c.output) /\ len = Len(c.output)
    OBVIOUS
  <1>4. /\ PlacesHeld(D, ats, n, free, fin, len, a) /\ less \in [D \ {i} -> Nat] /\ ats[i] = 0
        /\ \A j \in D \ {i} : less[j] = ats[j]
    BY <1>1, <1>2, <1>3, AtsIs DEF BlockDropped
  <1>5. /\ PlacesHeld(D \ {i}, less, n, free, fin, len, a)
        /\ free + 1 + Cardinality(UnplacedIn(D \ {i}, less)) <= 1 + n + a
        /\ D \subseteq {i} => len = free - 1
    BY <1>4, HeldDropped
  <1>6. PlacesHeld(D \ {i}, less, n, free + 1, fin \cup {free}, len + 1, a)
    <2>1. PICK E : E = D \ {i} OBVIOUS
    <2>2. PlacesHeld(E, less, n, free, fin, len, a) /\ free + 1 + Cardinality(UnplacedIn(E, less)) <= 1 + n + a BY <1>5, <2>1
    <2>3. a \in Nat BY <1>5 DEF PlacesHeld
    <2>4. PlacesHeld(E, less, n, free + 1, fin \cup {free}, len + 1, a) BY <2>2, <2>3, HeldAtOnce
    <2> QED BY <2>1, <2>4
  <1>7. /\ Listed(e.out, e.next, e.output) /\ e.next = free /\ e.output = c.output /\ e.over = c.over
        /\ item.at = e.next
    BY <1>1, <1>2, <1>3 DEF BlockDropped, Kin
  <1>8. PICK d \in RespRecord(D \ {i}) :
           /\ d = Finishes(Allocate(Sends(e, "added", e.next, << >>)), item, kinds)
           /\ Listed(d.out, d.next, d.output)
           /\ Len(d.output) = Len(e.output) + 1 /\ PlacesOf(d.output) = PlacesOf(e.output) \cup {e.next}
           /\ ItemsInOrder(e.output) /\ e.next = Len(e.output) + 1 => ItemsInOrder(d.output)
           /\ d.next = e.next + 1 /\ d.blocks = e.blocks /\ d.reason = e.reason /\ d.over = e.over
    BY <1>7, AtOnceIs
  <1>9. RespIs(d, D \ {i}, n, a) BY <1>1, <1>3, <1>6, <1>7, <1>8 DEF RespIs
  <1>10. ItemsInOrder(c.output) /\ D \subseteq {i} => ItemsInOrder(d.output)
    <2>1. free \in Nat /\ len \in Nat BY <1>4 DEF PlacesHeld
    <2>2. D \subseteq {i} => free = len + 1 BY <1>5, <2>1
    <2> QED BY <1>3, <1>7, <1>8, <2>2
  <1> QED BY <1>2, <1>3, <1>7, <1>8, <1>9, <1>10 DEF StoppedItem

(* A block stops that had nothing to say. *)
LEMMA ItemDropped ==
    ASSUME NEW c, NEW D, NEW n, NEW a, RespIs(c, D, n, a), NEW i \in D, c.blocks[i].at = 0
    PROVE  StoppedItem(c, Dropping(c, i), D, n, a, i)
  <1>1. c \in RespRecord(D) /\ ~c.over /\ Listed(c.out, c.next, c.output)
        /\ PlacesHeld(D, Ats(c.blocks), n, c.next, PlacesOf(c.output), Len(c.output), a)
    BY DEF RespIs
  <1>2. PICK e \in RespRecord(D \ {i}) : e = Dropping(c, i) /\ BlockDropped(c, e, D, i) BY <1>1, DroppedIs
  <1>3. PICK ats, less, free, fin, len :
           ats = Ats(c.blocks) /\ less = Ats(e.blocks) /\ free = c.next /\ fin = PlacesOf(c.output) /\ len = Len(c.output)
    OBVIOUS
  <1>4. /\ PlacesHeld(D, ats, n, free, fin, len, a) /\ less \in [D \ {i} -> Nat] /\ ats[i] = 0
        /\ \A j \in D \ {i} : less[j] = ats[j]
    BY <1>1, <1>2, <1>3, AtsIs DEF BlockDropped
  <1>5. PlacesHeld(D \ {i}, less, n, free, fin, len, a) BY <1>4, HeldDropped
  <1> QED BY <1>1, <1>2, <1>3, <1>5 DEF RespIs, BlockDropped, Kin, StoppedItem

LEMMA ItemStopsIs ==
    ASSUME NEW c, NEW D, NEW n, NEW a, RespIs(c, D, n, a), NEW ev, ev.i \in D
    PROVE  StoppedItem(c, ItemStops(c, ev), D, n, a, ev.i)
  <1>1. c \in RespRecord(D) /\ c.next \in Nat BY DEF RespIs, RespRecord
  <1>2. PICK i \in D, b \in ItemBlocks : i = ev.i /\ b = c.blocks[i]
    <2>1. c.blocks \in [D -> ItemBlocks] BY <1>1 DEF RespRecord
    <2> QED BY <2>1
  <1>3. b.s \in Seq(Nat) /\ b.at \in Nat /\ NoTool \in Resolutions /\ << >> \in Seq(Nat)
    BY EmptySeq DEF ItemBlocks, Resolutions
  <1>4. PICK p : p = Dropping(c, i) OBVIOUS
  <1>5. CASE b.what = "text" /\ b.at # 0
    <2>1. ItemStops(c, ev) = Finishes(p, Item(b.at, "message", b.s, NoTool), <<"text_done", "part_done", "done">>)
      BY <1>2, <1>4, <1>5, SMTT(20) DEF ItemStops, Dropping
    <2>2. PICK item \in OutputItems : item = Item(b.at, "message", b.s, NoTool) /\ item.at = b.at
      <3>1. Item(b.at, "message", b.s, NoTool) \in OutputItems BY <1>3 DEF Item, OutputItems
      <3> QED BY <3>1 DEF Item
    <2>3. PICK kinds \in DoneKinds : kinds = <<"text_done", "part_done", "done">> BY DEF DoneKinds
    <2>4. StoppedItem(c, Finishes(Dropping(c, i), item, kinds), D, n, a, i) BY <1>2, <1>5, <2>2, ItemDone
    <2> QED BY <1>2, <1>4, <2>1, <2>2, <2>3, <2>4
  <1>6. CASE b.what = "thinking" /\ b.at # 0
    <2>1. ItemStops(c, ev) = Finishes(p, Item(b.at, "reasoning", b.s, NoTool), <<"text_done", "done">>)
      BY <1>2, <1>4, <1>6, SMTT(20) DEF ItemStops, Dropping
    <2>2. PICK item \in OutputItems : item = Item(b.at, "reasoning", b.s, NoTool) /\ item.at = b.at
      <3>1. Item(b.at, "reasoning", b.s, NoTool) \in OutputItems BY <1>3 DEF Item, OutputItems
      <3> QED BY <3>1 DEF Item
    <2>3. PICK kinds \in DoneKinds : kinds = <<"text_done", "done">> BY DEF DoneKinds
    <2>4. StoppedItem(c, Finishes(Dropping(c, i), item, kinds), D, n, a, i) BY <1>2, <1>6, <2>2, ItemDone
    <2> QED BY <1>2, <1>4, <2>1, <2>2, <2>3, <2>4
  <1>7. CASE b.what = "server_tool_use"
    <2>1. ItemStops(c, ev) = Finishes(p, Item(b.at, "search", << >>, NoTool), <<"done">>)
      BY <1>2, <1>4, <1>7, SMTT(20) DEF ItemStops, Dropping
    <2>2. PICK item \in OutputItems : item = Item(b.at, "search", << >>, NoTool) /\ item.at = b.at
      <3>1. Item(b.at, "search", << >>, NoTool) \in OutputItems BY <1>3 DEF Item, OutputItems
      <3> QED BY <3>1 DEF Item
    <2>3. PICK kinds \in DoneKinds : kinds = <<"done">> BY DEF DoneKinds
    <2>4. b.at # 0 BY <1>7 DEF ItemBlocks
    <2>5. StoppedItem(c, Finishes(Dropping(c, i), item, kinds), D, n, a, i) BY <1>2, <2>2, <2>4, ItemDone
    <2> QED BY <1>2, <1>4, <2>1, <2>2, <2>3, <2>5
  <1>8. CASE b.what = "tool"
    <2>1. ItemStops(c, ev)
            = Finishes(Allocate(Sends(p, "added", c.next, << >>)), Item(c.next, "call", b.s, Resolved(b.name[1])),
                       <<"delta", "text_done", "done">>)
      BY <1>2, <1>4, <1>8, SMTT(20) DEF ItemStops, Dropping
    <2>2. b.at = 0 /\ b.name \in Seq(CalledAs) /\ b.name # << >> BY <1>8 DEF ItemBlocks
    <2>3. Resolved(b.name[1]) \in Resolutions
      <3>1. PICK name \in CalledAs : name = b.name[1] BY <2>2
      <3> QED BY <3>1, ResolvedTyped
    <2>4. PICK item \in OutputItems : item = Item(c.next, "call", b.s, Resolved(b.name[1])) /\ item.at = c.next
      <3>1. Item(c.next, "call", b.s, Resolved(b.name[1])) \in OutputItems BY <1>1, <1>3, <2>3 DEF Item, OutputItems
      <3> QED BY <3>1 DEF Item
    <2>5. PICK kinds \in DoneKinds : kinds = <<"delta", "text_done", "done">> BY DEF DoneKinds
    <2>6. StoppedItem(c, Finishes(Allocate(Sends(Dropping(c, i), "added", c.next, << >>)), item, kinds), D, n, a, i)
      BY <1>2, <2>2, <2>4, ItemCalled
    <2> QED BY <1>2, <1>4, <2>1, <2>4, <2>5, <2>6
  <1>9. CASE b.what \notin {"tool", "server_tool_use"} /\ ~(b.what \in {"text", "thinking"} /\ b.at # 0)
    <2>1. ItemStops(c, ev) = p BY <1>2, <1>4, <1>9, SMTT(20) DEF ItemStops, Dropping
    <2>2. b.at = 0
      <3>1. b.what \in Kinds /\ (b.what = "other" => b.at = 0) BY DEF ItemBlocks
      <3> QED BY <1>9, <3>1 DEF Kinds
    <2>3. StoppedItem(c, Dropping(c, i), D, n, a, i) BY <1>2, <2>2, ItemDropped
    <2> QED BY <1>2, <1>4, <2>1, <2>3
  <1> QED BY <1>5, <1>6, <1>7, <1>8, <1>9

-----------------------------------------------------------------------------
(* The message stream: how many blocks were started, which are open, and    *)
(* whether thinking came aside.                                             *)
SseKinds == {"message_start", "start", "delta", "stop", "message_delta", "message_stop", "error"}
SseEvents == [e : SseKinds, i : Nat, what : Kinds \cup EndReasons, s : Seq(Nat) \cup Seq(CalledAs), aside : Nat]

Seen(log) == Cardinality(At(log, "start"))
Open(log) == {b \in 1 .. Seen(log) : Of(log, "stop", b) = {}}
Asides(log) == IF \A j \in DOMAIN log : log[j].aside = 0 THEN 0 ELSE 1
Overlaps(log) ==
    \E j \in At(log, "start") : \E i \in 1 .. log[j].i - 1 : \A k \in Of(log, "stop", i) : j < k

StartsOK(log, n) ==
    /\ \A j \in At(log, "start") \cup At(log, "stop") : log[j].i \in 1 .. n
    /\ \A b \in 1 .. n : \E s \in DOMAIN log : Of(log, "start", b) = {s}

LogOK(log) == log \in Seq(SseEvents) /\ Seen(log) \in Nat /\ StartsOK(log, Seen(log))

LEMMA LogAppend ==
    ASSUME NEW log \in Seq(SseEvents), NEW x \in SseEvents
    PROVE  LET more == Append(log, x)
               m == Len(log) + 1
           IN  /\ more \in Seq(SseEvents) /\ m \in Nat /\ Len(more) = m /\ more[m] = x
               /\ DOMAIN log = 1 .. Len(log) /\ DOMAIN more = (1 .. Len(log)) \cup {m}
               /\ \A j \in 1 .. Len(log) : more[j] = log[j] /\ j < m /\ j \in Nat
               /\ \A e : At(more, e) = IF x.e = e THEN At(log, e) \cup {m} ELSE At(log, e)
               /\ \A e, b : Of(more, e, b) = IF x.e = e /\ x.i = b THEN Of(log, e, b) \cup {m} ELSE Of(log, e, b)
               /\ \A e : At(log, e) \subseteq 1 .. Len(log)
               /\ \A e, b : Of(log, e, b) \subseteq At(log, e)
  <1> DEFINE more == Append(log, x)
             m == Len(log) + 1
  <1>1. /\ more \in Seq(SseEvents) /\ m \in Nat /\ Len(more) = m /\ more[m] = x
        /\ \A j \in 1 .. Len(log) : more[j] = log[j] /\ j < m
        /\ \A e : At(more, e) = IF x.e = e THEN At(log, e) \cup {m} ELSE At(log, e)
        /\ \A e, b : Of(more, e, b) = IF x.e = e /\ x.i = b THEN Of(log, e, b) \cup {m} ELSE Of(log, e, b)
        /\ \A e : At(log, e) \subseteq 1 .. Len(log)
        /\ \A e, b : Of(log, e, b) \subseteq At(log, e)
    BY AtAppend
  <1>2. Len(log) \in Nat /\ DOMAIN log = 1 .. Len(log) /\ \A j \in 1 .. Len(log) : j \in Nat OBVIOUS
  <1>3. DOMAIN more = 1 .. m /\ 1 .. m = (1 .. Len(log)) \cup {m} BY <1>1, <1>2
  <1> HIDE DEF more, m
  <1> QED BY <1>1, <1>2, <1>3 DEF more, m

LEMMA AsidesGrow ==
    ASSUME NEW log \in Seq(SseEvents), NEW x \in SseEvents
    PROVE  Asides(Append(log, x)) = IF x.aside = 0 THEN Asides(log) ELSE 1
  <1> DEFINE more == Append(log, x)
             m == Len(log) + 1
  <1>1. /\ more[m] = x /\ DOMAIN log = 1 .. Len(log) /\ DOMAIN more = (1 .. Len(log)) \cup {m}
        /\ \A j \in 1 .. Len(log) : more[j] = log[j]
    BY LogAppend
  <1> HIDE DEF more, m
  <1>2. Asides(more) = IF x.aside = 0 THEN Asides(log) ELSE 1 BY <1>1 DEF Asides
  <1> QED BY <1>2 DEF more

(* An event that starts and stops no block. *)
LEMMA LogPlain ==
    ASSUME NEW log, NEW x \in SseEvents, LogOK(log), x.e \notin {"start", "stop"}
    PROVE  /\ LogOK(Append(log, x)) /\ Seen(Append(log, x)) = Seen(log) /\ Open(Append(log, x)) = Open(log)
           /\ Overlaps(log) => Overlaps(Append(log, x))
  <1> DEFINE more == Append(log, x)
             m == Len(log) + 1
  <1>1. log \in Seq(SseEvents) /\ Seen(log) \in Nat /\ StartsOK(log, Seen(log)) BY DEF LogOK
  <1>2. /\ more \in Seq(SseEvents) /\ DOMAIN log = 1 .. Len(log) /\ DOMAIN more = (1 .. Len(log)) \cup {m}
        /\ \A j \in 1 .. Len(log) : more[j] = log[j]
        /\ \A e : At(more, e) = IF x.e = e THEN At(log, e) \cup {m} ELSE At(log, e)
        /\ \A e, b : Of(more, e, b) = IF x.e = e /\ x.i = b THEN Of(log, e, b) \cup {m} ELSE Of(log, e, b)
        /\ \A e : At(log, e) \subseteq 1 .. Len(log)
    BY <1>1, LogAppend
  <1> HIDE DEF more, m
  <1>3. At(more, "start") = At(log, "start") /\ At(more, "stop") = At(log, "stop")
        /\ \A b : Of(more, "start", b) = Of(log, "start", b) /\ Of(more, "stop", b) = Of(log, "stop", b)
    BY <1>2
  <1>4. Seen(more) = Seen(log) BY <1>3 DEF Seen
  <1>5. Open(more) = Open(log) BY <1>3, <1>4 DEF Open
  <1>6. \A j \in At(log, "start") \cup At(log, "stop") : more[j] = log[j] BY <1>2
  <1>7. StartsOK(more, Seen(log)) BY <1>1, <1>2, <1>3, <1>6 DEF StartsOK
  <1>8. Overlaps(log) => Overlaps(more) BY <1>3, <1>6 DEF Overlaps
  <1> QED BY <1>1, <1>2, <1>4, <1>5, <1>7, <1>8 DEF LogOK, more

LEMMA SeenFinite ==
    ASSUME NEW log \in Seq(SseEvents)
    PROVE  IsFiniteSet(At(log, "start")) /\ Seen(log) \in Nat
  <1>1. At(log, "start") \subseteq 1 .. Len(log) /\ Len(log) \in Nat
    <2>1. DOMAIN log = 1 .. Len(log) /\ Len(log) \in Nat OBVIOUS
    <2> QED BY <2>1 DEF At
  <1>2. IsFiniteSet(1 .. Len(log)) BY <1>1, FS_Interval
  <1>3. IsFiniteSet(At(log, "start")) BY <1>1, <1>2, FS_Subset
  <1> QED BY <1>3, FS_CardinalityType DEF Seen

LEMMA LogStart ==
    ASSUME NEW log, NEW x \in SseEvents, LogOK(log), x.e = "start", x.i = Seen(log) + 1
    PROVE  /\ LogOK(Append(log, x)) /\ Seen(Append(log, x)) = Seen(log) + 1
           /\ Open(Append(log, x)) = Open(log) \cup {Seen(log) + 1}
           /\ Overlaps(log) => Overlaps(Append(log, x))
           /\ Open(log) # {} => Overlaps(Append(log, x))
  <1> DEFINE more == Append(log, x)
             m == Len(log) + 1
  <1>1. log \in Seq(SseEvents) /\ Seen(log) \in Nat /\ StartsOK(log, Seen(log)) BY DEF LogOK
  <1>2. /\ more \in Seq(SseEvents) /\ m \in Nat /\ more[m] = x
        /\ DOMAIN log = 1 .. Len(log) /\ DOMAIN more = (1 .. Len(log)) \cup {m}
        /\ \A j \in 1 .. Len(log) : more[j] = log[j] /\ j < m
        /\ \A e : At(more, e) = IF x.e = e THEN At(log, e) \cup {m} ELSE At(log, e)
        /\ \A e, b : Of(more, e, b) = IF x.e = e /\ x.i = b THEN Of(log, e, b) \cup {m} ELSE Of(log, e, b)
        /\ \A e : At(log, e) \subseteq 1 .. Len(log)
        /\ \A e, b : Of(log, e, b) \subseteq At(log, e)
    BY <1>1, LogAppend
  <1>n. m \notin 1 .. Len(log)
    <2>1. \A j \in 1 .. Len(log) : j # m BY <1>2
    <2> QED BY <2>1
  <1> HIDE DEF more, m
  <1> DEFINE n == Seen(log)
  <1>3. n \in Nat /\ n + 1 \in Nat /\ 1 .. n + 1 = (1 .. n) \cup {n + 1} /\ n + 1 \notin 1 .. n BY <1>1
  <1>4. At(more, "start") = At(log, "start") \cup {m} /\ At(more, "stop") = At(log, "stop")
        /\ \A b : Of(more, "stop", b) = Of(log, "stop", b)
    BY <1>2
  <1>5. Seen(more) = n + 1
    <2>1. m \notin At(log, "start") BY <1>2, <1>n
    <2>2. IsFiniteSet(At(log, "start")) BY <1>1, SeenFinite
    <2>3. Cardinality(At(log, "start") \cup {m}) = Cardinality(At(log, "start")) + 1 BY <2>1, <2>2, FS_AddElement
    <2> QED BY <1>4, <2>3 DEF Seen
  <1>6. \A j \in At(log, "start") \cup At(log, "stop") : log[j].i \in 1 .. n /\ more[j] = log[j] BY <1>1, <1>2 DEF StartsOK
  <1>7. Of(log, "stop", n + 1) = {} /\ Of(log, "start", n + 1) = {} BY <1>3, <1>6 DEF Of
  <1> HIDE DEF n
  <1>8. StartsOK(more, n + 1)
    <2>1. \A j \in At(more, "start") \cup At(more, "stop") : more[j].i \in 1 .. n + 1
      BY <1>2, <1>3, <1>4, <1>6 DEF n
    <2>2. ASSUME NEW b \in 1 .. n + 1 PROVE \E s \in DOMAIN more : Of(more, "start", b) = {s}
      <3>1. CASE b = n + 1
        <4>1. Of(more, "start", b) = {m} BY <1>2, <1>7, <3>1 DEF n
        <4> QED BY <1>2, <4>1
      <3>2. CASE b # n + 1
        <4>1. b \in 1 .. n BY <1>3, <3>2
        <4>2. PICK s \in DOMAIN log : Of(log, "start", b) = {s} BY <1>1, <4>1 DEF StartsOK, n
        <4>3. Of(more, "start", b) = {s} BY <1>2, <3>2, <4>2 DEF n
        <4> QED BY <1>2, <4>2, <4>3
      <3> QED BY <3>1, <3>2
    <2> QED BY <2>1, <2>2 DEF StartsOK
  <1>9. Open(more) = Open(log) \cup {n + 1} BY <1>3, <1>4, <1>5, <1>7 DEF Open, n
  <1>10. Overlaps(log) => Overlaps(more) BY <1>4, <1>6 DEF Overlaps
  <1>11. ASSUME NEW b \in Open(log) PROVE Overlaps(more)
    <2>1. b \in 1 .. n /\ Of(more, "stop", b) = {} BY <1>4 DEF Open, n
    <2>2. m \in At(more, "start") /\ b \in 1 .. more[m].i - 1
      <3>1. more[m].i = n + 1 BY <1>2 DEF n
      <3>2. (n + 1) - 1 = n BY <1>3
      <3> QED BY <1>4, <2>1, <3>1, <3>2
    <2> QED BY <2>1, <2>2 DEF Overlaps
  <1>12. LogOK(more) BY <1>2, <1>3, <1>5, <1>8 DEF LogOK
  <1> QED BY <1>5, <1>9, <1>10, <1>11, <1>12 DEF more, n

LEMMA LogStop ==
    ASSUME NEW log, NEW x \in SseEvents, LogOK(log), x.e = "stop", x.i \in Open(log)
    PROVE  /\ LogOK(Append(log, x)) /\ Seen(Append(log, x)) = Seen(log)
           /\ Open(Append(log, x)) = Open(log) \ {x.i}
           /\ Overlaps(log) => Overlaps(Append(log, x))
           /\ Overlaps(log) \/ Open(log) \subseteq {x.i}
  <1> DEFINE more == Append(log, x)
             m == Len(log) + 1
  <1>1. log \in Seq(SseEvents) /\ Seen(log) \in Nat /\ StartsOK(log, Seen(log)) BY DEF LogOK
  <1>2. /\ more \in Seq(SseEvents) /\ m \in Nat /\ more[m] = x
        /\ DOMAIN log = 1 .. Len(log) /\ DOMAIN more = (1 .. Len(log)) \cup {m}
        /\ \A j \in 1 .. Len(log) : more[j] = log[j] /\ j < m
        /\ \A e : At(more, e) = IF x.e = e THEN At(log, e) \cup {m} ELSE At(log, e)
        /\ \A e, b : Of(more, e, b) = IF x.e = e /\ x.i = b THEN Of(log, e, b) \cup {m} ELSE Of(log, e, b)
        /\ \A e : At(log, e) \subseteq 1 .. Len(log)
        /\ \A e, b : Of(log, e, b) \subseteq At(log, e)
    BY <1>1, LogAppend
  <1> HIDE DEF more, m
  <1> DEFINE n == Seen(log)
  <1>3. x.i \in 1 .. n /\ Of(log, "stop", x.i) = {} BY DEF Open
  <1>4. At(more, "start") = At(log, "start") /\ At(more, "stop") = At(log, "stop") \cup {m}
        /\ (\A b : Of(more, "start", b) = Of(log, "start", b))
        /\ (\A b : Of(more, "stop", b) = IF b = x.i THEN {m} ELSE Of(log, "stop", b))
    BY <1>2, <1>3
  <1>5. Seen(more) = n BY <1>4 DEF Seen
  <1>6. \A j \in At(log, "start") \cup At(log, "stop") : log[j].i \in 1 .. n /\ more[j] = log[j] BY <1>1, <1>2 DEF StartsOK
  <1>7. StartsOK(more, n)
    <2>1. \A j \in At(more, "start") \cup At(more, "stop") : more[j].i \in 1 .. n BY <1>2, <1>3, <1>4, <1>6
    <2>2. \A b \in 1 .. n : \E s \in DOMAIN more : Of(more, "start", b) = {s} BY <1>1, <1>2, <1>4 DEF StartsOK
    <2> QED BY <2>1, <2>2 DEF StartsOK
  <1>8. Open(more) = Open(log) \ {x.i} BY <1>4, <1>5 DEF Open
  <1>9. Overlaps(log) => Overlaps(more)
    <2>1. SUFFICES ASSUME Overlaps(log) PROVE Overlaps(more) OBVIOUS
    <2>2. PICK j \in At(log, "start") : \E i \in 1 .. log[j].i - 1 : \A k \in Of(log, "stop", i) : j < k
      BY <2>1 DEF Overlaps
    <2>3. PICK i \in 1 .. log[j].i - 1 : \A k \in Of(log, "stop", i) : j < k BY <2>2
    <2>4. j < m BY <1>2
    <2>5. \A k \in Of(more, "stop", i) : j < k BY <1>4, <2>3, <2>4
    <2> QED BY <1>4, <1>6, <2>5 DEF Overlaps
  <1>10. ASSUME NEW b \in Open(log), b # x.i PROVE Overlaps(log)
    <2>1. \A a, d \in Open(log) : a < d => Overlaps(log)
      <3> SUFFICES ASSUME NEW a \in Open(log), NEW d \in Open(log), a < d PROVE Overlaps(log) OBVIOUS
      <3>1. a \in 1 .. n /\ d \in 1 .. n /\ Of(log, "stop", a) = {} BY DEF Open
      <3>2. PICK s \in DOMAIN log : Of(log, "start", d) = {s} BY <1>1, <3>1 DEF StartsOK
      <3>3. s \in At(log, "start") /\ log[s].i = d BY <3>2 DEF Of
      <3>4. a \in 1 .. d - 1 BY <1>1, <3>1
      <3> QED BY <3>1, <3>3, <3>4 DEF Overlaps
    <2>2. b \in 1 .. n /\ x.i \in 1 .. n /\ n \in Nat BY <1>1 DEF Open
    <2>3. b < x.i \/ x.i < b BY <1>10, <2>2
    <2> QED BY <2>1, <2>3
  <1>11. LogOK(more) BY <1>1, <1>2, <1>5, <1>7 DEF LogOK
  <1> QED BY <1>5, <1>8, <1>9, <1>10, <1>11 DEF more

-----------------------------------------------------------------------------
(* The end of a response, and thinking that comes aside.                    *)

(* A response that is over: its last event says how it ended. *)
RespEnd(c, D, n) ==
    /\ c \in RespRecord(D) /\ c.over /\ n \in Nat /\ D \subseteq 1 .. n /\ c.next \in 1 .. n + 2
    /\ PlacesOK(c.out, c.next, PlacesOf(c.output), Len(c.output), {Len(c.out)})
    /\ Len(c.out) \in DOMAIN c.out /\ c.out[Len(c.out)].at = 0
    /\ c.out[Len(c.out)].r # "failed" => Len(c.output) = c.next - 1

LEMMA ConcludesIs ==
    ASSUME NEW c, NEW D, NEW n, NEW a \in {0, 1}, RespIs(c, D, n, a), NEW kind \in FinalKinds, kind # "failed" => D = {}
    PROVE  RespEnd(Concludes(c, kind), D, n) /\ Concludes(c, kind).output = c.output /\ Concludes(c, kind).over = TRUE
  <1>1. c \in RespRecord(D) /\ ~c.over /\ Listed(c.out, c.next, c.output)
        /\ PlacesHeld(D, Ats(c.blocks), n, c.next, PlacesOf(c.output), Len(c.output), a)
    BY DEF RespIs
  <1>2. PICK ats, free, fin, len : ats = Ats(c.blocks) /\ free = c.next /\ fin = PlacesOf(c.output) /\ len = Len(c.output)
    OBVIOUS
  <1>3. PlacesHeld(D, ats, n, free, fin, len, a) BY <1>1, <1>2
  <1>4. n \in Nat /\ D \in SUBSET (1 .. n) /\ free \in Nat \ {0} /\ len \in Nat BY <1>3 DEF PlacesHeld
  <1>5. free \in 1 .. n + 2
    <2>1. Cardinality(UnplacedIn(D, ats)) \in Nat BY <1>4, HeldCounts
    <2>2. free + Cardinality(UnplacedIn(D, ats)) <= 1 + n + a BY <1>3 DEF PlacesHeld
    <2>3. a = 0 \/ a = 1 OBVIOUS
    <2> QED BY <1>4, <2>1, <2>2, <2>3
  <1>6. D = {} => len = free - 1
    <2>1. SUFFICES ASSUME D = {} PROVE len = free - 1 OBVIOUS
    <2>2. LiveIn(D, ats) = {} BY <2>1 DEF LiveIn
    <2>3. Cardinality(LiveIn(D, ats)) = 0 BY <2>2, FS_EmptySet
    <2> QED BY <1>3, <1>4, <2>3 DEF PlacesHeld
  <1>7. PICK e : e = [c EXCEPT !.over = TRUE] OBVIOUS
  <1>8. e \in RespRecord(D) /\ e.out = c.out /\ e.blocks = c.blocks /\ e.next = c.next /\ e.output = c.output
        /\ e.over = TRUE
    BY <1>1, <1>7 DEF RespRecord
  <1>9. PICK d \in RespRecord(D), x \in ItemEvents :
           d = Sends(e, kind, 0, << >>) /\ x.r = kind /\ x.at = 0 /\ EventSent(e, d, x)
    <2>1. kind \in EventKinds /\ 0 \in Nat /\ << >> \in Seq(Nat) BY EmptySeq DEF FinalKinds, EventKinds
    <2>2. PICK place \in Nat, s \in Seq(Nat) : place = 0 /\ s = << >> BY <2>1
    <2>3. SentFrom(D, e, kind, place, s) BY <1>8, <2>1, SendsIs
    <2> QED BY <2>2, <2>3 DEF SentFrom
  <1>10. d = Concludes(c, kind) BY <1>7, <1>9 DEF Concludes
  <1>11. d.out = Append(c.out, x) /\ d.next = free /\ d.output = c.output /\ d.over = TRUE
    BY <1>2, <1>8, <1>9 DEF EventSent
  <1>12. PICK out : out = c.out OBVIOUS
  <1>13. PlacesOK(out, free, fin, len, {}) BY <1>1, <1>2, <1>12 DEF Listed
  <1>14. /\ PlacesOK(Append(out, x), free, fin, len, {Len(out) + 1})
         /\ Len(Append(out, x)) = Len(out) + 1 /\ Append(out, x)[Len(out) + 1] = x
         /\ Len(out) + 1 \in DOMAIN Append(out, x)
    <2>1. x.r \notin {"added", "done"} /\ x.r \in FinalKinds /\ x.at \in (0 .. free - 1) \ fin
      <3>1. fin \subseteq 1 .. free - 1 BY <1>13 DEF PlacesOK, ItemsOK
      <3>2. 0 \notin fin BY <1>4, <3>1
      <3> QED BY <1>4, <1>9, <3>2 DEF FinalKinds
    <2>2. PlacesOK(Append(out, x), free, fin, len, IF x.r \in FinalKinds THEN {Len(out) + 1} ELSE {})
      BY <1>13, <2>1, PlacesTold
    <2>3. out \in Seq(ItemEvents) BY <1>13 DEF PlacesOK
    <2> QED BY <2>1, <2>2, <2>3, AppendProperties
  <1>15. RespEnd(d, D, n)
    <2>1. d.out = Append(out, x) /\ Len(d.out) = Len(out) + 1 /\ d.out[Len(d.out)] = x /\ Len(d.out) \in DOMAIN d.out
      BY <1>11, <1>12, <1>14
    <2>2. PlacesOK(d.out, d.next, PlacesOf(d.output), Len(d.output), {Len(d.out)}) BY <1>2, <1>11, <1>14, <2>1
    <2>3. x.r # "failed" => Len(d.output) = d.next - 1 BY <1>2, <1>6, <1>9, <1>11
    <2> QED BY <1>4, <1>5, <1>9, <1>11, <2>1, <2>2, <2>3 DEF RespEnd
  <1> QED BY <1>10, <1>11, <1>15

LEMMA AsideStep ==
    ASSUME NEW c, NEW D, NEW n, NEW a \in {0, 1}, RespIs(c, D, n, a), NEW ev, ev.aside \in Nat,
           ev.aside # 0 => a = 0
    PROVE  \E d : /\ d = Aside(c, ev) /\ RespIs(d, D, n, IF ev.aside = 0 THEN a ELSE 1)
                  /\ ItemsInOrder(c.output) /\ (ev.aside = 0 \/ D = {}) => ItemsInOrder(d.output)
  <1>1. CASE ev.aside = 0
    <2>1. Aside(c, ev) = c BY <1>1 DEF Aside
    <2> QED BY <1>1, <2>1
  <1>2. CASE ev.aside # 0
    <2>1. a = 0 BY <1>2
    <2>2. RespIs(c, D, n, 0) BY <2>1
    <2>3. PICK d : /\ d = Aside(c, ev) /\ RespIs(d, D, n, IF ev.aside = 0 THEN 0 ELSE 1)
                   /\ ItemsInOrder(c.output) /\ D = {} => ItemsInOrder(d.output)
      BY <2>2, AsideIs
    <2> QED BY <1>2, <2>3
  <1> QED BY <1>1, <1>2

-----------------------------------------------------------------------------
(* What the guard of a received event says of the blocks that are open.     *)

(* What the guards of Receive say of the blocks that are open. *)
LEMMA StoppedByEnd ==
    ASSUME NEW log, LogOK(log), InProtocol(log), At(log, "message_delta") # {}
    PROVE  Open(log) = {}
  <1>1. \A j \in At(log, "start") : Of(log, "stop", log[j].i) # {} BY DEF InProtocol
  <1>2. ASSUME NEW b \in Open(log) PROVE FALSE
    <2>1. b \in 1 .. Seen(log) /\ Of(log, "stop", b) = {} BY DEF Open
    <2>2. PICK s \in DOMAIN log : Of(log, "start", b) = {s} BY <2>1 DEF LogOK, StartsOK
    <2>3. s \in At(log, "start") /\ log[s].i = b BY <2>2 DEF Of
    <2> QED BY <1>1, <2>1, <2>3
  <1> QED BY <1>2

LEMMA LastIs ==
    ASSUME NEW S, NEW log \in Seq(S), NEW x \in S
    PROVE  Append(log, x) # << >> /\ Last(Append(log, x)) = x /\ Append(log, x) \in Seq(S)
  <1>1. Append(log, x) \in Seq(S) /\ Len(Append(log, x)) = Len(log) + 1 /\ Append(log, x)[Len(log) + 1] = x
    BY AppendProperties
  <1>2. Append(log, x) # << >> BY <1>1
  <1> QED BY <1>1, <1>2 DEF Last

LEMMA AllStopped ==
    ASSUME NEW log, NEW x \in SseEvents, LogOK(log), Allowed(Append(log, x)),
           x.e = "message_delta" \/ (x.e = "message_stop" /\ Ending(log))
    PROVE  Open(log) = {}
  <1>1. log \in Seq(SseEvents) BY DEF LogOK
  <1>2. PICK more \in Seq(SseEvents) : more = Append(log, x) BY <1>1, LastIs
  <1>3. LogOK(more) /\ Open(more) = Open(log) BY <1>2, LogPlain
  <1>4. more # << >> /\ Last(more) = x BY <1>1, <1>2, LastIs
  <1>5. CASE x.e = "message_delta"
    <2>1. Ending(more) BY <1>4, <1>5 DEF Ending
    <2>2. PICK y \in SseEvents : y = SseEvent("message_stop", 0, "none", << >>, 0) /\ y.e = "message_stop"
      <3>1. << >> \in Seq(Nat) BY EmptySeq
      <3>2. SseEvent("message_stop", 0, "none", << >>, 0) \in SseEvents
        BY <3>1 DEF SseEvent, SseEvents, SseKinds, EndReasons
      <3> QED BY <3>2 DEF SseEvent
    <2>3. InProtocol(Append(more, y)) BY <1>2, <2>1, <2>2 DEF Allowed
    <2>4. LogOK(Append(more, y)) /\ Open(Append(more, y)) = Open(more) BY <1>3, <2>2, LogPlain
    <2>5. At(Append(more, y), "message_delta") # {}
      <3>1. \A e : At(more, e) = IF x.e = e THEN At(log, e) \cup {Len(log) + 1} ELSE At(log, e)
        BY <1>1, <1>2, LogAppend
      <3>2. \A e : At(Append(more, y), e) = IF y.e = e THEN At(more, e) \cup {Len(more) + 1} ELSE At(more, e)
        BY LogAppend
      <3> QED BY <1>5, <2>2, <3>1, <3>2
    <2>6. PICK most : most = Append(more, y) OBVIOUS
    <2>7. Open(most) = {} BY <2>3, <2>4, <2>5, <2>6, StoppedByEnd
    <2> QED BY <1>3, <2>4, <2>6, <2>7
  <1>6. CASE x.e = "message_stop" /\ Ending(log)
    <2>1. ~Ending(more) BY <1>4, <1>6 DEF Ending
    <2>2. InProtocol(more) BY <1>2, <2>1 DEF Allowed
    <2>3. Len(log) \in At(log, "message_delta")
      <3>1. log # << >> /\ log[Len(log)].e = "message_delta" BY <1>6 DEF Ending, Last
      <3>2. Len(log) \in DOMAIN log BY <1>1, <3>1
      <3> QED BY <3>1, <3>2 DEF At
    <2>4. At(more, "message_delta") = At(log, "message_delta") BY <1>1, <1>2, <1>6, AtAppend
    <2> QED BY <1>3, <2>2, <2>3, <2>4, StoppedByEnd
  <1> QED BY <1>5, <1>6

LEMMA OpenIfAllowed ==
    ASSUME NEW log, NEW x \in SseEvents, LogOK(log), Allowed(Append(log, x)),
           x.e \in {"delta", "stop"}, x.i \in 1 .. Seen(log)
    PROVE  x.i \in Open(log)
  <1>1. log \in Seq(SseEvents) BY DEF LogOK
  <1>2. PICK more \in Seq(SseEvents) : more = Append(log, x) BY <1>1, LastIs
  <1>3. InProtocol(more)
    <2>1. ~Ending(more) BY <1>1, <1>2, LastIs DEF Ending
    <2> QED BY <1>2, <2>1 DEF Allowed
  <1>4. PICK m \in Nat :
           /\ m = Len(log) + 1 /\ more[m] = x
           /\ (\A j \in 1 .. Len(log) : more[j] = log[j] /\ j < m /\ j \in Nat)
           /\ (\A e : At(more, e) = IF x.e = e THEN At(log, e) \cup {m} ELSE At(log, e))
           /\ (\A e, b : Of(more, e, b) = IF x.e = e /\ x.i = b THEN Of(log, e, b) \cup {m} ELSE Of(log, e, b))
           /\ (\A e : At(log, e) \subseteq 1 .. Len(log))
           /\ (\A e, b : Of(log, e, b) \subseteq At(log, e))
    BY <1>1, <1>2, LogAppend
  <1>5. PICK s \in DOMAIN log : Of(log, "start", x.i) = {s} BY DEF LogOK, StartsOK
  <1>6. s \in At(more, "start") /\ more[s].i = x.i
    <2>1. s \in At(log, "start") /\ log[s].i = x.i BY <1>5 DEF Of
    <2> QED BY <1>4, <2>1
  <1>7. BlockInOrder(more, x.i) BY <1>3, <1>6 DEF InProtocol
  <1>8. CASE x.e = "delta"
    <2>1. m \in Of(more, "delta", x.i) /\ Of(more, "stop", x.i) = Of(log, "stop", x.i) BY <1>4, <1>8
    <2>2. \A k \in Of(log, "stop", x.i) : m < k BY <1>7, <2>1 DEF BlockInOrder
    <2>3. \A k \in Of(log, "stop", x.i) : k < m /\ k \in Nat BY <1>4
    <2>4. Of(log, "stop", x.i) = {} BY <2>2, <2>3
    <2> QED BY <2>4 DEF Open
  <1>9. CASE x.e = "stop"
    <2>1. Of(more, "stop", x.i) = Of(log, "stop", x.i) \cup {m} BY <1>4, <1>9
    <2>2. PICK T : T = Of(log, "stop", x.i) OBVIOUS
    <2>3. T \subseteq 1 .. Len(log) /\ Len(log) \in Nat BY <1>1, <1>4, <2>2
    <2>4. IsFiniteSet(T) /\ m \notin T
      <3>1. IsFiniteSet(1 .. Len(log)) BY <2>3, FS_Interval
      <3>2. m \notin 1 .. Len(log) BY <1>4, <2>3
      <3> QED BY <2>3, <3>1, <3>2, FS_Subset
    <2>5. Cardinality(T \cup {m}) = Cardinality(T) + 1 /\ Cardinality(T) \in Nat BY <2>4, FS_AddElement, FS_CardinalityType
    <2>6. Cardinality(T \cup {m}) <= 1 BY <1>7, <2>1, <2>2 DEF BlockInOrder
    <2>7. Cardinality(T) = 0 BY <2>5, <2>6
    <2>8. T = {} BY <2>4, <2>7, FS_EmptySet
    <2> QED BY <2>2, <2>8 DEF Open
  <1> QED BY <1>8, <1>9

-----------------------------------------------------------------------------
(* Chat completions: chunks, and the calls they number.                     *)

(***************************************************************************)
(* The chunks of a chat completion.                                        *)
(***************************************************************************)
ChunkKinds == {"role", "call", "text", "args", "error", "finish", "done"}
ChunkEnds == {"error", "finish", "done"}
FinishReasons == {"content_filter", "tool_calls", "length", "stop"}
PieceText == Seq(Nat) \cup Seq(CalledAs) \cup Seq(FinishReasons)
ChatPieces == [c : ChunkKinds, n : Nat, s : PieceText]
ChatRecord == [out : Seq(ChatPieces), calls : Seq(Nat), reason : EndReasons, over : BOOLEAN]

ChunksIn(out, kind) == {j \in DOMAIN out : out[j].c = kind}

(* The calls are numbered as they come, and filled after they are named. *)
CallsOK(out, len) ==
    LET call == ChunksIn(out, "call")
    IN  /\ Cardinality(call) = len
        /\ \A j \in call : out[j].n = Cardinality({k \in call : k <= j})
        /\ \A n \in 1 .. len : \E k \in call : out[k].n = n
        /\ \A j \in ChunksIn(out, "args") : \E k \in call : k < j /\ out[k].n = out[j].n

RoleOK(out, begun) ==
    /\ ChunksIn(out, "role") = IF begun THEN {1} ELSE {}
    /\ ~begun => ChunksIn(out, "call") \cup ChunksIn(out, "text") = {}

NoEnd(out) == \A kind \in ChunkEnds : ChunksIn(out, kind) = {}

EndOK(out) ==
    \/ ChunksIn(out, "error") = {Len(out)} /\ ChunksIn(out, "finish") \cup ChunksIn(out, "done") = {}
    \/ /\ ChunksIn(out, "finish") = {Len(out) - 1} /\ ChunksIn(out, "done") = {Len(out)}
       /\ ChunksIn(out, "error") = {}

LEMMA ChunksAppend ==
    ASSUME NEW out \in Seq(ChatPieces), NEW x \in ChatPieces
    PROVE  LET more == Append(out, x)
               m == Len(out) + 1
           IN  /\ more \in Seq(ChatPieces) /\ m \in Nat /\ Len(more) = m /\ more[m] = x
               /\ \A j \in DOMAIN out : more[j] = out[j] /\ j < m /\ j \in Nat
               /\ \A kind : ChunksIn(more, kind) = IF x.c = kind THEN ChunksIn(out, kind) \cup {m} ELSE ChunksIn(out, kind)
               /\ \A kind : ChunksIn(out, kind) \subseteq DOMAIN out /\ IsFiniteSet(ChunksIn(out, kind))
               /\ m \notin DOMAIN out
  <1> DEFINE more == Append(out, x)
             m == Len(out) + 1
  <1>1. /\ more \in Seq(ChatPieces) /\ m \in Nat /\ Len(more) = m /\ more[m] = x
        /\ \A j \in 1 .. Len(out) : more[j] = out[j]
    BY AppendProperties
  <1>2. DOMAIN out = 1 .. Len(out) /\ Len(out) \in Nat OBVIOUS
  <1>3. DOMAIN more = 1 .. m /\ 1 .. m = (1 .. Len(out)) \cup {m} BY <1>1, <1>2
  <1>4. \A j \in 1 .. Len(out) : j < m /\ j # m /\ j \in Nat OBVIOUS
  <1>5. DOMAIN more = (DOMAIN out) \cup {m} /\ \A j \in DOMAIN out : more[j] = out[j] /\ j < m /\ j # m /\ j \in Nat
    BY <1>1, <1>2, <1>3, <1>4
  <1>6. IsFiniteSet(DOMAIN out) BY <1>2, FS_Interval
  <1> HIDE DEF more, m
  <1>7. \A kind : ChunksIn(more, kind) = IF x.c = kind THEN ChunksIn(out, kind) \cup {m} ELSE ChunksIn(out, kind)
    BY <1>1, <1>5 DEF ChunksIn
  <1>8. \A kind : ChunksIn(out, kind) \subseteq DOMAIN out BY DEF ChunksIn
  <1>9. \A kind : IsFiniteSet(ChunksIn(out, kind)) BY <1>6, <1>8, FS_Subset
  <1> QED BY <1>1, <1>5, <1>7, <1>8, <1>9 DEF more, m

(* A chunk that starts no call. *)
LEMMA CallsTold ==
    ASSUME NEW out \in Seq(ChatPieces), NEW len \in Nat, CallsOK(out, len), NEW x \in ChatPieces, x.c # "call",
           x.c = "args" => x.n \in 1 .. len
    PROVE  CallsOK(Append(out, x), len)
  <1> DEFINE more == Append(out, x)
             m == Len(out) + 1
             call == ChunksIn(out, "call")
  <1>1. /\ more[m] = x
        /\ \A j \in DOMAIN out : more[j] = out[j] /\ j < m /\ j \in Nat
        /\ \A kind : ChunksIn(more, kind) = IF x.c = kind THEN ChunksIn(out, kind) \cup {m} ELSE ChunksIn(out, kind)
        /\ \A kind : ChunksIn(out, kind) \subseteq DOMAIN out
    BY ChunksAppend
  <1>2. /\ Cardinality(call) = len
        /\ \A j \in call : out[j].n = Cardinality({k \in call : k <= j})
        /\ \A n \in 1 .. len : \E k \in call : out[k].n = n
        /\ \A j \in ChunksIn(out, "args") : \E k \in call : k < j /\ out[k].n = out[j].n
    BY DEF CallsOK
  <1> HIDE DEF more, m
  <1>3. ChunksIn(more, "call") = call BY <1>1
  <1>4. \A j \in call : more[j] = out[j] /\ j < m BY <1>1
  <1> HIDE DEF call
  <1>5. \A j \in call : more[j].n = Cardinality({k \in call : k <= j}) BY <1>2, <1>4
  <1>6. \A n \in 1 .. len : \E k \in call : more[k].n = n BY <1>2, <1>4
  <1>7. ASSUME NEW j \in ChunksIn(more, "args") PROVE \E k \in call : k < j /\ more[k].n = more[j].n
    <2>1. CASE j \in ChunksIn(out, "args")
      <3>1. more[j] = out[j] BY <1>1, <2>1
      <3> QED BY <1>2, <1>4, <2>1, <3>1
    <2>2. CASE j = m /\ x.c = "args"
      <3>1. PICK k \in call : out[k].n = x.n BY <1>2, <2>2
      <3> QED BY <1>1, <1>4, <2>2, <3>1
    <2> QED BY <1>1, <2>1, <2>2
  <1>8. CallsOK(more, len) BY <1>2, <1>3, <1>5, <1>6, <1>7 DEF CallsOK
  <1> QED BY <1>8 DEF more

(* A chunk that starts a call. *)
LEMMA CallsStarted ==
    ASSUME NEW out \in Seq(ChatPieces), NEW len \in Nat, CallsOK(out, len), NEW x \in ChatPieces, x.c = "call",
           x.n = len + 1
    PROVE  CallsOK(Append(out, x), len + 1)
  <1> DEFINE more == Append(out, x)
             m == Len(out) + 1
             call == ChunksIn(out, "call")
  <1>1. /\ more[m] = x /\ m \in Nat
        /\ \A j \in DOMAIN out : more[j] = out[j] /\ j < m /\ j \in Nat
        /\ \A kind : ChunksIn(more, kind) = IF x.c = kind THEN ChunksIn(out, kind) \cup {m} ELSE ChunksIn(out, kind)
        /\ \A kind : ChunksIn(out, kind) \subseteq DOMAIN out /\ IsFiniteSet(ChunksIn(out, kind))
        /\ m \notin DOMAIN out
    BY ChunksAppend
  <1>2. /\ Cardinality(call) = len
        /\ \A j \in call : out[j].n = Cardinality({k \in call : k <= j})
        /\ \A n \in 1 .. len : \E k \in call : out[k].n = n
        /\ \A j \in ChunksIn(out, "args") : \E k \in call : k < j /\ out[k].n = out[j].n
    BY DEF CallsOK
  <1> HIDE DEF more, m
  <1>3. ChunksIn(more, "call") = call \cup {m} /\ ChunksIn(more, "args") = ChunksIn(out, "args") BY <1>1
  <1>4. (\A j \in call : more[j] = out[j] /\ j < m /\ j \in Nat) /\ IsFiniteSet(call) /\ m \notin call BY <1>1
  <1>a. \A j \in ChunksIn(out, "args") : more[j] = out[j] BY <1>1
  <1> HIDE DEF call
  <1>5. Cardinality(call \cup {m}) = len + 1 BY <1>2, <1>4, FS_AddElement
  <1>6. ASSUME NEW j \in call \cup {m} PROVE more[j].n = Cardinality({k \in call \cup {m} : k <= j})
    <2>1. CASE j \in call
      <3>1. {k \in call \cup {m} : k <= j} = {k \in call : k <= j} BY <1>1, <1>4, <2>1
      <3> QED BY <1>2, <1>4, <2>1, <3>1
    <2>2. CASE j = m
      <3>1. {k \in call \cup {m} : k <= j} = call \cup {m} BY <1>1, <1>4, <2>2
      <3> QED BY <1>1, <1>5, <2>2, <3>1
    <2> QED BY <2>1, <2>2
  <1>7. ASSUME NEW n \in 1 .. len + 1 PROVE \E k \in call \cup {m} : more[k].n = n
    <2>1. CASE n \in 1 .. len BY <1>2, <1>4, <2>1
    <2>2. CASE n = len + 1 BY <1>1, <2>2
    <2> QED BY <2>1, <2>2
  <1>8. \A j \in ChunksIn(out, "args") : \E k \in call \cup {m} : k < j /\ more[k].n = more[j].n BY <1>2, <1>4, <1>a
  <1>9. CallsOK(more, len + 1) BY <1>3, <1>5, <1>6, <1>7, <1>8 DEF CallsOK
  <1> QED BY <1>9 DEF more

-----------------------------------------------------------------------------
(* What the functions of the chat context return. *)
ChunkFrom(c, d, kind, n, s) ==
    \E x \in ChatPieces : /\ x.c = kind /\ x.n = n /\ d \in ChatRecord /\ d.out = Append(c.out, x)
                          /\ d.calls = c.calls /\ d.reason = c.reason /\ d.over = c.over

LEMMA ChunkIs ==
    ASSUME NEW c \in ChatRecord, NEW kind \in ChunkKinds, NEW n \in Nat, NEW s \in PieceText
    PROVE  ChunkFrom(c, Chunk(c, kind, n, s), kind, n, s)
  <1>1. PICK x \in ChatPieces : x = [c |-> kind, n |-> n, s |-> s] /\ x.c = kind /\ x.n = n
    <2>1. [c |-> kind, n |-> n, s |-> s] \in ChatPieces BY DEF ChatPieces
    <2> QED BY <2>1
  <1>2. c.out \in Seq(ChatPieces) BY DEF ChatRecord
  <1>3. PICK o \in Seq(ChatPieces) : o = Append(c.out, x) BY <1>2, AppendProperties
  <1>4. PICK d : d = [c EXCEPT !.out = o] OBVIOUS
  <1>5. d = Chunk(c, kind, n, s) BY <1>1, <1>3, <1>4 DEF Chunk
  <1>6. d \in ChatRecord BY <1>4 DEF ChatRecord
  <1>7. d.out = o /\ d.calls = c.calls /\ d.reason = c.reason /\ d.over = c.over BY <1>4 DEF ChatRecord
  <1> QED BY <1>1, <1>3, <1>5, <1>6, <1>7 DEF ChunkFrom

(* A chat that goes on, and one that is over; begun says that the message   *)
(* has started.                                                            *)
ChatIs(c, begun) ==
    /\ c \in ChatRecord /\ ~c.over /\ CallsOK(c.out, Len(c.calls)) /\ RoleOK(c.out, begun) /\ NoEnd(c.out)
    /\ ~begun => c.out = << >> /\ c.calls = << >>

ChatEnd(c, begun) ==
    c \in ChatRecord /\ c.over /\ CallsOK(c.out, Len(c.calls)) /\ RoleOK(c.out, begun) /\ EndOK(c.out)

LEMMA ChatBegins ==
    ASSUME NEW c, ChatIs(c, FALSE)
    PROVE  ChatIs(Chunk(c, "role", 0, << >>), TRUE) /\ Chunk(c, "role", 0, << >>).calls = << >>
  <1>1. c \in ChatRecord /\ c.out = << >> /\ c.calls = << >> /\ ~c.over /\ CallsOK(c.out, Len(c.calls)) BY DEF ChatIs
  <1>2. PICK d : d = Chunk(c, "role", 0, << >>) OBVIOUS
  <1>3. PICK x \in ChatPieces : x.c = "role" /\ d \in ChatRecord /\ d.out = Append(c.out, x) /\ d.calls = c.calls /\ d.over = c.over
    <2>1. PICK kind \in ChunkKinds, n \in Nat, s \in PieceText : kind = "role" /\ n = 0 /\ s = << >>
      BY EmptySeq DEF ChunkKinds, PieceText
    <2>2. ChunkFrom(c, Chunk(c, kind, n, s), kind, n, s) BY <1>1, ChunkIs
    <2> QED BY <1>2, <2>1, <2>2 DEF ChunkFrom
  <1>4. PICK out \in Seq(ChatPieces), len \in Nat : out = c.out /\ len = Len(c.calls) /\ len = 0
    <2>1. << >> \in Seq(ChatPieces) /\ Len(<< >>) = 0 BY EmptySeq
    <2> QED BY <1>1, <2>1
  <1>5. CallsOK(Append(out, x), len) BY <1>1, <1>3, <1>4, CallsTold
  <1>6. \A kind : ChunksIn(Append(out, x), kind) = IF kind = "role" THEN {1} ELSE {}
    <2>1. \A kind : ChunksIn(Append(out, x), kind)
                      = IF x.c = kind THEN ChunksIn(out, kind) \cup {Len(out) + 1} ELSE ChunksIn(out, kind)
      BY ChunksAppend
    <2>2. \A kind : ChunksIn(out, kind) = {} BY <1>1, <1>4 DEF ChunksIn
    <2>3. Len(out) + 1 = 1 BY <1>1, <1>4
    <2> QED BY <1>3, <2>1, <2>2, <2>3
  <1>7. RoleOK(Append(out, x), TRUE) /\ NoEnd(Append(out, x)) BY <1>6 DEF RoleOK, NoEnd, ChunkEnds
  <1>8. ChatIs(d, TRUE) BY <1>1, <1>3, <1>4, <1>5, <1>7 DEF ChatIs
  <1> QED BY <1>1, <1>2, <1>3, <1>8

(* A chunk of text, or one that fills a call. *)
LEMMA ChatTold ==
    ASSUME NEW c, ChatIs(c, TRUE), NEW kind \in {"text", "args"}, NEW n \in Nat, NEW s \in PieceText,
           kind = "args" => n \in 1 .. Len(c.calls)
    PROVE  ChatIs(Chunk(c, kind, n, s), TRUE) /\ Chunk(c, kind, n, s).calls = c.calls
  <1>1. c \in ChatRecord /\ ~c.over /\ CallsOK(c.out, Len(c.calls)) /\ RoleOK(c.out, TRUE) /\ NoEnd(c.out) BY DEF ChatIs
  <1>2. PICK d : d = Chunk(c, kind, n, s) OBVIOUS
  <1>3. PICK x \in ChatPieces : /\ x.c = kind /\ x.n = n /\ d \in ChatRecord /\ d.out = Append(c.out, x)
                                /\ d.calls = c.calls /\ d.over = c.over
    <2>1. kind \in ChunkKinds BY DEF ChunkKinds
    <2>2. ChunkFrom(c, Chunk(c, kind, n, s), kind, n, s) BY <1>1, <2>1, ChunkIs
    <2> QED BY <1>2, <2>2 DEF ChunkFrom
  <1>4. PICK out \in Seq(ChatPieces), len \in Nat : out = c.out /\ len = Len(c.calls) BY <1>1 DEF ChatRecord
  <1>5. CallsOK(Append(out, x), len)
    <2>1. CallsOK(out, len) /\ x.c # "call" /\ (x.c = "args" => x.n \in 1 .. len) BY <1>1, <1>3, <1>4
    <2> QED BY <2>1, CallsTold
  <1>6. \A k : ChunksIn(Append(out, x), k) = IF x.c = k THEN ChunksIn(out, k) \cup {Len(out) + 1} ELSE ChunksIn(out, k)
    BY ChunksAppend
  <1>7. RoleOK(Append(out, x), TRUE) /\ NoEnd(Append(out, x))
    <2>1. RoleOK(out, TRUE) /\ NoEnd(out) BY <1>1, <1>4
    <2> QED BY <1>3, <1>6, <2>1 DEF RoleOK, NoEnd, ChunkEnds
  <1>8. ChatIs(d, TRUE) BY <1>1, <1>3, <1>4, <1>5, <1>7 DEF ChatIs
  <1> QED BY <1>2, <1>3, <1>8

LEMMA ChatCalls ==
    ASSUME NEW c, ChatIs(c, TRUE), NEW i \in Nat, NEW s \in PieceText
    PROVE  LET d == Chunk([c EXCEPT !.calls = Append(@, i)], "call", Len(c.calls) + 1, s)
           IN  ChatIs(d, TRUE) /\ d.calls = Append(c.calls, i)
  <1>1. c \in ChatRecord /\ ~c.over /\ CallsOK(c.out, Len(c.calls)) /\ RoleOK(c.out, TRUE) /\ NoEnd(c.out) BY DEF ChatIs
  <1>2. PICK calls \in Seq(Nat), len \in Nat : calls = Append(c.calls, i) /\ len = Len(c.calls) /\ Len(calls) = len + 1
    <2>1. PICK f \in Seq(Nat) : f = c.calls BY <1>1 DEF ChatRecord
    <2>2. Append(f, i) \in Seq(Nat) /\ Len(Append(f, i)) = Len(f) + 1 /\ Len(f) \in Nat BY AppendProperties
    <2> QED BY <2>1, <2>2
  <1>3. PICK e : e = [c EXCEPT !.calls = calls] OBVIOUS
  <1>4. e \in ChatRecord /\ e.out = c.out /\ e.calls = calls /\ e.over = c.over BY <1>1, <1>3 DEF ChatRecord
  <1>5. PICK n \in Nat : n = len + 1 OBVIOUS
  <1>6. PICK d : d = Chunk(e, "call", n, s) OBVIOUS
  <1>7. PICK x \in ChatPieces : /\ x.c = "call" /\ x.n = n /\ d \in ChatRecord /\ d.out = Append(e.out, x)
                                /\ d.calls = e.calls /\ d.over = e.over
    <2>1. PICK kind \in ChunkKinds : kind = "call" BY DEF ChunkKinds
    <2>2. ChunkFrom(e, Chunk(e, kind, n, s), kind, n, s) BY <1>4, ChunkIs
    <2> QED BY <1>6, <2>1, <2>2 DEF ChunkFrom
  <1>8. PICK out \in Seq(ChatPieces) : out = c.out BY <1>1 DEF ChatRecord
  <1>9. CallsOK(Append(out, x), len + 1)
    <2>1. CallsOK(out, len) /\ x.c = "call" /\ x.n = len + 1 BY <1>1, <1>2, <1>5, <1>7, <1>8
    <2> QED BY <2>1, CallsStarted
  <1>10. \A k : ChunksIn(Append(out, x), k) = IF x.c = k THEN ChunksIn(out, k) \cup {Len(out) + 1} ELSE ChunksIn(out, k)
    BY ChunksAppend
  <1>11. RoleOK(Append(out, x), TRUE) /\ NoEnd(Append(out, x))
    <2>1. RoleOK(out, TRUE) /\ NoEnd(out) BY <1>1, <1>8
    <2> QED BY <1>7, <1>10, <2>1 DEF RoleOK, NoEnd, ChunkEnds
  <1>12. ChatIs(d, TRUE) BY <1>1, <1>2, <1>4, <1>7, <1>8, <1>9, <1>11 DEF ChatIs
  <1>13. d = Chunk([c EXCEPT !.calls = Append(@, i)], "call", Len(c.calls) + 1, s) BY <1>2, <1>3, <1>5, <1>6
  <1> QED BY <1>2, <1>4, <1>7, <1>12, <1>13

LEMMA ChatFailsIs ==
    ASSUME NEW c, NEW begun \in BOOLEAN, ChatIs(c, begun)
    PROVE  ChatEnd(ChatFails(c), begun) /\ ChatFails(c).calls = c.calls
  <1>1. c \in ChatRecord /\ CallsOK(c.out, Len(c.calls)) /\ RoleOK(c.out, begun) /\ NoEnd(c.out) BY DEF ChatIs
  <1>2. PICK e : e = [c EXCEPT !.over = TRUE] OBVIOUS
  <1>3. e \in ChatRecord /\ e.out = c.out /\ e.calls = c.calls /\ e.over = TRUE BY <1>1, <1>2 DEF ChatRecord
  <1>4. PICK d : d = ChatFails(c) OBVIOUS
  <1>5. PICK x \in ChatPieces : /\ x.c = "error" /\ d \in ChatRecord /\ d.out = Append(e.out, x)
                                /\ d.calls = e.calls /\ d.over = e.over
    <2>1. PICK kind \in ChunkKinds, n \in Nat, s \in PieceText : kind = "error" /\ n = 0 /\ s = << >>
      BY EmptySeq DEF ChunkKinds, PieceText
    <2>2. ChunkFrom(e, Chunk(e, kind, n, s), kind, n, s) BY <1>3, ChunkIs
    <2> QED BY <1>2, <1>4, <2>1, <2>2 DEF ChunkFrom, ChatFails
  <1>6. PICK out \in Seq(ChatPieces), len \in Nat : out = c.out /\ len = Len(c.calls) BY <1>1 DEF ChatRecord
  <1>7. CallsOK(Append(out, x), len)
    <2>1. CallsOK(out, len) /\ x.c # "call" /\ x.c # "args" BY <1>1, <1>5, <1>6
    <2> QED BY <2>1, CallsTold
  <1>8. /\ \A k : ChunksIn(Append(out, x), k) = IF x.c = k THEN ChunksIn(out, k) \cup {Len(out) + 1} ELSE ChunksIn(out, k)
        /\ Len(Append(out, x)) = Len(out) + 1
    BY ChunksAppend
  <1>9. RoleOK(out, begun) /\ NoEnd(out) BY <1>1, <1>6
  <1>10. RoleOK(Append(out, x), begun) BY <1>5, <1>8, <1>9 DEF RoleOK
  <1>11. EndOK(Append(out, x)) BY <1>5, <1>8, <1>9 DEF EndOK, NoEnd, ChunkEnds
  <1>12. ChatEnd(d, begun) BY <1>3, <1>5, <1>6, <1>7, <1>10, <1>11 DEF ChatEnd
  <1> QED BY <1>3, <1>4, <1>5, <1>12

LEMMA ChatFinishes ==
    ASSUME NEW c, ChatIs(c, TRUE), NEW s \in PieceText
    PROVE  LET d == [Chunk(Chunk(c, "finish", 0, s), "done", 0, << >>) EXCEPT !.over = TRUE]
           IN  ChatEnd(d, TRUE) /\ d.calls = c.calls
  <1>1. c \in ChatRecord /\ CallsOK(c.out, Len(c.calls)) /\ RoleOK(c.out, TRUE) /\ NoEnd(c.out) BY DEF ChatIs
  <1>2. PICK e : e = Chunk(c, "finish", 0, s) OBVIOUS
  <1>3. PICK x \in ChatPieces : x.c = "finish" /\ e \in ChatRecord /\ e.out = Append(c.out, x) /\ e.calls = c.calls
    <2>1. PICK kind \in ChunkKinds, n \in Nat : kind = "finish" /\ n = 0 BY DEF ChunkKinds
    <2>2. ChunkFrom(c, Chunk(c, kind, n, s), kind, n, s) BY <1>1, ChunkIs
    <2> QED BY <1>2, <2>1, <2>2 DEF ChunkFrom
  <1>4. PICK f : f = Chunk(e, "done", 0, << >>) OBVIOUS
  <1>5. PICK y \in ChatPieces : y.c = "done" /\ f \in ChatRecord /\ f.out = Append(e.out, y) /\ f.calls = e.calls
    <2>1. PICK kind \in ChunkKinds, n \in Nat, t \in PieceText : kind = "done" /\ n = 0 /\ t = << >>
      BY EmptySeq DEF ChunkKinds, PieceText
    <2>2. ChunkFrom(e, Chunk(e, kind, n, t), kind, n, t) BY <1>3, ChunkIs
    <2> QED BY <1>4, <2>1, <2>2 DEF ChunkFrom
  <1>6. PICK d : d = [f EXCEPT !.over = TRUE] OBVIOUS
  <1>7. d \in ChatRecord /\ d.out = f.out /\ d.calls = f.calls /\ d.over = TRUE BY <1>5, <1>6 DEF ChatRecord
  <1>8. PICK out \in Seq(ChatPieces), len \in Nat : out = c.out /\ len = Len(c.calls) BY <1>1 DEF ChatRecord
  <1>9. PICK more \in Seq(ChatPieces) : more = Append(out, x) /\ CallsOK(more, len)
    <2>1. CallsOK(out, len) /\ x.c # "call" /\ x.c # "args" BY <1>1, <1>3, <1>8
    <2>2. CallsOK(Append(out, x), len) BY <2>1, CallsTold
    <2> QED BY <2>2, AppendProperties
  <1>10. CallsOK(Append(more, y), len)
    <2>1. y.c # "call" /\ y.c # "args" BY <1>5
    <2> QED BY <1>9, <2>1, CallsTold
  <1>11. /\ \A k : ChunksIn(more, k) = IF x.c = k THEN ChunksIn(out, k) \cup {Len(out) + 1} ELSE ChunksIn(out, k)
         /\ Len(more) = Len(out) + 1
    BY <1>9, ChunksAppend
  <1>12. /\ \A k : ChunksIn(Append(more, y), k) = IF y.c = k THEN ChunksIn(more, k) \cup {Len(more) + 1} ELSE ChunksIn(more, k)
         /\ Len(Append(more, y)) = Len(more) + 1 /\ Len(more) \in Nat
    BY ChunksAppend
  <1>13. RoleOK(out, TRUE) /\ NoEnd(out) BY <1>1, <1>8
  <1>14. RoleOK(Append(more, y), TRUE) BY <1>3, <1>5, <1>11, <1>12, <1>13 DEF RoleOK
  <1>15. EndOK(Append(more, y))
    <2>1. ChunksIn(Append(more, y), "finish") = {Len(more)} /\ ChunksIn(Append(more, y), "done") = {Len(more) + 1}
          /\ ChunksIn(Append(more, y), "error") = {}
      BY <1>3, <1>5, <1>11, <1>12, <1>13 DEF NoEnd, ChunkEnds
    <2>2. Len(Append(more, y)) - 1 = Len(more) BY <1>12
    <2> QED BY <1>12, <2>1, <2>2 DEF EndOK
  <1>16. ChatEnd(d, TRUE) BY <1>3, <1>5, <1>7, <1>8, <1>9, <1>10, <1>14, <1>15 DEF ChatEnd
  <1> QED BY <1>2, <1>3, <1>4, <1>5, <1>6, <1>7, <1>16

-----------------------------------------------------------------------------
(* Every event, for the Responses interface.                                *)

(* What the actions may receive next. *)
EventOK(log, x) ==
    /\ x.e = "message_start" <=> log = << >>
    /\ x.aside # 0 => Asides(log) = 0 /\ x.e \in {"start", "message_delta"}
    /\ x.e = "start" => /\ x.i = Seen(log) + 1 /\ x.what \in Kinds /\ x.s \in Seq(CalledAs)
                        /\ x.what = "tool" => x.s # << >>
    /\ x.e \in {"delta", "stop"} => x.i \in 1 .. Seen(log)
    /\ x.e = "delta" => /\ x.s \in Seq(Nat)
                        /\ x.what = "tool" => \E j \in At(log, "start") : log[j].i = x.i /\ log[j].what = "tool"
    /\ x.e = "message_delta" => x.what \in EndReasons
    /\ x.e = "message_stop" => Ending(log)

RespAfter(c, d, x, log, more) ==
    /\ IF x.e \in {"message_stop", "error"} THEN RespEnd(d, Open(more), Seen(more))
       ELSE RespIs(d, Open(more), Seen(more), Asides(more))
    /\ Overlaps(log) \/ ItemsInOrder(c.output) => Overlaps(more) \/ ItemsInOrder(d.output)
    /\ d.over <=> x.e \in {"message_stop", "error"}

LEMMA AsidesBinary == ASSUME NEW log PROVE Asides(log) \in {0, 1}
  BY DEF Asides

LEMMA ReasonIs ==
    ASSUME NEW c, NEW D, NEW n, NEW a, RespIs(c, D, n, a), NEW reason \in EndReasons
    PROVE  LET d == [c EXCEPT !.reason = reason] IN RespIs(d, D, n, a) /\ d.output = c.output /\ d.over = FALSE
  <1>1. PICK d : d = [c EXCEPT !.reason = reason] OBVIOUS
  <1>2. c \in RespRecord(D) /\ ~c.over BY DEF RespIs
  <1>3. d \in RespRecord(D) /\ d.over = c.over /\ d.over = FALSE /\ d.out = c.out /\ d.next = c.next /\ d.output = c.output
        /\ d.blocks = c.blocks
    BY <1>1, <1>2 DEF RespRecord
  <1>4. RespIs(d, D, n, a) BY <1>3 DEF RespIs
  <1> QED BY <1>1, <1>3, <1>4

LEMMA RespStep ==
    ASSUME NEW log, LogOK(log), NEW c, RespIs(c, Open(log), Seen(log), Asides(log)),
           NEW x \in SseEvents, EventOK(log, x), Allowed(Append(log, x))
    PROVE  LogOK(Append(log, x)) /\ RespAfter(c, ResponsesEvent(c, x), x, log, Append(log, x))
  <1>1. log \in Seq(SseEvents) /\ ~c.over BY DEF LogOK, RespIs
  <1>2. PICK more, D, n, a : more = Append(log, x) /\ D = Open(log) /\ n = Seen(log) /\ a = Asides(log) OBVIOUS
  <1>3. RespIs(c, D, n, a) BY <1>2
  <1>4. a \in {0, 1} /\ x.aside \in Nat /\ (x.aside # 0 => a = 0) BY <1>2, AsidesBinary DEF EventOK, SseEvents
  <1>5. PICK b : b = (IF x.aside = 0 THEN a ELSE 1) OBVIOUS
  <1>6. Asides(more) = b /\ b \in {0, 1} BY <1>1, <1>2, <1>4, <1>5, AsidesGrow
  <1>7. PICK d : /\ d = Aside(c, x) /\ RespIs(d, D, n, b)
                 /\ ItemsInOrder(c.output) /\ (x.aside = 0 \/ D = {}) => ItemsInOrder(d.output)
    <2>1. PICK d : /\ d = Aside(c, x) /\ RespIs(d, D, n, IF x.aside = 0 THEN a ELSE 1)
                   /\ ItemsInOrder(c.output) /\ (x.aside = 0 \/ D = {}) => ItemsInOrder(d.output)
      BY <1>3, <1>4, AsideStep
    <2> QED BY <1>5, <2>1
  <1>d. RespIs(d, D, n, b) BY <1>7
  <1>i. ItemsInOrder(c.output) /\ (x.aside = 0 \/ D = {}) => ItemsInOrder(d.output) BY <1>7
  <1>s. x.e \notin {"start", "message_delta"} => x.aside = 0 BY DEF EventOK
  <1>8. x.e \in SseKinds BY DEF SseEvents
  <1>9. CASE x.e = "message_start"
    <2>1. ResponsesEvent(c, x) = d BY <1>1, <1>7, <1>9, SMTT(20) DEF ResponsesEvent
    <2>2. LogOK(more) /\ Seen(more) = n /\ Open(more) = D /\ (Overlaps(log) => Overlaps(more))
      BY <1>2, <1>9, LogPlain
    <2>3. D = {}
      <3>1. log = << >> BY <1>9 DEF EventOK
      <3>2. At(log, "start") = {} BY <3>1 DEF At
      <3>3. n = 0 BY <1>2, <3>2, FS_EmptySet DEF Seen
      <3> QED BY <1>2, <3>3 DEF Open
    <2>4. d.over = FALSE BY <1>d DEF RespIs, RespRecord
    <2> QED BY <1>2, <1>6, <1>d, <1>i, <1>9, <2>1, <2>2, <2>3, <2>4 DEF RespAfter
  <1>10. CASE x.e = "start"
    <2>1. ResponsesEvent(c, x) = ItemStarts(d, x) BY <1>1, <1>7, <1>10, SMTT(20) DEF ResponsesEvent
    <2>2. x.i = n + 1 /\ x.what \in Kinds /\ x.s \in Seq(CalledAs) /\ (x.what = "tool" => x.s # << >>)
      BY <1>2, <1>10 DEF EventOK
    <2>3. PICK e : e = ItemStarts(d, x) /\ RespIs(e, D \cup {n + 1}, n + 1, b) /\ e.output = d.output
      BY <1>d, <2>2, ItemStartsIs
    <2>4. /\ LogOK(more) /\ Seen(more) = n + 1 /\ Open(more) = D \cup {n + 1}
          /\ Overlaps(log) => Overlaps(more)
          /\ D # {} => Overlaps(more)
      BY <1>2, <1>10, <2>2, LogStart
    <2>5. e.over = FALSE BY <2>3 DEF RespIs, RespRecord
    <2>6. RespAfter(c, e, x, log, more) BY <1>6, <1>i, <1>s, <1>10, <2>3, <2>4, <2>5 DEF RespAfter
    <2> QED BY <1>2, <2>1, <2>3, <2>4, <2>6
  <1>11. CASE x.e = "delta"
    <2>1. ResponsesEvent(c, x) = ItemGrows(d, x) BY <1>1, <1>7, <1>11, SMTT(20) DEF ResponsesEvent
    <2>2. x.i \in D /\ x.s \in Seq(Nat)
      <3>1. x.i \in 1 .. Seen(log) /\ x.s \in Seq(Nat) BY <1>11 DEF EventOK
      <3> QED BY <1>2, <1>11, <3>1, OpenIfAllowed
    <2>3. PICK e : e = ItemGrows(d, x) /\ RespIs(e, D, n, b) /\ e.output = d.output BY <1>d, <2>2, ItemGrowsIs
    <2>4. LogOK(more) /\ Seen(more) = n /\ Open(more) = D /\ (Overlaps(log) => Overlaps(more))
      BY <1>2, <1>11, LogPlain
    <2>5. e.over = FALSE BY <2>3 DEF RespIs, RespRecord
    <2>7. RespAfter(c, e, x, log, more) BY <1>6, <1>i, <1>s, <1>11, <2>3, <2>4, <2>5 DEF RespAfter
    <2> QED BY <1>2, <2>1, <2>3, <2>4, <2>7
  <1>12. CASE x.e = "stop"
    <2>1. ResponsesEvent(c, x) = ItemStops(d, x) BY <1>1, <1>7, <1>12, SMTT(20) DEF ResponsesEvent
    <2>2. x.i \in D
      <3>1. x.i \in 1 .. Seen(log) BY <1>12 DEF EventOK
      <3> QED BY <1>2, <1>12, <3>1, OpenIfAllowed
    <2>3. PICK e : e = ItemStops(d, x) /\ StoppedItem(d, e, D, n, b, x.i) BY <1>d, <2>2, ItemStopsIs
    <2>4. /\ LogOK(more) /\ Seen(more) = n /\ Open(more) = D \ {x.i}
          /\ Overlaps(log) => Overlaps(more)
          /\ Overlaps(log) \/ D \subseteq {x.i}
      BY <1>2, <1>12, <2>2, LogStop
    <2>5. RespIs(e, D \ {x.i}, n, b) /\ (ItemsInOrder(d.output) /\ D \subseteq {x.i} => ItemsInOrder(e.output)) BY <2>3 DEF StoppedItem
    <2>6. e.over = FALSE BY <2>5 DEF RespIs, RespRecord
    <2>7. RespAfter(c, e, x, log, more) BY <1>6, <1>i, <1>s, <1>12, <2>4, <2>5, <2>6 DEF RespAfter
    <2> QED BY <1>2, <2>1, <2>3, <2>4, <2>7
  <1>13. CASE x.e = "message_delta"
    <2>1. ResponsesEvent(c, x) = [d EXCEPT !.reason = x.what] BY <1>1, <1>7, <1>13, SMTT(20) DEF ResponsesEvent
    <2>2. PICK reason \in EndReasons : reason = x.what BY <1>13 DEF EventOK
    <2>3. PICK e : e = [d EXCEPT !.reason = reason] /\ RespIs(e, D, n, b) /\ e.output = d.output /\ e.over = FALSE
      BY <1>d, ReasonIs
    <2>4. LogOK(more) /\ Seen(more) = n /\ Open(more) = D /\ (Overlaps(log) => Overlaps(more))
      BY <1>2, <1>13, LogPlain
    <2>5. D = {} BY <1>2, <1>13, AllStopped
    <2>6. RespAfter(c, e, x, log, more) BY <1>6, <1>i, <1>s, <1>13, <2>3, <2>4, <2>5 DEF RespAfter
    <2> QED BY <1>2, <2>1, <2>2, <2>3, <2>4, <2>6
  <1>14. CASE x.e = "message_stop"
    <2> DEFINE kind == IF Incomplete(d.reason) = "none" THEN "completed" ELSE "incomplete"
    <2>1. ResponsesEvent(c, x) = Concludes(d, kind) BY <1>1, <1>7, <1>14, SMTT(20) DEF ResponsesEvent
    <2>2. kind \in FinalKinds /\ kind # "failed" BY DEF FinalKinds
    <2> HIDE DEF kind
    <2>3. LogOK(more) /\ Seen(more) = n /\ Open(more) = D /\ (Overlaps(log) => Overlaps(more))
      BY <1>2, <1>14, LogPlain
    <2>4. D = {}
      <3>1. Ending(log) BY <1>14 DEF EventOK
      <3> QED BY <1>2, <1>14, <3>1, AllStopped
    <2>5. PICK e : e = Concludes(d, kind) OBVIOUS
    <2>6. RespEnd(e, D, n) /\ e.output = d.output /\ e.over = TRUE
      BY <1>6, <1>d, <2>2, <2>4, <2>5, ConcludesIs
    <2>7. RespAfter(c, e, x, log, more) BY <1>6, <1>i, <1>s, <1>14, <2>3, <2>4, <2>6 DEF RespAfter
    <2> QED BY <1>2, <2>1, <2>3, <2>5, <2>7
  <1>15. CASE x.e = "error"
    <2>1. ResponsesEvent(c, x) = Concludes(d, "failed") BY <1>1, <1>7, <1>15, SMTT(20) DEF ResponsesEvent
    <2>2. LogOK(more) /\ Seen(more) = n /\ Open(more) = D /\ (Overlaps(log) => Overlaps(more))
      BY <1>2, <1>15, LogPlain
    <2>3. PICK kind \in FinalKinds : kind = "failed" BY DEF FinalKinds
    <2>5. PICK e : e = Concludes(d, kind) OBVIOUS
    <2>6. RespEnd(e, D, n) /\ e.output = d.output /\ e.over = TRUE
      BY <1>6, <1>d, <2>3, <2>5, ConcludesIs
    <2>7. RespAfter(c, e, x, log, more) BY <1>6, <1>i, <1>s, <1>15, <2>2, <2>6 DEF RespAfter
    <2> QED BY <1>2, <2>1, <2>2, <2>3, <2>5, <2>7
  <1> QED BY <1>8, <1>9, <1>10, <1>11, <1>12, <1>13, <1>14, <1>15 DEF SseKinds

-----------------------------------------------------------------------------
(* Every event, for chat completions.                                       *)

(* Every block of a tool that was started is a call of the chat. *)
ToolsCalled(log, calls) ==
    \A j \in At(log, "start") : log[j].what = "tool" => \E k \in DOMAIN calls : calls[k] = log[j].i
CallsBelow(calls, n) == \A k \in DOMAIN calls : calls[k] \in 1 .. n

ChatAfter(d, x, more) ==
    /\ IF x.e \in {"message_stop", "error"} THEN ChatEnd(d, TRUE) ELSE ChatIs(d, TRUE)
    /\ ToolsCalled(more, d.calls) /\ CallsBelow(d.calls, Seen(more))

LEMMA ToolsKept ==
    ASSUME NEW log \in Seq(SseEvents), NEW x \in SseEvents, NEW calls, ToolsCalled(log, calls),
           x.e # "start" \/ x.what # "tool"
    PROVE  ToolsCalled(Append(log, x), calls)
  <1>1. PICK more, m : more = Append(log, x) /\ m = Len(log) + 1 OBVIOUS
  <1>2. /\ more[m] = x
        /\ \A j \in 1 .. Len(log) : more[j] = log[j]
        /\ \A e : At(more, e) = IF x.e = e THEN At(log, e) \cup {m} ELSE At(log, e)
        /\ \A e : At(log, e) \subseteq 1 .. Len(log)
    BY <1>1, LogAppend
  <1>3. ToolsCalled(more, calls) BY <1>2 DEF ToolsCalled
  <1> QED BY <1>1, <1>3

LEMMA ToolsAdded ==
    ASSUME NEW log \in Seq(SseEvents), NEW x \in SseEvents, NEW calls \in Seq(Nat), ToolsCalled(log, calls),
           NEW n \in Nat, CallsBelow(calls, n), x.i = n + 1
    PROVE  ToolsCalled(Append(log, x), Append(calls, x.i)) /\ CallsBelow(Append(calls, x.i), n + 1)
  <1>1. PICK more, m : more = Append(log, x) /\ m = Len(log) + 1 OBVIOUS
  <1>2. /\ more[m] = x
        /\ \A j \in 1 .. Len(log) : more[j] = log[j]
        /\ \A e : At(more, e) = IF x.e = e THEN At(log, e) \cup {m} ELSE At(log, e)
        /\ \A e : At(log, e) \subseteq 1 .. Len(log)
    BY <1>1, LogAppend
  <1>3. PICK i \in Nat : i = x.i BY DEF SseEvents
  <1>4. PICK new : new = Append(calls, i) OBVIOUS
  <1>5. /\ Len(calls) \in Nat /\ DOMAIN calls = 1 .. Len(calls) /\ DOMAIN new = (1 .. Len(calls)) \cup {Len(calls) + 1}
        /\ new[Len(calls) + 1] = i /\ \A k \in DOMAIN calls : new[k] = calls[k]
    BY <1>4
  <1>6. ToolsCalled(more, new)
    <2> SUFFICES ASSUME NEW j \in At(more, "start"), more[j].what = "tool" PROVE \E k \in DOMAIN new : new[k] = more[j].i
      BY DEF ToolsCalled
    <2>1. CASE j = m BY <1>2, <1>3, <1>5, <2>1
    <2>2. CASE j # m
      <3>1. j \in At(log, "start") /\ more[j] = log[j] BY <1>2, <2>2
      <3>2. PICK k \in DOMAIN calls : calls[k] = log[j].i BY <3>1 DEF ToolsCalled
      <3> QED BY <1>5, <3>1, <3>2
    <2> QED BY <2>1, <2>2
  <1>7. CallsBelow(new, n + 1)
    <2>1. \A k \in DOMAIN calls : calls[k] \in 1 .. n BY DEF CallsBelow
    <2>2. 1 .. n \subseteq 1 .. n + 1 /\ n + 1 \in 1 .. n + 1 OBVIOUS
    <2> QED BY <1>3, <1>5, <2>1, <2>2 DEF CallsBelow
  <1> QED BY <1>1, <1>3, <1>4, <1>6, <1>7

LEMMA ChatReasonIs ==
    ASSUME NEW c, ChatIs(c, TRUE), NEW reason \in EndReasons
    PROVE  ChatIs([c EXCEPT !.reason = reason], TRUE) /\ [c EXCEPT !.reason = reason].calls = c.calls
  <1>1. PICK d : d = [c EXCEPT !.reason = reason] OBVIOUS
  <1>2. d \in ChatRecord /\ d.over = c.over /\ d.out = c.out /\ d.calls = c.calls BY <1>1 DEF ChatIs, ChatRecord
  <1>3. ChatIs(d, TRUE) BY <1>2 DEF ChatIs
  <1> QED BY <1>1, <1>2, <1>3

LEMMA ChatStep ==
    ASSUME NEW log, LogOK(log), NEW c, ChatIs(c, log # << >>), ToolsCalled(log, c.calls), CallsBelow(c.calls, Seen(log)),
           NEW x \in SseEvents, EventOK(log, x), x.e = "stop" => x.i \in Open(log)
    PROVE  ChatAfter(ChatEvent(c, x), x, Append(log, x))
  <1>1. log \in Seq(SseEvents) /\ ~c.over /\ c \in ChatRecord BY DEF LogOK, ChatIs
  <1>2. PICK more, n, calls : more = Append(log, x) /\ n = Seen(log) /\ calls = c.calls /\ calls \in Seq(Nat)
    BY <1>1 DEF ChatRecord
  <1>3. ToolsCalled(log, calls) /\ CallsBelow(calls, n) /\ n \in Nat BY <1>2 DEF LogOK
  <1>4. x.e \in SseKinds BY DEF SseEvents
  <1>5. x.e # "message_start" => ChatIs(c, TRUE)
    <2>1. x.e # "message_start" => log # << >> BY DEF EventOK
    <2>2. (log # << >>) = TRUE => ChatIs(c, TRUE) OBVIOUS
    <2> QED BY <2>1, <2>2
  <1>6. x.e # "start" => Seen(more) = n
    <2>1. x.e = "stop" => Seen(more) = n BY <1>2, LogStop
    <2>2. x.e \notin {"start", "stop"} => Seen(more) = n BY <1>2, LogPlain
    <2> QED BY <2>1, <2>2
  <1>7. ASSUME x.e # "start" \/ x.what # "tool" PROVE ToolsCalled(more, calls) BY <1>1, <1>2, <1>3, <1>7, ToolsKept
  <1>8. ASSUME NEW d, x.e \notin {"start", "message_stop", "error"}, ChatIs(d, TRUE), d.calls = calls
        PROVE  ChatAfter(d, x, more)
    BY <1>3, <1>6, <1>7, <1>8 DEF ChatAfter
  <1>9. CASE x.e = "message_start"
    <2>1. ChatEvent(c, x) = Chunk(c, "role", 0, << >>) BY <1>1, <1>9, SMTT(20) DEF ChatEvent
    <2>2. ChatIs(c, FALSE)
      <3>1. log = << >> BY <1>9 DEF EventOK
      <3>2. (log # << >>) = FALSE BY <3>1
      <3> QED BY <3>2
    <2>3. calls = << >> BY <1>2, <2>2 DEF ChatIs
    <2>4. PICK d : d = Chunk(c, "role", 0, << >>) OBVIOUS
    <2>5. ChatIs(d, TRUE) /\ d.calls = << >> BY <2>2, <2>4, ChatBegins
    <2> QED BY <1>2, <1>8, <1>9, <2>1, <2>3, <2>4, <2>5
  <1>10. CASE x.e = "start"
    <2>1. x.i = n + 1 /\ x.what \in Kinds /\ x.s \in Seq(CalledAs) BY <1>2, <1>10 DEF EventOK
    <2>2. Seen(more) = n + 1 BY <1>2, <1>10, <2>1, LogStart
    <2>3. CASE x.what = "tool"
      <3>1. ChatEvent(c, x) = Chunk([c EXCEPT !.calls = Append(@, x.i)], "call", Len(c.calls) + 1, x.s)
        BY <1>1, <1>10, <2>3, SMTT(20) DEF ChatEvent
      <3>2. PICK i \in Nat, s \in PieceText : i = x.i /\ s = x.s BY <2>1 DEF SseEvents, PieceText
      <3>3. PICK d : d = Chunk([c EXCEPT !.calls = Append(@, i)], "call", Len(c.calls) + 1, s) OBVIOUS
      <3>4. ChatIs(d, TRUE) /\ d.calls = Append(c.calls, i) BY <1>5, <1>10, <3>3, ChatCalls
      <3>5. ToolsCalled(more, Append(calls, x.i)) /\ CallsBelow(Append(calls, x.i), n + 1)
        BY <1>1, <1>2, <1>3, <2>1, ToolsAdded
      <3>6. ChatAfter(d, x, more) BY <1>2, <1>10, <2>2, <3>2, <3>4, <3>5 DEF ChatAfter
      <3> QED BY <1>2, <3>1, <3>2, <3>3, <3>6
    <2>4. CASE x.what # "tool"
      <3>1. ChatEvent(c, x) = c BY <1>1, <1>10, <2>4, SMTT(20) DEF ChatEvent
      <3>2. CallsBelow(calls, n + 1)
        <4>1. 1 .. n \subseteq 1 .. n + 1 BY <1>3
        <4> QED BY <1>3, <4>1 DEF CallsBelow
      <3>3. ChatAfter(c, x, more) BY <1>2, <1>5, <1>7, <1>10, <2>2, <2>4, <3>2 DEF ChatAfter
      <3> QED BY <1>2, <3>1, <3>3
    <2> QED BY <2>3, <2>4
  <1>11. CASE x.e = "delta"
    <2>1. CASE x.what = "text"
      <3>1. ChatEvent(c, x) = Chunk(c, "text", 0, x.s) BY <1>1, <1>11, <2>1, SMTT(20) DEF ChatEvent
      <3>2. PICK kind \in {"text", "args"}, k \in Nat, s \in PieceText : kind = "text" /\ k = 0 /\ s = x.s
        BY DEF SseEvents, PieceText
      <3>3. PICK d : d = Chunk(c, kind, k, s) OBVIOUS
      <3>4. ChatIs(d, TRUE) /\ d.calls = c.calls BY <1>5, <1>11, <3>2, <3>3, ChatTold
      <3> QED BY <1>2, <1>8, <1>11, <3>1, <3>2, <3>3, <3>4
    <2>2. CASE x.what = "tool"
      <3>1. PICK j \in At(log, "start") : log[j].i = x.i /\ log[j].what = "tool" BY <1>11, <2>2 DEF EventOK
      <3>2. PICK l \in DOMAIN calls : calls[l] = x.i BY <1>3, <3>1 DEF ToolsCalled
      <3>3. x.i \in ToSet(c.calls) BY <1>2, <3>2 DEF ToSet
      <3>4. ChatEvent(c, x) = Chunk(c, "args", CallNumber(c, x.i), x.s)
        BY <1>1, <1>11, <2>2, <3>3, SMTT(20) DEF ChatEvent
      <3>5. CallNumber(c, x.i) \in DOMAIN calls BY <1>2, <3>2 DEF CallNumber
      <3>6. DOMAIN calls = 1 .. Len(calls) /\ Len(calls) \in Nat BY <1>2
      <3>7. PICK kind \in {"text", "args"}, k \in Nat, s \in PieceText :
               kind = "args" /\ k = CallNumber(c, x.i) /\ k \in 1 .. Len(c.calls) /\ s = x.s
        BY <1>2, <3>5, <3>6 DEF SseEvents, PieceText
      <3>8. PICK d : d = Chunk(c, kind, k, s) OBVIOUS
      <3>9. ChatIs(d, TRUE) /\ d.calls = c.calls BY <1>5, <1>11, <3>7, <3>8, ChatTold
      <3> QED BY <1>2, <1>8, <1>11, <3>4, <3>7, <3>8, <3>9
    <2>3. CASE x.what \notin {"text", "tool"}
      <3>1. ChatEvent(c, x) = c BY <1>1, <1>11, <2>3, SMTT(20) DEF ChatEvent
      <3> QED BY <1>2, <1>5, <1>8, <1>11, <3>1
    <2> QED BY <2>1, <2>2, <2>3
  <1>12. CASE x.e = "stop"
    <2>1. ChatEvent(c, x) = c BY <1>1, <1>12, SMTT(20) DEF ChatEvent
    <2> QED BY <1>2, <1>5, <1>8, <1>12, <2>1
  <1>13. CASE x.e = "message_delta"
    <2>1. ChatEvent(c, x) = [c EXCEPT !.reason = x.what] BY <1>1, <1>13, SMTT(20) DEF ChatEvent
    <2>2. PICK reason \in EndReasons : reason = x.what BY <1>13 DEF EventOK
    <2>3. PICK d : d = [c EXCEPT !.reason = reason] OBVIOUS
    <2>4. ChatIs(d, TRUE) /\ d.calls = c.calls BY <1>5, <1>13, <2>3, ChatReasonIs
    <2> QED BY <1>2, <1>8, <1>13, <2>1, <2>2, <2>3, <2>4
  <1>14. CASE x.e = "message_stop"
    <2> DEFINE r == FinishReason(c.reason, c.calls # << >>)
    <2>1. ChatEvent(c, x) = [Chunk(Chunk(c, "finish", 0, <<r>>), "done", 0, << >>) EXCEPT !.over = TRUE]
      BY <1>1, <1>14, SMTT(20) DEF ChatEvent
    <2>2. r \in FinishReasons BY SMTT(20) DEF FinishReason, FinishReasons
    <2> HIDE DEF r
    <2>3. PICK s \in PieceText : s = <<r>>
      <3>1. PICK q \in FinishReasons : q = r BY <2>2
      <3>2. <<q>> \in Seq(FinishReasons) OBVIOUS
      <3> QED BY <3>1, <3>2 DEF PieceText
    <2>4. PICK d : d = [Chunk(Chunk(c, "finish", 0, s), "done", 0, << >>) EXCEPT !.over = TRUE] OBVIOUS
    <2>5. ChatEnd(d, TRUE) /\ d.calls = c.calls BY <1>5, <1>14, <2>4, ChatFinishes
    <2>6. ChatAfter(d, x, more) BY <1>2, <1>3, <1>6, <1>7, <1>14, <2>5 DEF ChatAfter
    <2> QED BY <1>2, <2>1, <2>3, <2>4, <2>6
  <1>15. CASE x.e = "error"
    <2>1. ChatEvent(c, x) = ChatFails(c) BY <1>1, <1>15, SMTT(20) DEF ChatEvent
    <2>2. PICK d : d = ChatFails(c) OBVIOUS
    <2>3. ChatEnd(d, TRUE) /\ d.calls = c.calls BY <1>5, <1>15, <2>2, ChatFailsIs
    <2>4. ChatAfter(d, x, more) BY <1>2, <1>3, <1>6, <1>7, <1>15, <2>3 DEF ChatAfter
    <2> QED BY <1>2, <2>1, <2>2, <2>4
  <1> QED BY <1>4, <1>9, <1>10, <1>11, <1>12, <1>13, <1>14, <1>15 DEF SseKinds

-----------------------------------------------------------------------------
(* Both interfaces: what they know of the message stream.                   *)

ApiInv ==
    /\ LogOK(sse) /\ Seen(sse) <= MaxSseBlocks
    /\ ToolsCalled(sse, chat.calls) /\ CallsBelow(chat.calls, Seen(sse))
    /\ IF resp.over THEN RespEnd(resp, Open(sse), Seen(sse)) /\ ChatEnd(chat, sse # << >>)
       ELSE RespIs(resp, Open(sse), Seen(sse), Asides(sse)) /\ ChatIs(chat, sse # << >>)
    /\ Overlaps(sse) \/ ItemsInOrder(resp.output)

LEMMA ApiReceives ==
    ASSUME ApiInv, NEW x \in SseEvents, EventOK(sse, x), Receive(x), x.e = "start" => Seen(sse) < MaxSseBlocks
    PROVE  ApiInv'
  <1>1. /\ LogOK(sse) /\ Seen(sse) <= MaxSseBlocks /\ ToolsCalled(sse, chat.calls) /\ CallsBelow(chat.calls, Seen(sse))
        /\ Overlaps(sse) \/ ItemsInOrder(resp.output)
        /\ ~resp.over /\ Allowed(Append(sse, x))
    BY DEF ApiInv, Receive
  <1>2. RespIs(resp, Open(sse), Seen(sse), Asides(sse)) /\ ChatIs(chat, sse # << >>) BY <1>1 DEF ApiInv
  <1>3. sse \in Seq(SseEvents) /\ Seen(sse) \in Nat BY <1>1 DEF LogOK
  <1>l. Append(sse, x) # << >> BY <1>3, LastIs
  <1>4. PICK more, c, d :
           /\ more = Append(sse, x) /\ c = ChatEvent(chat, x) /\ d = ResponsesEvent(resp, x)
           /\ more # << >>
    BY <1>l
  <1>5. LogOK(more) /\ RespAfter(resp, d, x, sse, more) BY <1>1, <1>2, <1>4, RespStep
  <1>6. x.e = "stop" => x.i \in Open(sse)
    <2>1. x.e = "stop" => x.i \in 1 .. Seen(sse) BY DEF EventOK
    <2> QED BY <1>1, <2>1, OpenIfAllowed
  <1>7. ChatAfter(c, x, more) BY <1>1, <1>2, <1>4, <1>6, ChatStep
  <1>8. Seen(more) <= MaxSseBlocks
    <2>1. CASE x.e = "start"
      <3>1. x.i = Seen(sse) + 1 BY <2>1 DEF EventOK
      <3>2. Seen(more) = Seen(sse) + 1 BY <1>1, <1>4, <2>1, <3>1, LogStart
      <3> QED BY <1>3, <2>1, <3>2, DeclaredAssumption
    <2>2. CASE x.e = "stop"
      <3>1. Seen(more) = Seen(sse) BY <1>1, <1>4, <1>6, <2>2, LogStop
      <3> QED BY <1>1, <3>1
    <2>3. CASE x.e \notin {"start", "stop"}
      <3>1. Seen(more) = Seen(sse) BY <1>1, <1>4, <2>3, LogPlain
      <3> QED BY <1>1, <3>1
    <2> QED BY <2>1, <2>2, <2>3
  <1>9. sse' = more /\ chat' = c /\ resp' = d BY <1>4 DEF Receive
  <1>10. (more # << >>) = TRUE BY <1>4
  <1>11. CASE x.e \in {"message_stop", "error"}
    <2>1. RespEnd(d, Open(more), Seen(more)) /\ d.over BY <1>5, <1>11 DEF RespAfter
    <2>2. ChatEnd(c, more # << >>) BY <1>7, <1>10, <1>11 DEF ChatAfter
    <2>3. Overlaps(more) \/ ItemsInOrder(d.output) BY <1>1, <1>5 DEF RespAfter
    <2>4. ToolsCalled(more, c.calls) /\ CallsBelow(c.calls, Seen(more)) BY <1>7 DEF ChatAfter
    <2> QED BY <1>5, <1>8, <1>9, <2>1, <2>2, <2>3, <2>4 DEF ApiInv
  <1>12. CASE x.e \notin {"message_stop", "error"}
    <2>1. RespIs(d, Open(more), Seen(more), Asides(more)) /\ ~d.over BY <1>5, <1>12 DEF RespAfter
    <2>2. ChatIs(c, more # << >>) BY <1>7, <1>10, <1>12 DEF ChatAfter
    <2>3. Overlaps(more) \/ ItemsInOrder(d.output) BY <1>1, <1>5 DEF RespAfter
    <2>4. ToolsCalled(more, c.calls) /\ CallsBelow(c.calls, Seen(more)) BY <1>7 DEF ChatAfter
    <2> QED BY <1>5, <1>8, <1>9, <2>1, <2>2, <2>3, <2>4 DEF ApiInv
  <1> QED BY <1>11, <1>12

LEMMA ApiBreaks ==
    ASSUME ApiInv, Breaks
    PROVE  ApiInv'
  <1>1. /\ LogOK(sse) /\ Seen(sse) <= MaxSseBlocks /\ ToolsCalled(sse, chat.calls) /\ CallsBelow(chat.calls, Seen(sse))
        /\ Overlaps(sse) \/ ItemsInOrder(resp.output)
        /\ RespIs(resp, Open(sse), Seen(sse), Asides(sse)) /\ ChatIs(chat, sse # << >>)
    BY DEF ApiInv, Breaks
  <1>a. Asides(sse) \in {0, 1} /\ (sse # << >>) \in BOOLEAN BY AsidesBinary
  <1>2. PICK log, c, d, kind, a, begun :
           /\ log = sse /\ c = ChatFails(chat) /\ d = Concludes(resp, "failed") /\ kind = "failed" /\ a = Asides(sse)
           /\ begun = (sse # << >>) /\ a \in {0, 1} /\ begun \in BOOLEAN
    BY <1>a
  <1>3. RespEnd(d, Open(log), Seen(log)) /\ d.output = resp.output /\ d.over = TRUE
    <2>1. RespIs(resp, Open(log), Seen(log), a) BY <1>1, <1>2
    <2>2. kind \in FinalKinds BY <1>2 DEF FinalKinds
    <2>3. PICK D, n : D = Open(log) /\ n = Seen(log) OBVIOUS
    <2>4. RespEnd(Concludes(resp, kind), D, n) /\ Concludes(resp, kind).output = resp.output /\ Concludes(resp, kind).over = TRUE
      BY <1>2, <2>1, <2>2, <2>3, ConcludesIs
    <2> QED BY <1>2, <2>3, <2>4
  <1>4. ChatEnd(c, begun) /\ c.calls = chat.calls BY <1>1, <1>2, ChatFailsIs
  <1>5. sse' = log /\ chat' = c /\ resp' = d BY <1>2 DEF Breaks
  <1> QED BY <1>1, <1>2, <1>3, <1>4, <1>5 DEF ApiInv

LEMMA ApiInitially == ApiInit => ApiInv
  <1> SUFFICES ASSUME ApiInit PROVE ApiInv OBVIOUS
  <1> DEFINE created == [r |-> "created", at |-> 0, s |-> << >>]
             progress == [r |-> "in_progress", at |-> 0, s |-> << >>]
  <1>1. /\ sse = << >>
        /\ chat = [out |-> << >>, calls |-> << >>, reason |-> "end_turn", over |-> FALSE]
        /\ resp = [out |-> <<created, progress>>, blocks |-> << >>, next |-> 1, output |-> << >>,
                   reason |-> "none", over |-> FALSE]
    BY DEF ApiInit
  <1>2. created \in ItemEvents /\ progress \in ItemEvents BY EmptySeq DEF ItemEvents, EventKinds
  <1>p. PICK p \in ItemEvents, q \in ItemEvents : p = created /\ q = progress BY <1>2
  <1>q. <<p, q>> \in Seq(ItemEvents) OBVIOUS
  <1>3. PICK out \in Seq(ItemEvents) : out = <<created, progress>> BY <1>p, <1>q
  <1>4. DOMAIN out = {1, 2} /\ out[1] = created /\ out[2] = progress BY <1>3
  <1>5. /\ \A j \in DOMAIN out : out[j].at = 0 /\ out[j].r \in {"created", "in_progress"}
    BY <1>4
  <1> HIDE DEF created, progress
  <1>6. At(sse, "start") = {} /\ At(sse, "stop") = {} BY <1>1 DEF At
  <1>7. Seen(sse) = 0 BY <1>6, FS_EmptySet DEF Seen
  <1>8. Open(sse) = {} BY <1>7 DEF Open
  <1>9. Asides(sse) = 0 BY <1>1 DEF Asides
  <1>10. LogOK(sse)
    <2>1. sse \in Seq(SseEvents) BY <1>1, EmptySeq
    <2>2. StartsOK(sse, 0) BY <1>6 DEF StartsOK
    <2> QED BY <1>7, <2>1, <2>2 DEF LogOK
  <1>11. PlacesOK(out, 1, {}, 0, {})
    <2>1. 1 .. 1 - 1 = {} /\ 0 .. 1 - 1 = {0} OBVIOUS
    <2>2. \A kind \in {"added", "done"} : \A place : StandsIn(out, kind, place) = {} BY <1>5 DEF StandsIn
    <2>3. ItemsOK(out, 1, {}) BY <1>5, <2>1, <2>2 DEF ItemsOK
    <2>4. DonesIn(out) = {} /\ FinalsIn(out) = {} BY <1>5 DEF DonesIn, FinalsIn, FinalKinds
    <2> QED BY <2>3, <2>4, FS_EmptySet DEF PlacesOK
  <1>12. PICK none \in Seq(OutputItems) : none = << >> BY EmptySeq
  <1>13. PlacesOf(none) = {} /\ Len(none) = 0 /\ ItemsInOrder(none)
    <2>1. DOMAIN none = {} BY <1>12
    <2> QED BY <1>12, <2>1 DEF PlacesOf, ItemsInOrder
  <1>14. resp.out = out /\ resp.next = 1 /\ resp.output = none /\ resp.over = FALSE /\ resp.blocks = << >>
    BY <1>1, <1>3, <1>12
  <1>15. Listed(resp.out, resp.next, resp.output) BY <1>11, <1>13, <1>14 DEF Listed
  <1>16. resp \in RespRecord({})
    <2>1. << >> \in [{} -> ItemBlocks] OBVIOUS
    <2> QED BY <1>1, <1>3, <1>12, <2>1 DEF RespRecord, EndReasons
  <1>17. RespIs(resp, {}, 0, 0)
    <2>1. PICK ats : ats = Ats(resp.blocks) OBVIOUS
    <2>2. ats \in [{} -> Nat] BY <1>14, <2>1 DEF Ats
    <2>3. LiveIn({}, ats) = {} /\ UnplacedIn({}, ats) = {} BY DEF LiveIn, UnplacedIn
    <2>4. PlacesHeld({}, ats, 0, 1, {}, 0, 0)
      <3>1. Cardinality(LiveIn({}, ats)) = 0 /\ Cardinality(UnplacedIn({}, ats)) = 0 BY <2>3, FS_EmptySet
      <3>2. 0 + 0 = 1 - 1 /\ 1 + 0 <= 1 + 0 + 0 /\ 0 \in Nat /\ 1 \in Nat \ {0} OBVIOUS
      <3>3. \A b \in LiveIn({}, ats) : FALSE BY <2>3
      <3> QED BY <2>2, <3>1, <3>2, <3>3 DEF PlacesHeld
    <2> QED BY <1>13, <1>14, <1>15, <1>16, <2>1, <2>4 DEF RespIs
  <1>18. chat \in ChatRecord /\ chat.out = << >> /\ chat.calls = << >> /\ ~chat.over
    <2>1. << >> \in Seq(ChatPieces) /\ << >> \in Seq(Nat) BY EmptySeq
    <2> QED BY <1>1, <2>1 DEF ChatRecord, EndReasons
  <1>19. ChatIs(chat, FALSE)
    <2>1. \A kind : ChunksIn(chat.out, kind) = {} BY <1>18 DEF ChunksIn
    <2>2. CallsOK(chat.out, 0)
      <3>1. Cardinality(ChunksIn(chat.out, "call")) = 0 BY <2>1, FS_EmptySet
      <3>2. \A n \in 1 .. 0 : FALSE OBVIOUS
      <3> QED BY <2>1, <3>1, <3>2 DEF CallsOK
    <2>3. Len(chat.calls) = 0 BY <1>18
    <2>4. RoleOK(chat.out, FALSE) BY <2>1 DEF RoleOK
    <2>5. NoEnd(chat.out) BY <2>1 DEF NoEnd
    <2> QED BY <1>18, <2>2, <2>3, <2>4, <2>5 DEF ChatIs
  <1>20. (sse # << >>) = FALSE BY <1>1
  <1>21. ToolsCalled(sse, chat.calls) /\ CallsBelow(chat.calls, 0) BY <1>6, <1>18 DEF ToolsCalled, CallsBelow
  <1>22. 0 <= MaxSseBlocks BY DeclaredAssumption
  <1> QED BY <1>7, <1>8, <1>9, <1>10, <1>13, <1>14, <1>17, <1>19, <1>20, <1>21, <1>22 DEF ApiInv

(* The events that the actions receive. *)
LEMMA AsideOf ==
    ASSUME NEW aside \in MayBeAside, sse \in Seq(SseEvents)
    PROVE  aside \in Nat /\ (aside # 0 => Asides(sse) = 0)
  <1>1. Len(sse) \in Nat OBVIOUS
  <1> QED BY <1>1 DEF MayBeAside, Asides

LEMMA KindIs ==
    ASSUME LogOK(sse), NEW i \in 1 .. Seen(sse)
    PROVE  \E j \in At(sse, "start") : sse[j].i = i /\ sse[j].what = KindOf(i) /\ KindOf(i) \in Kinds \cup EndReasons
  <1>1. PICK s \in DOMAIN sse : Of(sse, "start", i) = {s} BY DEF LogOK, StartsOK
  <1>2. s \in At(sse, "start") /\ sse[s].i = i BY <1>1 DEF Of
  <1>3. PICK j \in At(sse, "start") : sse[j].i = i /\ sse[j].what = KindOf(i) BY <1>2 DEF KindOf
  <1>4. sse[j] \in SseEvents
    <2>1. j \in DOMAIN sse /\ sse \in Seq(SseEvents) BY DEF At, LogOK
    <2> QED BY <2>1
  <1> QED BY <1>3, <1>4 DEF SseEvents

LEMMA ApiStep == ApiInv /\ [ApiNext]_apiVars => ApiInv'
  <1> SUFFICES ASSUME ApiInv, [ApiNext]_apiVars PROVE ApiInv' OBVIOUS
  <1>1. LogOK(sse) /\ Seen(sse) \in Nat /\ sse \in Seq(SseEvents) /\ Len(sse) \in Nat
    <2>1. LogOK(sse) /\ Seen(sse) \in Nat /\ sse \in Seq(SseEvents) BY DEF ApiInv, LogOK
    <2> QED BY <2>1
  <1>2. << >> \in Seq(Nat) /\ << >> \in Seq(CalledAs) BY EmptySeq
  <1>3. CASE MessageStarts
    <2>1. PICK x : x = SseEvent("message_start", 0, "none", << >>, 0) OBVIOUS
    <2>2. x \in SseEvents BY <1>2, <2>1 DEF SseEvent, SseEvents, SseKinds, EndReasons
    <2>3. sse = << >> /\ Receive(x) BY <1>3, <2>1 DEF MessageStarts
    <2>4. x.e = "message_start" /\ x.aside = 0 BY <2>1 DEF SseEvent
    <2>5. EventOK(sse, x) BY <2>3, <2>4 DEF EventOK
    <2> QED BY <2>2, <2>3, <2>4, <2>5, ApiReceives
  <1>4. CASE BlockStarts
    <2>1. PICK what \in Kinds, aside \in MayBeAside :
             /\ sse # << >> /\ BlocksSeen < MaxSseBlocks /\ (aside # 0 => what \in {"text", "tool"})
             /\ \E name \in IF what = "tool" THEN {<<n>> : n \in CalledAs} ELSE {<< >>} :
                   Receive(SseEvent("start", BlocksSeen + 1, what, name, aside))
      BY <1>4 DEF BlockStarts
    <2>2. PICK name \in IF what = "tool" THEN {<<n>> : n \in CalledAs} ELSE {<< >>} :
             Receive(SseEvent("start", BlocksSeen + 1, what, name, aside))
      BY <2>1
    <2>3. name \in Seq(CalledAs) /\ (what = "tool" => name # << >>)
      <3>1. CASE what = "tool"
        <4>1. PICK n \in CalledAs : name = <<n>> BY <3>1
        <4> QED BY <4>1
      <3>2. CASE what # "tool" BY <1>2, <3>2
      <3> QED BY <3>1, <3>2
    <2>4. aside \in Nat /\ (aside # 0 => Asides(sse) = 0) BY <1>1, AsideOf
    <2>5. BlocksSeen = Seen(sse) BY DEF BlocksSeen, Seen
    <2>6. PICK x : x = SseEvent("start", BlocksSeen + 1, what, name, aside) OBVIOUS
    <2>7. x.e = "start" /\ x.i = Seen(sse) + 1 /\ x.what = what /\ x.s = name /\ x.aside = aside
      BY <2>5, <2>6 DEF SseEvent
    <2>8. x \in SseEvents BY <1>1, <2>3, <2>4, <2>5, <2>6 DEF SseEvent, SseEvents, SseKinds
    <2>9. EventOK(sse, x) BY <2>1, <2>3, <2>4, <2>7 DEF EventOK
    <2> QED BY <2>1, <2>2, <2>5, <2>6, <2>8, <2>9, ApiReceives
  <1>5. CASE BlockGrows
    <2>1. PICK i \in 1 .. BlocksSeen, s \in {<< >>, <<Len(sse)>>} :
             KindOf(i) \in {"text", "thinking", "tool"} /\ Receive(SseEvent("delta", i, KindOf(i), s, 0))
      BY <1>5 DEF BlockGrows
    <2>2. BlocksSeen = Seen(sse) BY DEF BlocksSeen, Seen
    <2>3. PICK j \in At(sse, "start") : sse[j].i = i /\ sse[j].what = KindOf(i) BY <1>1, <2>2, KindIs
    <2>4. s \in Seq(Nat)
      <3>1. PICK l \in Nat : l = Len(sse) BY <1>1
      <3>2. <<l>> \in Seq(Nat) OBVIOUS
      <3> QED BY <1>2, <3>1, <3>2
    <2>5. PICK x : x = SseEvent("delta", i, KindOf(i), s, 0) OBVIOUS
    <2>6. x.e = "delta" /\ x.i = i /\ x.what = KindOf(i) /\ x.s = s /\ x.aside = 0 BY <2>5 DEF SseEvent
    <2>7. x \in SseEvents BY <1>1, <2>1, <2>2, <2>4, <2>5 DEF SseEvent, SseEvents, SseKinds, Kinds
    <2>8. sse # << >> BY <2>3 DEF At
    <2>9. EventOK(sse, x) BY <2>2, <2>3, <2>4, <2>6, <2>8 DEF EventOK
    <2> QED BY <2>1, <2>5, <2>6, <2>7, <2>9, ApiReceives
  <1>6. CASE BlockStops
    <2>1. PICK i \in 1 .. BlocksSeen : Receive(SseEvent("stop", i, KindOf(i), << >>, 0))
      BY <1>6 DEF BlockStops
    <2>2. BlocksSeen = Seen(sse) BY DEF BlocksSeen, Seen
    <2>3. PICK j \in At(sse, "start") : KindOf(i) \in Kinds \cup EndReasons BY <1>1, <2>2, KindIs
    <2>5. PICK x : x = SseEvent("stop", i, KindOf(i), << >>, 0) OBVIOUS
    <2>6. x.e = "stop" /\ x.i = i /\ x.aside = 0 BY <2>5 DEF SseEvent
    <2>7. x \in SseEvents BY <1>1, <1>2, <2>2, <2>3, <2>5 DEF SseEvent, SseEvents, SseKinds
    <2>8. sse # << >> BY <2>3 DEF At
    <2>9. EventOK(sse, x) BY <2>2, <2>6, <2>8 DEF EventOK
    <2> QED BY <2>1, <2>5, <2>6, <2>7, <2>9, ApiReceives
  <1>7. CASE MessageEnds
    <2>1. ASSUME NEW reason \in {"end_turn", "max_tokens", "refusal"}, NEW aside \in MayBeAside, sse # << >>,
                 Receive(SseEvent("message_delta", 0, reason, << >>, aside))
          PROVE  ApiInv'
      <3>1. aside \in Nat /\ (aside # 0 => Asides(sse) = 0) BY <1>1, AsideOf
      <3>2. PICK x : x = SseEvent("message_delta", 0, reason, << >>, aside) OBVIOUS
      <3>3. x.e = "message_delta" /\ x.what = reason /\ x.aside = aside BY <3>2 DEF SseEvent
      <3>4. x \in SseEvents BY <1>2, <3>1, <3>2 DEF SseEvent, SseEvents, SseKinds, EndReasons
      <3>5. EventOK(sse, x) BY <2>1, <3>1, <3>3 DEF EventOK, EndReasons
      <3> QED BY <2>1, <3>2, <3>3, <3>4, <3>5, ApiReceives
    <2>2. ASSUME NEW e \in {"message_stop", "error"}, sse # << >>, e = "message_stop" => Ending(sse),
                 Receive(SseEvent(e, 0, "none", << >>, 0))
          PROVE  ApiInv'
      <3>2. PICK x : x = SseEvent(e, 0, "none", << >>, 0) OBVIOUS
      <3>3. x.e = e /\ x.aside = 0 BY <3>2 DEF SseEvent
      <3>4. x \in SseEvents BY <1>2, <3>2 DEF SseEvent, SseEvents, SseKinds, EndReasons
      <3>5. EventOK(sse, x) BY <2>2, <3>3 DEF EventOK
      <3> QED BY <2>2, <3>2, <3>3, <3>4, <3>5, ApiReceives
    <2>3. Ending(sse) => sse # << >> BY DEF Ending
    <2> QED BY <1>7, <2>1, <2>2, <2>3 DEF MessageEnds
  <1>8. CASE Breaks BY <1>8, ApiBreaks
  <1>9. CASE UNCHANGED apiVars BY <1>9 DEF apiVars, ApiInv
  <1> QED BY <1>3, <1>4, <1>5, <1>6, <1>7, <1>8, <1>9 DEF ApiNext

-----------------------------------------------------------------------------
LEMMA ChatSound ==
    ASSUME ApiInv
    PROVE  ChatWellFormed
  <1>1. CallsOK(chat.out, Len(chat.calls)) /\ RoleOK(chat.out, sse # << >>) /\ (chat.over => EndOK(chat.out))
    BY DEF ApiInv, ChatIs, ChatEnd
  <1>2. PICK out : out = chat.out OBVIOUS
  <1>3. \A kind : Chunks(kind) = ChunksIn(out, kind) BY <1>2 DEF Chunks, ChunksIn
  <1>4. /\ \A j \in Chunks("call") : out[j].n = Cardinality({k \in Chunks("call") : k <= j})
        /\ \A j \in Chunks("args") : \E k \in Chunks("call") : k < j /\ out[k].n = out[j].n
    BY <1>1, <1>2, <1>3 DEF CallsOK
  <1>5. Chunks("role") \subseteq {1} /\ (Chunks("call") \cup Chunks("text") # {} => Chunks("role") = {1})
    BY <1>1, <1>2, <1>3 DEF RoleOK
  <1>6. chat.over => \/ Chunks("error") = {Len(out)} /\ Chunks("finish") \cup Chunks("done") = {}
                     \/ /\ Chunks("finish") = {Len(out) - 1} /\ Chunks("done") = {Len(out)}
                        /\ Chunks("error") = {}
    BY <1>1, <1>2, <1>3 DEF EndOK
  <1> QED BY <1>2, <1>4, <1>5, <1>6 DEF ChatWellFormed

LEMMA RespSound ==
    ASSUME ApiInv
    PROVE  ResponsesWellFormed
  <1>1. PICK out, free, output, fin, last :
           /\ out = resp.out /\ free = resp.next /\ output = resp.output /\ fin = PlacesOf(output)
           /\ last = (IF resp.over THEN {Len(out)} ELSE {})
    OBVIOUS
  <1>2. PlacesOK(out, free, fin, Len(output), last) BY <1>1 DEF ApiInv, RespIs, RespEnd, Listed
  <1>3. (resp.over => Len(out) \in DOMAIN out /\ out[Len(out)].at = 0)
        /\ (resp.over /\ out[Len(out)].r # "failed" => Len(output) = free - 1)
    BY <1>1 DEF ApiInv, RespEnd
  <1>4. Overlaps(sse) \/ ItemsInOrder(output) BY <1>1 DEF ApiInv
  <1>5. /\ \A kind, place : Stands(kind, place) = StandsIn(out, kind, place)
        /\ \A place : About(place) = AboutIn(out, place)
    BY <1>1 DEF Stands, StandsIn, About, AboutIn
  <1>6. /\ ItemsOK(out, free, fin) /\ Cardinality(DonesIn(out)) = Len(output) /\ FinalsIn(out) = last
    BY <1>2 DEF PlacesOK
  <1>7. ASSUME NEW place \in 1 .. free - 1
        PROVE  /\ \E j \in Stands("added", place) : Stands("added", place) = {j} /\ \A k \in About(place) : j <= k
               /\ \A j \in Stands("done", place) : Stands("done", place) = {j} /\ \A k \in About(place) : k <= j
               /\ Stands("done", place) # {} <=> \E k \in DOMAIN output : output[k].at = place
    <2>1. PICK j \in DOMAIN out : StandsIn(out, "added", place) = {j} /\ \A k \in AboutIn(out, place) : j <= k
      BY <1>6 DEF ItemsOK
    <2>2. place \in fin <=> \E k \in DOMAIN output : output[k].at = place BY <1>1 DEF PlacesOf
    <2>3. CASE place \in fin
      <3>1. PICK i \in DOMAIN out : StandsIn(out, "done", place) = {i} /\ \A k \in AboutIn(out, place) : k <= i
        BY <1>6, <2>3 DEF ItemsOK
      <3> QED BY <1>5, <2>1, <2>2, <2>3, <3>1
    <2>4. CASE place \notin fin
      <3>1. StandsIn(out, "done", place) = {} BY <1>6, <2>4 DEF ItemsOK
      <3> QED BY <1>5, <2>1, <2>2, <2>4, <3>1
    <2> QED BY <2>3, <2>4
  <1>8. {k \in DOMAIN out : out[k].r = "done"} = DonesIn(out) BY DEF DonesIn
  <1>9. Terminal = last
    <2>1. Terminal = {j \in DOMAIN out : out[j].r \in FinalKinds /\ out[j].at = 0}
      BY <1>1 DEF Terminal, Stands, FinalKinds
    <2>2. Terminal \subseteq FinalsIn(out) BY <2>1 DEF FinalsIn
    <2>3. ASSUME NEW j \in last PROVE j \in Terminal
      <3>1. j \in DOMAIN out /\ out[j].r \in FinalKinds BY <1>6 DEF FinalsIn
      <3>2. resp.over /\ j = Len(out) BY <1>1
      <3>3. out[j].at = 0 BY <1>3, <3>2
      <3> QED BY <2>1, <3>1, <3>3
    <2> QED BY <1>6, <2>2, <2>3
  <1>10. Overlaps(sse) <=> Overlap BY DEF Overlaps, Overlap
  <1>11. IF resp.over THEN Terminal = {Len(out)} ELSE Terminal = {} BY <1>1, <1>9
  <1>12. Overlap \/ \A k \in DOMAIN output : output[k].at = k BY <1>4, <1>10 DEF ItemsInOrder
  <1>13. \A place \in 1 .. resp.next - 1 :
            /\ \E j \in Stands("added", place) : Stands("added", place) = {j} /\ \A k \in About(place) : j <= k
            /\ \A j \in Stands("done", place) : Stands("done", place) = {j} /\ \A k \in About(place) : k <= j
            /\ Stands("done", place) # {} <=> \E k \in DOMAIN resp.output : resp.output[k].at = place
    BY <1>1, <1>7
  <1>14. Len(resp.output) = Cardinality({k \in DOMAIN resp.out : resp.out[k].r = "done"}) BY <1>1, <1>6, <1>8
  <1>15. IF resp.over THEN Terminal = {Len(resp.out)} ELSE Terminal = {} BY <1>1, <1>11
  <1>16. resp.over /\ resp.out[Len(resp.out)].r # "failed" => Len(resp.output) = resp.next - 1 BY <1>1, <1>3
  <1>17. Overlap \/ \A k \in DOMAIN resp.output : resp.output[k].at = k BY <1>1, <1>12
  <1> QED BY <1>13, <1>14, <1>15, <1>16, <1>17, Zenon DEF ResponsesWellFormed

LEMMA ApiTyped ==
    ASSUME ApiInv
    PROVE  ApiTypeOK
  <1>1. Seen(sse) \in Nat /\ Seen(sse) <= MaxSseBlocks /\ 1 .. Seen(sse) \subseteq 1 .. MaxSseBlocks
    <2>1. Seen(sse) \in Nat /\ Seen(sse) <= MaxSseBlocks BY DEF ApiInv, LogOK
    <2> QED BY <2>1, DeclaredAssumption
  <1>2. chat.over = resp.over
    <2>1. chat.over \in BOOLEAN /\ resp.over \in BOOLEAN /\ (chat.over <=> resp.over)
      BY DEF ApiInv, ChatIs, ChatEnd, RespIs, RespEnd, ChatRecord, RespRecord
    <2> QED BY <2>1
  <1>3. ToSet(chat.calls) \subseteq 1 .. MaxSseBlocks BY <1>1 DEF ApiInv, CallsBelow, ToSet
  <1>4. DOMAIN resp.blocks \subseteq 1 .. MaxSseBlocks
    <2>1. DOMAIN resp.blocks = Open(sse) BY DEF ApiInv, RespIs, RespEnd, RespRecord
    <2> QED BY <1>1, <2>1 DEF Open
  <1>5. resp.next \in 1 .. Seen(sse) + 2
    <2>1. CASE resp.over BY <2>1 DEF ApiInv, RespEnd
    <2>2. CASE ~resp.over
      <3>1. PICK D, ats, n, free, fin, len, a :
               /\ free = resp.next /\ n = Seen(sse) /\ a = Asides(sse)
               /\ PlacesHeld(D, ats, n, free, fin, len, a)
        BY <2>2 DEF ApiInv, RespIs
      <3>2. n \in Nat /\ D \in SUBSET (1 .. n) /\ free \in Nat \ {0} BY <3>1 DEF PlacesHeld
      <3>3. Cardinality(UnplacedIn(D, ats)) \in Nat BY <3>2, HeldCounts
      <3>4. free + Cardinality(UnplacedIn(D, ats)) <= 1 + n + a BY <3>1 DEF PlacesHeld
      <3>5. a = 0 \/ a = 1 BY <3>1, AsidesBinary
      <3>6. free \in 1 .. n + 2 BY <3>2, <3>3, <3>4, <3>5
      <3> QED BY <3>1, <3>6
    <2> QED BY <2>1, <2>2
  <1>6. resp.next \in 1 .. MaxSseBlocks + 2 BY <1>1, <1>5, DeclaredAssumption
  <1> QED BY <1>2, <1>3, <1>4, <1>6 DEF ApiTypeOK

LEMMA ApiSound == ApiInv => ApiTypeOK /\ ChatWellFormed /\ ResponsesWellFormed
  BY ApiTyped, ChatSound, RespSound

-----------------------------------------------------------------------------
(* All parts. They share no state: a step of the run is a step of one part   *)
(* and leaves the others alone.                                              *)

RepliesInv ==
    /\ part \in PartsOf
    /\ ReplyInv /\ RecoveryInv /\ SearchInv /\ ApiInv /\ BridgeInv /\ GuardInv /\ StrictInv /\ CompactInv

LEMMA RepliesInitially == Init => RepliesInv
  BY ReplyInitially, RecoveryInitially, SearchInitially, ApiInitially, BridgeInitially, GuardInitially,
     StrictInitially, CompactInitially
  DEF Init, RepliesInv

LEMMA PartsStep ==
    ASSUME [Next]_<<part, replyVars, recoveryVars, searchVars, apiVars, Records>>
    PROVE  /\ UNCHANGED part
           /\ [ReplyNext]_replyVars /\ [RecoveryNext]_recoveryVars /\ [SearchNext]_searchVars
           /\ [ApiNext]_apiVars /\ [BridgeNext]_bridge /\ [GuardNext]_guard /\ [StrictNext]_strict
           /\ [CompactNext]_compact
  <1>1. CASE UNCHANGED <<part, replyVars, recoveryVars, searchVars, apiVars, Records>>
    BY <1>1 DEF Records
  <1>2. CASE Next
    <2>1. UNCHANGED part BY <1>2 DEF Next
    <2>2. CASE part = "reply" /\ ReplyNext /\ UNCHANGED <<recoveryVars, searchVars, apiVars, Records>>
      BY <2>1, <2>2 DEF Records
    <2>3. CASE part = "recovery" /\ RecoveryNext /\ UNCHANGED <<replyVars, searchVars, apiVars, Records>>
      BY <2>1, <2>3 DEF Records
    <2>4. CASE part = "search" /\ SearchNext /\ UNCHANGED <<replyVars, recoveryVars, apiVars, Records>>
      BY <2>1, <2>4 DEF Records
    <2>5. CASE part = "apis" /\ ApiNext /\ UNCHANGED <<replyVars, recoveryVars, searchVars, Records>>
      BY <2>1, <2>5 DEF Records
    <2>6. CASE /\ UNCHANGED <<replyVars, recoveryVars, searchVars, apiVars>>
               /\ \/ part = "bridge" /\ BridgeNext /\ UNCHANGED <<guard, strict, compact>>
                  \/ part = "guard" /\ GuardNext /\ UNCHANGED <<bridge, strict, compact>>
                  \/ part = "strict" /\ StrictNext /\ UNCHANGED <<bridge, guard, compact>>
                  \/ part = "compact" /\ CompactNext /\ UNCHANGED <<bridge, guard, strict>>
      BY <2>1, <2>6
    <2> QED BY <1>2, <2>2, <2>3, <2>4, <2>5, <2>6 DEF Next
  <1> QED BY <1>1, <1>2

LEMMA RepliesStep ==
    RepliesInv /\ [Next]_<<part, replyVars, recoveryVars, searchVars, apiVars, Records>> => RepliesInv'
  BY PartsStep, ReplyStep, RecoveryStep, SearchStep, ApiStep, BridgeStep, GuardStep, StrictStep, CompactStep
  DEF RepliesInv

(* A client reads one message, in the order the protocol promises, whichever *)
(* layer writes it, for any replies and bounds and wherever the upstream     *)
(* breaks off or the client leaves.                                          *)
THEOREM OneMessageEverywhere == Spec => []RepliesWellFormed
  <1>1. RepliesInv => RepliesWellFormed
    <2> SUFFICES ASSUME RepliesInv PROVE RepliesWellFormed OBVIOUS
    <2>1. /\ ReplyTypeOK /\ WellFormed /\ RecoveryTypeOK /\ OneMessage /\ SearchTypeOK /\ SearchWellFormed
          /\ ApiTypeOK /\ ChatWellFormed /\ ResponsesWellFormed /\ BridgeTypeOK /\ BridgeWellFormed
          /\ GuardTypeOK /\ GuardWellFormed /\ StrictTypeOK /\ StrictWellFormed /\ CompactTypeOK
      BY ReplySound, RecoverySound, SearchSound, ApiSound, BridgeSound, GuardSound, StrictSound, CompactSound
      DEF RepliesInv
    <2>2. part \in {"reply", "recovery", "search", "apis", "bridge", "guard", "strict", "compact"}
      BY DEF RepliesInv, PartsOf
    <2> QED BY <2>1, <2>2 DEF RepliesWellFormed
  <1> QED BY <1>1, RepliesInitially, RepliesStep, PTL DEF Spec

(* A thinking block that holds text is signed once before it is stopped, in  *)
(* every live reply (SseStateManager, CloseThinking).                        *)
THEOREM ThinkingStaysSigned == Spec => []ThinkingSigned
  <1>1. RepliesInv => ThinkingSigned BY ReplySound DEF RepliesInv
  <1> QED BY <1>1, RepliesInitially, RepliesStep, PTL DEF Spec

(* Every layer settles a request once, with all that was used for it: the    *)
(* stream, the recovery, the search loop, the bridge, the guard and the      *)
(* compaction, wherever the upstream breaks off or the client leaves.        *)
THEOREM AllSettledOnce == Spec => []RepliesSettledOnce
  <1>1. RepliesInv => RepliesSettledOnce
    <2> SUFFICES ASSUME RepliesInv PROVE RepliesSettledOnce OBVIOUS
    <2>1. /\ UsageSettledOnce /\ RecoverySettledOnce /\ SearchSettledOnce /\ BridgeSettledOnce
          /\ GuardSettledOnce /\ SummarySound
      BY ReplySound, RecoverySound, SearchSound, BridgeSound, GuardSound, CompactSound DEF RepliesInv
    <2>2. part \in {"reply", "recovery", "search", "apis", "bridge", "guard", "strict", "compact"}
      BY DEF RepliesInv, PartsOf
    <2> QED BY <2>1, <2>2 DEF RepliesSettledOnce
  <1> QED BY <1>1, RepliesInitially, RepliesStep, PTL DEF Spec

=============================================================================
