--------------------------- MODULE ExchangeProof ---------------------------
(***************************************************************************)
(* Proofs about a request that asks over NATS, for every set of requests,  *)
(* replicas and tables of routes: who answers, what the client reads of    *)
(* it, and what is reported.                                               *)
(***************************************************************************)
EXTENDS Exchange, TLAPS

Stages == {"new", "asking", "told", "answered"}

Tasks == running \cup {d.task : d \in decided}

\* No two routes of a service that is up share a subject.
Apart ==
  \A first, second \in routes : first # second => ~SubjectsOverlap(first.wire, second.wire)

ServiceInv ==
  /\ routes \in RouteSets
  /\ back = "up" => Apart
  /\ subs \subseteq Replicas \X routes
  /\ subs # {} => back = "up"

\* A request has tasks only once it was asked, and is asked once.
TaskInv ==
  /\ stage \in [Requests -> Stages]
  /\ \A t \in Tasks : t.req \in Requests /\ stage[t.req] # "new"
  /\ OneResponder

-----------------------------------------------------------------------------
(* Who answers *)

\* What boot compares is enough: patterns that match one subject overlap.
LEMMA MatchedOverlap ==
  ASSUME ServiceInv, NEW subject, NEW s \in subs, NEW t \in subs,
         Matches(s[2].wire, subject), Matches(t[2].wire, subject)
  PROVE  s[2] = t[2]
<1>1. s[2] \in routes /\ t[2] \in routes /\ Apart
  BY DEF ServiceInv
<1>2. /\ DOMAIN s[2].wire = 1..Len(s[2].wire) /\ DOMAIN t[2].wire = 1..Len(t[2].wire)
  BY <1>1, ExchangeAssumption DEF ServiceInv
<1>3. SubjectsOverlap(s[2].wire, t[2].wire)
  BY <1>2 DEF SubjectsOverlap, Matches
<1> QED BY <1>1, <1>3 DEF Apart

LEMMA RecipientsAreOne ==
  ASSUME ServiceInv, NEW subject, NEW to \in Recipients(subject),
         NEW a \in to, NEW b \in to
  PROVE  a \in subs /\ a[2] = b[2] /\ (a[2].queue => a = b)
<1> DEFINE matched == {s \in subs : Matches(s[2].wire, subject)}
           grouped == {s[2] : s \in {t \in matched : t[2].queue}}
<1>1. PICK f \in [grouped -> Replicas] :
        /\ \A route \in grouped : <<f[route], route>> \in matched
        /\ to = {s \in matched : ~ s[2].queue} \cup {<<f[route], route>> : route \in grouped}
  BY DEF Recipients
<1>2. a \in matched /\ b \in matched
  BY <1>1
<1>3. a[2] = b[2]
  BY <1>2, MatchedOverlap
<1>4. ASSUME a[2].queue PROVE a = b
  <2>1. a \in {<<f[route], route>> : route \in grouped}
    BY <1>1, <1>4
  <2>2. b \in {<<f[route], route>> : route \in grouped}
    BY <1>1, <1>3, <1>4
  <2> QED BY <1>3, <2>1, <2>2
<1> QED BY <1>2, <1>3, <1>4

LEMMA ServiceInvStep == ServiceInv /\ [Next]_vars => ServiceInv'
<1> SUFFICES ASSUME ServiceInv, [Next]_vars PROVE ServiceInv'
  OBVIOUS
<1>1. CASE Boot
  BY <1>1 DEF Boot, ServiceInv, Apart
<1>2. ASSUME NEW replica \in Replicas, NEW route \in routes,
             Subscribe(replica, route) \/ SubscriptionEnds(replica, route)
      PROVE  ServiceInv'
  BY <1>2 DEF Subscribe, SubscriptionEnds, ServiceInv, Apart
<1>3. ASSUME NEW replica \in Replicas, ReplicaStops(replica) PROVE ServiceInv'
  BY <1>3 DEF ReplicaStops, ServiceInv, Apart
<1>4. CASE UNCHANGED service
  BY <1>4 DEF service, ServiceInv, Apart
<1>5. ASSUME NEW task \in running, NEW verdict \in Verdicts, HandlerEnds(task, verdict)
      PROVE  UNCHANGED service
  BY <1>5 DEF HandlerEnds
<1>6. Asks => UNCHANGED service
  BY DEF Asks, AnswerUnasked, Ask, Fails, ReplyArrives, ReplyLost
<1> QED BY <1>1, <1>2, <1>3, <1>4, <1>5, <1>6 DEF Next, Serves, vars

\* Tasks that end or are lost take no request back to where it may ask.
LEMMA FewerTasks ==
  ASSUME TaskInv, Tasks' \subseteq Tasks, stage' \in [Requests -> Stages],
         \A q \in Requests : stage[q] # "new" => stage'[q] # "new"
  PROVE  TaskInv'
BY DEF TaskInv, OneResponder, Tasks

LEMMA AskKeepsTaskInv ==
  ASSUME ServiceInv, TaskInv, NEW q \in Requests, NEW subject \in Subjects, Ask(q, subject)
  PROVE  TaskInv'
<1>1. PICK to \in Recipients(subject) :
        IF to = {}
        THEN stage' = [stage EXCEPT ![q] = "answered"] /\ UNCHANGED running
        ELSE /\ stage' = [stage EXCEPT ![q] = "asking"]
             /\ running' = running \cup
                  {[req |-> q, replica |-> s[1], route |-> s[2]] : s \in to}
  BY DEF Ask, Finish
<1>2. UNCHANGED decided /\ stage[q] = "new"
  BY DEF Ask
<1>3. stage' \in [Requests -> Stages] /\ \A p \in Requests : stage[p] # "new" => stage'[p] # "new"
  BY <1>1 DEF TaskInv, Stages
<1>4. CASE to = {}
  BY <1>1, <1>2, <1>3, <1>4, FewerTasks DEF Tasks
<1>5. CASE to # {}
  <2> DEFINE new == {[req |-> q, replica |-> s[1], route |-> s[2]] : s \in to}
  <2>1. Tasks' = Tasks \cup new
    BY <1>1, <1>2, <1>5 DEF Tasks
  <2>2. \A t \in new : t.req = q
    OBVIOUS
  <2>3. \A t \in Tasks : t.req # q
    BY <1>2 DEF TaskInv
  <2>4. ASSUME NEW t \in new, NEW u \in new
        PROVE  t.route = u.route /\ (t.route.queue => t = u)
    BY RecipientsAreOne
  <2>5. \A t \in Tasks' : t.req \in Requests /\ stage'[t.req] # "new"
    BY <1>1, <1>3, <1>5, <2>1, <2>2 DEF TaskInv
  <2> HIDE DEF new
  <2>6. OneResponder'
    <3> SUFFICES ASSUME NEW p \in Requests, NEW t \in Tasks', NEW u \in Tasks',
                        t.req = p, u.req = p
                 PROVE  t.route = u.route /\ (t.route.queue => t = u)
      BY DEF OneResponder, Tasks
    <3>1. CASE p = q
      BY <2>1, <2>3, <2>4, <3>1
    <3>2. CASE p # q
      BY <2>1, <2>2, <3>2 DEF TaskInv, OneResponder, Tasks
    <3> QED BY <3>1, <3>2
  <2> QED BY <1>3, <2>5, <2>6 DEF TaskInv
<1> QED BY <1>4, <1>5

LEMMA TaskInvStep == ServiceInv /\ TaskInv /\ [Next]_vars => TaskInv'
<1> SUFFICES ASSUME ServiceInv, TaskInv, [Next]_vars PROVE TaskInv'
  OBVIOUS
<1>0. stage \in [Requests -> Stages]
  BY DEF TaskInv
<1>1. ASSUME NEW replica \in Replicas, ReplicaStops(replica) PROVE TaskInv'
  BY <1>0, <1>1, FewerTasks DEF ReplicaStops, Tasks
<1>2. ASSUME NEW task \in running, NEW verdict \in Verdicts, HandlerEnds(task, verdict)
      PROVE  TaskInv'
  <2>1. /\ running' = running \ {task} /\ UNCHANGED stage
        /\ \E d : d.task = task /\ decided' = decided \cup {d}
    BY <1>2 DEF HandlerEnds
  <2> QED BY <1>0, <2>1, FewerTasks DEF Tasks
<1>3. CASE UNCHANGED <<running, decided, stage>>
  BY <1>0, <1>3, FewerTasks DEF Tasks
<1>4. ASSUME NEW q, NEW outcome, NEW how \in Stages \ {"new"},
             Finish(q, outcome, how), UNCHANGED <<running, decided>>
      PROVE  TaskInv'
  BY <1>0, <1>4, FewerTasks DEF Finish, Tasks
<1>5. ASSUME NEW q \in Requests, NEW subject \in Subjects, Ask(q, subject) PROVE TaskInv'
  BY <1>5, AskKeepsTaskInv
<1>6. ASSUME NEW q \in Requests, AnswerUnasked(q) \/ Fails(q, 502, "NATS_TRANSPORT_ERROR")
                                   \/ Fails(q, 504, "NATS_TIMEOUT")
      PROVE  TaskInv'
  BY <1>4, <1>6 DEF AnswerUnasked, Fails, Stages
<1>7. ASSUME NEW r \in wire, ReplyArrives(r) PROVE TaskInv'
  <2>1. UNCHANGED <<running, decided>>
    BY <1>7 DEF ReplyArrives
  <2>2. CASE stage[r.task.req] = "asking"
    <3>1. \E outcome : Finish(r.task.req, outcome, "told")
      BY <1>7, <2>2 DEF ReplyArrives
    <3> QED BY <1>4, <2>1, <3>1 DEF Stages
  <2>3. CASE stage[r.task.req] # "asking"
    BY <1>3, <1>7, <2>1, <2>3 DEF ReplyArrives
  <2> QED BY <2>2, <2>3
<1>8. ASSUME NEW r \in wire, ReplyLost(r) PROVE TaskInv'
  BY <1>3, <1>8 DEF ReplyLost
<1>9. CASE Boot \/ UNCHANGED vars
  BY <1>3, <1>9 DEF Boot, vars
<1>10. ASSUME NEW replica \in Replicas, NEW route \in routes,
              Subscribe(replica, route) \/ SubscriptionEnds(replica, route)
       PROVE  TaskInv'
  BY <1>3, <1>10 DEF Subscribe, SubscriptionEnds
<1> QED BY <1>1, <1>2, <1>5, <1>6, <1>7, <1>8, <1>9, <1>10 DEF Next, Serves, Asks

\* For every table of routes that boots, every message is handled under one route, and
\* under a queue group by one replica.
THEOREM OneAnswers == Spec => []OneResponder
<1>1. Init => ServiceInv /\ TaskInv
  BY DEF Init, ServiceInv, TaskInv, OneResponder, Tasks, Stages
<1>2. TaskInv => OneResponder
  BY DEF TaskInv
<1> QED BY <1>1, <1>2, ServiceInvStep, TaskInvStep, PTL DEF Spec

-----------------------------------------------------------------------------
(* What a reply carries *)

LEMMA OwnHeadersAre ==
  ASSUME NEW headers \in OwnHeaders
  PROVE  \/ DOMAIN headers = {}
         \/ /\ DOMAIN headers = {"id", "code", "status", "note"}
            /\ headers["note"] = "note"
<1>1. CASE headers = <<>>
  <2>1. DOMAIN <<>> = {}
    OBVIOUS
  <2> QED BY <1>1, <2>1
<1>2. CASE headers = Forged
  <2>1. DOMAIN Forged = {"id", "code", "status", "note"} /\ Forged["note"] = "note"
    BY DEF Forged
  <2> QED BY <1>2, <2>1
<1> QED BY <1>1, <1>2 DEF OwnHeaders

LEMMA VerdictsAre ==
  ASSUME NEW v \in Verdicts
  PROVE  /\ v.headers \in OwnHeaders
         /\ v.kind \in {"ok", "raw", "error"}
         /\ v.kind = "error" => v.status \in 400..599 /\ v.code \in Words \cup {Unfit}
<1>1. CASE v \in Successes
  <2>1. v.kind \in {"ok", "raw"} /\ v.headers \in OwnHeaders
    BY <1>1 DEF Successes
  <2> QED BY <2>1
<1>2. CASE v \in Errors
  <2>1. /\ v.kind = "error" /\ v.status \in Statuses /\ v.code \in {"", "OWN", Unfit}
        /\ v.headers \in OwnHeaders
    BY <1>2 DEF Errors
  <2> QED BY <2>1, ExchangeAssumption DEF Words
<1>3. CASE v \in {Panicked, Error(400, "DESERIALIZATION_ERROR", <<>>),
                  Error(500, "SERIALIZATION_ERROR", <<>>)}
  <2>1. v.kind = "error" /\ v.headers = <<>>
    BY <1>3 DEF Panicked, Error
  <2>2. v.status \in {400, 500} /\ v.code \in Words
    <3>1. CASE v = Panicked
      BY <3>1 DEF Panicked, Error, Words
    <3>2. CASE v = Error(400, "DESERIALIZATION_ERROR", <<>>)
      BY <3>2 DEF Error, Words
    <3>3. CASE v = Error(500, "SERIALIZATION_ERROR", <<>>)
      BY <3>3 DEF Error, Words
    <3> QED BY <1>3, <3>1, <3>2, <3>3
  <2> QED BY <2>1, <2>2 DEF OwnHeaders
<1> QED BY <1>1, <1>2, <1>3 DEF Verdicts

\* What travels is the reply without the headers no wire can carry.
LEMMA WireKeeps ==
  ASSUME NEW reply, NEW h, NEW body, reply = [headers |-> h, body |-> body]
  PROVE  /\ ToWire(reply).body = body
         /\ DOMAIN ToWire(reply).headers = {n \in DOMAIN h : h[n] # Unfit}
         /\ \A n \in DOMAIN h : h[n] # Unfit => ToWire(reply).headers[n] = h[n]
<1> DEFINE unfit == {n \in DOMAIN h : h[n] = Unfit}
<1>1. ToWire(reply).body = body /\ ToWire(reply).headers = Without(h, unfit)
  BY DEF ToWire
<1>2. Without(h, unfit) = [n \in DOMAIN h \ unfit |-> h[n]]
  BY DEF Without, Restrict
<1> QED BY <1>1, <1>2

\* An error goes out with the framework's code and status, whatever its own headers
\* are; its code only if it can.
LEMMA ErrorOnWire ==
  ASSUME NEW q, NEW v \in Verdicts, v.kind = "error"
  PROVE  LET sent == ToWire(ReplyTo(q, v))
         IN  /\ sent.body = "error"
             /\ "code" \in DOMAIN sent.headers <=> Fits(v)
             /\ Fits(v) => sent.headers["code"] = WireCode(v.code)
             /\ "status" \in DOMAIN sent.headers /\ sent.headers["status"] = v.status
             /\ "note" \in DOMAIN sent.headers <=> "note" \in DOMAIN v.headers
<1> DEFINE h == [n \in FrameworkHeaders \cup DOMAIN v.headers |->
                   IF n \in FrameworkHeaders THEN Framing(q, v, n) ELSE v.headers[n]]
<1>1. ReplyTo(q, v) = [headers |-> h, body |-> "error"]
  BY DEF ReplyTo, ReplyErr
<1>2. /\ {"code", "status"} \subseteq DOMAIN h
      /\ h["code"] = WireCode(v.code) /\ h["status"] = v.status
  BY DEF FrameworkHeaders, Framing
<1>3. /\ "note" \in DOMAIN h <=> "note" \in DOMAIN v.headers
      /\ "note" \in DOMAIN v.headers => h["note"] = "note"
  BY VerdictsAre, OwnHeadersAre DEF FrameworkHeaders
<1>4. v.status # Unfit /\ "note" # Unfit
  BY VerdictsAre, WordAssumption DEF Words
<1>5. WireCode(v.code) = Unfit <=> v.code = Unfit
  BY WordAssumption DEF WireCode, Words
<1> HIDE DEF h
<1>6. LET sent == ToWire(ReplyTo(q, v))
      IN  /\ sent.body = "error"
          /\ DOMAIN sent.headers = {n \in DOMAIN h : h[n] # Unfit}
          /\ \A n \in DOMAIN h : h[n] # Unfit => sent.headers[n] = h[n]
  BY <1>1, WireKeeps
<1> QED BY <1>2, <1>3, <1>4, <1>5, <1>6 DEF Fits

\* A success goes out without a code and without a status.
LEMMA SuccessOnWire ==
  ASSUME NEW q, NEW v \in Verdicts, v.kind # "error"
  PROVE  /\ "status" \notin DOMAIN ReplyTo(q, v).headers
         /\ "code" \notin DOMAIN ToWire(ReplyTo(q, v)).headers
         /\ ToWire(ReplyTo(q, v)).body = v.kind
<1> DEFINE own == Without(v.headers, {"code", "status"})
           h == [n \in {"id"} \cup DOMAIN own |-> IF n = "id" THEN Hop(q) ELSE own[n]]
<1>1. ReplyTo(q, v) = [headers |-> h, body |-> v.kind]
  BY DEF ReplyTo, ReplyOk
<1>2. "code" \notin DOMAIN h /\ "status" \notin DOMAIN h
  BY DEF Without, Restrict
<1> HIDE DEF h
<1> QED BY <1>1, <1>2, WireKeeps

-----------------------------------------------------------------------------
(* What is heard and reported *)

ReportsOf(a) == IF a.code # None /\ a.status >= 500 THEN 1 ELSE 0

LEMMA ErrorIsReported ==
  ASSUME NEW q, NEW err, err.status \in 400..599, err.code \in Words \cup {Unfit}
  PROVE  /\ Wrapped(q, err).reports = ReportsOf(Wrapped(q, err).answer)
         /\ Dispatched(q, err).reports = ReportsOf(Dispatched(q, err).answer)
         /\ err.status < 500 => ReportsOf(ErrorAnswer(q, err)) = 0
<1>1. ErrorAnswer(q, err).status = err.status /\ ErrorAnswer(q, err).code = WireCode(err.code)
  BY DEF ErrorAnswer
<1>2. WireCode(err.code) # None
  <2>1. "ERROR" \in Words
    BY DEF Words
  <2> QED BY <2>1, WordAssumption DEF WireCode
<1>3. ReportsOf(ErrorAnswer(q, err)) = IF err.status >= 500 THEN 1 ELSE 0
  BY <1>1, <1>2 DEF ReportsOf
<1>4. /\ Wrapped(q, err).answer = ErrorAnswer(q, err)
      /\ Wrapped(q, err).reports = IF err.status >= 500 THEN 1 ELSE 0
      /\ Dispatched(q, err).answer = ErrorAnswer(q, err)
      /\ Dispatched(q, err).reports = IF err.status >= 500 THEN 1 ELSE 0
  BY DEF Wrapped, Dispatched, IsServerError
<1> QED BY <1>3, <1>4

LEMMA UnaskedIsReported ==
  ASSUME NEW q, NEW outcome \in Unasked(q)
  PROVE  outcome.reports = ReportsOf(outcome.answer)
<1>1. \A status, code, headers :
        /\ Error(status, code, headers).status = status
        /\ Error(status, code, headers).code = code
  BY DEF Error
<1>2. /\ {"HOOK", "BAD_REQUEST", "BODY_READ_ERROR", "SERIALIZATION_ERROR", "PANIC",
          "NATS_ENCODE_ERROR"} \subseteq Words
      /\ {400, 500} \subseteq 400..599 /\ Statuses \subseteq 400..599
  BY ExchangeAssumption DEF Words
<1>3. CASE \E status \in Statuses : outcome = Dispatched(q, Error(status, "HOOK", <<>>))
  <2>1. PICK status \in Statuses : outcome = Dispatched(q, Error(status, "HOOK", <<>>))
    BY <1>3
  <2> DEFINE err == Error(status, "HOOK", <<>>)
  <2>2. err.status = status /\ err.code = "HOOK"
    BY DEF Error
  <2>3. status \in 400..599 /\ "HOOK" \in Words
    BY <1>2
  <2> HIDE DEF err
  <2> QED BY <2>1, <2>2, <2>3, ErrorIsReported DEF err
<1>4. CASE outcome = Passed([OkAnswer(q, 415) EXCEPT !.id = None])
  BY <1>4 DEF Passed, OkAnswer, ReportsOf
<1>5. CASE outcome = Passed(ErrorAnswer(q, Error(400, "BODY_READ_ERROR", <<>>)))
  <2>1. ReportsOf(ErrorAnswer(q, Error(400, "BODY_READ_ERROR", <<>>))) = 0
    BY <1>1, <1>2, ErrorIsReported
  <2> QED BY <1>5, <2>1 DEF Passed
<1>6. CASE \/ outcome = Dispatched(q, Error(400, "BAD_REQUEST", <<>>))
           \/ outcome = Dispatched(q, Error(500, "SERIALIZATION_ERROR", <<>>))
           \/ outcome = Dispatched(q, Panicked)
           \/ outcome = Wrapped(q, Error(500, "NATS_ENCODE_ERROR", <<>>))
  BY <1>1, <1>2, <1>6, ErrorIsReported DEF Panicked
<1>7. CASE \E status : outcome = Passed(OkAnswer(q, status))
  BY <1>7 DEF Passed, OkAnswer, ReportsOf
<1> QED BY <1>3, <1>4, <1>5, <1>6, <1>7 DEF Unasked

\* What a reply says is what the handler decided, as far as a wire can carry it.
LEMMA HeardIsDecided ==
  ASSUME NEW q, NEW v \in Verdicts,
         NEW outcome \in Heard(q, ToWire(ReplyTo(q, v)))
  PROVE  /\ outcome.answer \in Reads(q, v)
         /\ outcome.reports = ReportsOf(outcome.answer)
<1> DEFINE sent == ToWire(ReplyTo(q, v))
           success == [status |-> 200, code |-> None, id |-> <<q>>, note |-> FALSE]
           badGateway == [status |-> 502, code |-> "NATS_DECODE_ERROR", id |-> <<q>>,
                          note |-> FALSE]
           undecoded == Error(502, "NATS_DECODE_ERROR", <<>>)
<1>1. /\ Passed(OkAnswer(q, 200)).answer = success
      /\ Passed(OkAnswer(q, 200)).reports = ReportsOf(success)
  BY DEF Passed, OkAnswer, ReportsOf
<1>2. /\ Wrapped(q, undecoded).answer = badGateway
      /\ Wrapped(q, undecoded).reports = ReportsOf(badGateway)
  <2>1. /\ undecoded.status = 502 /\ undecoded.code = "NATS_DECODE_ERROR"
        /\ undecoded.headers = <<>>
    BY DEF Error
  <2> HIDE DEF undecoded
  <2>2. ("id" \in DOMAIN undecoded.headers) = FALSE /\ ("note" \in DOMAIN undecoded.headers) = FALSE
    BY <2>1
  <2>3. ErrorAnswer(q, undecoded) = badGateway
    BY <2>1, <2>2 DEF ErrorAnswer, WireCode
  <2>4. "NATS_DECODE_ERROR" \in Words
    BY DEF Words
  <2>5. Wrapped(q, undecoded).answer = badGateway
    BY <2>3 DEF Wrapped
  <2> QED BY <2>1, <2>4, <2>5, ErrorIsReported
<1>3. CASE v.kind = "error" /\ Fits(v)
  <2> DEFINE err == Rejection(sent.headers)
             own == Without(sent.headers, FrameworkHeaders)
  <2>1. /\ "code" \in DOMAIN sent.headers /\ sent.headers["code"] = WireCode(v.code)
        /\ "status" \in DOMAIN sent.headers /\ sent.headers["status"] = v.status
        /\ "note" \in DOMAIN sent.headers <=> "note" \in DOMAIN v.headers
    BY <1>3, ErrorOnWire
  <2>2. outcome = Wrapped(q, err)
    BY <2>1 DEF Heard
  <2>3. err = Error(v.status, WireCode(v.code), own)
    BY <2>1 DEF Rejection
  <2>4. /\ "id" \notin DOMAIN own
        /\ "note" \in DOMAIN own <=> "note" \in DOMAIN v.headers
    BY <2>1 DEF Without, Restrict, FrameworkHeaders
  <2>5. /\ v.status \in 400..599 /\ WireCode(v.code) \in Words
        /\ WireCode(WireCode(v.code)) = WireCode(v.code)
    BY <1>3, VerdictsAre DEF Fits, WireCode, Words
  <2> HIDE DEF own
  <2>6. ErrorAnswer(q, Error(v.status, WireCode(v.code), own)) =
          [status |-> v.status, code |-> WireCode(v.code), id |-> <<q>>,
           note |-> "note" \in DOMAIN v.headers]
    BY <2>4, <2>5 DEF ErrorAnswer, Error
  <2>7. outcome.answer = ErrorAnswer(q, Error(v.status, WireCode(v.code), own))
    BY <2>2, <2>3 DEF Wrapped
  <2>8. outcome.reports = ReportsOf(outcome.answer)
    <3>1. err.status = v.status /\ err.code = WireCode(v.code)
      BY <2>3 DEF Error
    <3> HIDE DEF err
    <3> QED BY <2>2, <2>5, <3>1, ErrorIsReported
  <2> QED BY <1>3, <2>6, <2>7, <2>8 DEF Reads
<1>4. CASE v.kind = "error" /\ ~Fits(v)
  <2>1. "code" \notin DOMAIN sent.headers /\ sent.body = "error"
    BY <1>4, ErrorOnWire
  <2>2. outcome \in {Passed(OkAnswer(q, 200)), Wrapped(q, undecoded)}
    BY <2>1 DEF Heard
  <2>3. Reads(q, v) = {success, badGateway}
    BY <1>4 DEF Reads
  <2> QED BY <1>1, <1>2, <2>2, <2>3
<1>5. CASE v.kind # "error"
  <2>1. v.kind \in {"ok", "raw"}
    BY <1>5, VerdictsAre
  <2>2. "code" \notin DOMAIN sent.headers /\ sent.body = v.kind
    BY <1>5, SuccessOnWire
  <2>3. CASE v.kind = "ok"
    <3>1. outcome = Passed(OkAnswer(q, 200))
      BY <2>2, <2>3 DEF Heard
    <3>2. Reads(q, v) = {success}
      BY <2>3 DEF Reads
    <3> QED BY <1>1, <3>1, <3>2
  <2>4. CASE v.kind = "raw"
    <3>1. outcome \in {Passed(OkAnswer(q, 200)), Wrapped(q, undecoded)}
      BY <2>2, <2>4 DEF Heard
    <3>2. Reads(q, v) = {success, badGateway}
      BY <2>4 DEF Reads
    <3> QED BY <1>1, <1>2, <3>1, <3>2
  <2> QED BY <2>1, <2>3, <2>4
<1> QED BY <1>3, <1>4, <1>5

-----------------------------------------------------------------------------
(* What the client reads *)

\* Replies are of handlers that decided, and reports are theirs.
ReplyInv ==
  /\ \A d \in decided :
       /\ d.verdict \in Verdicts
       /\ d.reports = IF d.verdict.kind = "error" /\ d.verdict.status >= 500 THEN 1 ELSE 0
  /\ \A r \in wire : \E d \in decided :
       d.task = r.task /\ r.reply = ToWire(ReplyTo(r.task.req, d.verdict))

\* A request that is not answered has nothing reported, and one that was told reads
\* what was decided.
AnswerInv ==
  /\ DOMAIN answer = Requests
  /\ reports \in [Requests -> Nat]
  /\ \A q \in Requests :
       reports[q] = IF stage[q] \in {"told", "answered"} THEN ReportsOf(answer[q]) ELSE 0
  /\ VerdictReaches

ExchangeInv == ServiceInv /\ TaskInv /\ ReplyInv /\ AnswerInv

LEMMA EndReported ==
  ASSUME NEW q, NEW v \in Verdicts
  PROVE  NatsReports(ReplyTo(q, v), v) =
           IF v.kind = "error" /\ v.status >= 500 THEN 1 ELSE 0
<1>1. CASE v = Panicked
  BY <1>1 DEF NatsReports, Panicked, Error
<1>2. CASE v # Panicked /\ v.kind = "error"
  <2> DEFINE h == ReplyTo(q, v).headers
  <2>1. "status" \in DOMAIN h /\ h["status"] = v.status
    BY <1>2 DEF ReplyTo, ReplyErr, FrameworkHeaders, Framing
  <2> QED BY <1>2, <2>1 DEF NatsReports
<1>3. CASE v # Panicked /\ v.kind # "error"
  BY <1>3, SuccessOnWire DEF NatsReports
<1> QED BY <1>1, <1>2, <1>3

LEMMA ReplyInvStep == ReplyInv /\ [Next]_vars => ReplyInv'
<1> SUFFICES ASSUME ReplyInv, [Next]_vars PROVE ReplyInv'
  OBVIOUS
<1>1. ASSUME UNCHANGED decided, wire' \subseteq wire PROVE ReplyInv'
  BY <1>1 DEF ReplyInv
<1>2. ASSUME NEW task \in running, NEW verdict \in Verdicts, HandlerEnds(task, verdict)
      PROVE  ReplyInv'
  <2> DEFINE reply == ReplyTo(task.req, verdict)
             d == [task |-> task, verdict |-> verdict, reports |-> NatsReports(reply, verdict)]
             r == [task |-> task, reply |-> ToWire(reply)]
  <2>1. wire' = wire \cup {r} /\ decided' = decided \cup {d}
    BY <1>2 DEF HandlerEnds
  <2>2. /\ d.verdict \in Verdicts /\ d.task = task /\ d.verdict = verdict
        /\ d.reports = IF verdict.kind = "error" /\ verdict.status >= 500 THEN 1 ELSE 0
    BY EndReported
  <2>3. r.task = task /\ r.reply = ToWire(ReplyTo(task.req, verdict))
    OBVIOUS
  <2> HIDE DEF d, r
  <2> QED BY <2>1, <2>2, <2>3 DEF ReplyInv
<1>3. ASSUME NEW replica \in Replicas, NEW route \in routes,
             Subscribe(replica, route) \/ SubscriptionEnds(replica, route)
      PROVE  ReplyInv'
  BY <1>1, <1>3 DEF Subscribe, SubscriptionEnds
<1>4. ASSUME NEW replica \in Replicas, ReplicaStops(replica) PROVE ReplyInv'
  BY <1>1, <1>4 DEF ReplicaStops
<1>5. CASE Boot \/ UNCHANGED vars
  BY <1>1, <1>5 DEF Boot, vars
<1>6. CASE Asks
  <2>1. UNCHANGED decided /\ wire' \subseteq wire
    BY <1>6 DEF Asks, AnswerUnasked, Ask, Fails, ReplyArrives, ReplyLost
  <2> QED BY <1>1, <2>1
<1> QED BY <1>2, <1>3, <1>4, <1>5, <1>6 DEF Next, Serves

LEMMA FinishKeeps ==
  ASSUME AnswerInv, TaskInv, decided \subseteq decided',
         NEW q \in Requests, stage[q] \in {"new", "asking"}, NEW outcome,
         NEW how \in {"told", "answered"}, Finish(q, outcome, how),
         outcome.reports = ReportsOf(outcome.answer),
         how = "told" => \E v \in Decided(q) : outcome.answer \in Reads(q, v)
  PROVE  AnswerInv'
<1>1. /\ stage' = [stage EXCEPT ![q] = how] /\ stage \in [Requests -> Stages]
      /\ answer' = [answer EXCEPT ![q] = outcome.answer] /\ DOMAIN answer = Requests
      /\ reports' = [reports EXCEPT ![q] = @ + outcome.reports]
      /\ reports[q] = 0 /\ reports \in [Requests -> Nat]
  BY DEF Finish, AnswerInv, TaskInv
<1>2. outcome.reports \in Nat
  BY DEF ReportsOf
<1>3. reports' \in [Requests -> Nat] /\ DOMAIN answer' = Requests
  BY <1>1, <1>2
<1>4. \A p \in Requests : Decided(p) \subseteq Decided(p)'
  BY DEF Decided
<1>5. ASSUME NEW p \in Requests
      PROVE  /\ reports'[p] = IF stage'[p] \in {"told", "answered"}
                              THEN ReportsOf(answer'[p]) ELSE 0
             /\ stage'[p] = "told" => \E v \in Decided(p)' : answer'[p] \in Reads(p, v)
  <2>1. CASE p = q
    <3>1. reports'[p] = outcome.reports /\ stage'[p] = how /\ answer'[p] = outcome.answer
      BY <1>1, <1>2, <2>1
    <3> QED BY <1>4, <2>1, <3>1
  <2>2. CASE p # q
    <3>1. UNCHANGED <<reports[p], stage[p], answer[p]>>
      BY <1>1, <2>2
    <3> QED BY <1>4, <3>1 DEF AnswerInv, VerdictReaches
  <2> QED BY <2>1, <2>2
<1> QED BY <1>3, <1>5 DEF AnswerInv, VerdictReaches, ReportsOf

LEMMA AnswerInvStep == ExchangeInv /\ [Next]_vars => AnswerInv'
<1> SUFFICES ASSUME ExchangeInv, [Next]_vars PROVE AnswerInv'
  OBVIOUS
<1> USE DEF ExchangeInv
<1>1. ASSUME UNCHANGED <<stage, answer, reports>>, decided \subseteq decided'
      PROVE  AnswerInv'
  <2>1. \A p \in Requests : Decided(p) \subseteq Decided(p)'
    BY <1>1 DEF Decided
  <2> QED BY <1>1, <2>1 DEF AnswerInv, VerdictReaches, ReportsOf
<1>2. CASE Serves
  <2>1. UNCHANGED <<stage, answer, reports>> /\ decided \subseteq decided'
    BY <1>2 DEF Serves, Boot, Subscribe, SubscriptionEnds, ReplicaStops, HandlerEnds
  <2> QED BY <1>1, <2>1
<1>3. ASSUME NEW q \in Requests, AnswerUnasked(q) PROVE AnswerInv'
  <2>1. PICK outcome \in Unasked(q) : Finish(q, outcome, "answered")
    BY <1>3 DEF AnswerUnasked
  <2>2. stage[q] = "new" /\ UNCHANGED decided
    BY <1>3 DEF AnswerUnasked
  <2> QED BY <2>1, <2>2, UnaskedIsReported, FinishKeeps
<1>4. ASSUME NEW q \in Requests, NEW status \in {502, 504}, NEW code \in Words,
             stage[q] \in {"new", "asking"}, UNCHANGED decided,
             Finish(q, Wrapped(q, Error(status, code, <<>>)), "answered")
      PROVE  AnswerInv'
  <2> DEFINE err == Error(status, code, <<>>)
  <2>1. err.status \in 400..599 /\ err.code \in Words
    BY DEF Error
  <2> HIDE DEF err
  <2>2. Wrapped(q, err).reports = ReportsOf(Wrapped(q, err).answer)
    BY <2>1, ErrorIsReported
  <2> QED BY <1>4, <2>2, FinishKeeps DEF err
<1>5. ASSUME NEW q \in Requests, NEW subject \in Subjects, Ask(q, subject) PROVE AnswerInv'
  <2>1. stage[q] = "new" /\ UNCHANGED decided
    BY <1>5 DEF Ask
  <2>2. CASE Finish(q, Wrapped(q, Error(502, "NATS_NO_RESPONDERS", <<>>)), "answered")
    <3>1. "NATS_NO_RESPONDERS" \in Words
      BY DEF Words
    <3> QED BY <1>4, <2>1, <2>2, <3>1
  <2>3. CASE stage' = [stage EXCEPT ![q] = "asking"] /\ UNCHANGED <<answer, reports>>
    <3>1. \A p \in Requests : Decided(p)' = Decided(p)
      BY <2>1 DEF Decided
    <3>2. /\ stage \in [Requests -> Stages]
          /\ stage'[q] = "asking" /\ \A p \in Requests : p # q => stage'[p] = stage[p]
      BY <2>3 DEF TaskInv
    <3> QED BY <2>1, <2>3, <3>1, <3>2 DEF AnswerInv, VerdictReaches, ReportsOf
  <2> QED BY <1>5, <2>2, <2>3 DEF Ask
<1>6. ASSUME NEW q \in Requests,
             Fails(q, 502, "NATS_TRANSPORT_ERROR") \/ Fails(q, 504, "NATS_TIMEOUT")
      PROVE  AnswerInv'
  <2>1. "NATS_TRANSPORT_ERROR" \in Words /\ "NATS_TIMEOUT" \in Words
    BY DEF Words
  <2> QED BY <1>4, <1>6, <2>1 DEF Fails
<1>7. ASSUME NEW r \in wire, ReplyArrives(r) PROVE AnswerInv'
  <2> DEFINE q == r.task.req
  <2>1. PICK d \in decided : d.task = r.task /\ r.reply = ToWire(ReplyTo(q, d.verdict))
    BY DEF ReplyInv
  <2>2. q \in Requests /\ d.verdict \in Verdicts /\ d.verdict \in Decided(q)
    BY <2>1 DEF TaskInv, Tasks, ReplyInv, Decided
  <2>3. UNCHANGED decided
    BY <1>7 DEF ReplyArrives
  <2>4. CASE stage[q] = "asking"
    <3>1. PICK outcome \in Heard(q, r.reply) : Finish(q, outcome, "told")
      BY <1>7, <2>4 DEF ReplyArrives
    <3>2. /\ outcome.answer \in Reads(q, d.verdict)
          /\ outcome.reports = ReportsOf(outcome.answer)
      BY <2>1, <2>2, <3>1, HeardIsDecided
    <3> HIDE DEF q
    <3> QED BY <2>2, <2>3, <2>4, <3>1, <3>2, FinishKeeps
  <2>5. CASE stage[q] # "asking"
    BY <1>1, <1>7, <2>3, <2>5 DEF ReplyArrives
  <2> QED BY <2>4, <2>5
<1>8. ASSUME NEW r \in wire, ReplyLost(r) PROVE AnswerInv'
  BY <1>1, <1>8 DEF ReplyLost
<1>9. CASE UNCHANGED vars
  BY <1>1, <1>9 DEF vars
<1> QED BY <1>2, <1>3, <1>5, <1>6, <1>7, <1>8, <1>9 DEF Next, Asks

LEMMA ExchangeInvHolds == Spec => []ExchangeInv
<1>1. Init => ExchangeInv
  BY DEF Init, ExchangeInv, ServiceInv, TaskInv, OneResponder, Tasks, Stages, ReplyInv,
         AnswerInv, VerdictReaches
<1>2. ExchangeInv /\ [Next]_vars => ExchangeInv'
  BY ServiceInvStep, TaskInvStep, ReplyInvStep, AnswerInvStep DEF ExchangeInv
<1> QED BY <1>1, <1>2, PTL DEF Spec

\* A client whose handler heard a reply reads what a handler decided, for any headers
\* that travel with it, any number of replicas that reply and any reply that is lost.
THEOREM VerdictIsRead == Spec => []VerdictReaches
<1>1. ExchangeInv => VerdictReaches
  BY DEF ExchangeInv, AnswerInv
<1> QED BY <1>1, ExchangeInvHolds, PTL

\* Each service reports a server error it answers with exactly once, and nothing else.
THEOREM OneReport == Spec => []ReportedOnce
<1>1. ExchangeInv => ReportedOnce
  BY DEF ExchangeInv, AnswerInv, ReplyInv, ReportedOnce, ReportsOf
<1> QED BY <1>1, ExchangeInvHolds, PTL

=============================================================================
