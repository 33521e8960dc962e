------------------------------ MODULE Exchange ------------------------------
(***************************************************************************)
(* One request of the HTTP service, whose handler asks another service on  *)
(* a NATS subject and passes on what it hears with `?`: the subjects a     *)
(* service boots with (nats_route.rs), its replicas' subscriptions and the *)
(* task each message gets, the reply and its way back, the requester       *)
(* (nats_request.rs), and the answer and the error report that the route   *)
(* wrapper and dispatch make of it (flatbed_macros/src/lib.rs,             *)
(* hyper/service.rs, error_reporting.rs).                                  *)
(*                                                                         *)
(* A header is its value's name; a message of an error, its details and    *)
(* its body are not told apart.                                            *)
(***************************************************************************)
EXTENDS Naturals, FiniteSets, Sequences, Functions

CONSTANTS
  Requests,     \* HTTP requests whose handler asks
  Subjects,     \* the subjects they ask, each a sequence of tokens
  Replicas,     \* of the service that answers
  RouteSets,    \* sets of `#[nats_route]`s: [handler, wire, queue], a handler each
  Statuses,     \* what handlers answer errors with
  MaxFaults,    \* bound: subscriptions that end, replicas that stop, replies lost
  Star,         \* the wildcard of a wire subject
  Unfit,        \* an error code that no header can carry
  None

ASSUME ExchangeAssumption ==
  /\ IsFiniteSet(Requests) /\ IsFiniteSet(Replicas) /\ MaxFaults \in Nat
  /\ Statuses \subseteq 400..599
  /\ \A set \in RouteSets : \A route \in set :
       DOMAIN route.wire = 1..Len(route.wire) /\ route.queue \in BOOLEAN

\* The codes of the framework's errors, and what else a header holds as it is.
Words ==
  {"", "OWN", "OK", "note", "ERROR", "PANIC", "HOOK", "BAD_REQUEST", "BODY_READ_ERROR",
   "DESERIALIZATION_ERROR", "SERIALIZATION_ERROR", "NATS_ENCODE_ERROR",
   "NATS_NO_RESPONDERS", "NATS_TRANSPORT_ERROR", "NATS_TIMEOUT", "NATS_DECODE_ERROR"}

ASSUME WordAssumption ==
  /\ None # Unfit
  /\ \A word \in Words : word \notin {None, Unfit}
  /\ \A status \in 400..599 : status # Unfit

VARIABLES
  routes,    \* what the answering service declares
  back,      \* "booting", "refused" or "up"
  subs,      \* the subscriptions: a replica and a route
  stage,     \* per HTTP request: "new", "asking", "told" (by a reply), "answered"
  running,   \* dispatch tasks of the answering service
  decided,   \* what their handlers decided, and how often it was reported
  wire,      \* replies on their way
  answer,    \* per HTTP request: the answer it got
  reports,   \* per HTTP request: the times an error of it was reported
  faults

service == <<routes, back, subs>>
vars == <<service, stage, running, decided, wire, answer, reports, faults>>

-----------------------------------------------------------------------------
(* What handlers return *)

Error(status, code, headers) ==
  [kind |-> "error", status |-> status, code |-> code, headers |-> headers]

\* Handlers set headers of their own, the framework's among them.
Forged == [id |-> <<"forged">>, code |-> "OK", status |-> 503, note |-> "note"]
OwnHeaders == {<<>>, Forged}

Errors ==
  [kind : {"error"}, status : Statuses, code : {"", "OWN", Unfit}, headers : OwnHeaders]

Panicked == Error(500, "PANIC", <<>>)

\* A raw body goes out under a content type of the handler's choosing.
Successes == [kind : {"ok", "raw"}, headers : OwnHeaders]

-----------------------------------------------------------------------------
(* The answering service *)

Matches(pattern, subject) ==
  /\ Len(pattern) = Len(subject)
  /\ \A i \in DOMAIN pattern : pattern[i] \in {Star, subject[i]}

\* Mutant of SubjectsOverlap: a wildcard is compared like any other token.
OverlapIfLiteral(first, second) ==
  /\ Len(first) = Len(second)
  /\ \A i \in DOMAIN first : first[i] = second[i]

\* `subjects_overlap`
SubjectsOverlap(first, second) ==
  /\ Len(first) = Len(second)
  /\ \A i \in DOMAIN first : first[i] = Star \/ second[i] = Star \/ first[i] = second[i]

\* `validate_nats_routes`, `find_conflict`: at boot.
Boot ==
  /\ back = "booting"
  /\ back' = IF \E first, second \in routes :
                   first # second /\ SubjectsOverlap(first.wire, second.wire)
             THEN "refused" ELSE "up"
  /\ UNCHANGED <<routes, subs, stage, running, decided, wire, answer, reports, faults>>

\* `run_nats_route`: the worker of a route, of a replica that starts or starts again.
Subscribe(replica, route) ==
  /\ back = "up" /\ <<replica, route>> \notin subs
  /\ subs' = subs \cup {<<replica, route>>}
  /\ UNCHANGED <<routes, back, stage, running, decided, wire, answer, reports, faults>>

\* The subscription ends, and with it the worker; tasks under way go on.
SubscriptionEnds(replica, route) ==
  /\ <<replica, route>> \in subs /\ faults < MaxFaults
  /\ subs' = subs \ {<<replica, route>>}
  /\ faults' = faults + 1
  /\ UNCHANGED <<routes, back, stage, running, decided, wire, answer, reports>>

\* The process of a replica is gone: nobody waits for its detached tasks.
ReplicaStops(replica) ==
  /\ faults < MaxFaults
  /\ subs' = {s \in subs : s[1] # replica}
  /\ running' = {task \in running : task.replica # replica}
  /\ subs' # subs \/ running' # running
  /\ faults' = faults + 1
  /\ UNCHANGED <<routes, back, stage, decided, wire, answer, reports>>

WireCode(code) == IF code = "" THEN "ERROR" ELSE code

Without(headers, names) == Restrict(headers, DOMAIN headers \ names)

FrameworkHeaders == {"id", "code", "status"}

\* The id the requester gives the message of a request (`request_headers`).
Hop(q) == <<q, "hop">>

\* `reply_ok`
ReplyOk(q, success) ==
  LET own == Without(success.headers, {"code", "status"})
  IN  [headers |-> [n \in {"id"} \cup DOMAIN own |-> IF n = "id" THEN Hop(q) ELSE own[n]],
       body |-> success.kind]

\* The framework's own headers of an error.
Framing(q, err, name) ==
  CASE name = "id" -> Hop(q)
    [] name = "code" -> WireCode(err.code)
    [] name = "status" -> err.status

\* Mutant of ReplyErr: the error's own headers displace the framework's.
ReplyErrOwnFirst(q, err) ==
  [headers |-> [n \in FrameworkHeaders \cup DOMAIN err.headers |->
                  IF n \in DOMAIN err.headers THEN err.headers[n] ELSE Framing(q, err, n)],
   body |-> "error"]

\* `reply_err`
ReplyErr(q, err) ==
  [headers |-> [n \in FrameworkHeaders \cup DOMAIN err.headers |->
                  IF n \in FrameworkHeaders THEN Framing(q, err, n) ELSE err.headers[n]],
   body |-> "error"]

\* `to_nats_headers`: a value that is not visible ASCII is left out.
ToWire(reply) ==
  [reply EXCEPT !.headers = Without(@, {n \in DOMAIN @ : @[n] = Unfit})]

\* What a wrapper of `#[nats_route]` and `dispatch` come to, the panic included.
Verdicts ==
  Successes \cup Errors \cup
    {Panicked, Error(400, "DESERIALIZATION_ERROR", <<>>), Error(500, "SERIALIZATION_ERROR", <<>>)}

ReplyTo(q, verdict) ==
  IF verdict.kind = "error" THEN ReplyErr(q, verdict) ELSE ReplyOk(q, verdict)

\* `dispatch`: a panic is reported as one, any other reply by its status header.
NatsReports(reply, verdict) ==
  CASE verdict = Panicked -> 1
    [] verdict # Panicked ->
         IF "status" \in DOMAIN reply.headers /\ reply.headers["status"] >= 500 THEN 1 ELSE 0

\* A task comes to its end and publishes.  A handler that hangs takes no such step.
HandlerEnds(task, verdict) ==
  /\ task \in running
  /\ LET reply == ReplyTo(task.req, verdict)
     IN  /\ wire' = wire \cup {[task |-> task, reply |-> ToWire(reply)]}
         /\ decided' = decided \cup
              {[task |-> task, verdict |-> verdict, reports |-> NatsReports(reply, verdict)]}
  /\ running' = running \ {task}
  /\ UNCHANGED <<service, stage, answer, reports, faults>>

ReplyLost(r) ==
  /\ r \in wire /\ faults < MaxFaults
  /\ wire' = wire \ {r}
  /\ faults' = faults + 1
  /\ UNCHANGED <<service, stage, running, decided, answer, reports>>

-----------------------------------------------------------------------------
(* The answer to an HTTP request *)

\* `build_route_error_response`, and the same in the wrapper of `#[route]`: the
\* error's own headers come after the request's id.
ErrorAnswer(q, err) ==
  [status |-> err.status, code |-> WireCode(err.code),
   id |-> IF "id" \in DOMAIN err.headers THEN err.headers["id"] ELSE <<q>>,
   note |-> "note" \in DOMAIN err.headers]

\* A handler's response that is not an error, whatever its status.
OkAnswer(q, status) == [status |-> status, code |-> None, id |-> <<q>>, note |-> FALSE]

IsServerError(status) == status >= 500

\* The wrapper of `#[route]` answers its handler's error, and reports it.
Wrapped(q, err) ==
  [answer |-> ErrorAnswer(q, err), reports |-> IF IsServerError(err.status) THEN 1 ELSE 0]

\* Other errors are dispatch's own: of the hook, of its codecs, a panic.
Dispatched(q, err) ==
  [answer |-> ErrorAnswer(q, err), reports |-> IF IsServerError(err.status) THEN 1 ELSE 0]

\* What dispatch passes on as it is.
Passed(a) == [answer |-> a, reports |-> 0]

\* A request is answered without a word to the other service.
Unasked(q) ==
  {Dispatched(q, Error(status, "HOOK", <<>>)) : status \in Statuses}
  \cup {Passed([OkAnswer(q, 415) EXCEPT !.id = None]),
        Passed(ErrorAnswer(q, Error(400, "BODY_READ_ERROR", <<>>))),
        Dispatched(q, Error(400, "BAD_REQUEST", <<>>)),
        Dispatched(q, Error(500, "SERIALIZATION_ERROR", <<>>)),
        Dispatched(q, Panicked),
        Wrapped(q, Error(500, "NATS_ENCODE_ERROR", <<>>))}
  \cup {Passed(OkAnswer(q, status)) : status \in {200} \cup Statuses}

Finish(q, outcome, how) ==
  /\ stage' = [stage EXCEPT ![q] = how]
  /\ answer' = [answer EXCEPT ![q] = outcome.answer]
  /\ reports' = [reports EXCEPT ![q] = @ + outcome.reports]

AnswerUnasked(q) ==
  /\ stage[q] = "new"
  /\ \E outcome \in Unasked(q) : Finish(q, outcome, "answered")
  /\ UNCHANGED <<service, running, decided, wire, faults>>

\* A message goes to every subscription its subject matches, in a queue group to one.
Recipients(subject) ==
  LET matched == {s \in subs : Matches(s[2].wire, subject)}
      grouped == {s[2] : s \in {t \in matched : t[2].queue}}
  IN  {{s \in matched : ~ s[2].queue} \cup {<<one[route], route>> : route \in grouped} :
         one \in {f \in [grouped -> Replicas] :
                    \A route \in grouped : <<f[route], route>> \in matched}}

\* The handler asks (`typed_request`); if nobody is subscribed, it hears so at once.
Ask(q, subject) ==
  /\ stage[q] = "new"
  /\ \E to \in Recipients(subject) :
       IF to = {}
       THEN /\ Finish(q, Wrapped(q, Error(502, "NATS_NO_RESPONDERS", <<>>)), "answered")
            /\ UNCHANGED running
       ELSE /\ stage' = [stage EXCEPT ![q] = "asking"]
            /\ running' = running \cup
                 {[req |-> q, replica |-> s[1], route |-> s[2]] : s \in to}
            /\ UNCHANGED <<answer, reports>>
  /\ UNCHANGED <<service, decided, wire, faults>>

\* The request could not be sent, or its reply was late: 502 or 504.
Fails(q, status, code) ==
  /\ stage[q] = "asking"
  /\ Finish(q, Wrapped(q, Error(status, code, <<>>)), "answered")
  /\ UNCHANGED <<service, running, decided, wire, faults>>

\* Mutant of Rejection: the headers of the reply stay on the error.
RejectionAsIs(headers) ==
  Error(IF "status" \in DOMAIN headers THEN headers["status"] ELSE 500,
        headers["code"], headers)

\* `rejection`
Rejection(headers) ==
  Error(IF "status" \in DOMAIN headers THEN headers["status"] ELSE 500,
        headers["code"], Without(headers, FrameworkHeaders))

\* `into_future`, once there is a reply, and `?`: what a body that is not the
\* encoded response decodes to is up to its bytes.
Heard(q, reply) ==
  IF "code" \in DOMAIN reply.headers THEN {Wrapped(q, Rejection(reply.headers))}
  ELSE {Passed(OkAnswer(q, 200))} \cup
         IF reply.body = "ok" THEN {} ELSE {Wrapped(q, Error(502, "NATS_DECODE_ERROR", <<>>))}

\* The first reply is the one; others land on a closed inbox.
ReplyArrives(r) ==
  /\ r \in wire
  /\ wire' = wire \ {r}
  /\ LET q == r.task.req
     IN  IF stage[q] = "asking" THEN \E outcome \in Heard(q, r.reply) : Finish(q, outcome, "told")
         ELSE UNCHANGED <<stage, answer, reports>>
  /\ UNCHANGED <<service, running, decided, faults>>

-----------------------------------------------------------------------------
Init ==
  /\ routes \in RouteSets /\ back = "booting" /\ subs = {}
  /\ stage = [q \in Requests |-> "new"]
  /\ running = {} /\ decided = {} /\ wire = {}
  /\ answer = [q \in Requests |-> None]
  /\ reports = [q \in Requests |-> 0]
  /\ faults = 0

Serves ==
  \/ Boot
  \/ \E replica \in Replicas, route \in routes :
       Subscribe(replica, route) \/ SubscriptionEnds(replica, route)
  \/ \E replica \in Replicas : ReplicaStops(replica)
  \/ \E task \in running, verdict \in Verdicts : HandlerEnds(task, verdict)

Asks ==
  \/ \E q \in Requests :
       \/ AnswerUnasked(q)
       \/ \E subject \in Subjects : Ask(q, subject)
       \/ Fails(q, 502, "NATS_TRANSPORT_ERROR")
       \/ Fails(q, 504, "NATS_TIMEOUT")
  \/ \E r \in wire : ReplyArrives(r) \/ ReplyLost(r)

Next == Serves \/ Asks

Spec == Init /\ [][Next]_vars

-----------------------------------------------------------------------------
(* Properties *)

Fits(err) == err.code # Unfit

\* What the client of q reads when a handler of the other service decided v.
Reads(q, v) ==
  LET asDecided == [status |-> v.status, code |-> WireCode(v.code), id |-> <<q>>,
                    note |-> "note" \in DOMAIN v.headers]
      badGateway == [status |-> 502, code |-> "NATS_DECODE_ERROR", id |-> <<q>>, note |-> FALSE]
      success == [status |-> 200, code |-> None, id |-> <<q>>, note |-> FALSE]
  IN  CASE v.kind = "ok" -> {success}
        [] v.kind = "error" -> IF Fits(v) THEN {asDecided} ELSE {success, badGateway}
        [] v.kind = "raw" -> {success, badGateway}

Decided(q) == {d.verdict : d \in {e \in decided : e.task.req = q}}

\* A client whose handler heard a reply reads what a handler of the other service
\* decided: a rejection with its status, code and own headers, a success as one, or a
\* bad gateway for a body that is not what the requester expects.  Headers a handler
\* forges change none of it, and the id is the client's own, never that of the message
\* in between.  Only an error whose code no header can carry is read as something else
\* (reply_ok, reply_err, into_future, rejection, build_route_error_response).
VerdictReaches ==
  \A q \in Requests : stage[q] = "told" => \E v \in Decided(q) : answer[q] \in Reads(q, v)

\* Each service reports a server error it answers with once, and nothing else: not a
\* success whose headers speak of one, not an error that is the client's, not the
\* reply of a handler that nobody hears any more (dispatch of nats_route.rs, dispatch
\* of hyper/service.rs, __report_http_route_error).
ReportedOnce ==
  /\ \A q \in Requests :
       reports[q] = IF /\ stage[q] \in {"told", "answered"}
                       /\ answer[q].code # None /\ answer[q].status >= 500
                    THEN 1 ELSE 0
  /\ \A d \in decided :
       d.reports = IF d.verdict.kind = "error" /\ d.verdict.status >= 500 THEN 1 ELSE 0

\* A message has one responder, and where its route has a queue group one replica of
\* it: no declared pattern that boot lets through shares a subject with another, and
\* no other task for the same request is ever under way or done
\* (validate_nats_routes, run_nats_route).
OneResponder ==
  \A q \in Requests :
    LET tasks == {t \in running \cup {d.task : d \in decided} : t.req = q}
    IN  \A t, u \in tasks : t.route = u.route /\ (t.route.queue => t = u)

=============================================================================
