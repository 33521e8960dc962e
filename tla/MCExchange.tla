----------------------------- MODULE MCExchange -----------------------------
(***************************************************************************)
(* Routes with and without a queue group, and pairs of routes of which     *)
(* some overlap.                                                           *)
(***************************************************************************)
EXTENDS Exchange, TLC

CONSTANTS q1, r1, r2

NatsRoute(handler, subject, grouped) ==
  [handler |-> handler, wire |-> subject, queue |-> grouped]

MCRequests == {q1}
MCReplicas == {r1, r2}
MCSubjects == {<<"call", "a">>, <<"call", "b">>, <<"call", "a", "b">>}
MCStatuses == {404, 503}

MCRouteSets == {
  {NatsRoute("h", <<"call", Star>>, TRUE)},
  {NatsRoute("h", <<"call", Star>>, FALSE)},
  {NatsRoute("h", <<"call", Star>>, TRUE), NatsRoute("g", <<"call", "a", Star>>, TRUE)},
  {NatsRoute("h", <<"call", Star>>, TRUE), NatsRoute("g", <<Star, "a">>, TRUE)},
  {NatsRoute("h", <<"call", Star>>, TRUE), NatsRoute("g", <<"call", Star>>, TRUE)},
  {NatsRoute("h", <<"call", "a">>, TRUE), NatsRoute("g", <<"call", "b">>, FALSE)} }

MCSymmetry == Permutations(MCReplicas)

=============================================================================
