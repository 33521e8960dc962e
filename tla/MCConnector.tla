---------------------------- MODULE MCConnector ----------------------------
(***************************************************************************)
(* Instances of Connector for TLC: the connector's gate, with its two      *)
(* owners, and a gate of the application.                                  *)
(***************************************************************************)
EXTENDS Connector, TLC

CONSTANTS nats, other, boot, events, app, refused, reset

MCGates == {nats, other}
MCOwners == {boot, events, app}
MCHolds == (boot :> {nats}) @@ (events :> {nats}) @@ (app :> {other})
MCErrors == {refused, reset}

=============================================================================
