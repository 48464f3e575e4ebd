-------------------------- MODULE MCEventTelemetry --------------------------
(* Model checking of EventTelemetry. *)
EXTENDS EventTelemetry

CONSTANTS b1, b2, r1, r2, r3

MCBusOf == [r \in Runtimes |-> IF r = r3 THEN b2 ELSE b1]

\* Nothing reads the logs of the buses but by which events they hold: an event has
\* its id for good.
WhatIsHeld == <<[b \in Buses |-> [i \in DOMAIN events[b] |-> events[b][i].eventId]],
    published, now, listeners, recorded, subscribed, since>>
=============================================================================
