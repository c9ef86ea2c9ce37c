---------------------------- MODULE WatchDelivery ----------------------------
(***************************************************************************)
(* watch() implements CursorDelivery: the stream that holds the lease is   *)
(* the open reader, the page its consumer works on is the stretch in hand. *)
(* Sources left behind by ended streams, prefetched pages and restarts all *)
(* disappear in this view.                                                 *)
(***************************************************************************)
EXTENDS TelemetryWatch

\* The open reader: the stream with the lease, once it has its first position.
Reading == lease # NoLease /\ cursor[lease] # NoCursor

\* The position it has handed out, and where the page in hand begins.
HandedOut == IF Reading THEN pos[lease] ELSE NoCursor
InHand == IF Reading /\ con[lease] \in {"handling", "busy"} THEN page[lease].from ELSE NoCursor

Promise == INSTANCE CursorDelivery WITH
    Events <- EventLedgers, saved <- savedEvents, at <- HandedOut, held <- InHand

\* watch() with its pump, its prefetched pages, its zombies and its restarts is a
\* stream whose durable cursor follows the consumer (telemetry.ts:1282-1343, 2873).
KeepsPromise == Promise!Spec
=============================================================================
