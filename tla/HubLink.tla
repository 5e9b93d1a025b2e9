------------------------------- MODULE HubLink -------------------------------
(***************************************************************************)
(* The hub client as its users see it: a connection that comes and goes,   *)
(* and a bounded buffer of events about it.  RelayOutbox runs against this *)
(* module; DapLink, the client itself, implements it.                      *)
(***************************************************************************)
EXTENDS Naturals, Sequences

CONSTANT EventCap     \* capacity of the event buffer (1024 in the code)

ASSUME EventCapAssumption == EventCap \in Nat \ {0}

VARIABLES
  link,      \* where the connection loop stands
  events     \* DapClient.events

linkVars == <<link, events>>

EventKinds == {"online", "offline", "traffic"}

\* The states in which Send may write a frame.
Live == {"connected", "serving"}

\* Wrong version: a buffer without a bound.
EmitUnbounded(e) == events' = Append(events, e)

\* emit never blocks: a full buffer drops the event.
Emit(e) == events' = IF Len(events) < EventCap THEN Append(events, e) ELSE events

LinkInit == link = "idle" /\ events = <<>>

\* Dial, hello and welcome succeeded; setOnline(true).
Connect ==
  /\ link = "idle"
  /\ link' = "connected"
  /\ UNCHANGED events

AnnounceOnline ==
  /\ link = "connected"
  /\ link' = "serving"
  /\ Emit("online")

\* connectOnce returned an error: it could not connect, or its connection died.
ConnLost ==
  /\ link \in {"idle", "serving"}
  /\ link' = "lost"
  /\ UNCHANGED events

\* setOnline(false), the event, then a pause.
AnnounceOffline ==
  /\ link = "lost"
  /\ link' = "idle"
  /\ Emit("offline")

\* An inbound msg or presence frame.
Traffic ==
  /\ link = "serving"
  /\ Emit("traffic")
  /\ UNCHANGED link

\* The user of the client takes the oldest event.
Take(e) ==
  /\ events # <<>> /\ Head(events) = e
  /\ events' = Tail(events)
  /\ UNCHANGED link

LinkStep == Connect \/ AnnounceOnline \/ ConnLost \/ AnnounceOffline \/ Traffic

LinkNext == LinkStep \/ \E e \in EventKinds : Take(e)

LinkSpec == LinkInit /\ [][LinkNext]_linkVars

=============================================================================
