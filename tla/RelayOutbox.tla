----------------------------- MODULE RelayOutbox -----------------------------
(***************************************************************************)
(* The relay's outbound path: sendMessage / wsEnvelopeSend store an        *)
(* envelope and call Relay.Outbound, which either hands it to the hub      *)
(* client from the caller's own goroutine or queues it; Relay.Run is one   *)
(* goroutine that consumes the hub client's events and drains the queues   *)
(* after a reconnect (internal/server/relay.go).                           *)
(*                                                                         *)
(* A step is one critical section of Relay.mu, one hub.Send call, or one   *)
(* event handed over: everything in between may interleave.  The hub       *)
(* client (internal/hub/dap.go) is seen from outside here: module HubLink. *)
(***************************************************************************)
EXTENDS HubLink, SequencesExt

CONSTANTS
  Channels,   \* channel ids
  Envelopes,  \* envelope ids; an id also names the goroutine of its request
  ChannelOf,  \* the channel an envelope is sent to
  None        \* "no envelope"

ASSUME OutboxAssumption ==
  /\ ChannelOf \in [Envelopes -> Channels]
  /\ Envelopes \cap Channels = {}
  /\ None \notin Envelopes

VARIABLES
  queues,    \* Relay.queues: per channel, the envelopes waiting to be sent
  sending,   \* Relay.sending: the channels some goroutine is sending for
  online,    \* Relay.online: what the relay believes of the hub
  pump,      \* Relay.Run's goroutine: waiting, or between setOnline and drainAll
  pc,        \* program counter of the goroutines that may run deliver
  held,      \* deliver's local env
  admitted,  \* history: envelopes Outbound has taken
  earlier,   \* history: for each, those of its channel taken before it
  behind,    \* history: envelopes that Outbound put in a queue
  handed,    \* history: envelopes that reached the hub connection
  lost       \* history: envelopes that a restart wiped from memory

relayVars == <<queues, sending, online, pc, held>>
history   == <<admitted, earlier, behind, handed, lost>>
vars      == <<relayVars, pump, linkVars, history>>

-----------------------------------------------------------------------------
(* The goroutine that may run deliver for a request is named by its         *)
(* envelope; the one that drainAll starts for a channel, by the channel:    *)
(* sending[c] stays set until that goroutine ends, so one name is enough    *)
(* (SingleSender below is what makes this true).                            *)

Procs == Envelopes \cup Channels
Chan(p) == IF p \in Channels THEN p ELSE ChannelOf[p]

Carrying == {"send", "failed", "requeue"}        \* deliver holds an envelope
Running  == Carrying \cup {"next", "exit"}        \* deliver is on the stack
Labels   == Running \cup {"new", "stored", "done"}

Active(p) == pc[p] \in Running
Carries(p, m) == pc[p] \in Carrying /\ held[p] = m

Queued(m) == m \in ToSet(queues[ChannelOf[m]])

\* Envelopes the process still has in memory, on their way to the hub.
InRelay == {m \in Envelopes : pc[m] = "stored" \/ Queued(m) \/ \E p \in Procs : Carries(p, m)}

Stored   == {m \in Envelopes : pc[m] # "new"}

-----------------------------------------------------------------------------
\* The hub client runs before NewRelay reads hubClient.Online(), and may have
\* connected by then.
Init ==
  /\ link \in {"idle", "connected"}
  /\ online = (link = "connected")
  /\ queues = [c \in Channels |-> <<>>]
  /\ sending = {}
  /\ pump = "wait"
  /\ pc = [p \in Procs |-> IF p \in Envelopes THEN "new" ELSE "done"]
  /\ held = [p \in Procs |-> None]
  /\ events = <<>>
  /\ admitted = {}
  /\ earlier = [m \in Envelopes |-> {}]
  /\ behind = {}
  /\ handed = {}
  /\ lost = {}

-----------------------------------------------------------------------------
(* Requests.                                                                *)

\* AppendEnvelope stored the id for the first time.  A retry of a stored id
\* returns before Outbound and changes nothing.
Store(m) ==
  /\ pc[m] = "new"
  /\ pc' = [pc EXCEPT ![m] = "stored"]
  /\ UNCHANGED <<queues, sending, online, held, pump, linkVars, history>>

\* Outbound admits envelopes one at a time, under Relay.mu.
Admit(m) ==
  /\ admitted' = admitted \cup {m}
  /\ earlier' = [earlier EXCEPT ![m] = {k \in admitted : ChannelOf[k] = ChannelOf[m]}]

OutboundQueue(m) ==
  /\ pc[m] = "stored"
  /\ ~online \/ ChannelOf[m] \in sending
  /\ queues' = [queues EXCEPT ![ChannelOf[m]] = Append(@, m)]
  /\ pc' = [pc EXCEPT ![m] = "done"]
  /\ Admit(m)
  /\ behind' = behind \cup {m}
  /\ UNCHANGED <<sending, online, held, pump, linkVars, handed, lost>>

OutboundDirect(m) ==
  /\ pc[m] = "stored"
  /\ online /\ ChannelOf[m] \notin sending
  /\ sending' = sending \cup {ChannelOf[m]}
  /\ pc' = [pc EXCEPT ![m] = "send"]
  /\ held' = [held EXCEPT ![m] = m]
  /\ Admit(m)
  /\ UNCHANGED <<queues, online, pump, linkVars, behind, handed, lost>>

-----------------------------------------------------------------------------
(* deliver, run by a request or by a goroutine that drainAll started.       *)

\* hub.Send returned nil: the frame is written to the connection.
SendOk(p) ==
  /\ pc[p] = "send"
  /\ link \in Live
  /\ handed' = handed \cup {held[p]}
  /\ pc' = [pc EXCEPT ![p] = "next"]
  /\ UNCHANGED <<queues, sending, online, held, pump, linkVars, admitted, earlier, behind, lost>>

\* hub.Send returned an error: the client is offline, the write failed, or the
\* context of the request whose goroutine sends was cancelled, which leaves the
\* connection up.  A write can fail after the frame went out.
SendFail(p) ==
  /\ pc[p] = "send"
  /\ \/ UNCHANGED handed
     \/ link \in Live /\ handed' = handed \cup {held[p]}
  /\ pc' = [pc EXCEPT ![p] = "failed"]
  /\ UNCHANGED <<queues, sending, online, held, pump, linkVars, admitted, earlier, behind, lost>>

\* Wrong version: the failed envelope is forgotten.
MarkOfflineAndDrop(p) ==
  /\ pc[p] = "failed"
  /\ online' = FALSE
  /\ pc' = [pc EXCEPT ![p] = "exit"]
  /\ UNCHANGED <<queues, sending, held, pump, linkVars, history>>

\* setOnline(false): a critical section of its own.
MarkOffline(p) ==
  /\ pc[p] = "failed"
  /\ online' = FALSE
  /\ pc' = [pc EXCEPT ![p] = "requeue"]
  /\ UNCHANGED <<queues, sending, held, pump, linkVars, history>>

\* Wrong version: the failed envelope goes to the back of the queue.
RequeueBack(p) ==
  /\ pc[p] = "requeue"
  /\ queues' = [queues EXCEPT ![Chan(p)] = Append(@, held[p])]
  /\ pc' = [pc EXCEPT ![p] = "exit"]
  /\ UNCHANGED <<sending, online, held, pump, linkVars, history>>

\* Wrong version: no break after the failure.
RequeueAndRetry(p) ==
  /\ pc[p] = "requeue"
  /\ queues' = [queues EXCEPT ![Chan(p)] = <<held[p]>> \o @]
  /\ pc' = [pc EXCEPT ![p] = "next"]
  /\ UNCHANGED <<sending, online, held, pump, linkVars, history>>

\* The failed envelope goes back to the front of its queue.
Requeue(p) ==
  /\ pc[p] = "requeue"
  /\ queues' = [queues EXCEPT ![Chan(p)] = <<held[p]>> \o @]
  /\ pc' = [pc EXCEPT ![p] = "exit"]
  /\ UNCHANGED <<sending, online, held, pump, linkVars, history>>

\* Wrong version: the head is read and not removed.
NextQueuedPeek(p) ==
  /\ pc[p] = "next"
  /\ queues[Chan(p)] # <<>>
  /\ held' = [held EXCEPT ![p] = Head(queues[Chan(p)])]
  /\ pc' = [pc EXCEPT ![p] = "send"]
  /\ UNCHANGED <<queues, sending, online, pump, linkVars, history>>

NextQueued(p) ==
  /\ pc[p] = "next"
  /\ queues[Chan(p)] # <<>>
  /\ held' = [held EXCEPT ![p] = Head(queues[Chan(p)])]
  /\ queues' = [queues EXCEPT ![Chan(p)] = Tail(@)]
  /\ pc' = [pc EXCEPT ![p] = "send"]
  /\ UNCHANGED <<sending, online, pump, linkVars, history>>

QueueEmpty(p) ==
  /\ pc[p] = "next"
  /\ queues[Chan(p)] = <<>>
  /\ pc' = [pc EXCEPT ![p] = "exit"]
  /\ UNCHANGED <<queues, sending, online, held, pump, linkVars, history>>

\* Wrong version: the channel is never given back.
ExitHoldingChannel(p) ==
  /\ pc[p] = "exit"
  /\ pc' = [pc EXCEPT ![p] = "done"]
  /\ held' = [held EXCEPT ![p] = None]
  /\ UNCHANGED <<sending, queues, online, pump, linkVars, history>>

\* delete(r.sending, channelID): a later critical section than the one that
\* found the queue empty.
Exit(p) ==
  /\ pc[p] = "exit"
  /\ sending' = sending \ {Chan(p)}
  /\ pc' = [pc EXCEPT ![p] = "done"]
  /\ held' = [held EXCEPT ![p] = None]
  /\ UNCHANGED <<queues, online, pump, linkVars, history>>

\* The rest of deliver needs nothing but the mutex.
AfterSend(p) == MarkOffline(p) \/ Requeue(p) \/ NextQueued(p) \/ QueueEmpty(p) \/ Exit(p)

Deliver(p) == SendOk(p) \/ SendFail(p) \/ AfterSend(p)

-----------------------------------------------------------------------------
(* Relay.Run: one event at a time.                                          *)

TakeEvent(e) == pump = "wait" /\ Take(e)

HandleOffline ==
  /\ TakeEvent("offline")
  /\ online' = FALSE
  /\ UNCHANGED <<queues, sending, pc, held, pump, history>>

\* setOnline(true) comes first; joinAllChannels and seedHubPresence then talk
\* to the hub, for up to ten seconds, before drainAll looks at the queues.
HandleOnline ==
  /\ TakeEvent("online")
  /\ online' = TRUE
  /\ pump' = "drain"
  /\ UNCHANGED <<queues, sending, pc, held, history>>

\* msg and presence events: see the inbound and presence modules.
HandleTraffic ==
  /\ TakeEvent("traffic")
  /\ UNCHANGED <<relayVars, pump, history>>

\* Wrong version: a queue is drained though another goroutine sends for it.
DrainAllAnySender ==
  LET idle == {c \in Channels : queues[c] # <<>>}
  IN  /\ pump = "drain"
      /\ pump' = "wait"
      /\ sending' = sending \cup idle
      /\ queues' = [c \in Channels |-> IF c \in idle THEN Tail(queues[c]) ELSE queues[c]]
      /\ held' = [p \in Procs |-> IF p \in idle THEN Head(queues[p]) ELSE held[p]]
      /\ pc' = [p \in Procs |-> IF p \in idle THEN "send" ELSE pc[p]]
      /\ UNCHANGED <<online, linkVars, history>>

\* drainAll holds Relay.mu throughout: every channel with a queue and no sender
\* gets a goroutine that starts with the head of the queue.
DrainAll ==
  LET idle == {c \in Channels : queues[c] # <<>> /\ c \notin sending}
  IN  /\ pump = "drain"
      /\ pump' = "wait"
      /\ sending' = sending \cup idle
      /\ queues' = [c \in Channels |-> IF c \in idle THEN Tail(queues[c]) ELSE queues[c]]
      /\ held' = [p \in Procs |-> IF p \in idle THEN Head(queues[p]) ELSE held[p]]
      /\ pc' = [p \in Procs |-> IF p \in idle THEN "send" ELSE pc[p]]
      /\ UNCHANGED <<online, linkVars, history>>

Pump == HandleOffline \/ HandleOnline \/ HandleTraffic \/ DrainAll

-----------------------------------------------------------------------------
(* The hub client takes a step of its own.                                  *)

RelayRests == UNCHANGED <<relayVars, pump, history>>

Hub == LinkStep /\ RelayRests

-----------------------------------------------------------------------------
\* The process ends, by a crash or a shutdown, and starts again.  The store
\* keeps the envelopes, nothing reads them back into the queues, and their ids
\* stay taken.
Restart ==
  /\ lost' = lost \cup (Stored \ handed)
  /\ queues' = [c \in Channels |-> <<>>]
  /\ sending' = {}
  /\ link' \in {"idle", "connected"}
  /\ online' = (link' = "connected")
  /\ pump' = "wait"
  /\ pc' = [p \in Procs |-> IF pc[p] = "new" THEN "new" ELSE "done"]
  /\ held' = [p \in Procs |-> None]
  /\ events' = <<>>
  /\ UNCHANGED <<admitted, earlier, behind, handed>>

Request(m) == Store(m) \/ OutboundQueue(m) \/ OutboundDirect(m)

Next ==
  \/ \E m \in Envelopes : Request(m)
  \/ \E p \in Procs : Deliver(p)
  \/ Pump
  \/ Hub
  \/ Restart

Spec == Init /\ [][Next]_vars

(* Go's scheduler runs every goroutine that can run, and Relay.Run takes     *)
(* what is in the event channel.  Clients, the hub, its network and the      *)
(* process owner promise nothing, so hub.Send may never return: drainAll's   *)
(* context has no deadline.  The connection loop itself is a goroutine, so   *)
(* it does announce a change it has seen.                                    *)
Fairness ==
  /\ \A m \in Envelopes : WF_vars(OutboundQueue(m) \/ OutboundDirect(m))
  /\ \A p \in Procs : WF_vars(AfterSend(p))
  /\ WF_vars(Pump)
  /\ WF_vars(AnnounceOnline /\ RelayRests)
  /\ WF_vars(AnnounceOffline /\ RelayRests)

FairSpec == Spec /\ Fairness

-----------------------------------------------------------------------------
(* Properties.                                                              *)

TypeOK ==
  /\ queues \in [Channels -> Seq(Envelopes)]
  /\ sending \in SUBSET Channels
  /\ online \in BOOLEAN
  /\ pump \in {"wait", "drain"}
  /\ pc \in [Procs -> Labels]
  /\ held \in [Procs -> Envelopes \cup {None}]
  /\ link \in {"idle", "connected", "serving", "lost"}
  /\ events \in Seq(EventKinds) /\ Len(events) <= EventCap
  /\ admitted \in SUBSET Envelopes
  /\ earlier \in [Envelopes -> SUBSET Envelopes]
  /\ behind \in SUBSET Envelopes
  /\ handed \in SUBSET Envelopes
  /\ lost \in SUBSET Envelopes

\* At most one goroutine runs deliver for a channel, and Relay.sending says so
\* exactly while one does (relay.go:106-112, 143-145, 158-161).
SingleSender ==
  /\ \A p, q \in Procs : Active(p) /\ Active(q) /\ Chan(p) = Chan(q) => p = q
  /\ \A c \in Channels : c \in sending <=> \E p \in Procs : Active(p) /\ Chan(p) = c

\* An envelope is never in two places of the relay: once in its channel's queue,
\* or in the hands of one goroutine, or still with its request; and no queue
\* or goroutine holds an envelope of another channel (relay.go:102, 107, 130, 136-137, 162-163).
OnePlace ==
  /\ \A c \in Channels :
       /\ IsInjective(queues[c])
       /\ \A m \in ToSet(queues[c]) : ChannelOf[m] = c /\ pc[m] # "stored"
  /\ \A p \in Procs : pc[p] \in Carrying =>
       /\ held[p] \in admitted /\ ChannelOf[held[p]] = Chan(p)
       /\ ~Queued(held[p])

\* An envelope that Outbound queued reaches the connection only after every
\* envelope of its channel that Outbound took before it, except those a restart
\* lost: whatever fails and is put back, a queue is never overtaken from within
\* (relay.go:96-98, 128-138).
QueuedNeverOvertakes ==
  \A m \in behind \cap handed : earlier[m] \subseteq handed \cup lost

\* The relay implements AtLeastOnce: short of a restart, an envelope leaves the
\* queues, the requests and the goroutines that send only once the connection
\* has had it (messages.go:119-130, relay.go:96-168).
Promise == INSTANCE AtLeastOnce
             WITH taken <- Stored, pending <- InRelay, forwarded <- handed
ImplementsAtLeastOnce == Promise!ASpec

\* What a sender waits for and the code cannot give: each hub.Send returns
\* (relay.go:124, 164).
SendsReturn == \A p \in Procs : []<>(pc[p] # "send")

\* If each hub.Send returns and from some time on no request adds to a queue, a
\* goroutine that sends for a channel ends: it does not try a failed envelope for
\* ever.  While requests keep queueing it may go on (relay.go:116-146).
EverySenderExits ==
  /\ SendsReturn
  /\ <>[][~\E m \in Envelopes : OutboundQueue(m)]_vars
  => \A c \in Channels : c \in sending ~> c \notin sending

\* If each Send returns, from some time on none fails and the process stays up,
\* and drainAll keeps being reached (the hub keeps reconnecting), every envelope that Outbound
\* took gets to the connection or was lost to an earlier restart: what the races
\* of one drain leave behind, a later drain picks up (relay.go:148-168).
DrainsEventually ==
  /\ SendsReturn
  /\ <>[][~\E p \in Procs : SendFail(p)]_vars
  /\ <>[][~Restart]_vars
  /\ []<><<DrainAll>>_vars
  => \A m \in Envelopes : m \in admitted ~> m \in handed \cup lost

-----------------------------------------------------------------------------
(* What the documentation says and the code does not do.                    *)

\* "outbound envelopes queue and drain once the hub comes online"
\* (README.md:258-259): once the hub connection stays up, what Outbound took
\* gets to it.
QueuedReachHub ==
  <>[](link = "serving") =>
    \A m \in Envelopes : m \in admitted ~> m \in handed \cup lost

=============================================================================
