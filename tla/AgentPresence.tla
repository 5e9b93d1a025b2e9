--------------------------- MODULE AgentPresence ---------------------------
(***************************************************************************)
(* What the networks see of one hub agent (server/relay_presence.go,       *)
(* presence_seed.go, relay_roster.go, relay_dropped.go, agents_drop.go,    *)
(* agents_enroll.go, roster_access.go): the relay's cache of its presence, *)
(* fed by events in the pump goroutine and by presence queries, which      *)
(* network enrolled its name, which networks dropped it, and what their    *)
(* sockets were told last.                                                 *)
(*                                                                         *)
(* The agent's presence is counted in versions, online when odd; 0 is an   *)
(* agent that is not in the cache or not shown.  The hub's side is the     *)
(* presence as the client's reader has read it.  The slot an EventOffline  *)
(* takes in the buffer is left out.                                        *)
(***************************************************************************)
EXTENDS Naturals, Sequences

CONSTANTS
  Networks, Procs,
  Retries,     \* delays of the background seed
  EventCap,    \* capacity of the hub client's event buffer
  MaxVersion,  \* bound: changes of the agent's presence
  MaxCalls     \* bound: requests

ASSUME PresenceAssumption ==
  /\ Retries \in Nat /\ EventCap \in Nat \ {0} /\ MaxVersion \in Nat \ {0}
  /\ MaxCalls \in Nat /\ "none" \notin Networks   \* None is no network

VARIABLES
  version,   \* the hub's word on the agent
  link,      \* is the hub connection up?
  events,    \* the event buffer: versions, and Online for EventOnline
  cache,     \* Relay.hubAgents
  pump,      \* the pump: its step, the event's version, networks still to tell
  seeds,     \* presence queries: the pump's and the background one's
  owner,     \* the store: the network that enrolled the agent's name, or None
  tombs,     \* the store: networks that dropped the agent
  dropped,   \* Relay.dropped
  view,      \* what a network's sockets were told last
  req,       \* requests under way
  calls,     \* bound: requests so far
  asked,     \* history: networks for which the hub was asked to issue or evict
  seeded,    \* history: was a query of this connection answered, for the latest EventOnline?
  gap,       \* history: did an event not fit in the buffer?
  regressed, \* history: did an older answer replace a newer presence?
  late,      \* history: networks told of the agent by what was decided before a drop
  blind      \* history: were the exclusions not loaded?

hubVars  == <<version, link, events>>
seedVars == <<cache, seeds, seeded, regressed>>
netVars  == <<owner, tombs, dropped, view, asked, late>>
vars == <<version, link, events, cache, pump, seeds, owner, tombs, dropped, view, req, calls,
          asked, seeded, gap, regressed, late, blind>>

None    == "none"
Online  == 0
Resting == [op |-> "none", step |-> "none", net |-> None, told |-> 0]
Seeders == {"pump", "background"}
NoSeed  == [left |-> 0, answer |-> 0, here |-> FALSE]
Idle    == [step |-> "idle", ver |-> 0, todo |-> {}, net |-> None]

-----------------------------------------------------------------------------
(* The hub and its client (external but for the buffer).                   *)

\* Wrong version: the buffer grows.
EmitUnbounded(e) == events' = Append(events, e)

Emit(e) == events' = IF Len(events) < EventCap THEN Append(events, e) ELSE events

HubChange ==
  /\ version < MaxVersion
  /\ version' = version + 1
  /\ IF link THEN Emit(version + 1) /\ gap' = (gap \/ Len(events) = EventCap)
     ELSE UNCHANGED <<events, gap>>
  /\ UNCHANGED <<link, pump, seedVars, netVars, req, calls, blind>>

Connect ==
  /\ ~link /\ link' = TRUE
  /\ Emit(Online)
  /\ gap' = (gap \/ Len(events) = EventCap) /\ seeded' = FALSE
  /\ UNCHANGED <<version, cache, pump, seeds, regressed, netVars, req, calls, blind>>

ConnLost ==
  /\ link /\ link' = FALSE
  /\ seeds' = [s \in Seeders |-> [seeds[s] EXCEPT !.here = FALSE]]
  /\ UNCHANGED <<version, events, cache, pump, seeded, regressed, netVars, req, calls, gap, blind>>

-----------------------------------------------------------------------------
(* Run: loadDropped, then one event at a time.                             *)

LoadDropped ==
  /\ pump.step = "load" /\ pump' = Idle
  /\ \/ dropped' = dropped \cup tombs /\ blind' = FALSE
     \/ dropped' = dropped /\ blind' = TRUE   \* a store error is logged
  /\ UNCHANGED <<hubVars, seedVars, owner, tombs, view, asked, late, req, calls, gap>>

\* EventOnline asks the hub for everybody; EventPresence goes to the cache, and
\* then to every network that has sockets.
TakeEvent ==
  /\ pump.step = "idle" /\ events # <<>>
  /\ events' = Tail(events)
  /\ IF Head(events) = Online
     THEN /\ pump' = [Idle EXCEPT !.step = "seed"]
          /\ seeds' = [seeds EXCEPT !["pump"] = [NoSeed EXCEPT !.left = 1]]
          /\ seeded' = FALSE /\ UNCHANGED <<cache, regressed>>
     ELSE /\ pump' = [Idle EXCEPT !.step = "next", !.ver = Head(events), !.todo = Networks]
          /\ cache' = Head(events) /\ regressed' = FALSE
          /\ UNCHANGED <<seeds, seeded>>
  /\ UNCHANGED <<version, link, netVars, req, calls, gap, blind>>

\* updateHubAgent's loop: the network owns the name and has not dropped the agent.
\* A failed store read is no ownership.
Check(n) ==
  /\ pump.step = "next" /\ n \in pump.todo
  /\ \/ owner = n /\ n \notin dropped /\ pump' = [pump EXCEPT !.step = "recheck", !.net = n, !.todo = @ \ {n}]
     \/ pump' = [pump EXCEPT !.todo = @ \ {n}]
  /\ UNCHANGED <<hubVars, seedVars, netVars, req, calls, gap, blind>>

\* Wrong version: what was checked before the access was read still holds.
RecheckPassesUnasked(n) == TRUE

RecheckPasses(n) == n \notin dropped

Recheck ==
  /\ pump.step = "recheck"
  /\ pump' = [pump EXCEPT !.step = IF RecheckPasses(pump.net) THEN "send" ELSE "next"]
  /\ UNCHANGED <<hubVars, seedVars, netVars, req, calls, gap, blind>>

Announce ==
  /\ pump.step = "send"
  /\ view' = [view EXCEPT ![pump.net] = pump.ver]
  /\ pump' = [pump EXCEPT !.step = "next", !.net = None]
  /\ UNCHANGED <<hubVars, seedVars, owner, tombs, dropped, asked, late, req, calls, gap, blind>>

EventDone ==
  /\ pump.step = "next" /\ pump.todo = {} /\ pump' = Idle
  /\ UNCHANGED <<hubVars, seedVars, netVars, req, calls, gap, blind>>

-----------------------------------------------------------------------------
(* seedHubPresence: one query by the pump and, when that fails, Retries    *)
(* more in the background.                                                 *)

Asking(s) == seeds[s].left > 0 /\ seeds[s].answer = 0

Answer(s) ==
  /\ Asking(s) /\ link
  /\ seeds' = [seeds EXCEPT ![s].answer = version, ![s].here = TRUE]
  /\ UNCHANGED <<hubVars, cache, seeded, regressed, pump, netVars, req, calls, gap, blind>>

PumpDone(s) == pump' = IF s = "pump" THEN Idle ELSE pump

\* Wrong version: a seed adds agents and changes none.
MergedUnknown(v) == IF cache = 0 THEN v ELSE cache

Merged(v) == v

Merge(s) ==
  /\ seeds[s].answer # 0
  /\ cache' = Merged(seeds[s].answer)
  /\ regressed' = (seeds[s].answer < cache)
  /\ seeded' = (seeded \/ seeds[s].here)
  /\ seeds' = [seeds EXCEPT ![s] = NoSeed]
  /\ PumpDone(s)
  /\ UNCHANGED <<hubVars, netVars, req, calls, gap, blind>>

SeedFails(s) ==
  /\ Asking(s)
  /\ IF s = "pump" THEN Retries > 0 => seeds["background"] = NoSeed  \* bound: one background seed at a time
     ELSE TRUE
  /\ seeds' = IF s = "pump"
              THEN [seeds EXCEPT !["pump"] = NoSeed, !["background"] = IF Retries = 0 THEN @ ELSE [NoSeed EXCEPT !.left = Retries]]
              ELSE [seeds EXCEPT ![s].left = @ - 1]
  /\ PumpDone(s)
  /\ UNCHANGED <<hubVars, cache, seeded, regressed, netVars, req, calls, gap, blind>>

\* An error the hub replies with is read as an answer without agents
\* (parsePresence): nothing is merged, and nobody asks again.
SeedRefused(s) ==
  /\ Asking(s) /\ link
  /\ seeds' = [seeds EXCEPT ![s] = NoSeed]
  /\ PumpDone(s)
  /\ UNCHANGED <<hubVars, cache, seeded, regressed, netVars, req, calls, gap, blind>>

-----------------------------------------------------------------------------
(* Requests: a manager drops the agent, enrols its name, or does something *)
(* that sends the network a new roster (a channel's change, a socket's     *)
(* greeting).                                                              *)
(* A request that is refused or fails at its first step has no effect.     *)

Begin(p, op, n, step) ==
  /\ req[p] = Resting /\ calls < MaxCalls
  /\ calls' = calls + 1
  /\ req' = [req EXCEPT ![p] = [op |-> op, step |-> step, net |-> n, told |-> 0]]

At(p, step)   == req[p].step = step
Goto(p, step) == req' = [req EXCEPT ![p].step = step]
Done(p)       == req' = [req EXCEPT ![p] = Resting]
Told(p, n)    == At(p, "send") /\ req[p].net = n /\ req[p].told # 0

\* dropAgent: isDropped answers 204, an empty hubAgentName 404.
DropAgent(p, n) ==
  /\ n \notin dropped /\ cache # 0
  /\ Begin(p, "drop", n, "tomb")
  /\ UNCHANGED <<hubVars, pump, seedVars, netVars, gap, blind>>

StoreDrop(p) ==
  /\ At(p, "tomb")
  /\ \/ tombs' = tombs \cup {req[p].net} /\ Goto(p, "mark")
     \/ UNCHANGED tombs /\ Done(p)   \* a store error
  /\ UNCHANGED <<hubVars, pump, seedVars, owner, dropped, view, asked, late, calls, gap, blind>>

\* dropHubAgent.
MarkDropped(p) ==
  LET n == req[p].net IN
  /\ At(p, "mark")
  /\ dropped' = dropped \cup {n}
  /\ Goto(p, "owner")
  /\ late' = IF (pump.step = "send" /\ pump.net = n) \/ \E q \in Procs : Told(q, n) THEN late \cup {n} ELSE late
  /\ UNCHANGED <<hubVars, pump, seedVars, owner, tombs, view, asked, calls, gap, blind>>

\* A failed AgentOwner is logged, and the roster goes out all the same.
LookUpOwner(p) ==
  /\ At(p, "owner")
  /\ \/ owner = req[p].net /\ Goto(p, "evict")
     \/ Goto(p, "compute")
  /\ UNCHANGED <<hubVars, pump, seedVars, netVars, calls, gap, blind>>

\* EvictAgent; whether the hub does it is seen in its presence events.
Evict(p) ==
  /\ At(p, "evict")
  /\ asked' = asked \cup {req[p].net}
  /\ Goto(p, "compute")
  /\ UNCHANGED <<hubVars, pump, seedVars, owner, tombs, dropped, view, late, calls, gap, blind>>

\* Wrong version: the last claim counts.
ClaimedByLast(n) == n

\* ClaimAgentOwner: the first claim counts.
Claimed(n) == IF owner = None THEN n ELSE owner

Claim(p, n) ==
  /\ owner' = Claimed(n) /\ owner' = n   \* else 409
  /\ Begin(p, "enroll", n, "issue")
  /\ UNCHANGED <<hubVars, pump, seedVars, tombs, dropped, view, asked, late, gap, blind>>

\* EnrollAgent or CreateAgentCredential; when the hub fails the claim stays.
Issue(p) ==
  /\ At(p, "issue")
  /\ asked' = asked \cup {req[p].net}
  /\ Done(p)
  /\ UNCHANGED <<hubVars, pump, seedVars, owner, tombs, dropped, view, late, calls, gap, blind>>

\* hubAgentMembers: 0 for an agent the network does not own (or the store does not
\* say so), has dropped, or the cache does not have.
Roster(n) == IF owner = n /\ n \notin dropped THEN cache ELSE 0

RosterRequest(p, n) ==
  /\ Begin(p, "roster", n, "compute")
  /\ UNCHANGED <<hubVars, pump, seedVars, netVars, gap, blind>>

ComputeRoster(p) ==
  LET n == req[p].net IN
  /\ At(p, "compute")
  /\ \/ \E told \in {Roster(n), 0} : req' = [req EXCEPT ![p].step = "send", ![p].told = told] /\ UNCHANGED late
     \/ /\ Done(p)   \* the members could not be read: the drop is not told
        /\ late' = IF req[p].op = "drop" THEN late \cup {n} ELSE late
  /\ UNCHANGED <<hubVars, pump, seedVars, owner, tombs, dropped, view, asked, calls, gap, blind>>

SendRoster(p) ==
  /\ At(p, "send")
  /\ view' = [view EXCEPT ![req[p].net] = req[p].told]
  /\ Done(p)
  /\ UNCHANGED <<hubVars, pump, seedVars, owner, tombs, dropped, asked, late, calls, gap, blind>>

-----------------------------------------------------------------------------
\* The store keeps who owns the name and who dropped the agent.
Fresh ==
  /\ link' = FALSE /\ events' = <<>> /\ cache' = 0 /\ pump' = [Idle EXCEPT !.step = "load"]
  /\ seeds' = [s \in Seeders |-> NoSeed] /\ dropped' = {} /\ view' = [n \in Networks |-> 0]
  /\ req' = [p \in Procs |-> Resting]
  /\ seeded' = FALSE /\ gap' = FALSE /\ regressed' = FALSE /\ late' = {} /\ blind' = FALSE

Restart ==
  /\ Fresh
  /\ UNCHANGED <<version, owner, tombs, calls, asked>>

\* The store may already know an owner.
Init ==
  /\ version = 1 /\ link = FALSE /\ events = <<>> /\ cache = 0 /\ pump = [Idle EXCEPT !.step = "load"]
  /\ seeds = [s \in Seeders |-> NoSeed] /\ owner \in Networks \cup {None} /\ tombs = {} /\ dropped = {}
  /\ view = [n \in Networks |-> 0] /\ req = [p \in Procs |-> Resting]
  /\ calls = 0 /\ asked = {}
  /\ seeded = FALSE /\ gap = FALSE /\ regressed = FALSE /\ late = {} /\ blind = FALSE

Next ==
  \/ HubChange \/ Connect \/ ConnLost \/ Restart
  \/ LoadDropped \/ TakeEvent \/ Recheck \/ Announce \/ EventDone
  \/ \E n \in Networks : Check(n)
  \/ \E s \in Seeders : Answer(s) \/ Merge(s) \/ SeedFails(s) \/ SeedRefused(s)
  \/ \E p \in Procs :
       \/ \E n \in Networks : DropAgent(p, n) \/ Claim(p, n) \/ RosterRequest(p, n)
       \/ StoreDrop(p) \/ MarkDropped(p) \/ LookUpOwner(p) \/ Evict(p)
       \/ Issue(p) \/ ComputeRoster(p) \/ SendRoster(p)

Spec == Init /\ [][Next]_vars

-----------------------------------------------------------------------------
TypeOK ==
  /\ version \in 1 .. MaxVersion /\ cache \in 0 .. version /\ Len(events) <= EventCap
  /\ pump.step \in {"load", "idle", "seed", "next", "recheck", "send"} /\ pump.todo \subseteq Networks
  /\ owner \in Networks \cup {None} /\ tombs \cup dropped \cup late \cup asked \subseteq Networks
  /\ \A n \in Networks : view[n] \in 0 .. version
  /\ \A s \in Seeders : seeds[s].left \in 0 .. 1 + Retries

Quiet == pump = Idle /\ events = <<>> /\ link /\ \A s \in Seeders : seeds[s] = NoSeed

\* Once everything read from the hub is worked off, the cache has the agent as the
\* hub has it, provided a query of this connection was answered, with agents and not
\* with an error, and no event was dropped; only an answer merged after a newer event or answer (by the
\* background seed) leaves it behind.
CacheRight == Quiet /\ seeded /\ ~gap => cache = version \/ regressed

\* A drop that has ended stays unseen in that network: through events, seeds,
\* rosters and restarts, unless the exclusions failed to load, the roster that
\* tells it could not be made, or a frame about the agent had passed its last
\* check when the drop was marked ("a drop completed meanwhile must not be
\* followed by a stale presence frame", relay_presence.go:33).
DroppedStaysHidden ==
  \A n \in tombs : ~blind /\ n \notin late /\ (\A p \in Procs : req[p].op = "drop" => req[p].net # n)
                     => view[n] = 0

\* The hub is asked to issue credentials for the agent's name or to evict it only
\* for one network ever, and no other network is shown it, whatever fails between
\* claim and enrolment and whoever drops it.
TenantsApart ==
  /\ asked \subseteq {owner}
  /\ \A n \in Networks : view[n] # 0 => owner = n
=============================================================================
