------------------------------- MODULE Sockets -------------------------------
(***************************************************************************)
(* The browser sockets of one member (internal/server/ws.go, registry.go)  *)
(* and the stored presence that is derived from them (SyncMemberPresence,  *)
(* relay.go).  A socket has a handler goroutine, which registers it,       *)
(* greets, reads frames and cleans up, and a writer goroutine; everybody   *)
(* else reaches it through its send buffer.  A step is one critical        *)
(* section of the registry, one store access, or one channel operation.    *)
(***************************************************************************)
EXTENDS Naturals

CONSTANTS
  Sockets,   \* connections that are made in the run, all of one member
  SendCap    \* capacity of a socket's send buffer (64 in the code)

ASSUME SocketsAssumption == SendCap \in Nat \ {0}

VARIABLES
  pc,          \* the handler goroutine (serveWS, handleWSConn)
  writer,      \* wsWriteLoop's goroutine
  net,         \* the WebSocket: up, or down once it fails or is closed
  buf,         \* how many frames wait in wsConn.send
  done,        \* wsConn.done is closed
  silent,      \* no ping from the client for longer than wsGhostAfter
  registered,  \* SessionRegistry
  presence,    \* the member's stored presence
  seen,        \* the presence in the handler's copy of the member
  member,      \* the member's row exists
  kick, targets,  \* where kickMember stands, and the sockets it collected
  overlap,     \* history: two handlers of the member were active at once
  unstored,    \* history: the stored presence was not brought up to date when it
               \* was last due: a store access failed, or the process ended
  slipped      \* history: sockets admitted before a kick, registered after it

socketVars   == <<pc, writer, net, buf, done, silent, registered>>
presenceVars == <<presence, seen>>
kickVars     == <<member, kick, targets>>
history      == <<overlap, unstored, slipped>>
vars         == <<socketVars, presenceVars, kickVars, history>>

Presence == {"live", "offline"}
Greeting == {"greet", "greetOffline"}
Syncing  == {"sync", "write", "recheck", "resync", "rewrite"}
Labels   == {"none", "checked", "pump", "refuse", "closing", "join", "remove", "gone"}
            \cup Greeting \cup Syncing

\* The handler is between Add and Remove.
InRegistry == {"sync", "write", "pump", "refuse", "closing", "join", "remove"} \cup Greeting

\* MemberLive
PresenceOf == IF registered # {} THEN "live" ELSE "offline"

\* Wrong version: a frame is never dropped.
DeliveredBlindly(S) == [s \in Sockets |-> IF s \in S THEN buf[s] + 1 ELSE buf[s]]

\* deliver: a full buffer drops the frame.
Delivered(S) == [s \in Sockets |-> IF s \in S /\ buf[s] < SendCap THEN buf[s] + 1 ELSE buf[s]]

Goto(s, from, to) == pc[s] = from /\ pc' = [pc EXCEPT ![s] = to]

-----------------------------------------------------------------------------
Init ==
  /\ pc = [s \in Sockets |-> "none"]
  /\ writer = [s \in Sockets |-> "off"]
  /\ net = [s \in Sockets |-> "up"]
  /\ buf = [s \in Sockets |-> 0]
  /\ done = [s \in Sockets |-> FALSE]
  /\ silent = [s \in Sockets |-> FALSE]
  /\ registered = {}
  /\ presence = "offline"
  /\ seen = [s \in Sockets |-> "offline"]
  /\ member = TRUE /\ kick = "no" /\ targets = {}
  /\ overlap = FALSE /\ unstored = FALSE /\ slipped = {}

-----------------------------------------------------------------------------
(* The handler.                                                              *)

\* serveWS: the session and its member are in the store; the handler goes on
\* with its copy of the member.
Admit(s) ==
  /\ member
  /\ Goto(s, "none", "checked")
  /\ seen' = [seen EXCEPT ![s] = presence]
  /\ overlap' = (overlap \/ \E t \in Sockets : pc[t] \notin {"none", "gone"})
  /\ UNCHANGED <<writer, net, buf, done, silent, registered, presence, kickVars, unstored, slipped>>

Register(s) ==
  /\ Goto(s, "checked", "sync")
  /\ registered' = registered \cup {s}
  /\ UNCHANGED <<writer, net, buf, done, silent, presenceVars, kickVars, history>>

\* SyncMemberPresence, up to its comparison; the copy then says what to write.  If
\* it says that already, nothing is due.
Compare(s, from, write, skip) ==
  /\ Goto(s, from, IF seen[s] = PresenceOf THEN skip ELSE write)
  /\ seen' = [seen EXCEPT ![s] = PresenceOf]
  /\ unstored' = (unstored /\ seen[s] # PresenceOf)
  /\ UNCHANGED <<writer, net, buf, done, silent, registered, presence, kickVars, overlap, slipped>>

\* UpdateMemberPresence, whose error is ignored (so a member that is gone is
\* no error either), and the presence.changed broadcast.
Write(s, from, to) ==
  /\ Goto(s, from, to)
  /\ \/ member /\ presence' = seen[s] /\ unstored' = FALSE
     \/ UNCHANGED presence /\ unstored' = TRUE
  /\ buf' = Delivered(registered)
  /\ UNCHANGED <<writer, net, done, silent, registered, seen, kickVars, overlap, slipped>>

\* A blocking send: the snapshot, perhaps the offline notice, an error frame.
Push(s, from, to) ==
  /\ buf[s] < SendCap
  /\ Goto(s, from, to)
  /\ buf' = [buf EXCEPT ![s] = @ + 1]
  /\ UNCHANGED <<writer, net, done, silent, registered, presenceVars, kickVars, history>>

\* The writer starts only once the greeting is in the buffer.
StartPumps(s) ==
  /\ Goto(s, "greetOffline", "pump")
  /\ writer' = [writer EXCEPT ![s] = "run"]
  /\ UNCHANGED <<net, buf, done, silent, registered, presenceVars, kickVars, history>>

\* The hub is offline: one more frame before the writer starts.
GreetOffline(s) ==
  /\ buf[s] < SendCap
  /\ Goto(s, "greetOffline", "pump")
  /\ buf' = [buf EXCEPT ![s] = @ + 1]
  /\ writer' = [writer EXCEPT ![s] = "run"]
  /\ UNCHANGED <<net, done, silent, registered, presenceVars, kickVars, history>>

ReadPing(s) ==
  /\ pc[s] = "pump" /\ net[s] = "up"
  /\ silent' = [silent EXCEPT ![s] = FALSE]
  /\ buf' = Delivered({s})
  /\ UNCHANGED <<pc, writer, net, done, registered, presenceVars, kickVars, history>>

\* An envelope.send that wsSendAllowed refuses.
ReadRefused(s) ==
  /\ net[s] = "up"
  /\ Goto(s, "pump", "refuse")
  /\ UNCHANGED <<writer, net, buf, done, silent, registered, presenceVars, kickVars, history>>

\* Wrong version: the pump goes on after a read error.
ReadErrorIgnored(s) ==
  /\ net[s] = "down" /\ pc[s] = "pump"
  /\ UNCHANGED vars

ReadError(s) ==
  /\ net[s] = "down"
  /\ Goto(s, "pump", "closing")
  /\ UNCHANGED <<writer, net, buf, done, silent, registered, presenceVars, kickVars, history>>

\* wsConn.shutdown, once.
Shutdown(s) ==
  /\ done' = [done EXCEPT ![s] = TRUE]
  /\ net' = IF done[s] THEN net ELSE [net EXCEPT ![s] = "down"]

CloseSelf(s) ==
  /\ Goto(s, "closing", "join")
  /\ Shutdown(s)
  /\ UNCHANGED <<writer, buf, silent, registered, presenceVars, kickVars, history>>

AwaitWriter(s) ==
  /\ writer[s] = "ended"
  /\ Goto(s, "join", "remove")
  /\ UNCHANGED <<writer, net, buf, done, silent, registered, presenceVars, kickVars, history>>

\* Wrong version: every socket of the token goes.
RemoveToken(s) ==
  /\ Goto(s, "remove", "recheck")
  /\ registered' = {}
  /\ UNCHANGED <<writer, net, buf, done, silent, presenceVars, kickVars, history>>

\* Wrong version: no recomputation after the removal.
RemoveOnly(s) ==
  /\ Goto(s, "remove", "gone")
  /\ registered' = registered \ {s}
  /\ UNCHANGED <<writer, net, buf, done, silent, presenceVars, kickVars, history>>

Remove(s) ==
  /\ Goto(s, "remove", "recheck")
  /\ registered' = registered \ {s}
  /\ UNCHANGED <<writer, net, buf, done, silent, presenceVars, kickVars, history>>

\* staleCheck reads the member afresh, and gives up on any error: that the member
\* is gone, or that the store failed.
Recheck(s) ==
  /\ \/ /\ member /\ Goto(s, "recheck", "resync")
        /\ seen' = [seen EXCEPT ![s] = presence] /\ UNCHANGED unstored
     \/ Goto(s, "recheck", "gone") /\ unstored' = TRUE /\ UNCHANGED seen
  /\ UNCHANGED <<writer, net, buf, done, silent, registered, presence, kickVars, overlap, slipped>>

Handler(s) ==
  \/ Register(s)
  \/ Compare(s, "sync", "write", "greet") \/ Write(s, "write", "greet")
  \/ Push(s, "greet", "greetOffline")
  \/ StartPumps(s) \/ GreetOffline(s)
  \/ Push(s, "refuse", "pump")
  \/ ReadError(s) \/ CloseSelf(s) \/ AwaitWriter(s) \/ Remove(s) \/ Recheck(s)
  \/ Compare(s, "resync", "rewrite", "gone") \/ Write(s, "rewrite", "gone")

-----------------------------------------------------------------------------
(* The writer.                                                               *)

EndWriter(s) == writer[s] = "run" /\ writer' = [writer EXCEPT ![s] = "ended"]

WriteFrame(s) ==
  /\ writer[s] = "run" /\ buf[s] > 0
  /\ buf' = [buf EXCEPT ![s] = @ - 1]
  /\ writer' = IF net[s] = "up" THEN writer ELSE [writer EXCEPT ![s] = "ended"]
  /\ UNCHANGED <<pc, net, done, silent, registered, presenceVars, kickVars, history>>

SeeDone(s) ==
  /\ done[s]
  /\ EndWriter(s)
  /\ UNCHANGED <<pc, net, buf, done, silent, registered, presenceVars, kickVars, history>>

\* The heartbeat's own write fails, or the client has been silent for too long.
\* The writer returns; it does not close the socket.
Heartbeat(s) ==
  /\ net[s] = "down" \/ silent[s]
  /\ EndWriter(s)
  /\ UNCHANGED <<pc, net, buf, done, silent, registered, presenceVars, kickVars, history>>

Writer(s) == WriteFrame(s) \/ SeeDone(s) \/ Heartbeat(s)

-----------------------------------------------------------------------------
(* kickMember.                                                               *)

DeleteMember ==
  /\ kick = "no" /\ kick' = "deleted"
  /\ member' = FALSE
  /\ UNCHANGED <<socketVars, presenceVars, targets, history>>

\* Wrong version: one socket of the member, as SessionRegistry.Get returns it.
CollectOne ==
  /\ kick = "deleted" /\ kick' = "collected"
  /\ targets' = IF registered = {} THEN {} ELSE {CHOOSE s \in registered : TRUE}
  /\ slipped' = {s \in Sockets : pc[s] = "checked"}
  /\ UNCHANGED <<socketVars, presenceVars, member, overlap, unstored>>

Collect ==
  /\ kick = "deleted" /\ kick' = "collected"
  /\ targets' = registered
  /\ slipped' = {s \in Sockets : pc[s] = "checked"}
  /\ UNCHANGED <<socketVars, presenceVars, member, overlap, unstored>>

ShutOne(s) ==
  /\ kick = "collected" /\ s \in targets
  /\ targets' = targets \ {s}
  /\ Shutdown(s)
  /\ UNCHANGED <<pc, writer, buf, silent, registered, presenceVars, member, kick, history>>

Kick == Collect \/ \E s \in Sockets : ShutOne(s)

-----------------------------------------------------------------------------
(* The world: a broadcast from elsewhere, a client that falls silent, a       *)
(* connection that breaks.                                                   *)

Event(s) ==
  /\ s \in registered
  /\ buf' = Delivered({s})
  /\ UNCHANGED <<pc, writer, net, done, silent, registered, presenceVars, kickVars, history>>

FallSilent(s) ==
  /\ pc[s] \in {"pump", "refuse"} /\ ~silent[s]
  /\ silent' = [silent EXCEPT ![s] = TRUE]
  /\ UNCHANGED <<pc, writer, net, buf, done, registered, presenceVars, kickVars, history>>

NetDown(s) ==
  /\ pc[s] # "none" /\ net[s] = "up"
  /\ net' = [net EXCEPT ![s] = "down"]
  /\ UNCHANGED <<pc, writer, buf, done, silent, registered, presenceVars, kickVars, history>>

World(s) == Admit(s) \/ ReadPing(s) \/ ReadRefused(s) \/ Event(s) \/ FallSilent(s) \/ NetDown(s)

\* The process ends, by a crash or a shutdown, and starts again: connections,
\* handlers and registry are gone, a kick has no socket left to close, and nothing
\* touches the presence in the database.
Restart ==
  /\ pc' = [s \in Sockets |-> IF pc[s] = "none" THEN "none" ELSE "gone"]
  /\ writer' = [s \in Sockets |-> "off"]
  /\ net' = [s \in Sockets |-> IF pc[s] = "none" THEN "up" ELSE "down"]
  /\ buf' = [s \in Sockets |-> 0]
  /\ done' = [s \in Sockets |-> FALSE] /\ silent' = [s \in Sockets |-> FALSE]
  /\ registered' = {} /\ targets' = {} /\ slipped' = {}
  /\ kick' = IF member THEN "no" ELSE "collected"
  /\ unstored' = TRUE
  /\ UNCHANGED <<presenceVars, member, overlap>>

-----------------------------------------------------------------------------
Next ==
  \/ \E s \in Sockets : Handler(s) \/ Writer(s) \/ World(s)
  \/ DeleteMember \/ Kick \/ Restart

Spec == Init /\ [][Next]_vars

\* Goroutines run; a ticker fires; clients and the network promise nothing.
FairSpec ==
  /\ Spec
  /\ \A s \in Sockets : WF_vars(Handler(s)) /\ WF_vars(Writer(s)) /\ WF_vars(ShutOne(s))
  /\ WF_vars(Collect)

-----------------------------------------------------------------------------
(* Properties.                                                               *)

TypeOK ==
  /\ pc \in [Sockets -> Labels]
  /\ writer \in [Sockets -> {"off", "run", "ended"}]
  /\ net \in [Sockets -> {"up", "down"}]
  /\ buf \in [Sockets -> 0..SendCap]
  /\ done \in [Sockets -> BOOLEAN] /\ silent \in [Sockets -> BOOLEAN]
  /\ registered \in SUBSET Sockets
  /\ presence \in Presence /\ seen \in [Sockets -> Presence]
  /\ member \in BOOLEAN /\ kick \in {"no", "deleted", "collected"}
  /\ targets \in SUBSET Sockets
  /\ overlap \in BOOLEAN /\ unstored \in BOOLEAN /\ slipped \in SUBSET Sockets

\* A socket is registered exactly while its handler is between Add and Remove:
\* a closing socket never takes another one of its token along (registry.go:99-110).
RegisteredWhileServed == \A s \in Sockets : s \in registered <=> pc[s] \in InRegistry

\* As long as a member never had two handlers at once, the stored presence is
\* right whenever no handler is in the middle of updating it.  A failed write, a
\* failed look at the member or the end of the process may leave it wrong, but
\* only until a handler next compares or stores: the mistake is not kept in the
\* copies that the comparison trusts (relay.go:347-367, ws.go:71-79, 96-103).
PresenceRight ==
  /\ member /\ ~overlap /\ ~unstored
  /\ \A s \in Sockets : pc[s] \notin Syncing
  => presence = PresenceOf

\* A kick leaves no socket open but those whose session was looked up before the
\* member was deleted and which registered after the sockets were collected
\* (members_kick.go:30-40, registry.go:199-205).
OnlySlippersSurvive ==
  kick = "collected" /\ targets = {} => \A s \in registered : done[s] \/ s \in slipped

\* A handler whose blocking send finds the buffer full and no writer.
Stuck(s) == pc[s] \in {"greet", "greetOffline", "refuse"} /\ buf[s] = SendCap /\ writer[s] # "run"

\* A socket whose connection is down, because it broke or was shut down, leaves
\* the registry, unless its handler is stuck in a send (ws.go:72-94, 106-124).
BrokenSocketLeaves ==
  \A s \in Sockets :
    []<>~Stuck(s) => (net[s] = "down" /\ s \in registered ~> s \notin registered)

-----------------------------------------------------------------------------
(* What the documentation says and the code does not do.                     *)

\* "heartbeat every 30s (ghost presence cleanup beyond two missed beats"
\* (docs/openapi.yaml:854), "30s heartbeat, ghost cleanup after two missed beats
\* (E7)" (ws.go:14): a socket whose client stays silent leaves the registry, unless
\* its handler is stuck in a send.
GhostsLeave ==
  \A s \in Sockets : <>[](silent[s] /\ ~Stuck(s)) => <>[](s \notin registered)

\* "staleCheck recomputes a member's presence after their last socket dies"
\* (ws.go:96), for the sockets of a "reconnect overlap" (registry.go:54-55): the
\* stored presence is right whenever no handler is updating it, the store does as
\* told and the process stays up.
PresenceFollowsSockets ==
  member /\ ~unstored /\ (\A s \in Sockets : pc[s] \notin Syncing) => presence = PresenceOf

=============================================================================
