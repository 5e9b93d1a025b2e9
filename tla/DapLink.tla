------------------------------- MODULE DapLink -------------------------------
(***************************************************************************)
(* The hub client (internal/hub/dap.go): Run's goroutine makes one         *)
(* connection after another and is the only reader of each; any number of  *)
(* callers write frames on the connection they found; a ledger remembers   *)
(* which channels were joined, and a map of waiters which presence queries *)
(* are open.  Connection, ledger and waiters have a mutex each, and nothing *)
(* holds two of them: a caller may go on with a connection that was        *)
(* replaced meanwhile.  A step is one critical section, one frame written  *)
(* or read, or one step of the connection loop.                            *)
(***************************************************************************)
EXTENDS Naturals, Sequences

CONSTANTS
  Channels,
  Senders,    \* goroutines that call Send once
  Joiners,    \* goroutines that call Join once
  Askers,     \* goroutines that call Presence once; an id also names the query
  ChannelOf,  \* the channel of a Send or a Join
  NoOne,      \* "no query"
  MaxConns,   \* bound on the connections a run makes
  EventCap    \* capacity of the event buffer (1024 in the code)

Callers == Senders \cup Joiners

ASSUME LinkAssumption ==
  /\ ChannelOf \in [Callers -> Channels]
  /\ NoOne \notin Askers
  /\ Callers \cap Askers = {} /\ Senders \cap Joiners = {}
  /\ MaxConns \in Nat /\ EventCap \in Nat \ {0}

VARIABLES
  run,        \* where Run's goroutine stands
  gen,        \* number of connections made; the latest one's name
  conn,       \* DapClient.conn: a connection, or 0 for nil
  sock,       \* the latest connection's socket
  online,     \* DapClient.online
  joined,     \* DapClient.joined: the ledger
  waiters,    \* DapClient.waiters
  replyTo,    \* the waiter that deliver took out of the map
  box,        \* the waiters whose reply channel (capacity 1) holds a reply
  events,     \* DapClient.events
  pc, at,     \* a caller's program counter, and the connection it found
  closer,     \* where the call of Close stands
  joinFrames, sendFrames,  \* history: frames written, <<connection, channel>>
  straddled   \* history: <<connection, channel>> whose ledger entry was made by
              \* a caller that had joined on an earlier connection

loopVars   == <<run, gen, conn, sock, online>>
callVars   == <<pc, at>>
replyVars  == <<waiters, replyTo, box>>
ledgerVars == <<joined, straddled>>
frameVars  == <<joinFrames, sendFrames>>
vars == <<loopVars, callVars, replyVars, ledgerVars, frameVars, events, closer>>

Procs == Callers \cup Askers

RunLabels == {"top", "dial", "hello", "reset", "raise", "emit", "serve",
              "hand", "unset", "close", "down", "tell", "stopped"}
CallLabels == {"idle", "check", "join", "record", "send", "query", "wait", "leave", "done"}
Closed == closer # "no"

-----------------------------------------------------------------------------
(* The users of the client see module HubLink: the link is up from           *)
(* setOnline(true) until the connection is closed, and lost from then until  *)
(* the offline event is out.                                                 *)

LinkSeen ==
  IF run \in {"down", "tell", "stopped"} THEN "lost"
  ELSE IF ~online THEN "idle"
  ELSE IF run = "emit" THEN "connected" ELSE "serving"

Seen == INSTANCE HubLink WITH link <- LinkSeen

\* A frame written on connection g gets out, or at least nobody notices that it
\* does not.
Writable(g) == g = gen /\ sock \in {"open", "broken"}

-----------------------------------------------------------------------------
Init ==
  /\ run = "top" /\ gen = 0 /\ conn = 0 /\ sock = "closed" /\ online = FALSE
  /\ joined = {} /\ straddled = {}
  /\ waiters = {} /\ replyTo = NoOne /\ box = {}
  /\ events = <<>>
  /\ pc = [p \in Procs |-> "idle"] /\ at = [p \in Procs |-> 0]
  /\ closer = "no"
  /\ joinFrames = {} /\ sendFrames = {}

-----------------------------------------------------------------------------
(* Run and connectOnce.                                                      *)

Goto(from, to) == run = from /\ run' = to

\* The back-off, then the test at the head of the loop.
Top ==
  /\ Goto("top", IF Closed THEN "stopped" ELSE "dial")
  /\ UNCHANGED <<gen, conn, sock, online, callVars, replyVars, ledgerVars, frameVars, events, closer>>

DialOk ==
  /\ gen < MaxConns
  /\ Goto("dial", "hello")
  /\ gen' = gen + 1 /\ conn' = gen + 1 /\ sock' = "open"
  /\ UNCHANGED <<online, callVars, replyVars, ledgerVars, frameVars, events, closer>>

DialFail ==
  /\ Goto("dial", "down")
  /\ UNCHANGED <<gen, conn, sock, online, callVars, replyVars, ledgerVars, frameVars, events, closer>>

\* The hub answers hello with welcome; the client waits without a time limit.
Welcome ==
  /\ sock = "open"
  /\ Goto("hello", "reset")
  /\ UNCHANGED <<gen, conn, sock, online, callVars, replyVars, ledgerVars, frameVars, events, closer>>

HelloRejected ==
  /\ sock = "open"
  /\ Goto("hello", "unset")
  /\ UNCHANGED <<gen, conn, sock, online, callVars, replyVars, ledgerVars, frameVars, events, closer>>

\* Wrong version: the ledger of the last connection is kept.
ResetNothing ==
  /\ Goto("reset", "raise")
  /\ UNCHANGED <<gen, conn, sock, online, callVars, replyVars, ledgerVars, frameVars, events, closer>>

\* The ledger starts afresh, and so does what went wrong with it.
ResetLedger ==
  /\ Goto("reset", "raise")
  /\ joined' = {}
  /\ straddled' = {x \in straddled : x[1] # gen}
  /\ UNCHANGED <<gen, conn, sock, online, callVars, replyVars, frameVars, events, closer>>

Raise ==
  /\ Goto("raise", "emit")
  /\ online' = TRUE
  /\ UNCHANGED <<gen, conn, sock, callVars, replyVars, ledgerVars, frameVars, events, closer>>

\* The flush frame that follows is like any write: if it fails, so does serve.
AnnounceOnline ==
  /\ Goto("emit", "serve")
  /\ Seen!Emit("online")
  /\ UNCHANGED <<gen, conn, sock, online, callVars, replyVars, ledgerVars, frameVars, closer>>

\* serve reads a msg or presence frame; so is a reply nobody waits for.
ReadTraffic ==
  /\ run = "serve" /\ sock # "closed"
  /\ Seen!Emit("traffic")
  /\ UNCHANGED <<loopVars, callVars, replyVars, ledgerVars, frameVars, closer>>

\* Wrong version: the waiter stays in the map.
ReadReplyKeeping(a) ==
  /\ sock # "closed" /\ at[a] = gen /\ pc[a] \in {"wait", "leave"}
  /\ a \in waiters
  /\ Goto("serve", "hand")
  /\ replyTo' = a
  /\ UNCHANGED <<gen, conn, sock, online, callVars, waiters, box, ledgerVars, frameVars, events, closer>>

\* serve reads a reply to query a, perhaps not the first one: deliver takes the
\* waiter out of the map.
ReadReply(a) ==
  /\ sock # "closed" /\ at[a] = gen /\ pc[a] \in {"wait", "leave"}
  /\ a \in waiters
  /\ Goto("serve", "hand")
  /\ waiters' = waiters \ {a} /\ replyTo' = a
  /\ UNCHANGED <<gen, conn, sock, online, callVars, box, ledgerVars, frameVars, events, closer>>

\* ch <- f: the reader waits while the channel is full.
HandReply ==
  /\ replyTo \notin box
  /\ Goto("hand", "serve")
  /\ box' = box \cup {replyTo} /\ replyTo' = NoOne
  /\ UNCHANGED <<gen, conn, sock, online, callVars, waiters, ledgerVars, frameVars, events, closer>>

\* The read fails, in hello or in serve.
ReadError ==
  /\ sock # "open"
  /\ \E from \in {"hello", "serve"} : Goto(from, "unset")
  /\ UNCHANGED <<gen, conn, sock, online, callVars, replyVars, ledgerVars, frameVars, events, closer>>

\* A frame that is not JSON ends serve, too.
BadFrame ==
  /\ sock = "open"
  /\ Goto("serve", "unset")
  /\ UNCHANGED <<gen, conn, sock, online, callVars, replyVars, ledgerVars, frameVars, events, closer>>

UnsetConn ==
  /\ Goto("unset", "close")
  /\ conn' = 0
  /\ UNCHANGED <<gen, sock, online, callVars, replyVars, ledgerVars, frameVars, events, closer>>

CloseNow ==
  /\ Goto("close", "down")
  /\ sock' = "closed"
  /\ UNCHANGED <<gen, conn, online, callVars, replyVars, ledgerVars, frameVars, events, closer>>

\* Wrong version: the client reconnects at once and never looks at the flag.
DownRedialing ==
  /\ Goto("down", "dial") /\ online' = FALSE
  /\ UNCHANGED <<gen, conn, sock, callVars, replyVars, ledgerVars, frameVars, events, closer>>

\* Wrong version: setOnline(false) is forgotten.
DownStayingUp ==
  /\ Goto("down", IF Closed THEN "stopped" ELSE "tell")
  /\ UNCHANGED <<gen, conn, sock, online, callVars, replyVars, ledgerVars, frameVars, events, closer>>

\* connectOnce returned.
Down ==
  /\ \/ Closed /\ Goto("down", "stopped") /\ UNCHANGED online
     \/ ~Closed /\ Goto("down", "tell") /\ online' = FALSE
  /\ UNCHANGED <<gen, conn, sock, callVars, replyVars, ledgerVars, frameVars, events, closer>>

AnnounceOffline ==
  /\ Goto("tell", "top")
  /\ Seen!Emit("offline")
  /\ UNCHANGED <<gen, conn, sock, online, callVars, replyVars, ledgerVars, frameVars, closer>>

\* What the goroutine does by itself, and what it does when hub or network let
\* it: a dial has no time limit, it may never end.
Loop == \/ Top \/ ResetLedger \/ Raise \/ AnnounceOnline \/ HandReply
        \/ ReadError \/ UnsetConn \/ CloseNow \/ Down \/ AnnounceOffline
LoopOnHub == \/ DialOk \/ DialFail \/ Welcome \/ HelloRejected \/ ReadTraffic \/ BadFrame
             \/ \E a \in Askers : ReadReply(a)

-----------------------------------------------------------------------------
(* Send and Join.                                                            *)

Step(p, from, to) ==
  /\ pc[p] = from /\ pc' = [pc EXCEPT ![p] = to]
  /\ at' = [at EXCEPT ![p] = IF to = "done" THEN 0 ELSE @]

\* Send wants the client online, Join only a connection.
Call(p) ==
  /\ p \in Callers
  /\ pc[p] = "idle"
  /\ IF conn # 0 /\ (online \/ p \in Joiners)
     THEN pc' = [pc EXCEPT ![p] = "check"] /\ at' = [at EXCEPT ![p] = conn]
     ELSE pc' = [pc EXCEPT ![p] = "done"] /\ UNCHANGED at
  /\ UNCHANGED <<loopVars, replyVars, ledgerVars, frameVars, events, closer>>

AfterJoin(p) == IF p \in Senders THEN "send" ELSE "done"

LookInLedger(p) ==
  /\ p \in Callers
  /\ Step(p, "check", IF ChannelOf[p] \in joined THEN AfterJoin(p) ELSE "join")
  /\ UNCHANGED <<loopVars, replyVars, ledgerVars, frameVars, events, closer>>

WriteJoin(p) ==
  /\ Writable(at[p])
  /\ Step(p, "join", "record")
  /\ joinFrames' = joinFrames \cup {<<at[p], ChannelOf[p]>>}
  /\ UNCHANGED <<loopVars, replyVars, ledgerVars, sendFrames, events, closer>>

RecordJoin(p) ==
  /\ Step(p, "record", AfterJoin(p))
  /\ joined' = joined \cup {ChannelOf[p]}
  /\ straddled' = IF at[p] = gen THEN straddled ELSE straddled \cup {<<gen, ChannelOf[p]>>}
  /\ UNCHANGED <<loopVars, replyVars, frameVars, events, closer>>

\* Wrong version: any open connection will do.
WriteSendAnywhere(p) ==
  /\ Writable(gen)
  /\ Step(p, "send", "done")
  /\ sendFrames' = sendFrames \cup {<<gen, ChannelOf[p]>>}
  /\ UNCHANGED <<loopVars, replyVars, ledgerVars, joinFrames, events, closer>>

WriteSend(p) ==
  /\ Writable(at[p])
  /\ Step(p, "send", "done")
  /\ sendFrames' = sendFrames \cup {<<at[p], ChannelOf[p]>>}
  /\ UNCHANGED <<loopVars, replyVars, ledgerVars, joinFrames, events, closer>>

\* A write fails: the connection is gone, or the caller's context ended.
WriteError(p) ==
  /\ \/ Step(p, "join", "done") \/ Step(p, "send", "done") \/ Step(p, "query", "leave")
  /\ UNCHANGED <<loopVars, replyVars, ledgerVars, frameVars, events, closer>>

-----------------------------------------------------------------------------
(* Presence.                                                                 *)

Ask(a) ==
  /\ a \in Askers
  /\ pc[a] = "idle"
  /\ IF conn # 0 /\ online
     THEN /\ pc' = [pc EXCEPT ![a] = "query"] /\ at' = [at EXCEPT ![a] = conn]
          /\ waiters' = waiters \cup {a}
     ELSE pc' = [pc EXCEPT ![a] = "done"] /\ UNCHANGED <<at, waiters>>
  /\ UNCHANGED <<loopVars, replyTo, box, ledgerVars, frameVars, events, closer>>

WriteQuery(a) ==
  /\ Writable(at[a])
  /\ Step(a, "query", "wait")
  /\ UNCHANGED <<loopVars, replyVars, ledgerVars, frameVars, events, closer>>

TakeReply(a) ==
  /\ a \in box
  /\ Step(a, "wait", "leave")
  /\ box' = box \ {a}
  /\ UNCHANGED <<loopVars, waiters, replyTo, ledgerVars, frameVars, events, closer>>

\* Ten seconds, or the end of the caller's context.
TimeOut(a) ==
  /\ Step(a, "wait", "leave")
  /\ UNCHANGED <<loopVars, replyVars, ledgerVars, frameVars, events, closer>>

\* The deferred unregisterWaiter.
Leave(a) ==
  /\ Step(a, "leave", "done")
  /\ waiters' = waiters \ {a}
  /\ UNCHANGED <<loopVars, replyTo, box, ledgerVars, frameVars, events, closer>>

-----------------------------------------------------------------------------
(* Close: the flag first, then the connection that is there.                 *)

CloseFlag ==
  /\ closer = "no" /\ closer' = "flagged"
  /\ UNCHANGED <<loopVars, callVars, replyVars, ledgerVars, frameVars, events>>

CloseConn ==
  /\ closer = "flagged" /\ closer' = "ended"
  /\ sock' = IF conn = gen /\ sock = "open" THEN "broken" ELSE sock
  /\ UNCHANGED <<run, gen, conn, online, callVars, replyVars, ledgerVars, frameVars, events>>

(* The world: the hub or the network drops the connection; the relay reads    *)
(* the events.                                                               *)

SocketBreaks ==
  /\ sock = "open" /\ sock' = "broken"
  /\ UNCHANGED <<run, gen, conn, online, callVars, replyVars, ledgerVars, frameVars, events, closer>>

TakeEvent ==
  /\ events # <<>> /\ events' = Tail(events)
  /\ UNCHANGED <<loopVars, callVars, replyVars, ledgerVars, frameVars, closer>>

-----------------------------------------------------------------------------
CallStep(p) == \/ Call(p) \/ LookInLedger(p) \/ WriteJoin(p) \/ RecordJoin(p) \/ WriteSend(p)
               \/ WriteError(p)
AskStep(a) == Ask(a) \/ WriteQuery(a) \/ TakeReply(a) \/ TimeOut(a) \/ Leave(a)

Next ==
  \/ Loop \/ LoopOnHub
  \/ \E p \in Procs : CallStep(p)
  \/ \E a \in Askers : AskStep(a)
  \/ CloseFlag \/ CloseConn \/ SocketBreaks \/ TakeEvent

Spec == Init /\ [][Next]_vars

\* Run's goroutine goes on whenever it is not waiting for hub or network.
FairSpec == Spec /\ WF_vars(Loop) /\ WF_vars(CloseConn)

-----------------------------------------------------------------------------
(* Properties.                                                               *)

Conns == 0..MaxConns

TypeOK ==
  /\ run \in RunLabels /\ gen \in Conns /\ conn \in {0, gen}
  /\ sock \in {"open", "broken", "closed"} /\ online \in BOOLEAN
  /\ joined \in SUBSET Channels
  /\ waiters \in SUBSET Askers /\ box \in SUBSET Askers
  /\ replyTo \in Askers \cup {NoOne} /\ (run = "hand" <=> replyTo # NoOne)
  /\ events \in Seq(Seen!EventKinds) /\ Len(events) <= EventCap
  /\ pc \in [Procs -> CallLabels]
  /\ at \in [Procs -> Conns]
  /\ closer \in {"no", "flagged", "ended"}
  /\ joinFrames \in SUBSET (Conns \X Channels)
  /\ sendFrames \in SUBSET (Conns \X Channels)
  /\ straddled \in SUBSET (Conns \X Channels)

\* While the client is online, the ledger lists only channels joined on this
\* connection, and every send frame follows a join frame for its channel on the
\* same connection - except where a caller noted down a join it had made on an
\* earlier connection (dap.go:202-206, 350-358, 389-403).
OnlyStraddlersSpoil ==
  /\ online => \A c \in joined : <<gen, c>> \in joinFrames \cup straddled
  /\ sendFrames \subseteq joinFrames \cup straddled

\* A reply always finds room in its waiter's channel: the only reader of the
\* socket never waits for a caller, however late or often a reply comes
\* (dap.go:247-251, 261-274).
ReaderNeverBlocks == run = "hand" => replyTo \notin box

\* A send frame is written only between setOnline(true) and the end of its
\* connection, as HubLink's users assume (dap.go:350-357, 188-198).
FramesWhileLive == [][sendFrames' # sendFrames => LinkSeen \in Seen!Live]_vars

\* The client behaves like HubLink: each online event has its connection, each
\* offline event follows the end of one or of an attempt, and the buffer keeps
\* its bound (dap.go:130-157, 174-215).
ImplementsHubLink == Seen!LinkSpec

\* Once Close was called, Run ends, provided every dial ends and no connection
\* lives for ever.  Neither is the code's to give: Dial runs under main's context
\* without a time limit, and a read waits as long (dap.go:132-157, 184, 452-461).
CloseStopsRun ==
  ([]<>(run # "dial") /\ []<>(sock # "open")) => (Closed ~> run = "stopped")

=============================================================================
