---------------------------- MODULE SocketsProofs ----------------------------
(***************************************************************************)
(* Proofs about Sockets, for every set of sockets and every capacity of a  *)
(* send buffer.                                                            *)
(***************************************************************************)
EXTENDS Sockets, TLAPS

Active(s) == pc[s] \notin {"none", "gone"}

\* As long as two handlers never met, one handler at a time is active.
OneHandler ==
  ~overlap => \A s, t \in Sockets : Active(s) /\ Active(t) => s = t

Serving == {"greet", "greetOffline", "pump", "refuse", "closing", "join", "remove"}

\* What the stored presence is, and what a handler's copy of it says, at each
\* place of the only handler.
PresenceHolds ==
  member /\ ~overlap =>
    /\ (\A s \in Sockets : ~Active(s)) /\ ~unstored => presence = "offline"
    /\ \A s \in Sockets :
         /\ pc[s] = "checked" /\ ~unstored => presence = "offline"
         /\ pc[s] \in {"checked", "sync", "resync"} => seen[s] = presence
         /\ pc[s] = "write" => seen[s] = "live"
         /\ pc[s] = "rewrite" => seen[s] = "offline"
         /\ pc[s] \in Serving /\ ~unstored => presence = "live"

\* Nobody is admitted once the member is deleted, and what a kick found is shut
\* down sooner or later.
KickHolds ==
  /\ member <=> kick = "no"
  /\ kick = "collected" =>
       \A s \in Sockets : /\ pc[s] = "checked" => s \in slipped
                          /\ s \in registered => s \in targets \cup slipped \/ done[s]

IInv == TypeOK /\ RegisteredWhileServed /\ OneHandler /\ PresenceHolds /\ KickHolds

-----------------------------------------------------------------------------
(* Types, and the registry.                                                 *)

\* A broadcast fills no buffer over its capacity.
LEMMA DeliveredType ==
  ASSUME buf \in [Sockets -> 0..SendCap], NEW S
  PROVE  Delivered(S) \in [Sockets -> 0..SendCap]
  BY SocketsAssumption DEF SocketsAssumption, Delivered

\* A handler's step moves its own program counter only.
LEMMA GotoType ==
  ASSUME TypeOK, NEW s \in Sockets, NEW from, NEW to \in Labels, Goto(s, from, to)
  PROVE  /\ pc' \in [Sockets -> Labels]
         /\ pc[s] = from /\ pc'[s] = to
         /\ \A t \in Sockets : t # s => pc'[t] = pc[t]
  BY DEF TypeOK, Goto

\* Everything holds at the start.
LEMMA InitHolds == Init => IInv
  <1> SUFFICES ASSUME Init PROVE IInv
    OBVIOUS
  <1>1. TypeOK
    <2>1. buf \in [Sockets -> 0..SendCap]
      BY SocketsAssumption DEF SocketsAssumption, Init
    <2>2. pc \in [Sockets -> Labels] /\ seen \in [Sockets -> Presence] /\ presence \in Presence
      BY DEF Init, Labels, Presence
    <2> QED
      BY <2>1, <2>2 DEF Init, TypeOK
  <1>2. RegisteredWhileServed /\ OneHandler /\ PresenceHolds /\ KickHolds
    <2>1. \A s \in Sockets : pc[s] = "none" /\ seen[s] = "offline"
      BY DEF Init
    <2>2. registered = {} /\ presence = "offline" /\ member /\ kick = "no"
      BY DEF Init
    <2> QED
      BY <2>1, <2>2 DEF RegisteredWhileServed, InRegistry, Greeting, OneHandler, Active,
                        PresenceHolds, Serving, KickHolds
  <1> QED
    BY <1>1, <1>2 DEF IInv

\* Every step keeps the types.
LEMMA NextType == TypeOK /\ [Next]_vars => TypeOK'
  <1> SUFFICES ASSUME TypeOK, [Next]_vars PROVE TypeOK'
    OBVIOUS
  <1> USE DEF socketVars, presenceVars, kickVars, history
  <1> DEFINE labels == pc' \in [Sockets -> Labels]
  <1>1. ASSUME NEW s \in Sockets, Handler(s) PROVE TypeOK'
    <2> USE GotoType DEF Labels, Greeting, Syncing
    <2>1. CASE Register(s)
      <3>1. labels
        BY <2>1 DEF Register
      <3> QED
        BY <2>1, <3>1 DEF Register, TypeOK
    <2>2. CASE Compare(s, "sync", "write", "greet") \/ Compare(s, "resync", "rewrite", "gone")
      <3>1. labels
        BY <2>2 DEF Compare
      <3> QED
        BY <2>2, <3>1 DEF Compare, TypeOK, PresenceOf, Presence
    <2>3. CASE Write(s, "write", "greet") \/ Write(s, "rewrite", "gone")
      <3>1. labels
        BY <2>3 DEF Write
      <3>2. buf' \in [Sockets -> 0..SendCap]
        BY <2>3, DeliveredType DEF Write, TypeOK
      <3>3. presence' \in Presence /\ unstored' \in BOOLEAN
        <4>1. presence \in Presence /\ seen[s] \in Presence
          BY DEF TypeOK
        <4>2. \/ presence' = seen[s] /\ unstored' = FALSE
              \/ presence' = presence /\ unstored' = TRUE
          BY <2>3 DEF Write
        <4> QED
          BY <4>1, <4>2
      <3>4. UNCHANGED <<writer, net, done, silent, registered, seen, member, kick, targets, overlap, slipped>>
        BY <2>3 DEF Write
      <3> QED
        BY <3>1, <3>2, <3>3, <3>4 DEF TypeOK
    <2>4. CASE Push(s, "greet", "greetOffline") \/ Push(s, "refuse", "pump")
      <3>1. labels
        BY <2>4 DEF Push
      <3>2. buf' \in [Sockets -> 0..SendCap]
        BY <2>4, SocketsAssumption DEF SocketsAssumption, Push, TypeOK
      <3> QED
        BY <2>4, <3>1, <3>2 DEF Push, TypeOK
    <2>5. CASE StartPumps(s) \/ GreetOffline(s)
      <3>1. labels
        BY <2>5 DEF StartPumps, GreetOffline
      <3>2. buf' \in [Sockets -> 0..SendCap]
        BY <2>5, SocketsAssumption DEF SocketsAssumption, StartPumps, GreetOffline, TypeOK
      <3> QED
        BY <2>5, <3>1, <3>2 DEF StartPumps, GreetOffline, TypeOK
    <2>6. CASE ReadError(s) \/ AwaitWriter(s) \/ Remove(s)
      <3>1. labels
        BY <2>6 DEF ReadError, AwaitWriter, Remove
      <3> QED
        BY <2>6, <3>1 DEF ReadError, AwaitWriter, Remove, TypeOK
    <2>7. CASE CloseSelf(s)
      <3>1. labels
        BY <2>7 DEF CloseSelf
      <3> QED
        BY <2>7, <3>1 DEF CloseSelf, Shutdown, TypeOK
    <2>8. CASE Recheck(s)
      <3>1. labels
        BY <2>8 DEF Recheck
      <3>2. seen' \in [Sockets -> Presence] /\ unstored' \in BOOLEAN
        <4>1. presence \in Presence /\ seen \in [Sockets -> Presence] /\ unstored \in BOOLEAN
          BY DEF TypeOK
        <4>2. \/ seen' = [seen EXCEPT ![s] = presence] /\ unstored' = unstored
              \/ seen' = seen /\ unstored' = TRUE
          BY <2>8 DEF Recheck
        <4>3. CASE seen' = [seen EXCEPT ![s] = presence] /\ unstored' = unstored
          BY <4>1, <4>3
        <4>4. CASE seen' = seen /\ unstored' = TRUE
          BY <4>1, <4>4
        <4> QED
          BY <4>2, <4>3, <4>4
      <3>3. UNCHANGED <<writer, net, buf, done, silent, registered, presence, kickVars, overlap, slipped>>
        BY <2>8 DEF Recheck
      <3> QED
        BY <3>1, <3>2, <3>3 DEF TypeOK
    <2> QED
      BY <1>1, <2>1, <2>2, <2>3, <2>4, <2>5, <2>6, <2>7, <2>8 DEF Handler
  <1>2. ASSUME NEW s \in Sockets, Writer(s) PROVE TypeOK'
    BY <1>2, SocketsAssumption
    DEF SocketsAssumption, Writer, WriteFrame, SeeDone, Heartbeat, EndWriter, TypeOK
  <1>3. ASSUME NEW s \in Sockets, Admit(s) \/ ReadRefused(s) PROVE TypeOK'
    <2>1. labels
      BY <1>3, GotoType DEF Admit, ReadRefused, Labels
    <2> QED
      BY <1>3, <2>1 DEF Admit, ReadRefused, TypeOK
  <1>4. ASSUME NEW s \in Sockets, ReadPing(s) \/ Event(s) PROVE TypeOK'
    <2>1. buf' \in [Sockets -> 0..SendCap]
      BY <1>4, DeliveredType DEF ReadPing, Event, TypeOK
    <2> QED
      BY <1>4, <2>1 DEF ReadPing, Event, TypeOK
  <1>5. ASSUME NEW s \in Sockets, FallSilent(s) \/ NetDown(s) PROVE TypeOK'
    BY <1>5 DEF FallSilent, NetDown, TypeOK
  <1>6. CASE DeleteMember
    BY <1>6 DEF DeleteMember, TypeOK
  <1>7. CASE Collect
    BY <1>7 DEF Collect, TypeOK
  <1>8. ASSUME NEW s \in Sockets, ShutOne(s) PROVE TypeOK'
    BY <1>8 DEF ShutOne, Shutdown, TypeOK
  <1>9. CASE UNCHANGED vars
    BY <1>9 DEF vars, TypeOK
  <1>10. CASE Restart
    <2>1. labels
      BY <1>10 DEF Restart, TypeOK, Labels
    <2>2. buf' \in [Sockets -> 0..SendCap]
      BY <1>10, SocketsAssumption DEF SocketsAssumption, Restart
    <2> QED
      BY <1>10, <2>1, <2>2 DEF Restart, TypeOK
  <1> QED
    BY <1>1, <1>2, <1>3, <1>4, <1>5, <1>6, <1>7, <1>8, <1>9, <1>10 DEF Next, World, Kick

\* Steps that move no handler leave the registry, the member and what is stored
\* about it alone.
LEMMA HandlersRest ==
  ASSUME NEW s \in Sockets,
         Writer(s) \/ ReadPing(s) \/ Event(s) \/ FallSilent(s) \/ NetDown(s) \/ ShutOne(s)
  PROVE  UNCHANGED <<pc, registered, presenceVars, member, kick, history>>
  BY DEF Writer, WriteFrame, SeeDone, Heartbeat, ReadPing, Event, FallSilent, NetDown, ShutOne,
         socketVars, presenceVars, kickVars, history

\* A restart leaves no handler and no entry in the registry.
LEMMA Vanished ==
  ASSUME TypeOK, Restart
  PROVE  /\ \A s \in Sockets : pc'[s] \in {"none", "gone"}
         /\ registered' = {}
  BY DEF Restart

\* Every step keeps served sockets registered,
LEMMA NextRegistered ==
  TypeOK /\ RegisteredWhileServed /\ [Next]_vars => RegisteredWhileServed'
  <1> SUFFICES ASSUME TypeOK, RegisteredWhileServed, [Next]_vars PROVE RegisteredWhileServed'
    OBVIOUS
  <1> USE DEF RegisteredWhileServed, InRegistry, Greeting
  <1>1. ASSUME NEW s \in Sockets, NEW from, NEW to \in Labels, Goto(s, from, to),
               registered' = registered, from \in InRegistry <=> to \in InRegistry
        PROVE  RegisteredWhileServed'
    BY <1>1, GotoType
  <1>2. ASSUME NEW s \in Sockets, Handler(s) PROVE RegisteredWhileServed'
    <2> USE DEF Labels, Syncing
    <2>1. CASE Register(s)
      BY <2>1, GotoType DEF Register
    <2>2. CASE Remove(s)
      BY <2>2, GotoType DEF Remove
    <2>3. CASE Compare(s, "sync", "write", "greet") \/ Compare(s, "resync", "rewrite", "gone")
      BY <2>3, <1>1 DEF Compare
    <2>4. CASE Write(s, "write", "greet") \/ Write(s, "rewrite", "gone")
      BY <2>4, <1>1 DEF Write
    <2>5. CASE Push(s, "greet", "greetOffline") \/ Push(s, "refuse", "pump")
      BY <2>5, <1>1 DEF Push
    <2>6. CASE StartPumps(s) \/ GreetOffline(s)
      BY <2>6, <1>1 DEF StartPumps, GreetOffline
    <2>7. CASE ReadError(s) \/ CloseSelf(s) \/ AwaitWriter(s) \/ Recheck(s)
      BY <2>7, <1>1 DEF ReadError, CloseSelf, AwaitWriter, Recheck
    <2> QED
      BY <1>2, <2>1, <2>2, <2>3, <2>4, <2>5, <2>6, <2>7 DEF Handler
  <1>3. ASSUME NEW s \in Sockets, Admit(s) \/ ReadRefused(s) PROVE RegisteredWhileServed'
    BY <1>3, <1>1 DEF Admit, ReadRefused, Labels
  <1>4. ASSUME NEW s \in Sockets,
               Writer(s) \/ ReadPing(s) \/ Event(s) \/ FallSilent(s) \/ NetDown(s) \/ ShutOne(s)
        PROVE  RegisteredWhileServed'
    BY <1>4, HandlersRest
  <1>5. CASE DeleteMember \/ Collect \/ UNCHANGED vars
    BY <1>5 DEF DeleteMember, Collect, vars, socketVars
  <1>6. CASE Restart
    BY <1>6, Vanished
  <1> QED
    BY <1>2, <1>3, <1>4, <1>5, <1>6 DEF Next, World, Kick

-----------------------------------------------------------------------------
(* The stored presence.                                                     *)

\* handlers apart,
LEMMA NextOneHandler == TypeOK /\ OneHandler /\ [Next]_vars => OneHandler'
  <1> SUFFICES ASSUME TypeOK, OneHandler, [Next]_vars PROVE OneHandler'
    OBVIOUS
  <1> USE DEF OneHandler, Active, history
  <1>1. ASSUME NEW s \in Sockets, NEW from, NEW to \in Labels, Goto(s, from, to),
               from \notin {"none", "gone"}, overlap' = overlap
        PROVE  OneHandler'
    BY <1>1, GotoType
  <1>2. ASSUME NEW s \in Sockets, Handler(s) PROVE OneHandler'
    <2> USE DEF Labels, Syncing, Greeting
    <2>1. CASE Register(s) \/ Remove(s)
      BY <2>1, <1>1 DEF Register, Remove
    <2>2. CASE Compare(s, "sync", "write", "greet") \/ Compare(s, "resync", "rewrite", "gone")
      BY <2>2, <1>1 DEF Compare
    <2>3. CASE Write(s, "write", "greet") \/ Write(s, "rewrite", "gone")
      BY <2>3, <1>1 DEF Write
    <2>4. CASE Push(s, "greet", "greetOffline") \/ Push(s, "refuse", "pump")
      BY <2>4, <1>1 DEF Push
    <2>5. CASE StartPumps(s) \/ GreetOffline(s)
      BY <2>5, <1>1 DEF StartPumps, GreetOffline
    <2>6. CASE ReadError(s) \/ CloseSelf(s) \/ AwaitWriter(s) \/ Recheck(s)
      BY <2>6, <1>1 DEF ReadError, CloseSelf, AwaitWriter, Recheck
    <2> QED
      BY <1>2, <2>1, <2>2, <2>3, <2>4, <2>5, <2>6 DEF Handler
  <1>3. ASSUME NEW s \in Sockets, Admit(s) PROVE OneHandler'
    <2>1. ~overlap' => \A t \in Sockets : ~Active(t)
      BY <1>3 DEF Admit
    <2>2. \A t \in Sockets : t # s => pc'[t] = pc[t]
      BY <1>3 DEF Admit, Goto, TypeOK
    <2> QED
      BY <2>1, <2>2
  <1>4. ASSUME NEW s \in Sockets, ReadRefused(s) PROVE OneHandler'
    BY <1>4, <1>1 DEF ReadRefused, Labels
  <1>5. ASSUME NEW s \in Sockets,
               Writer(s) \/ ReadPing(s) \/ Event(s) \/ FallSilent(s) \/ NetDown(s) \/ ShutOne(s)
        PROVE  OneHandler'
    BY <1>5, HandlersRest
  <1>6. CASE DeleteMember \/ Collect \/ UNCHANGED vars
    BY <1>6 DEF DeleteMember, Collect, vars, socketVars
  <1>7. CASE Restart
    BY <1>7, Vanished
  <1> QED
    BY <1>2, <1>3, <1>4, <1>5, <1>6, <1>7 DEF Next, World, Kick

\* What PresenceHolds says of one handler: enough while no other one is active.
PresenceAt(s) ==
  /\ (~Active(s) \/ pc[s] = "checked") /\ ~unstored => presence = "offline"
  /\ pc[s] \in {"checked", "sync", "resync"} => seen[s] = presence
  /\ pc[s] = "write" => seen[s] = "live"
  /\ pc[s] = "rewrite" => seen[s] = "offline"
  /\ pc[s] \in Serving /\ ~unstored => presence = "live"

\* The only active handler after a step of its own.
LEMMA AloneAt ==
  ASSUME TypeOK, OneHandler, NEW s \in Sockets, Active(s),
         \A t \in Sockets : t # s => pc'[t] = pc[t],
         overlap' = overlap, member' = member,
         member /\ ~overlap => PresenceAt(s)'
  PROVE  PresenceHolds'
  <1> SUFFICES ASSUME member, ~overlap PROVE PresenceHolds'
    BY DEF PresenceHolds
  <1>1. \A t \in Sockets : t # s => ~Active(t)'
    BY DEF OneHandler, Active
  <1>2. PresenceAt(s)'
    OBVIOUS
  <1>3. \A t \in Sockets : t # s => pc'[t] \in {"none", "gone"}
    BY <1>1 DEF Active
  <1>4. (\A t \in Sockets : ~Active(t))' /\ ~unstored' => presence' = "offline"
    BY <1>2 DEF PresenceAt
  <1> QED
    BY <1>2, <1>3, <1>4 DEF PresenceHolds, PresenceAt, Serving

\* the presence right,
LEMMA NextPresence ==
  TypeOK /\ RegisteredWhileServed /\ OneHandler /\ PresenceHolds /\ [Next]_vars => PresenceHolds'
  <1> SUFFICES ASSUME TypeOK, RegisteredWhileServed, OneHandler, PresenceHolds, [Next]_vars
               PROVE  PresenceHolds'
    OBVIOUS
  <1> USE DEF history, presenceVars, kickVars
  <1>1. ASSUME NEW s \in Sockets, Handler(s) PROVE PresenceHolds'
    <2>1. Active(s)
      BY <1>1 DEF Active, Handler, Register, Compare, Write, Push, StartPumps, GreetOffline,
                  ReadError, CloseSelf, AwaitWriter, Remove, Recheck, Goto
    <2>2. /\ \A t \in Sockets : t # s => pc'[t] = pc[t]
          /\ overlap' = overlap /\ member' = member
      BY <1>1 DEF TypeOK, Handler, Register, Compare, Write, Push, StartPumps, GreetOffline,
                  ReadError, CloseSelf, AwaitWriter, Remove, Recheck, Goto
    <2>3. SUFFICES ASSUME member, ~overlap PROVE PresenceAt(s)'
      BY <2>1, <2>2, AloneAt
    <2>4. PresenceAt(s)
      BY <2>1, <2>3 DEF PresenceHolds, PresenceAt, Serving, Active
    <2>5. (pc[s] # "sync" /\ pc[s] # "resync") \/ PresenceOf = IF pc[s] = "sync" THEN "live" ELSE "offline"
      <3>1. pc[s] = "sync" => registered # {}
        BY DEF RegisteredWhileServed, InRegistry
      <3>2. pc[s] = "resync" => registered = {}
        BY <2>1, <2>3 DEF RegisteredWhileServed, OneHandler, InRegistry, Greeting, Active, TypeOK
      <3> QED
        BY <3>1, <3>2 DEF PresenceOf
    <2> USE <2>3, <2>4 DEF PresenceAt, Active, Goto, Serving, TypeOK, Labels, Greeting, Syncing
    <2>6. CASE Register(s) \/ Remove(s)
      BY <2>6 DEF Register, Remove
    <2>7. CASE Compare(s, "sync", "write", "greet")
      BY <2>5, <2>7 DEF Compare
    <2>8. CASE Compare(s, "resync", "rewrite", "gone")
      BY <2>5, <2>8 DEF Compare
    <2>9. CASE Write(s, "write", "greet") \/ Write(s, "rewrite", "gone")
      BY <2>9 DEF Write
    <2>10. CASE Push(s, "greet", "greetOffline") \/ Push(s, "refuse", "pump")
      BY <2>10 DEF Push
    <2>11. CASE StartPumps(s) \/ GreetOffline(s)
      BY <2>11 DEF StartPumps, GreetOffline
    <2>12. CASE ReadError(s) \/ CloseSelf(s) \/ AwaitWriter(s)
      BY <2>12 DEF ReadError, CloseSelf, AwaitWriter
    <2>13. CASE Recheck(s)
      BY <2>13 DEF Recheck
    <2> QED
      BY <1>1, <2>6, <2>7, <2>8, <2>9, <2>10, <2>11, <2>12, <2>13 DEF Handler
  <1>2. ASSUME NEW s \in Sockets, Admit(s) PROVE PresenceHolds'
    <2> SUFFICES ASSUME member, ~overlap' PROVE PresenceHolds'
      BY <1>2 DEF Admit, PresenceHolds
    <2>1. ~overlap /\ \A t \in Sockets : pc[t] \in {"none", "gone"}
      BY <1>2 DEF Admit
    <2>2. ~unstored => presence = "offline"
      BY <1>2, <2>1 DEF Admit, PresenceHolds, Active
    <2>3. /\ presence' = presence /\ unstored' = unstored /\ pc'[s] = "checked" /\ seen'[s] = presence
          /\ \A t \in Sockets : t # s => pc'[t] \in {"none", "gone"}
      BY <1>2, <2>1 DEF Admit, Goto, TypeOK
    <2> QED
      BY <2>2, <2>3 DEF PresenceHolds, Active, Serving
  <1>3. ASSUME NEW s \in Sockets, ReadRefused(s) PROVE PresenceHolds'
    BY <1>3, AloneAt DEF ReadRefused, Goto, TypeOK, PresenceHolds, PresenceAt, Active, Serving
  <1>4. ASSUME NEW s \in Sockets,
               Writer(s) \/ ReadPing(s) \/ Event(s) \/ FallSilent(s) \/ NetDown(s) \/ ShutOne(s)
        PROVE  PresenceHolds'
    <2>1. UNCHANGED <<pc, presence, seen, member, overlap, unstored>>
      BY <1>4, HandlersRest
    <2> QED
      BY <2>1 DEF PresenceHolds, Active, Serving
  <1>5. CASE DeleteMember
    BY <1>5 DEF DeleteMember, PresenceHolds
  <1>6. CASE Collect \/ UNCHANGED vars
    <2>1. UNCHANGED <<pc, presence, seen, member, overlap, unstored>>
      BY <1>6 DEF Collect, vars, socketVars
    <2> QED
      BY <2>1 DEF PresenceHolds, Active, Serving
  <1>7. CASE Restart
    BY <1>7, Vanished DEF Restart, PresenceHolds, Active, Serving
  <1> QED
    BY <1>1, <1>2, <1>3, <1>4, <1>5, <1>6, <1>7 DEF Next, World, Kick

-----------------------------------------------------------------------------
(* The kick.                                                                *)

\* and the kick complete but for slippers.
LEMMA NextKick == TypeOK /\ RegisteredWhileServed /\ KickHolds /\ [Next]_vars => KickHolds'
  <1> SUFFICES ASSUME TypeOK, RegisteredWhileServed, KickHolds, [Next]_vars PROVE KickHolds'
    OBVIOUS
  <1> USE DEF KickHolds, history, kickVars
  <1>1. ASSUME NEW s \in Sockets, Handler(s) \/ ReadRefused(s) PROVE KickHolds'
    <2>1. UNCHANGED <<member, kick, targets, slipped>>
      BY <1>1 DEF Handler, Register, Compare, Write, Push, StartPumps, GreetOffline,
                  ReadError, CloseSelf, AwaitWriter, Remove, Recheck, ReadRefused
    <2>2. \A t \in Sockets : done[t] => done'[t]
      BY <1>1 DEF Handler, Register, Compare, Write, Push, StartPumps, GreetOffline,
                  ReadError, CloseSelf, Shutdown, AwaitWriter, Remove, Recheck, ReadRefused, TypeOK
    <2>3. \A t \in Sockets : pc'[t] = "checked" => pc[t] = "checked"
      BY <1>1 DEF Handler, Register, Compare, Write, Push, StartPumps, GreetOffline,
                  ReadError, CloseSelf, AwaitWriter, Remove, Recheck, ReadRefused, Goto, TypeOK
    <2>4. \A t \in Sockets : t \in registered' => t \in registered \/ pc[t] = "checked"
      BY <1>1 DEF Handler, Register, Compare, Write, Push, StartPumps, GreetOffline,
                  ReadError, CloseSelf, AwaitWriter, Remove, Recheck, ReadRefused, Goto
    <2> QED
      BY <2>1, <2>2, <2>3, <2>4
  <1>2. ASSUME NEW s \in Sockets, Admit(s) PROVE KickHolds'
    BY <1>2 DEF Admit
  <1>3. ASSUME NEW s \in Sockets,
               Writer(s) \/ ReadPing(s) \/ Event(s) \/ FallSilent(s) \/ NetDown(s)
        PROVE  KickHolds'
    BY <1>3 DEF Writer, WriteFrame, SeeDone, Heartbeat, ReadPing, Event, FallSilent, NetDown
  <1>4. CASE DeleteMember
    BY <1>4 DEF DeleteMember
  <1>5. CASE Collect
    BY <1>5 DEF Collect, socketVars
  <1>6. ASSUME NEW s \in Sockets, ShutOne(s) PROVE KickHolds'
    BY <1>6 DEF ShutOne, Shutdown, TypeOK
  <1>7. CASE UNCHANGED vars
    BY <1>7 DEF vars, socketVars
  <1>8. CASE Restart
    BY <1>8, Vanished DEF Restart
  <1> QED
    BY <1>1, <1>2, <1>3, <1>4, <1>5, <1>6, <1>7, <1>8 DEF Next, World, Kick

-----------------------------------------------------------------------------
\* So all of it holds always.
LEMMA Inductive == Spec => []IInv
  <1>1. IInv /\ [Next]_vars => IInv'
    BY NextType, NextRegistered, NextOneHandler, NextPresence, NextKick DEF IInv
  <1> QED
    BY <1>1, InitHolds, PTL DEF Spec

\* Every variable keeps its type: no send buffer ever exceeds its capacity,
\* although blocking sends, broadcasts and pings fill it side by side.
THEOREM TypeCorrect == Spec => []TypeOK
  BY Inductive, PTL DEF IInv

\* The registry lists exactly the sockets whose handlers are between Add and
\* Remove (registry.go:99-110).
THEOREM RegistryFollowsHandlers == Spec => []RegisteredWhileServed
  BY Inductive, PTL DEF IInv

\* With one handler at a time, the stored presence is the one SyncMemberPresence
\* would compute, whenever no handler is in the middle of updating it; what a store
\* error or the end of the process spoils, the next handler to look at it repairs.
THEOREM PresenceIsRight == Spec => []PresenceRight
  <1>1. IInv => PresenceRight
    <2> SUFFICES ASSUME IInv, member, ~overlap, ~unstored, \A s \in Sockets : pc[s] \notin Syncing
                 PROVE  presence = PresenceOf
      BY DEF PresenceRight
    <2>1. CASE registered = {}
      <3>1. \A s \in Sockets : pc[s] \in {"checked", "none", "gone"}
        BY <2>1 DEF IInv, TypeOK, Labels, RegisteredWhileServed, InRegistry
      <3> QED
        BY <2>1, <3>1 DEF IInv, PresenceHolds, Active, PresenceOf
    <2>2. CASE registered # {}
      <3>1. PICK s \in Sockets : pc[s] \in InRegistry
        BY <2>2 DEF IInv, TypeOK, RegisteredWhileServed
      <3>2. pc[s] \in Serving
        BY <3>1 DEF InRegistry, Serving, Greeting, Syncing
      <3> QED
        BY <2>2, <3>2 DEF IInv, PresenceHolds, PresenceOf
    <2> QED
      BY <2>1, <2>2
  <1> QED
    BY <1>1, Inductive, PTL

\* A kick shuts down every socket of the member but those that were admitted
\* before the member was deleted and registered after the sockets were collected.
THEOREM KickMissesOnlySlippers == Spec => []OnlySlippersSurvive
  <1>1. IInv => OnlySlippersSurvive
    BY DEF IInv, TypeOK, KickHolds, OnlySlippersSurvive
  <1> QED
    BY <1>1, Inductive, PTL

=============================================================================
