---------------------------- MODULE DapLinkProofs ----------------------------
(***************************************************************************)
(* Proofs about DapLink, for every set of callers, channels and queries,   *)
(* every number of connections and every capacity of the event buffer.     *)
(***************************************************************************)
EXTENDS DapLink, TLAPS

\* What the connection loop has done where it stands.
LoopHolds ==
  /\ conn # 0 <=> run \in {"hello", "reset", "raise", "emit", "serve", "hand", "unset"}
  /\ sock = "closed" <=> run \in {"top", "dial", "down", "tell", "stopped"}
  /\ run \in {"top", "dial", "hello", "reset", "raise", "tell"} => ~online
  /\ run \in {"emit", "serve", "hand"} => online

InCall == {"check", "join", "record", "send"}

\* Callers and askers keep to their own code, on a connection that was made.
CallersHold ==
  /\ \A p \in Procs : at[p] <= gen
  /\ \A p \in Callers : pc[p] \in InCall \cup {"idle", "done"}
  /\ \A p \in Joiners : pc[p] # "send"
  /\ \A a \in Askers : pc[a] \in {"idle", "query", "wait", "leave", "done"}
  /\ \A p \in Callers : pc[p] \in InCall => at[p] # 0

\* A Send whose connection is still the latest found it online, and so it is
\* until the connection is over.
SendersHold ==
  \A p \in Senders : pc[p] \in InCall /\ at[p] = gen => online \/ sock = "closed"

\* The ledger, and what a caller may conclude from it on its own connection.
LedgerHolds ==
  /\ online \/ run = "raise" =>
       \A c \in joined : <<gen, c>> \in joinFrames \cup straddled
  /\ \A p \in Callers : pc[p] = "record" => <<at[p], ChannelOf[p]>> \in joinFrames
  /\ \A p \in Senders : pc[p] = "send" /\ at[p] = gen /\ sock # "closed" =>
       <<gen, ChannelOf[p]>> \in joinFrames \cup straddled
  /\ sendFrames \subseteq joinFrames \cup straddled
  /\ \A x \in sendFrames : x[1] <= gen
  /\ run \in {"hello", "reset", "raise"} => \A x \in sendFrames : x[1] # gen

\* A waiter is registered until its reply comes or its query ends, and gets at
\* most one reply.
WaitersHold ==
  /\ \A a \in waiters : pc[a] \in {"query", "wait", "leave"} /\ a # replyTo /\ a \notin box
  /\ \A a \in box : pc[a] # "idle"
  /\ replyTo # NoOne => pc[replyTo] # "idle" /\ replyTo \notin box

IInv == TypeOK /\ LoopHolds /\ CallersHold /\ SendersHold /\ LedgerHolds /\ WaitersHold

\* An event that is sent or taken leaves a buffer within its capacity.
LEMMA EventBuffer ==
  ASSUME NEW s \in Seq(Seen!EventKinds), Len(s) <= EventCap, NEW e \in Seen!EventKinds
  PROVE  /\ LET t == IF Len(s) < EventCap THEN Append(s, e) ELSE s
            IN  t \in Seq(Seen!EventKinds) /\ Len(t) <= EventCap
         /\ s # <<>> => Tail(s) \in Seq(Seen!EventKinds) /\ Len(Tail(s)) <= EventCap
  BY LinkAssumption DEF LinkAssumption

\* A caller's step moves its program counter and lets go of its connection.
LEMMA StepType ==
  ASSUME TypeOK, NEW p \in Procs, NEW from, NEW to \in CallLabels, Step(p, from, to)
  PROVE  /\ pc' \in [Procs -> CallLabels] /\ at' \in [Procs -> Conns]
         /\ pc[p] = from /\ pc'[p] = to /\ at'[p] = IF to = "done" THEN 0 ELSE at[p]
         /\ \A q \in Procs : q # p => pc'[q] = pc[q] /\ at'[q] = at[q]
  BY LinkAssumption DEF LinkAssumption, TypeOK, Step, Conns

\* Everything holds at the start.
LEMMA InitHolds == Init => IInv
  <1> SUFFICES ASSUME Init PROVE IInv
    OBVIOUS
  <1> USE LinkAssumption DEF LinkAssumption, Init
  <1>1. TypeOK
    <2>1. events \in Seq(Seen!EventKinds) /\ Len(events) <= EventCap
      OBVIOUS
    <2>2. pc \in [Procs -> CallLabels] /\ at \in [Procs -> Conns]
      BY DEF CallLabels, Conns
    <2>3. run \in RunLabels /\ gen \in Conns
      BY DEF RunLabels, Conns
    <2> QED
      BY <2>1, <2>2, <2>3 DEF TypeOK
  <1>2. LoopHolds /\ CallersHold /\ SendersHold
    BY DEF LoopHolds, CallersHold, SendersHold, InCall, Procs, Callers
  <1>3. LedgerHolds /\ WaitersHold
    BY DEF LedgerHolds, WaitersHold, Procs, Callers
  <1> QED
    BY <1>1, <1>2, <1>3 DEF IInv

\* Every step keeps the types.
LEMMA NextType == TypeOK /\ CallersHold /\ [Next]_vars => TypeOK'
  <1> SUFFICES ASSUME TypeOK, CallersHold, [Next]_vars PROVE TypeOK'
    OBVIOUS
  <1> USE LinkAssumption DEF LinkAssumption, TypeOK, Conns
  <1> USE DEF loopVars, callVars, replyVars, ledgerVars, frameVars
  <1>1. CASE Top \/ DialFail \/ Welcome \/ HelloRejected \/ ResetLedger \/ Raise \/ UnsetConn
             \/ CloseNow \/ Down \/ ReadError \/ BadFrame
    BY <1>1 DEF Top, DialFail, Welcome, HelloRejected, ResetLedger, Raise, UnsetConn,
                CloseNow, Down, ReadError, BadFrame, Goto, RunLabels
  <1>2. CASE DialOk
    BY <1>2 DEF DialOk, Goto, RunLabels
  <1>3. CASE AnnounceOnline \/ ReadTraffic \/ AnnounceOffline
    <2>1. \A e \in Seen!EventKinds : Seen!Emit(e) =>
            events' \in Seq(Seen!EventKinds) /\ Len(events') <= EventCap
      BY EventBuffer DEF Seen!Emit
    <2>2. {"online", "offline", "traffic"} \subseteq Seen!EventKinds
      BY DEF Seen!EventKinds
    <2>3. events' \in Seq(Seen!EventKinds) /\ Len(events') <= EventCap
      BY <1>3, <2>1, <2>2 DEF AnnounceOnline, ReadTraffic, AnnounceOffline
    <2> QED
      BY <1>3, <2>3 DEF AnnounceOnline, ReadTraffic, AnnounceOffline, Goto, RunLabels
  <1>4. ASSUME NEW a \in Askers, ReadReply(a) PROVE TypeOK'
    BY <1>4 DEF ReadReply, Goto, RunLabels
  <1>5. CASE HandReply
    BY <1>5 DEF HandReply, Goto, RunLabels
  <1>6. ASSUME NEW p \in Procs, Call(p) PROVE TypeOK'
    <2>1. {"check", "done"} \subseteq CallLabels /\ conn \in Conns
      BY DEF CallLabels
    <2>2. pc' \in [Procs -> CallLabels] /\ at' \in [Procs -> Conns]
      BY <1>6, <2>1, SMTT(30) DEF Call
    <2> QED
      BY <1>6, <2>2 DEF Call
  <1>7. ASSUME NEW p \in Procs, LookInLedger(p) \/ WriteJoin(p) \/ RecordJoin(p) \/ WriteSend(p)
        PROVE  TypeOK'
    <2>1. p \in Callers
      BY <1>7 DEF LookInLedger, WriteJoin, RecordJoin, WriteSend, Step, Procs, CallersHold
    <2>2. ChannelOf[p] \in Channels /\ at[p] \in Conns
      BY <2>1
    <2>3. pc' \in [Procs -> CallLabels] /\ at' \in [Procs -> Conns]
      BY <1>7, StepType DEF LookInLedger, WriteJoin, RecordJoin, WriteSend, AfterJoin, CallLabels
    <2> QED
      BY <1>7, <2>2, <2>3 DEF LookInLedger, WriteJoin, RecordJoin, WriteSend
  <1>8. ASSUME NEW p \in Procs, WriteError(p) PROVE TypeOK'
    <2>1. pc' \in [Procs -> CallLabels] /\ at' \in [Procs -> Conns]
      BY <1>8, StepType DEF WriteError, CallLabels
    <2> QED
      BY <1>8, <2>1 DEF WriteError
  <1>9. ASSUME NEW a \in Askers, AskStep(a) PROVE TypeOK'
    BY <1>9, SMTT(30) DEF AskStep, Ask, WriteQuery, TakeReply, TimeOut, Leave, Step, CallLabels
  <1>10. CASE CloseFlag \/ CloseConn \/ SocketBreaks
    BY <1>10 DEF CloseFlag, CloseConn, SocketBreaks
  <1>11. CASE TakeEvent
    BY <1>11, EventBuffer DEF TakeEvent
  <1>12. CASE UNCHANGED vars
    BY <1>12 DEF vars
  <1> QED
    BY <1>1, <1>2, <1>3, <1>4, <1>5, <1>6, <1>7, <1>8, <1>9, <1>10, <1>11, <1>12
    DEF Next, Loop, LoopOnHub, CallStep

\* Every step keeps what the connection loop has done,
LEMMA NextLoop == TypeOK /\ LoopHolds /\ [Next]_vars => LoopHolds'
  <1> SUFFICES ASSUME TypeOK, LoopHolds, [Next]_vars PROVE LoopHolds'
    OBVIOUS
  <1> USE DEF LoopHolds, loopVars
  <1>1. CASE Loop
    BY <1>1 DEF Loop, Top, ResetLedger, Raise, AnnounceOnline, HandReply, ReadError,
                UnsetConn, CloseNow, Down, AnnounceOffline, Goto, TypeOK
  <1>2. CASE LoopOnHub
    BY <1>2, LinkAssumption DEF LoopOnHub, DialOk, DialFail, Welcome, HelloRejected, ReadTraffic, BadFrame,
                ReadReply, Goto, TypeOK, LinkAssumption, Conns
  <1>3. ASSUME NEW p \in Procs, CallStep(p) PROVE LoopHolds'
    BY <1>3 DEF CallStep, Call, LookInLedger, WriteJoin, RecordJoin, WriteSend, WriteError
  <1>4. ASSUME NEW a \in Askers, AskStep(a) PROVE LoopHolds'
    BY <1>4 DEF AskStep, Ask, WriteQuery, TakeReply, TimeOut, Leave
  <1>5. CASE CloseFlag \/ CloseConn \/ SocketBreaks \/ TakeEvent \/ UNCHANGED vars
    BY <1>5 DEF CloseFlag, CloseConn, SocketBreaks, TakeEvent, vars
  <1> QED
    BY <1>1, <1>2, <1>3, <1>4, <1>5 DEF Next

\* The loop keeps off what belongs to the callers, or begins a new connection.
LEMMA LoopSpares ==
  ASSUME TypeOK, Loop \/ LoopOnHub \/ CloseFlag \/ CloseConn \/ SocketBreaks \/ TakeEvent
                 \/ UNCHANGED vars
  PROVE  /\ pc' = pc /\ at' = at /\ sendFrames' = sendFrames /\ joinFrames' = joinFrames
         /\ gen' \in Conns /\ (gen' = gen \/ (DialOk /\ gen' = gen + 1))
  <1> USE DEF vars, loopVars, callVars, frameVars, TypeOK
  <1>1. CASE Loop
    BY <1>1 DEF Loop, Top, ResetLedger, Raise, AnnounceOnline, HandReply, ReadError,
                UnsetConn, CloseNow, Down, AnnounceOffline
  <1>2. CASE DialOk
    BY <1>2, LinkAssumption DEF DialOk, LinkAssumption, Conns
  <1>3. CASE LoopOnHub
    BY <1>2, <1>3 DEF LoopOnHub, DialFail, Welcome, HelloRejected, ReadTraffic, BadFrame, ReadReply
  <1>4. CASE CloseFlag \/ CloseConn \/ SocketBreaks \/ TakeEvent \/ UNCHANGED vars
    BY <1>4 DEF CloseFlag, CloseConn, SocketBreaks, TakeEvent
  <1> QED
    BY <1>1, <1>3, <1>4

\* The steps of a call in progress stay within the call.
LEMMA CallMoves ==
  ASSUME NEW p \in Procs,
         LookInLedger(p) \/ WriteJoin(p) \/ RecordJoin(p) \/ WriteSend(p) \/ WriteError(p)
  PROVE  \E from \in CallLabels, to \in CallLabels :
            /\ Step(p, from, to)
            /\ \/ from \in InCall /\ to \in InCall \cup {"done"} /\ (to = "send" => p \in Senders)
               \/ from = "query" /\ to = "leave"
  <1> USE DEF CallLabels, AfterJoin, InCall
  <1>1. CASE LookInLedger(p)
    BY <1>1 DEF LookInLedger
  <1>2. CASE WriteJoin(p) \/ WriteSend(p)
    BY <1>2 DEF WriteJoin, WriteSend
  <1>3. CASE RecordJoin(p)
    BY <1>3 DEF RecordJoin
  <1>4. CASE WriteError(p)
    BY <1>4 DEF WriteError
  <1> QED
    BY <1>1, <1>2, <1>3, <1>4

\* where each caller stands,
LEMMA NextCallers == TypeOK /\ CallersHold /\ [Next]_vars => CallersHold'
  <1> SUFFICES ASSUME TypeOK, CallersHold, [Next]_vars PROVE CallersHold'
    OBVIOUS
  <1> USE LinkAssumption DEF LinkAssumption, CallersHold, InCall, Procs, Callers, Conns
  <1>1. CASE Loop \/ LoopOnHub \/ CloseFlag \/ CloseConn \/ SocketBreaks \/ TakeEvent
             \/ UNCHANGED vars
    BY <1>1, LoopSpares DEF TypeOK
  <1>2. ASSUME NEW p \in Procs, Call(p) PROVE CallersHold'
    <2>1. gen' = gen /\ gen \in Nat /\ conn <= gen
      BY <1>2 DEF Call, loopVars, TypeOK
    <2>2. \/ pc' = [pc EXCEPT ![p] = "check"] /\ at' = [at EXCEPT ![p] = conn] /\ conn # 0
          \/ pc' = [pc EXCEPT ![p] = "done"] /\ at' = at
      BY <1>2 DEF Call
    <2>3. p \in Callers /\ pc \in [Procs -> CallLabels] /\ at \in [Procs -> Conns]
      BY <1>2 DEF Call, TypeOK
    <2> QED
      BY <2>1, <2>2, <2>3
  <1>3. ASSUME NEW p \in Procs, LookInLedger(p) \/ WriteJoin(p) \/ RecordJoin(p) \/ WriteSend(p)
                                \/ WriteError(p)
        PROVE  CallersHold'
    <2>1. gen' = gen /\ gen \in Nat
      BY <1>3 DEF LookInLedger, WriteJoin, RecordJoin, WriteSend, WriteError, loopVars, TypeOK
    <2>2. PICK from \in CallLabels, to \in CallLabels :
            /\ Step(p, from, to)
            /\ \/ from \in InCall /\ to \in InCall \cup {"done"} /\ (to = "send" => p \in Senders)
               \/ from = "query" /\ to = "leave"
      BY <1>3, CallMoves
    <2>3. /\ pc[p] = from /\ pc'[p] = to /\ at'[p] \in {0, at[p]}
          /\ to # "done" => at'[p] = at[p]
          /\ \A q \in Procs : q # p => pc'[q] = pc[q] /\ at'[q] = at[q]
          /\ \A q \in Procs : at[q] \in Nat
      BY <2>2, StepType DEF TypeOK
    <2>4. \A q \in Procs : at'[q] <= gen
      BY <2>1, <2>3
    <2> QED
      BY <2>1, <2>2, <2>3, <2>4
  <1>4. ASSUME NEW a \in Askers, AskStep(a) PROVE CallersHold'
    <2>1. gen' = gen /\ gen \in Nat /\ conn <= gen /\ conn \in Nat
      BY <1>4 DEF AskStep, Ask, WriteQuery, TakeReply, TimeOut, Leave, loopVars, TypeOK
    <2>2. PICK to \in {"query", "wait", "leave", "done"}, g \in {0, conn, at[a]} :
            pc' = [pc EXCEPT ![a] = to] /\ (at' = at \/ at' = [at EXCEPT ![a] = g])
      BY <1>4 DEF AskStep, Ask, WriteQuery, TakeReply, TimeOut, Leave, Step
    <2>3. a \in Procs /\ a \notin Callers /\ pc \in [Procs -> CallLabels] /\ at \in [Procs -> Conns]
      BY DEF TypeOK
    <2>4. \A p \in Procs : at'[p] <= gen
      BY <2>1, <2>2, <2>3
    <2>5. \A p \in Procs : p # a => pc'[p] = pc[p] /\ at'[p] = at[p]
      BY <2>2, <2>3
    <2>6. pc'[a] = to
      BY <2>2, <2>3
    <2> QED
      BY <2>1, <2>3, <2>4, <2>5, <2>6
  <1> QED
    BY <1>1, <1>2, <1>3, <1>4 DEF Next, CallStep

\* The latest connection is up exactly while run says so.
LEMMA NextSenders ==
  TypeOK /\ LoopHolds /\ CallersHold /\ SendersHold /\ [Next]_vars => SendersHold'
  <1> SUFFICES ASSUME TypeOK, LoopHolds, CallersHold, SendersHold, [Next]_vars
               PROVE  SendersHold'
    OBVIOUS
  <1> USE LinkAssumption DEF LinkAssumption, SendersHold, Procs, Callers
  <1>1. CASE DialOk
    <2>1. pc' = pc /\ at' = at /\ gen' = gen + 1
      BY <1>1 DEF DialOk, callVars
    <2>2. \A p \in Senders : at[p] # gen + 1
      BY DEF CallersHold, TypeOK, Conns
    <2> QED
      BY <2>1, <2>2
  <1>2. CASE Loop \/ LoopOnHub \/ CloseFlag \/ CloseConn \/ SocketBreaks \/ TakeEvent
             \/ UNCHANGED vars
    <2>1. CASE DialOk
      BY <2>1, <1>1
    <2>2. CASE ~DialOk
      <3>1. pc' = pc /\ at' = at /\ gen' = gen
        BY <1>2, <2>2, LoopSpares
      <3>2. online \/ sock = "closed" => online' \/ sock' = "closed"
        <4>1. CASE Loop
          BY <4>1 DEF Loop, Top, ResetLedger, Raise, AnnounceOnline, HandReply,
                      ReadError, UnsetConn, CloseNow, Down, AnnounceOffline, Goto, LoopHolds
        <4>2. CASE LoopOnHub
          BY <2>2, <4>2 DEF LoopOnHub, DialFail, Welcome, HelloRejected, ReadTraffic, BadFrame, ReadReply,
                            loopVars
        <4>3. CASE CloseFlag \/ CloseConn \/ SocketBreaks \/ TakeEvent \/ UNCHANGED vars
          BY <4>3 DEF CloseFlag, CloseConn, SocketBreaks, TakeEvent, vars, loopVars
        <4> QED
          BY <1>2, <4>1, <4>2, <4>3
      <3> QED
        BY <3>1, <3>2
    <2> QED
      BY <2>1, <2>2
  <1>3. ASSUME NEW p \in Procs, Call(p) PROVE SendersHold'
    <2>1. loopVars' = loopVars /\ p \in Callers
      BY <1>3 DEF Call
    <2>2. \/ pc' = [pc EXCEPT ![p] = "check"] /\ (online \/ p \in Joiners)
          \/ pc' = [pc EXCEPT ![p] = "done"]
      BY <1>3 DEF Call
    <2>3. pc \in [Procs -> CallLabels] /\ at \in [Procs -> Conns]
      BY DEF TypeOK
    <2>4. \A q \in Procs : q # p => at'[q] = at[q] /\ pc'[q] = pc[q]
      BY <1>3, <2>3 DEF Call
    <2>5. pc'[p] \in InCall => online \/ p \in Joiners
      BY <2>2, <2>3 DEF InCall
    <2> QED
      BY <2>1, <2>4, <2>5 DEF loopVars
  <1>4. ASSUME NEW p \in Procs, LookInLedger(p) \/ WriteJoin(p) \/ RecordJoin(p) \/ WriteSend(p)
                                \/ WriteError(p)
        PROVE  SendersHold'
    <2>1. PICK from \in CallLabels, to \in CallLabels :
            Step(p, from, to) /\ (from \in InCall \/ to = "leave")
      BY <1>4, CallMoves
    <2>2. /\ pc[p] = from /\ pc'[p] = to /\ (to # "done" => at'[p] = at[p])
          /\ \A q \in Procs : q # p => pc'[q] = pc[q] /\ at'[q] = at[q]
      BY <2>1, StepType
    <2>3. to \in InCall => to # "done" /\ from \in InCall
      BY <2>1 DEF InCall
    <2>4. loopVars' = loopVars
      BY <1>4 DEF LookInLedger, WriteJoin, RecordJoin, WriteSend, WriteError
    <2> QED
      BY <2>2, <2>3, <2>4 DEF loopVars
  <1>5. ASSUME NEW a \in Askers, AskStep(a) PROVE SendersHold'
    <2>1. \A p \in Senders : pc'[p] = pc[p] /\ at'[p] = at[p]
      BY <1>5 DEF AskStep, Ask, WriteQuery, TakeReply, TimeOut, Leave, Step, TypeOK
    <2>2. loopVars' = loopVars
      BY <1>5 DEF AskStep, Ask, WriteQuery, TakeReply, TimeOut, Leave
    <2> QED
      BY <2>1, <2>2 DEF loopVars
  <1> QED
    BY <1>2, <1>3, <1>4, <1>5 DEF Next, CallStep

\* What a caller does to the ledger and the frames, seen from its own channel.
LEMMA NextLedger ==
  IInv /\ [Next]_vars => LedgerHolds'
  <1> SUFFICES ASSUME IInv, [Next]_vars PROVE LedgerHolds'
    OBVIOUS
  <1> USE DEF IInv, LedgerHolds
  <1>1. CASE DialOk
    <2>1. /\ pc' = pc /\ at' = at /\ gen' = gen + 1 /\ gen \in Nat /\ run = "dial" /\ run' = "hello"
          /\ online' = online
          /\ UNCHANGED <<ledgerVars, frameVars>>
      BY <1>1, LinkAssumption DEF LinkAssumption, DialOk, Goto, callVars, TypeOK, Conns
    <2>2. ~online
      BY <2>1 DEF LoopHolds
    <2>3. \A p \in Senders : at[p] \in Nat /\ at[p] <= gen
      BY LinkAssumption DEF LinkAssumption, CallersHold, TypeOK, Conns, Procs, Callers
    <2>4. \A x \in sendFrames : x[1] \in Nat /\ x[1] <= gen
      BY LinkAssumption DEF LinkAssumption, TypeOK, Conns
    <2> QED
      BY <2>1, <2>2, <2>3, <2>4 DEF ledgerVars, frameVars
  <1>2. CASE ResetLedger
    <2>1. /\ pc' = pc /\ at' = at /\ gen' = gen /\ run = "reset" /\ sock' = sock
          /\ joined' = {} /\ straddled' = {x \in straddled : x[1] # gen}
          /\ UNCHANGED frameVars
      BY <1>2 DEF ResetLedger, Goto, callVars
    <2>2. ~online /\ sock # "closed"
      BY <2>1 DEF LoopHolds
    <2>3. \A p \in Senders : pc[p] = "send" => at[p] # gen
      BY <2>2 DEF SendersHold, InCall
    <2> QED
      BY <2>1, <2>3 DEF frameVars
  <1>3. CASE Loop \/ LoopOnHub \/ CloseFlag \/ CloseConn \/ SocketBreaks \/ TakeEvent
             \/ UNCHANGED vars
    <2> SUFFICES ASSUME ~DialOk, ~ResetLedger PROVE LedgerHolds'
      BY <1>1, <1>2
    <2>1. /\ pc' = pc /\ at' = at /\ gen' = gen /\ UNCHANGED frameVars
      BY <1>3, LoopSpares DEF frameVars
    <2>2. /\ UNCHANGED ledgerVars
          /\ online' \/ run' = "raise" => online \/ run = "raise"
          /\ run' \in {"hello", "reset", "raise"} => run \in {"hello", "reset", "raise"}
          /\ sock = "closed" => sock' = "closed"
      <3>1. CASE Loop
        BY <3>1 DEF Loop, Top, Raise, AnnounceOnline, HandReply,
                    ReadError, UnsetConn, CloseNow, Down, AnnounceOffline, Goto, LoopHolds
      <3>2. CASE LoopOnHub
        BY <3>2 DEF LoopOnHub, DialFail, Welcome, HelloRejected, ReadTraffic, BadFrame, ReadReply,
                    loopVars, Goto
      <3>3. CASE CloseFlag \/ CloseConn \/ SocketBreaks \/ TakeEvent \/ UNCHANGED vars
        BY <3>3 DEF CloseFlag, CloseConn, SocketBreaks, TakeEvent, vars, loopVars
      <3> QED
        BY <1>3, <3>1, <3>2, <3>3
    <2> QED
      BY <2>1, <2>2 DEF ledgerVars, frameVars
  <1>4. ASSUME NEW p \in Procs, Call(p) PROVE LedgerHolds'
    <2>1. UNCHANGED <<loopVars, ledgerVars, frameVars>>
      BY <1>4 DEF Call
    <2>2. pc'[p] \in {"check", "done"}
          /\ \A q \in Procs : q # p => at'[q] = at[q] /\ pc'[q] = pc[q]
      BY <1>4 DEF Call, TypeOK
    <2> QED
      BY <2>1, <2>2 DEF loopVars, ledgerVars, frameVars, Procs, Callers
  <1>5. ASSUME NEW p \in Procs, LookInLedger(p) PROVE LedgerHolds'
    <2>1. /\ UNCHANGED <<loopVars, ledgerVars, frameVars>> /\ pc[p] = "check"
          /\ pc'[p] \in {"send", "done", "join"}
          /\ pc'[p] = "send" => at'[p] = at[p] /\ ChannelOf[p] \in joined
          /\ \A q \in Procs : q # p => at'[q] = at[q] /\ pc'[q] = pc[q]
      BY <1>5 DEF LookInLedger, AfterJoin, Step, TypeOK
    <2>2. p \in Senders /\ at[p] = gen /\ sock # "closed" => online
      BY <2>1 DEF SendersHold, InCall
    <2> QED
      BY <2>1, <2>2 DEF loopVars, ledgerVars, frameVars, Procs, Callers
  <1>6. ASSUME NEW p \in Procs, WriteJoin(p) PROVE LedgerHolds'
    <2>1. /\ UNCHANGED <<loopVars, ledgerVars, sendFrames>>
          /\ joinFrames' = joinFrames \cup {<<at[p], ChannelOf[p]>>}
          /\ pc'[p] = "record" /\ at'[p] = at[p]
          /\ \A q \in Procs : q # p => at'[q] = at[q] /\ pc'[q] = pc[q]
      BY <1>6 DEF WriteJoin, Step, TypeOK
    <2> QED
      BY <2>1 DEF loopVars, ledgerVars, Procs, Callers
  <1>7. ASSUME NEW p \in Procs, RecordJoin(p) PROVE LedgerHolds'
    <2>1. /\ UNCHANGED <<loopVars, frameVars>>
          /\ joined' = joined \cup {ChannelOf[p]}
          /\ straddled' = IF at[p] = gen THEN straddled ELSE straddled \cup {<<gen, ChannelOf[p]>>}
          /\ pc[p] = "record" /\ pc'[p] \in {"send", "done"} /\ (pc'[p] = "send" => at'[p] = at[p])
          /\ \A q \in Procs : q # p => at'[q] = at[q] /\ pc'[q] = pc[q]
      BY <1>7 DEF RecordJoin, AfterJoin, Step, TypeOK
    <2>2. p \in Callers
      BY <2>1 DEF CallersHold, Procs
    <2>3. <<at[p], ChannelOf[p]>> \in joinFrames
      BY <2>1, <2>2
    <2>4. straddled \subseteq straddled' /\ (at[p] # gen => <<gen, ChannelOf[p]>> \in straddled')
      BY <2>1
    <2> QED
      BY <2>1, <2>3, <2>4 DEF loopVars, frameVars, Procs, Callers
  <1>8. ASSUME NEW p \in Procs, WriteSend(p) PROVE LedgerHolds'
    <2>1. /\ UNCHANGED <<loopVars, ledgerVars, joinFrames>>
          /\ sendFrames' = sendFrames \cup {<<at[p], ChannelOf[p]>>}
          /\ at[p] = gen /\ sock # "closed"
          /\ pc[p] = "send" /\ pc'[p] = "done"
          /\ \A q \in Procs : q # p => at'[q] = at[q] /\ pc'[q] = pc[q]
      BY <1>8 DEF WriteSend, Writable, Step, TypeOK
    <2>2. p \in Senders
      BY <2>1 DEF CallersHold, Procs, Callers
    <2>3. online
      BY <2>1, <2>2 DEF SendersHold, InCall
    <2>4. <<at[p], ChannelOf[p]>> \in joinFrames \cup straddled
      BY <2>1, <2>2
    <2>5. run \notin {"hello", "reset", "raise"} /\ gen \in Nat
      BY <2>3, LinkAssumption DEF LinkAssumption, LoopHolds, TypeOK, Conns
    <2> QED
      BY <2>1, <2>4, <2>5 DEF loopVars, ledgerVars, Procs, Callers
  <1>9. ASSUME NEW p \in Procs, WriteError(p) PROVE LedgerHolds'
    <2>1. UNCHANGED <<loopVars, ledgerVars, frameVars>> /\ pc'[p] \in {"done", "leave"}
          /\ \A q \in Procs : q # p => at'[q] = at[q] /\ pc'[q] = pc[q]
      BY <1>9 DEF WriteError, Step, TypeOK
    <2> QED
      BY <2>1 DEF loopVars, ledgerVars, frameVars, Procs, Callers
  <1>10. ASSUME NEW a \in Askers, AskStep(a) PROVE LedgerHolds'
    <2>1. \A p \in Callers : pc'[p] = pc[p] /\ at'[p] = at[p]
      BY <1>10, LinkAssumption
      DEF LinkAssumption, AskStep, Ask, WriteQuery, TakeReply, TimeOut, Leave, Step, TypeOK, Procs
    <2>2. UNCHANGED <<loopVars, ledgerVars, frameVars>>
      BY <1>10 DEF AskStep, Ask, WriteQuery, TakeReply, TimeOut, Leave
    <2> QED
      BY <2>1, <2>2 DEF loopVars, ledgerVars, frameVars, Callers
  <1> QED
    BY <1>3, <1>4, <1>5, <1>6, <1>7, <1>8, <1>9, <1>10 DEF Next, CallStep

\* and who waits for a reply.
LEMMA NextWaiters ==
  TypeOK /\ CallersHold /\ WaitersHold /\ [Next]_vars => WaitersHold'
  <1> SUFFICES ASSUME TypeOK, CallersHold, WaitersHold, [Next]_vars PROVE WaitersHold'
    OBVIOUS
  <1> USE LinkAssumption DEF LinkAssumption, WaitersHold
  <1>1. ASSUME NEW a \in Askers, ReadReply(a) PROVE WaitersHold'
    BY <1>1 DEF ReadReply, callVars, TypeOK
  <1>2. CASE HandReply
    BY <1>2 DEF HandReply, callVars, TypeOK, Goto
  <1>3. CASE Loop \/ LoopOnHub \/ CloseFlag \/ CloseConn \/ SocketBreaks \/ TakeEvent
             \/ UNCHANGED vars
    <2>1. CASE HandReply \/ \E a \in Askers : ReadReply(a)
      BY <2>1, <1>1, <1>2
    <2>2. CASE UNCHANGED <<callVars, replyVars>>
      BY <2>2 DEF callVars, replyVars
    <2> QED
      BY <1>3, <2>1, <2>2
      DEF Loop, Top, DialFail, ResetLedger, Raise, AnnounceOnline, ReadError,
          UnsetConn, CloseNow, Down, AnnounceOffline,
          LoopOnHub, DialOk, Welcome, HelloRejected, ReadTraffic, BadFrame,
          CloseFlag, CloseConn, SocketBreaks, TakeEvent, vars
  <1>4. ASSUME NEW p \in Procs, CallStep(p) PROVE WaitersHold'
    <2>1. UNCHANGED replyVars
      BY <1>4 DEF CallStep, Call, LookInLedger, WriteJoin, RecordJoin, WriteSend, WriteError
    <2>2. /\ \A q \in Askers : q # p => pc'[q] = pc[q]
          /\ p \in Askers => pc[p] = "query" /\ pc'[p] = "leave"
      BY <1>4 DEF CallStep, Call, LookInLedger, WriteJoin, RecordJoin, WriteSend, WriteError,
                  Step, TypeOK, CallersHold, Procs
    <2> QED
      BY <2>1, <2>2 DEF replyVars, TypeOK
  <1>5. ASSUME NEW a \in Askers, AskStep(a) PROVE WaitersHold'
    <2>1. pc \in [Procs -> CallLabels] /\ a \in Procs
      BY DEF TypeOK, Procs
    <2>2. CASE Ask(a)
      <3>1. a \notin box /\ a # replyTo /\ pc'[a] # "idle" /\ UNCHANGED <<replyTo, box>>
        BY <2>1, <2>2 DEF Ask
      <3>2. \A b \in Askers : b # a => pc'[b] = pc[b]
        BY <2>1, <2>2 DEF Ask, Procs
      <3>3. waiters' = waiters \/ (waiters' = waiters \cup {a} /\ pc'[a] = "query")
        BY <2>1, <2>2 DEF Ask
      <3>4. waiters \subseteq Askers /\ box \subseteq Askers /\ replyTo \in Askers \cup {NoOne}
        BY DEF TypeOK
      <3>5. a \notin waiters
        BY <2>2 DEF Ask
      <3> QED
        BY <3>1, <3>2, <3>3, <3>4, <3>5
    <2>3. CASE WriteQuery(a) \/ TakeReply(a) \/ TimeOut(a)
      <3>1. /\ pc[a] \in {"query", "wait"} /\ pc'[a] \in {"wait", "leave"}
            /\ \A b \in Askers : b # a => pc'[b] = pc[b]
        BY <2>1, <2>3 DEF WriteQuery, TakeReply, TimeOut, Step, Procs
      <3>2. UNCHANGED <<waiters, replyTo>> /\ box' \subseteq box
        BY <2>3 DEF WriteQuery, TakeReply, TimeOut, replyVars
      <3> QED
        BY <3>1, <3>2 DEF TypeOK
    <2>4. CASE Leave(a)
      BY <2>1, <2>4 DEF Leave, Step, TypeOK
    <2> QED
      BY <1>5, <2>2, <2>3, <2>4 DEF AskStep
  <1> QED
    BY <1>3, <1>4, <1>5 DEF Next

\* So all of it holds always.
LEMMA Inductive == Spec => []IInv
  <1>1. IInv /\ [Next]_vars => IInv'
    BY NextType, NextLoop, NextCallers, NextSenders, NextLedger, NextWaiters DEF IInv
  <1> QED
    BY <1>1, InitHolds, PTL DEF Spec

\* Every variable keeps its type: the hub client has at most one connection and
\* it is the latest, the event buffer never exceeds its capacity, and the reader
\* holds a reply exactly while it hands one over.
THEOREM TypeCorrect == Spec => []TypeOK
  BY Inductive, PTL DEF IInv

\* The ledger of joins is right about the connection in use, and no send frame
\* goes out on a channel that was not joined on that connection, except where a
\* caller noted down a join it had made on an earlier one (dap.go:350-403).
THEOREM OnlyStraddlersSpoilTheLedger == Spec => []OnlyStraddlersSpoil
  <1>1. IInv => OnlyStraddlersSpoil
    BY DEF IInv, LedgerHolds, OnlyStraddlersSpoil
  <1> QED
    BY <1>1, Inductive, PTL

\* The reader of the socket never waits for a caller of Presence, however many
\* queries are open and however late or often a reply comes (dap.go:247-274).
THEOREM ReaderNeverWaits == Spec => []ReaderNeverBlocks
  <1>1. IInv => ReaderNeverBlocks
    BY DEF IInv, TypeOK, WaitersHold, ReaderNeverBlocks
  <1> QED
    BY <1>1, Inductive, PTL

\* A send frame leaves only while the client's users see its connection live.
THEOREM FramesOnlyWhileLive == Spec => FramesWhileLive
  <1>1. IInv /\ [Next]_vars => [sendFrames' # sendFrames => LinkSeen \in Seen!Live]_vars
    <2> SUFFICES ASSUME IInv, Next, sendFrames' # sendFrames PROVE LinkSeen \in Seen!Live
      OBVIOUS
    <2>1. PICK p \in Procs : WriteSend(p)
      <3>1. ~(Loop \/ LoopOnHub \/ CloseFlag \/ CloseConn \/ SocketBreaks \/ TakeEvent)
        BY LoopSpares DEF IInv
      <3>2. \A a \in Askers : ~AskStep(a)
        BY DEF AskStep, Ask, WriteQuery, TakeReply, TimeOut, Leave, frameVars
      <3>3. \A p \in Procs : ~(Call(p) \/ LookInLedger(p) \/ WriteJoin(p) \/ RecordJoin(p) \/ WriteError(p))
        BY DEF Call, LookInLedger, WriteJoin, RecordJoin, WriteError, frameVars
      <3> QED
        BY <3>1, <3>2, <3>3 DEF Next, CallStep
    <2>2. pc[p] = "send" /\ at[p] = gen /\ sock # "closed"
      BY <2>1 DEF WriteSend, Step, Writable
    <2>3. p \in Senders
      BY <2>2 DEF IInv, CallersHold, Procs, Callers
    <2>4. online /\ run \notin {"down", "tell", "stopped"}
      BY <2>2, <2>3 DEF IInv, SendersHold, InCall, LoopHolds
    <2> QED
      BY <2>4 DEF LinkSeen, Seen!Live
  <1> QED
    BY <1>1, Inductive, PTL DEF Spec, FramesWhileLive

\* The client implements HubLink, the module the relay is checked against: its
\* connection loop goes through the phases HubLink names, and its event buffer
\* changes as HubLink says.
THEOREM ClientImplementsHubLink == Spec => ImplementsHubLink
  <1>1. Init => Seen!LinkInit
    BY DEF Init, Seen!LinkInit, LinkSeen
  <1>2. IInv /\ [Next]_vars => [Seen!LinkNext]_(Seen!linkVars)
    <2> SUFFICES ASSUME IInv, [Next]_vars PROVE Seen!LinkNext \/ UNCHANGED Seen!linkVars
      OBVIOUS
    <2> USE DEF IInv, LoopHolds, LinkSeen, Seen!linkVars, Seen!LinkNext, Seen!LinkStep
    <2>1. CASE Raise
      BY <2>1 DEF Raise, Goto, Seen!Connect
    <2>2. CASE AnnounceOnline
      BY <2>2 DEF AnnounceOnline, Goto, Seen!AnnounceOnline
    <2>3. CASE Top \/ DialFail \/ CloseNow
      BY <2>3 DEF Top, DialFail, CloseNow, Goto, Seen!ConnLost
    <2>4. CASE AnnounceOffline
      BY <2>4 DEF AnnounceOffline, Goto, Seen!AnnounceOffline
    <2>5. CASE ReadTraffic
      BY <2>5 DEF ReadTraffic, loopVars, Seen!Traffic
    <2>6. CASE TakeEvent
      <3>1. Head(events) \in Seen!EventKinds
        BY <2>6 DEF TakeEvent, TypeOK
      <3> QED
        BY <2>6, <3>1 DEF TakeEvent, loopVars, Seen!Take
    <2>7. CASE ResetLedger \/ HandReply \/ ReadError \/ UnsetConn \/ Down
      BY <2>7 DEF ResetLedger, HandReply, ReadError, UnsetConn, Down, Goto
    <2>8. CASE DialOk \/ Welcome \/ HelloRejected \/ BadFrame \/ \E a \in Askers : ReadReply(a)
      BY <2>8 DEF DialOk, Welcome, HelloRejected, BadFrame, ReadReply, Goto
    <2>9. CASE CloseFlag \/ CloseConn \/ SocketBreaks \/ UNCHANGED vars
      BY <2>9 DEF CloseFlag, CloseConn, SocketBreaks, vars, loopVars
    <2>10. ASSUME NEW p \in Procs, CallStep(p) PROVE UNCHANGED Seen!linkVars
      BY <2>10 DEF CallStep, Call, LookInLedger, WriteJoin, RecordJoin, WriteSend, WriteError, loopVars
    <2>11. ASSUME NEW a \in Askers, AskStep(a) PROVE UNCHANGED Seen!linkVars
      BY <2>11 DEF AskStep, Ask, WriteQuery, TakeReply, TimeOut, Leave, loopVars
    <2> QED
      BY <2>1, <2>2, <2>3, <2>4, <2>5, <2>6, <2>7, <2>8, <2>9, <2>10, <2>11
      DEF Next, Loop, LoopOnHub
  <1> QED
    BY <1>1, <1>2, Inductive, PTL DEF Spec, ImplementsHubLink, Seen!LinkSpec

=============================================================================
